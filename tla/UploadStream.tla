---------------------------- MODULE UploadStream ----------------------------
(***************************************************************************)
(* Files uploaded to NapCat in chunks: UploadFileStream                    *)
(* (napcat-onebot/action/stream/UploadFileStream.ts).  A stream object     *)
(* lives in a map under its id until it is completed, reset or timed out;  *)
(* requests go on with the object they found while they wait for the       *)
(* disk, and every clean-up goes by the id, whichever object has it then.  *)
(*                                                                         *)
(* receivedChunks only decides whether a request without a chunk           *)
(* completes the stream, and is_complete asks for that at any time: the    *)
(* count is left out.                                                      *)
(*                                                                         *)
(* Every stream has the same number of chunks.  A chunk file is known by   *)
(* the stream object that wrote it and whether it is written to the end.   *)
(***************************************************************************)
EXTENDS Integers, FiniteSets

CONSTANTS
  StreamId,
  Chunks,       \* total_chunks
  FileSize,     \* sizes of the files kept in memory
  MemoryLimit,
  Job,          \* requests that can wait for the disk at once
  MaxStream     \* bound: stream objects created

ASSUME UploadAssumption ==
  /\ "none" \notin StreamId          \* an id marks an object that was made
  /\ Chunks \in Nat \ {0} /\ FileSize \subseteq Nat \ {0}
  /\ MemoryLimit \in Nat /\ MaxStream \in Nat \ {0}

VARIABLES
  streams,     \* the map: id to stream object, 0 for none
  made,        \* the objects: id, size in memory (0: on disk), expectedSha256 given
  missing,     \* missingChunks
  timers,      \* objects whose timeoutId is pending
  memoryUsage,
  stored,      \* memoryChunks of an object
  dirs,        \* temporary directories: NoDir, or the chunk files in it
  jobs,        \* requests waiting for the disk
  result,      \* history: chunks a completed file was made of
  crowded      \* history: objects that had a request while another request of their id waited

usvars == <<streams, made, missing, timers, memoryUsage, stored, dirs, jobs, result, crowded>>

Inc == 1..MaxStream
Chunk == 1..Chunks
Unmade == [id |-> "none", size |-> 0, sha |-> FALSE]
Stream == [id : StreamId, size : FileSize \cup {0}, sha : BOOLEAN]
NoFile == [by |-> 0, whole |-> FALSE]
File == [by : Inc, whole : BOOLEAN]
NoFiles == [c \in Chunk |-> NoFile]
NoDir == <<>>
IdleJob == [pc |-> "idle", n |-> 0, c |-> 0, got |-> NoFiles]
InMemory(n) == made[n].size > 0
Live == {n \in Inc : made[n] # Unmade /\ streams[made[n].id] = n}
Whole(n) == [c \in Chunk |-> [by |-> n, whole |-> TRUE]]

(* Shapes; the map leads to a stream of that id, and only streams in the   *)
(* map that are kept in memory hold chunks.                                *)
UploadTypeOK ==
  /\ streams \in [StreamId -> 0..MaxStream]
  /\ made \in [Inc -> Stream \cup {Unmade}]
  /\ \A s \in StreamId : streams[s] # 0 => made[streams[s]].id = s
  /\ missing \in [Inc -> SUBSET Chunk]
  /\ timers \subseteq Inc
  /\ memoryUsage \in Nat
  /\ stored \in [Inc -> SUBSET Chunk]
  /\ \A n \in Inc : stored[n] # {} => n \in Live /\ InMemory(n)
  /\ \A s \in StreamId : dirs[s] = NoDir \/ dirs[s] \in [Chunk -> File \cup {NoFile}]
  /\ jobs \in [Job -> [pc : {"idle", "write", "written", "read", "save"}, n : 0..MaxStream,
                       c : 0..Chunks, got : [Chunk -> File \cup {NoFile}]]]
  /\ result \in [Inc -> [Chunk -> File \cup {NoFile}]]
  /\ crowded \subseteq Inc

UploadInit ==
  /\ streams = [s \in StreamId |-> 0]
  /\ made = [n \in Inc |-> Unmade]
  /\ missing = [n \in Inc |-> Chunk]
  /\ timers = {} /\ memoryUsage = 0
  /\ stored = [n \in Inc |-> {}] /\ dirs = [s \in StreamId |-> NoDir]
  /\ jobs = [j \in Job |-> IdleJob]
  /\ result = [n \in Inc |-> NoFiles] /\ crowded = {}

----------------------------------------------------------------------------
NothingGivenBack(n) == UNCHANGED memoryUsage       \* defect: a clean-up keeps the account as it is
GivenBack(n) == memoryUsage' = IF memoryUsage >= made[n].size THEN memoryUsage - made[n].size ELSE 0

Forgotten(n) == stored' = [stored EXCEPT ![n] = {}]

DirRemoved(s) == dirs' = [dirs EXCEPT ![s] = NoDir]

(* cleanupStream, by the id: the object that has it loses its timer, its   *)
(* memory and its directory.                                               *)
Cleanup(s, tms) ==
  IF streams[s] = 0 THEN timers' = tms /\ UNCHANGED <<streams, memoryUsage, stored, dirs>>
  ELSE LET n == streams[s] IN
       /\ timers' = tms \ {n}
       /\ IF InMemory(n) THEN GivenBack(n) /\ Forgotten(n) /\ UNCHANGED dirs
          ELSE DirRemoved(s) /\ UNCHANGED <<memoryUsage, stored>>
       /\ streams' = [streams EXCEPT ![s] = 0]

(* Objects of an id that a request still works with.                       *)
Working(s) == {n \in Inc : made[n].id = s /\ \E j \in Job : jobs[j].pc # "idle" /\ jobs[j].n = n}
Crowd(s, n) == IF Working(s) = {} THEN crowded ELSE crowded \cup Working(s) \cup {n}

Fits(size) == memoryUsage + size <= MemoryLimit

(* createStream.                                                           *)
Create(s) ==
  /\ streams[s] = 0
  /\ \E n \in Inc, size \in FileSize \cup {0}, sha \in BOOLEAN :
       /\ made[n] = Unmade /\ \A m \in Inc : made[m] = Unmade => n <= m
       /\ size > 0 => Fits(size)
       /\ made' = [made EXCEPT ![n] = [id |-> s, size |-> size, sha |-> sha]]
       /\ streams' = [streams EXCEPT ![s] = n]
       /\ timers' = timers \cup {n}
       /\ memoryUsage' = memoryUsage + size
       /\ dirs' = IF size > 0 THEN dirs ELSE [dirs EXCEPT ![s] = NoFiles]
       /\ crowded' = Crowd(s, n)
  /\ UNCHANGED <<missing, stored, jobs, result>>

(* A request that finds the object: two at a time make it crowded.         *)
Found(s) ==
  /\ streams[s] # 0
  /\ crowded' = Crowd(s, streams[s])

Reset(s) ==
  /\ Found(s) /\ Cleanup(s, timers)
  /\ UNCHANGED <<made, missing, jobs, result>>

OnlyCleared(n) == timers' = timers \ {n}            \* defect: the timer is not started again
Refreshed(n) == timers' = timers \cup {n}

(* What follows a stored chunk: it is counted and the timer started anew,  *)
(* even for an object that has been cleaned up meanwhile.                  *)
Counted(n, c) ==
  /\ missing' = [missing EXCEPT ![n] = @ \ {c}]
  /\ Refreshed(n)

(* processChunk in memory.                                                 *)
MemoryChunk(s, c) ==
  LET n == streams[s] IN
  /\ Found(s) /\ InMemory(n) /\ c \in missing[n]
  /\ stored' = [stored EXCEPT ![n] = @ \cup {c}]
  /\ Counted(n, c)
  /\ UNCHANGED <<streams, made, memoryUsage, dirs, jobs, result>>

(* processChunk on disk: the file is opened, written to the end, and then  *)
(* the chunk is counted.                                                   *)
DiskChunk(s, c, j) ==
  LET n == streams[s] IN
  /\ Found(s) /\ ~InMemory(n) /\ c \in missing[n]
  /\ jobs[j] = IdleJob
  /\ jobs' = [jobs EXCEPT ![j] = [pc |-> "write", n |-> n, c |-> c, got |-> NoFiles]]
  /\ UNCHANGED <<streams, made, missing, timers, memoryUsage, stored, dirs, result>>

Opened(j) ==
  LET s == made[jobs[j].n].id IN
  /\ jobs[j].pc = "write"
  /\ IF dirs[s] = NoDir THEN jobs' = [jobs EXCEPT ![j] = IdleJob] /\ UNCHANGED dirs
     ELSE /\ jobs' = [jobs EXCEPT ![j].pc = "written"]
          /\ dirs' = [dirs EXCEPT ![s][jobs[j].c] = [by |-> jobs[j].n, whole |-> FALSE]]
  /\ UNCHANGED <<streams, made, missing, timers, memoryUsage, stored, result, crowded>>

Written(j) ==
  LET n == jobs[j].n  c == jobs[j].c  s == made[n].id IN
  /\ jobs[j].pc = "written"
  /\ dirs' = IF dirs[s] # NoDir /\ dirs[s][c].by = n
             THEN [dirs EXCEPT ![s][c] = [by |-> n, whole |-> TRUE]] ELSE dirs
  /\ Counted(n, c)
  /\ jobs' = [jobs EXCEPT ![j] = IdleJob]
  /\ UNCHANGED <<streams, made, memoryUsage, stored, result, crowded>>

----------------------------------------------------------------------------
(* completeStream, asked for or when receivedChunks says all: the chunks   *)
(* are merged, at once from memory, one file after the other from disk;    *)
(* a chunk that is not there makes the request fail.                       *)
AnyStored(n) == TRUE                               \* defect: chunks that are missing are left out
AllStored(n) == stored[n] = Chunk

CompleteMemory(s, j) ==
  LET n == streams[s] IN
  /\ Found(s) /\ InMemory(n) /\ jobs[j] = IdleJob
  /\ AllStored(n)
  /\ jobs' = [jobs EXCEPT ![j] = [pc |-> "save", n |-> n, c |-> 0,
                got |-> [c \in Chunk |-> IF c \in stored[n] THEN [by |-> n, whole |-> TRUE] ELSE NoFile]]]
  /\ UNCHANGED <<streams, made, missing, timers, memoryUsage, stored, dirs, result>>

CompleteDisk(s, j) ==
  /\ Found(s) /\ ~InMemory(streams[s]) /\ jobs[j] = IdleJob
  /\ dirs[s][1] # NoFile
  /\ jobs' = [jobs EXCEPT ![j] = [pc |-> "read", n |-> streams[s], c |-> 1, got |-> NoFiles]]
  /\ UNCHANGED <<streams, made, missing, timers, memoryUsage, stored, dirs, result>>

(* A chunk file is read; then the next, if it is there.  validateSha256    *)
(* refuses whatever is not the file the client meant.                      *)
ReadEnds(j) ==
  LET n == jobs[j].n  c == jobs[j].c  s == made[n].id
      file == IF dirs[s] = NoDir THEN NoFile ELSE dirs[s][c]
      got == [jobs[j].got EXCEPT ![c] = file] IN
  /\ jobs[j].pc = "read"
  /\ jobs' = [jobs EXCEPT ![j] =
       IF file = NoFile \/ (c < Chunks /\ dirs[s][c + 1] = NoFile) THEN IdleJob
       ELSE IF c < Chunks THEN [@ EXCEPT !.c = c + 1, !.got = got]
       ELSE IF made[n].sha /\ got # Whole(n) THEN IdleJob
       ELSE [@ EXCEPT !.pc = "save", !.got = got]]
  /\ UNCHANGED <<streams, made, missing, timers, memoryUsage, stored, dirs, result, crowded>>

(* The file is saved, and whatever has the id by then is cleaned up.       *)
Saved(j) ==
  /\ jobs[j].pc = "save"
  /\ result' = [result EXCEPT ![jobs[j].n] = jobs[j].got]
  /\ Cleanup(made[jobs[j].n].id, timers)
  /\ jobs' = [jobs EXCEPT ![j] = IdleJob]
  /\ UNCHANGED <<made, missing, crowded>>

(* The timer of an object, which may be long gone, cleans up its id.       *)
TimerFires(n) ==
  /\ n \in timers
  /\ Cleanup(made[n].id, timers \ {n})
  /\ UNCHANGED <<made, missing, jobs, result, crowded>>

UploadNext ==
  \/ \E s \in StreamId : Create(s) \/ Reset(s)
  \/ \E s \in StreamId, c \in Chunk : MemoryChunk(s, c) \/ \E j \in Job : DiskChunk(s, c, j)
  \/ \E s \in StreamId, j \in Job : CompleteMemory(s, j) \/ CompleteDisk(s, j)
  \/ \E j \in Job : Opened(j) \/ Written(j) \/ ReadEnds(j) \/ Saved(j)
  \/ \E n \in Inc : TimerFires(n)

UploadFair == \A n \in Inc : WF_usvars(TimerFires(n))
UploadSpec == UploadInit /\ [][UploadNext]_usvars
UploadFairSpec == UploadSpec /\ UploadFair

----------------------------------------------------------------------------
Declared[n \in 0..MaxStream] ==
  IF n = 0 THEN 0 ELSE Declared[n - 1] + IF n \in Live THEN made[n].size ELSE 0

(* The memory account is what the live streams in memory declared, and     *)
(* never above the limit.                                                  *)
MemoryIsAccounted == memoryUsage = Declared[MaxStream] /\ memoryUsage <= MemoryLimit

(* Every stream in the map has a timer that will end it, also when timers  *)
(* and requests of older streams of its id interfere.                      *)
LiveIsTimed == Live \subseteq timers

(* A temporary directory exists exactly while a stream on disk has its id. *)
DirsAreOwned ==
  \A s \in StreamId : dirs[s] # NoDir <=> streams[s] # 0 /\ ~InMemory(streams[s])

(* A completed file is made of all the chunks of its own stream, each      *)
(* written to the end: always if the client gave the hash, and otherwise   *)
(* if its requests came one at a time.                                     *)
CompletedIsWhole ==
  \A n \in Inc : result[n] # NoFiles /\ (made[n].sha \/ n \notin crowded) => result[n] = Whole(n)

(* Every stream is ended, whether or not its client comes back.            *)
EveryStreamEnds == \A n \in Inc : n \in Live ~> n \notin Live

(* The memory account is exact, every stream has a timer, directories exist*)
(* exactly for the streams on disk, and a completed file is whole.         *)
UploadSafe ==
  /\ UploadTypeOK
  /\ MemoryIsAccounted
  /\ LiveIsTimed
  /\ DirsAreOwned
  /\ CompletedIsWhole
============================================================================

----------------------------- MODULE Supervisor -----------------------------
(***************************************************************************)
(* NapCat's master process (napcat-shell/napcat.ts): it starts the worker  *)
(* that runs the bot, replaces it on request, starts another when it ends  *)
(* by itself, and gives up after three such ends within a window.          *)
(*                                                                         *)
(* Time passes in ticks of a second; a timer fires in the tick it is due.  *)
(* A worker told to exit does so within the tick or hangs.                 *)
(***************************************************************************)
EXTENDS Integers, Sequences, FiniteSets

CONSTANTS
  Restart,       \* invocations of restartWorker
  MaxWorker,     \* bound: worker processes
  MaxHang,       \* bound: workers that hang when told to exit
  Prepare,       \* seconds a worker has to exit by itself: 5
  KillAfter,     \* and then after "shutdown": 2
  Pause,         \* seconds before the next one is started: 3
  Window,        \* the crash window: 10
  MaxCrashes     \* crashes in it that end the master: 3

ASSUME SupervisorAssumption ==
  /\ {MaxWorker, Prepare, KillAfter, Pause, Window, MaxCrashes} \subseteq Nat \ {0} /\ MaxHang \in Nat
  /\ KillAfter < Pause

VARIABLES
  master,          \* "up", or how it ended: "closed", "given up"
  worker,          \* each process: what it does
  currentWorker,   \* the last one started
  isRestarting, isShuttingDown,
  restart,         \* each restart: its phase, the worker it replaces, the ticks to its next step
  killTimer,       \* each restart: one more than the ticks until it kills the current worker, 0 for no timer
  shutTimer,       \* the same for the end of the master
  crashes,         \* for each remembered crash, how long ago it was
  hangs,
  overlapped,      \* history: a restart began while another was going on
  spawnFailed,     \* history: a process could not be started
  misfired         \* history: a kill timer hit a worker its restart was not about

supvars == <<master, worker, currentWorker, isRestarting, isShuttingDown, restart, killTimer, shutTimer,
             crashes, hangs, overlapped, spawnFailed, misfired>>
history == <<overlapped, spawnFailed, misfired>>

Worker == 1..MaxWorker
Alive(w) == worker[w] \in {"spawning", "running", "exiting", "hung", "killed"}
NoRestart == [phase |-> "none", of |-> 0, left |-> 0]
Going(r) == restart[r].phase \notin {"none", "done", "failed"}

(* Shapes; the processes made are 1..currentWorker, and a restart that is  *)
(* going on is flagged unless restarts overlapped.                         *)
SupervisorTypeOK ==
  /\ master \in {"up", "closed", "given up"} /\ currentWorker \in Worker /\ hangs \in 0..MaxHang
  /\ worker \in [Worker -> {"unborn", "spawning", "running", "exiting", "hung", "killed", "dead"}]
  /\ \A w \in Worker : worker[w] # "unborn" <=> w <= currentWorker
  /\ isRestarting \in BOOLEAN /\ isShuttingDown \in BOOLEAN
  /\ restart \in [Restart -> [phase : {"none", "waiting", "killing", "confirm", "pause", "starting", "done", "failed"},
                              of : {0} \cup Worker, left : 0..(Prepare + Pause)]]
  /\ (\E r \in Restart : Going(r)) /\ ~overlapped => isRestarting
  /\ killTimer \in [Restart -> 0..(KillAfter + 1)] /\ shutTimer \in 0..2
  /\ Len(crashes) <= MaxCrashes /\ \A i \in 1..Len(crashes) : crashes[i] \in 0..Window
  /\ overlapped \in BOOLEAN /\ spawnFailed \in BOOLEAN /\ misfired \in BOOLEAN

SupervisorInit ==
  /\ master = "up" /\ currentWorker = 1
  /\ worker = [w \in Worker |-> IF w = 1 THEN "spawning" ELSE "unborn"]
  /\ isRestarting = FALSE /\ isShuttingDown = FALSE
  /\ restart = [r \in Restart |-> NoRestart] /\ killTimer = [r \in Restart |-> 0] /\ shutTimer = 0
  /\ crashes = <<>> /\ hangs = 0
  /\ overlapped = FALSE /\ spawnFailed = FALSE /\ misfired = FALSE

----------------------------------------------------------------------------
(* postMessage: a worker told to exit will, unless it hangs; a kill too.   *)
ToldToExit(ws, w) == IF ws[w] = "running" THEN [ws EXCEPT ![w] = "exiting"] ELSE ws
Killed(ws, w) == IF ws[w] \in {"spawning", "running", "exiting", "hung"} THEN [ws EXCEPT ![w] = "killed"] ELSE ws

StartWorker(ws) == currentWorker' = currentWorker + 1 /\ worker' = [ws EXCEPT ![currentWorker + 1] = "spawning"]
RoomForOne == currentWorker < MaxWorker

(* The process is there: a restart that waited for it is over.             *)
FlagReset == FALSE

Spawned(w) ==
  /\ master = "up" /\ worker[w] = "spawning" /\ worker' = [worker EXCEPT ![w] = "running"]
  /\ \/ \E r \in Restart : /\ restart[r].phase = "starting" /\ restart[r].of = w
                           /\ restart' = [restart EXCEPT ![r].phase = "done"] /\ isRestarting' = FlagReset
     \/ /\ \A r \in Restart : ~(restart[r].phase = "starting" /\ restart[r].of = w)
        /\ UNCHANGED <<restart, isRestarting>>
  /\ UNCHANGED <<master, currentWorker, isShuttingDown, killTimer, shutTimer, crashes, hangs, history>>

(* It cannot be started: a restart fails and leaves isRestarting set.      *)
SpawnError(w) ==
  /\ master = "up" /\ worker[w] = "spawning" /\ worker' = [worker EXCEPT ![w] = "dead"]
  /\ restart' = [r \in Restart |-> IF restart[r].phase = "starting" /\ restart[r].of = w
                                   THEN [restart[r] EXCEPT !.phase = "failed"] ELSE restart[r]]
  /\ spawnFailed' = TRUE
  /\ UNCHANGED <<master, currentWorker, isRestarting, isShuttingDown, killTimer, shutTimer, crashes, hangs,
                 overlapped, misfired>>

----------------------------------------------------------------------------
(* restartWorker, asked for by a worker: the current one is told, and has  *)
(* Prepare seconds.                                                        *)
RequestRestart(w, r) ==
  /\ master = "up" /\ worker[w] \in {"running", "exiting"} /\ restart[r] = NoRestart
  /\ isRestarting' = TRUE /\ overlapped' = (overlapped \/ \E q \in Restart : Going(q))
  /\ worker' = ToldToExit(worker, currentWorker)
  /\ restart' = [restart EXCEPT ![r] = [phase |-> "waiting", of |-> currentWorker, left |-> Prepare]]
  /\ UNCHANGED <<master, currentWorker, isShuttingDown, killTimer, shutTimer, crashes, hangs, spawnFailed, misfired>>

(* It did not exit: it is told once more, and killed KillAfter later.      *)
PrepareExpires(r) ==
  /\ master = "up" /\ restart[r].phase = "waiting" /\ restart[r].left = 0
  /\ worker' = ToldToExit(worker, currentWorker)
  /\ restart' = [restart EXCEPT ![r].phase = "killing"] /\ killTimer' = [killTimer EXCEPT ![r] = KillAfter + 1]
  /\ UNCHANGED <<master, currentWorker, isRestarting, isShuttingDown, shutTimer, crashes, hangs, history>>

(* The kill timer runs on although the worker exits in the meantime, and   *)
(* it kills whichever worker is the current one by then.                   *)
KillTimerFires(r) ==
  /\ master = "up" /\ killTimer[r] = 1
  /\ killTimer' = [killTimer EXCEPT ![r] = 0]
  /\ worker' = Killed(worker, currentWorker)
  /\ misfired' = (misfired \/ (currentWorker # restart[r].of /\ worker'[currentWorker] = "killed"))
  /\ restart' = IF restart[r].phase = "killing"
                THEN [restart EXCEPT ![r].phase = "confirm", ![r].left = 1] ELSE restart
  /\ UNCHANGED <<master, currentWorker, isRestarting, isShuttingDown, shutTimer, crashes, hangs, overlapped, spawnFailed>>

(* The process is looked for a last time; another is started Pause later.  *)
Confirmed(r) ==
  /\ master = "up" /\ restart[r].phase = "confirm" /\ restart[r].left = 0
  /\ restart' = [restart EXCEPT ![r].phase = "pause", ![r].left = Pause]
  /\ UNCHANGED <<master, worker, currentWorker, isRestarting, isShuttingDown, killTimer, shutTimer, crashes, hangs, history>>

StartNext(r) ==
  /\ master = "up" /\ restart[r].phase = "pause" /\ restart[r].left = 0 /\ RoomForOne
  /\ StartWorker(worker)
  /\ restart' = [restart EXCEPT ![r].phase = "starting", ![r].of = currentWorker + 1]
  /\ UNCHANGED <<master, isRestarting, isShuttingDown, killTimer, shutTimer, crashes, hangs, history>>

----------------------------------------------------------------------------
(* A worker ends, by itself or as told.  A restart that waits for it goes  *)
(* on; otherwise it counts as a crash, and either another one is started   *)
(* or the master gives up.                                                 *)
Waits(r, w) == restart[r].phase \in {"waiting", "killing"} /\ restart[r].of = w

Expected == isRestarting \/ isShuttingDown

AtOnce(r) == 1                              \* defect: a second is thought to be enough
AfterExit(r) == Pause

(* The oldest are shifted out of the list until one is young enough.       *)
Shifts(c) == CHOOSE n \in 0..Len(c) : /\ \A i \in 1..n : c[i] > Window
                                      /\ n < Len(c) => c[n + 1] <= Window
Young(c) == SubSeq(c, Shifts(c) + 1, Len(c))

Exit(w) ==
  /\ master = "up" /\ worker[w] \in {"running", "exiting", "hung", "killed"}
  /\ restart' = [r \in Restart |-> IF Waits(r, w) THEN [restart[r] EXCEPT !.phase = "pause", !.left = AfterExit(r)] ELSE restart[r]]
  /\ LET gone == [worker EXCEPT ![w] = "dead"] IN
     \/ Expected /\ worker' = gone /\ UNCHANGED <<master, currentWorker, crashes>>
     \/ /\ ~Expected /\ crashes' = Append(Young(crashes), 0)
        /\ \/ /\ Len(crashes') >= MaxCrashes /\ master' = "given up"
              /\ worker' = gone /\ UNCHANGED currentWorker
           \/ Len(crashes') < MaxCrashes /\ RoomForOne /\ StartWorker(gone) /\ UNCHANGED master
  /\ UNCHANGED <<isRestarting, isShuttingDown, killTimer, shutTimer, hangs, history>>

----------------------------------------------------------------------------
(* SIGINT, SIGTERM: the worker is told, and the master is gone a second    *)
(* later.                                                                  *)
Shutdown ==
  /\ master = "up" /\ ~isShuttingDown /\ isShuttingDown' = TRUE
  /\ worker' = ToldToExit(worker, currentWorker) /\ shutTimer' = 2
  /\ UNCHANGED <<master, currentWorker, isRestarting, restart, killTimer, crashes, hangs, history>>

LeftAlone(ws, w) == ws                      \* defect: the worker is only told, never killed
KilledAtEnd(ws, w) == Killed(ws, w)

ShutTimerFires ==
  /\ master = "up" /\ shutTimer = 1 /\ shutTimer' = 0
  /\ worker' = KilledAtEnd(worker, currentWorker) /\ master' = "closed"
  /\ UNCHANGED <<currentWorker, isRestarting, isShuttingDown, restart, killTimer, crashes, hangs, history>>

Due == \/ \E r \in Restart : \/ restart[r].phase \in {"waiting", "confirm", "pause"} /\ restart[r].left = 0
                             \/ killTimer[r] = 1
       \/ shutTimer = 1
       \/ \E w \in Worker : worker[w] \in {"killed", "spawning"}

(* A second passes; a worker told to exit that is still there hangs.       *)
Down(n) == IF n = 0 THEN 0 ELSE n - 1
Tick ==
  /\ master = "up" /\ ~Due
  /\ restart' = [r \in Restart |-> [restart[r] EXCEPT !.left = Down(restart[r].left)]]
  /\ killTimer' = [r \in Restart |-> Down(killTimer[r])] /\ shutTimer' = Down(shutTimer)
  /\ crashes' = Young([i \in 1..Len(crashes) |-> crashes[i] + 1])
  /\ worker' = [w \in Worker |-> IF worker[w] = "exiting" THEN "hung" ELSE worker[w]]
  /\ hangs' = hangs + Cardinality({w \in Worker : worker[w] = "exiting"}) /\ hangs' <= MaxHang
  /\ UNCHANGED <<master, currentWorker, isRestarting, isShuttingDown, history>>

SupervisorNext ==
  \/ \E w \in Worker : Spawned(w) \/ SpawnError(w) \/ Exit(w) \/ \E r \in Restart : RequestRestart(w, r)
  \/ \E r \in Restart : PrepareExpires(r) \/ KillTimerFires(r) \/ Confirmed(r) \/ StartNext(r)
  \/ Shutdown \/ ShutTimerFires \/ Tick

Timers == Tick \/ ShutTimerFires \/ \E r \in Restart : PrepareExpires(r) \/ KillTimerFires(r) \/ Confirmed(r) \/ StartNext(r)
SupervisorFair ==
  WF_supvars(Timers) /\ \A w \in Worker : WF_supvars(Spawned(w) \/ SpawnError(w)) /\ WF_supvars(worker[w] \in {"exiting", "killed"} /\ Exit(w))
SupervisorSpec == SupervisorInit /\ [][SupervisorNext]_supvars
SupervisorFairSpec == SupervisorSpec /\ SupervisorFair

----------------------------------------------------------------------------
(* There is one worker at most, but for restarts that overlap: a worker is *)
(* started only when the one it replaces is gone, killed if need be.       *)
OneWorker == ~overlapped => Cardinality({w \in Worker : Alive(w)}) <= 1

(* The kill timer of a restart, which nothing cancels, never hits the      *)
(* worker that was started instead, as the pause outlasts it; restarts     *)
(* that overlap may start one before the timer of another has fired.       *)
NewWorkerSpared == ~overlapped => ~misfired

(* When the master ends, no worker is left running behind it.              *)
NoneLeftBehind ==
  master # "up" /\ ~overlapped => \A w \in Worker : worker[w] \in {"unborn", "dead", "killed"}

(* A worker that is gone is replaced, or the master ends, unless a process *)
(* cannot be started.                                                      *)
ComesBack ==
  worker[currentWorker] = "dead" ~> worker[currentWorker] = "running" \/ master # "up" \/ isShuttingDown
                                      \/ spawnFailed \/ ~RoomForOne

(* While restarts do not overlap there is one worker at most, a kill timer *)
(* never hits the next worker, and none is left when the master ends.      *)
SupervisorSafe == SupervisorTypeOK /\ OneWorker /\ NewWorkerSpared /\ NoneLeftBehind
============================================================================

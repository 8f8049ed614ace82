---------------------------- MODULE HostProofs -----------------------------
(***************************************************************************)
(* The safety properties of NapCat's login, of its worker supervisor, of   *)
(* its mirrors, of its plugins and of its upload streams hold of every     *)
(* behaviour of their specifications, for every value of the constants.    *)
(***************************************************************************)
EXTENDS Login, Supervisor, Mirror, PluginManager, UploadStream, FiniteSetTheorems,
  SequenceTheorems, WellFoundedInduction, TLAPS

----------------------------------------------------------------------------
(* The owner always has a way in, for any number of logins under way at    *)
(* once and however their answers interleave.                              *)

Tries == {Free} \cup [kind : Kind, by : {"start", "quickFunction", "web"}]

(* Whoever is logged in, or about to be told so, was let in by the kernel. *)
LetInFirst == owed \/ isLogined \/ QQLoginStatus => kernel # "out"

(* What NeverWithoutWay needs of the states in which logins are under way: *)
(* those of the start are the only ones that bring the QR code by failing. *)
WayOrStart ==
  ready /\ kernel = "out" => qr # "none" \/ QQLoginError \/ \E a \in Attempt : attempt[a].by = "start"

(* The types, one variable at a time.                                      *)
Typed ==
  /\ start \in [quick : {"none", "known", "unknown"}, account : BOOLEAN, password : BOOLEAN]
  /\ waiting \in 0..MaxConnect /\ connects \in 0..MaxConnect /\ logins \in 0..MaxLogin
  /\ attempt \in [Attempt -> Tries]
  /\ kernel \in {"out", "in", "kicked"} /\ qr \in {"none", "asked", "shown"}
  /\ owed \in BOOLEAN /\ ready \in BOOLEAN /\ isLogined \in BOOLEAN /\ QQLoginStatus \in BOOLEAN /\ QQLoginError \in BOOLEAN
  /\ main \in {"login", "session", "adapters", "listening", "failed"}
  /\ main # "login" => isLogined

(* A saved password is only tried where there is one, and the quick        *)
(* function of the WebUI only runs where no account was named.             *)
Sound(r) ==
  /\ r.kind = "password" /\ r.by # "web" => start.password
  /\ r.by = "quickFunction" => start.quick = "none"
AttemptsSound == \A a \in Attempt : Sound(attempt[a])

(* The parts the proof works with and the property it is about.            *)
Parts == Typed /\ AttemptsSound /\ LetInFirst /\ WayOrStart /\ waiting <= connects

(* The parts together are enough for the properties.                       *)
LEMMA PartsSuffice == Parts => LoginSafe
  <1> SUFFICES ASSUME Parts PROVE LoginSafe
    OBVIOUS
  <1>1. LoginTypeOK
    BY DEF Parts, Typed, AttemptsSound, Sound, LoginTypeOK, Tries
  <1>2. NeverWithoutWay
    BY DEF Parts, Typed, WayOrStart, NeverWithoutWay, Free
  <1>3. NeverLockedOut
    BY DEF Parts, Typed, LetInFirst, NeverLockedOut
  <1>4. QED
    BY <1>1, <1>2, <1>3 DEF LoginSafe

(* Nobody is logged in and nothing is under way at first.                  *)
LEMMA LoginStarts == LoginInit => Parts
  <1> SUFFICES ASSUME LoginInit PROVE Parts
    OBVIOUS
  <1>1. Free \in Tries /\ Sound(Free)
    BY DEF Tries, Free, Sound
  <1>2. attempt \in [Attempt -> Tries] /\ AttemptsSound
    BY <1>1 DEF LoginInit, AttemptsSound
  <1>3. 0 \in 0..MaxConnect /\ 0 \in 0..MaxLogin
    BY LoginAssumption
  <1>4. Typed
    BY <1>2, <1>3 DEF LoginInit, Typed
  <1>5. QED
    BY <1>2, <1>4 DEF LoginInit, Parts, LetInFirst, WayOrStart

(* The kinds of attempts there are.                                        *)
LEMMA KindsOfTries ==
  /\ Free \in Tries /\ Free.kind = "none" /\ Free.by = "none"
  /\ \A k \in Kind, b \in {"start", "quickFunction", "web"} :
       By(k, b) \in Tries /\ By(k, b).kind = k /\ By(k, b).by = b
  BY DEF Tries, Free, By, Kind

(* One attempt is replaced by another sound one: the others stay as they   *)
(* are.                                                                    *)
LEMMA OneAttempt ==
  ASSUME Parts, NEW a \in Attempt, NEW r \in Tries, Sound(r), attempt' = [attempt EXCEPT ![a] = r], start' = start
  PROVE  /\ attempt' \in [Attempt -> Tries] /\ AttemptsSound' /\ attempt'[a] = r
         /\ \A b \in Attempt : b # a => attempt'[b] = attempt[b]
  <1>1. attempt \in [Attempt -> Tries]
    BY DEF Parts, Typed
  <1>2. /\ attempt' \in [Attempt -> Tries] /\ attempt'[a] = r
        /\ \A b \in Attempt : b # a => attempt'[b] = attempt[b]
    BY <1>1
  <1>3. AttemptsSound'
    BY <1>2 DEF Parts, AttemptsSound, Sound
  <1>4. QED
    BY <1>2, <1>3

(* The attempt ends.                                                       *)
LEMMA AttemptEnds ==
  ASSUME Parts, NEW a \in Attempt, attempt' = [attempt EXCEPT ![a] = Free], start' = start
  PROVE  /\ attempt' \in [Attempt -> Tries] /\ AttemptsSound'
         /\ \A b \in Attempt : b # a => attempt'[b] = attempt[b]
  <1>1. Sound(Free) /\ Free \in Tries
    BY KindsOfTries DEF Sound
  <1>2. QED
    BY <1>1, OneAttempt

(* The start's fallback: another attempt of the start, or the QR code.     *)
LEMMA FallbackKeeps ==
  ASSUME Parts, NEW a \in Attempt, Fallback(a), start' = start
  PROVE  /\ attempt' \in [Attempt -> Tries] /\ AttemptsSound'
         /\ qr' \in {"none", "asked", "shown"}
         /\ kernel = "out" => qr' # "none" \/ attempt'[a].by = "start"
  <1>1. CASE HasFallback
    <2>1. Sound(By("password", "start")) /\ By("password", "start") \in Tries /\ By("password", "start").by = "start"
      BY <1>1, KindsOfTries DEF Sound, HasFallback, Kind
    <2>2. attempt' = [attempt EXCEPT ![a] = By("password", "start")] /\ qr' = qr
      BY <1>1 DEF Fallback
    <2>3. QED
      BY <2>1, <2>2, OneAttempt DEF Parts, Typed
  <1>2. CASE ~HasFallback
    <2>1. attempt' = [attempt EXCEPT ![a] = Free] /\ qr' = QrUnlessLogined
      BY <1>2 DEF Fallback
    <2>2. QED
      BY <2>1, AttemptEnds DEF Parts, Typed, LetInFirst, QrUnlessLogined
  <1>3. QED
    BY <1>1, <1>2

(* What happens inside a login keeps the parts.                            *)
LEMMA InnerKeeps ==
  ASSUME Parts, NEW a \in Attempt, HandleLoginInner(a)
  PROVE  Parts'
  <1>0. UNCHANGED <<start, connects, kernel, owed, logins, isLogined, QQLoginStatus, QQLoginError, main>>
        /\ ready' = TRUE /\ waiting' = waiting - 1 /\ waiting > 0 /\ attempt[a] = Free
    BY DEF HandleLoginInner
  <1>1. /\ attempt' \in [Attempt -> Tries] /\ AttemptsSound'
        /\ qr' \in {"none", "asked", "shown"}
        /\ kernel = "out" => qr' # "none" \/ attempt'[a].by = "start"
    <2>1. CASE start.quick = "known" /\ attempt' = [attempt EXCEPT ![a] = By("quick", "start")] /\ qr' = qr
      <3>1. Sound(By("quick", "start")) /\ By("quick", "start") \in Tries /\ By("quick", "start").by = "start"
        BY KindsOfTries DEF Sound, Kind
      <3>2. QED
        BY <1>0, <2>1, <3>1, OneAttempt DEF Parts, Typed
    <2>2. CASE start.quick = "unknown" /\ Fallback(a)
      BY <1>0, <2>2, FallbackKeeps
    <2>3. CASE /\ start.quick = "none" /\ qr' = "asked"
               /\ attempt' = IF start.account THEN [attempt EXCEPT ![a] = By("quick", "quickFunction")] ELSE attempt
      <3>1. Sound(By("quick", "quickFunction")) /\ By("quick", "quickFunction") \in Tries
        BY <2>3, KindsOfTries DEF Sound, Kind
      <3>2. CASE start.account
        BY <1>0, <2>3, <3>1, <3>2, OneAttempt
      <3>3. CASE ~start.account
        BY <1>0, <2>3, <3>3 DEF Parts, Typed, AttemptsSound, Sound
      <3>4. QED
        BY <3>2, <3>3
    <2>4. QED
      BY <2>1, <2>2, <2>3 DEF HandleLoginInner
  <1>2. Typed'
    BY <1>0, <1>1, LoginAssumption DEF Parts, Typed
  <1>3. LetInFirst' /\ WayOrStart' /\ waiting' <= connects'
    BY <1>0, <1>1 DEF Parts, LetInFirst, WayOrStart, Typed
  <1>4. QED
    BY <1>1, <1>2, <1>3 DEF Parts

(* The kernel lets the attempt in.                                         *)
LEMMA LetInKeeps ==
  ASSUME Parts, NEW a \in Attempt, LetIn(a), UNCHANGED <<start, waiting, connects, ready, isLogined, main>>
  PROVE  Parts'
  <1>1. /\ kernel' = "in" /\ owed' = TRUE /\ logins' = logins + 1 /\ logins < MaxLogin /\ qr' = qr
        /\ QQLoginStatus' \in BOOLEAN /\ QQLoginError' \in BOOLEAN
    BY DEF LetIn, Parts, Typed
  <1>2. attempt' \in [Attempt -> Tries] /\ AttemptsSound'
    BY AttemptEnds DEF LetIn
  <1>3. Typed'
    BY <1>1, <1>2, LoginAssumption DEF Parts, Typed
  <1>4. QED
    BY <1>1, <1>2, <1>3 DEF Parts, LetInFirst, WayOrStart, Typed

(* A refusal asks for the QR code, or leaves a message of the start.       *)
LEMMA FailedKeeps ==
  ASSUME Parts, NEW a \in Attempt, Failed(a) \/ WantsVerification(a),
         UNCHANGED <<start, waiting, connects, ready, isLogined, main>>
  PROVE  Parts'
  <1>1. /\ UNCHANGED <<kernel, owed, logins, QQLoginStatus>>
        /\ qr' \in {"none", "asked", "shown"} /\ QQLoginError' \in BOOLEAN
        /\ attempt' = [attempt EXCEPT ![a] = Free]
        /\ qr' = "asked" \/ (qr' = qr /\ (QQLoginError => QQLoginError') /\ (attempt[a].by = "start" => QQLoginError'))
    BY DEF Failed, WantsVerification, Parts, Typed
  <1>2. /\ attempt' \in [Attempt -> Tries] /\ AttemptsSound'
        /\ \A b \in Attempt : b # a => attempt'[b] = attempt[b]
    BY <1>1, AttemptEnds
  <1>3. Typed'
    BY <1>1, <1>2 DEF Parts, Typed
  <1>4. WayOrStart'
    BY <1>1, <1>2 DEF Parts, WayOrStart, Typed
  <1>5. QED
    BY <1>1, <1>2, <1>3, <1>4 DEF Parts, LetInFirst, Typed

(* The quick login of the start keeps the parts.                           *)
LEMMA QuickKeeps ==
  ASSUME Parts, NEW a \in Attempt, QuickAnswered(a), UNCHANGED <<start, waiting, connects, ready, isLogined, main>>
  PROVE  Parts'
  <1>1. CASE LetIn(a)
    BY <1>1, LetInKeeps
  <1>2. CASE /\ attempt[a].by = "start" /\ QQLoginError' = TRUE /\ Fallback(a)
             /\ UNCHANGED <<kernel, owed, logins, QQLoginStatus>>
    <2>1. /\ attempt' \in [Attempt -> Tries] /\ AttemptsSound' /\ qr' \in {"none", "asked", "shown"}
      BY <1>2, FallbackKeeps
    <2>2. Typed'
      BY <1>2, <2>1 DEF Parts, Typed
    <2>3. QED
      BY <1>2, <2>1, <2>2 DEF Parts, LetInFirst, WayOrStart, Typed
  <1>3. CASE /\ attempt[a].by = "quickFunction" /\ HasFallback
             /\ QQLoginError' = TRUE /\ qr' = "asked"
             /\ attempt' = [attempt EXCEPT ![a] = By("password", "quickFunction")]
             /\ UNCHANGED <<kernel, owed, logins, QQLoginStatus>>
    <2>1. Sound(By("password", "quickFunction")) /\ By("password", "quickFunction") \in Tries
      BY <1>3, KindsOfTries DEF Sound, Kind, HasFallback, Parts, AttemptsSound
    <2>2. attempt' \in [Attempt -> Tries] /\ AttemptsSound'
      BY <1>3, <2>1, OneAttempt
    <2>3. Typed'
      BY <1>3, <2>2 DEF Parts, Typed
    <2>4. QED
      BY <1>3, <2>2, <2>3 DEF Parts, LetInFirst, WayOrStart, Typed
  <1>4. CASE Failed(a)
    BY <1>4, FailedKeeps
  <1>5. QED
    BY <1>1, <1>2, <1>3, <1>4 DEF QuickAnswered

(* Every step keeps the parts.                                             *)
LEMMA LoginSteps == Parts /\ [LoginNext]_loginvars => Parts'
  <1> SUFFICES ASSUME Parts, [LoginNext]_loginvars PROVE Parts'
    OBVIOUS
  <1> USE LoginAssumption DEF Parts, Typed, AttemptsSound, Sound, LetInFirst, WayOrStart
  <1>1. CASE OnLoginConnected
    BY <1>1 DEF OnLoginConnected
  <1>2. CASE RefreshQRCode
    BY <1>2 DEF RefreshQRCode
  <1>3. CASE OnQRCodeGetPicture
    BY <1>3 DEF OnQRCodeGetPicture
  <1>4. CASE OnQRCodeSessionFailed
    <2>1. Typed' /\ AttemptsSound' /\ LetInFirst' /\ waiting' <= connects'
      BY ZenonT(60), <1>4 DEF OnQRCodeSessionFailed
    <2>2. CASE isLogined
      BY <1>4, <2>1, <2>2 DEF OnQRCodeSessionFailed
    <2>3. CASE ~isLogined
      BY <1>4, <2>1, <2>3 DEF OnQRCodeSessionFailed
    <2>4. QED
      BY <2>2, <2>3
  <1>5. CASE Scanned
    BY <1>5 DEF Scanned
  <1>6. CASE OnLoginFailed
    BY <1>6 DEF OnLoginFailed
  <1>7. CASE OnQRCodeLoginSucceed
    BY <1>7 DEF OnQRCodeLoginSucceed, Resolved
  <1>8. CASE InitializeSession \/ InitNapCat
    BY <1>8 DEF InitializeSession, InitNapCat
  <1>9. CASE OnKickedOffLine
    BY ZenonT(60), <1>9 DEF OnKickedOffLine
  <1>10. ASSUME NEW a \in Attempt, HandleLoginInner(a) PROVE Parts'
    BY <1>10, InnerKeeps
  <1>11. ASSUME NEW a \in Attempt, NEW k \in Kind, WebUiLogin(a, k) PROVE Parts'
    <2>1. Sound(By(k, "web")) /\ By(k, "web") \in Tries /\ attempt[a].by = "none"
      BY <1>11, KindsOfTries DEF WebUiLogin
    <2>2. /\ attempt' \in [Attempt -> Tries] /\ AttemptsSound'
          /\ \A b \in Attempt : b # a => attempt'[b] = attempt[b]
      BY <1>11, <2>1, OneAttempt DEF WebUiLogin
    <2>3. QED
      BY <1>11, <2>1, <2>2 DEF WebUiLogin
  <1>12. ASSUME NEW a \in Attempt, Answered(a) PROVE Parts'
    BY <1>12, QuickKeeps, LetInKeeps, FailedKeeps DEF Answered, PasswordAnswered, CaptchaAnswered, DeviceAnswered
  <1>13. CASE UNCHANGED loginvars
    BY <1>13 DEF loginvars
  <1>14. QED
    BY <1>1, <1>2, <1>3, <1>4, <1>5, <1>6, <1>7, <1>8, <1>9, <1>10, <1>11, <1>12, <1>13 DEF LoginNext

(* The start, the owner in the WebUI and the QR code may try at once, in   *)
(* any number and order: while nobody is let in there is a QR code or a    *)
(* message, and the status that closes the WebUI's handlers is only set    *)
(* once the kernel let somebody in (base.ts, QQLogin.ts).                  *)
THEOREM AlwaysAWayIn == LoginSpec => []LoginSafe
  <1>1. QED
    BY LoginStarts, LoginSteps, PartsSuffice, PTL DEF LoginSpec

----------------------------------------------------------------------------
(* The master has one worker at a time while restarts do not overlap, for  *)
(* any number of workers, restarts, crashes and hung processes.            *)

(* Every non-empty set of numbers has a least element.                     *)
LEMMA Least ==
  ASSUME NEW T, T \subseteq Nat, T # {}
  PROVE  \E x \in T : \A y \in T : x <= y
<1>1. PICK R : IsWellFoundedOn(R, Nat) /\ \A x, y \in Nat : <<y, x>> \in R <=> y < x
  <2>1. IsWellFoundedOn(OpToRel(<, Nat), Nat)  BY NatLessThanWellFounded
  <2>2. \A x, y \in Nat : <<y, x>> \in OpToRel(<, Nat) <=> y < x  BY DEF OpToRel
  <2> QED  BY <2>1, <2>2
<1>2. PICK x \in T : \A y \in T : <<y, x>> \notin R
  BY <1>1, WFMin
<1>3. ASSUME NEW y \in T PROVE x <= y
  <2>1. x \in Nat /\ y \in Nat  OBVIOUS
  <2>2. ~(y < x)  BY <2>1, <1>1, <1>2
  <2> QED  BY <2>1, <2>2
<1> QED  BY <1>3

(* A function on 1..n is a sequence of length n.                           *)
LEMMA ListIsSeq ==
  ASSUME NEW S, NEW n \in Nat, NEW f \in [1..n -> S]
  PROVE  f \in Seq(S) /\ Len(f) = n
<1>1. f \in Seq(S)  BY SeqDef
<1>2. PICK k \in Nat : k = Len(f) /\ DOMAIN f = 1..k  BY <1>1, LenProperties
<1>3. \A i \in Nat : i \in 1..n <=> i \in 1..k  BY <1>2
<1>4. k = n
  <2>1. n > 0 => n \in 1..n  OBVIOUS
  <2>2. k > 0 => k \in 1..k  OBVIOUS
  <2> QED  BY <2>1, <2>2, <1>3
<1> QED  BY <1>1, <1>2, <1>4

Phase == {"none", "waiting", "killing", "confirm", "pause", "starting", "done", "failed"}
RestartRecord == [phase : Phase, of : {0} \cup Worker, left : 0..(Prepare + Pause)]
WorkerState == {"unborn", "spawning", "running", "exiting", "hung", "killed", "dead"}

(* A list of ages with the oldest crash first.                             *)
OldestFirst(c) == \A i, j \in 1..Len(c) : i < j => c[i] >= c[j]

SupervisorShapes ==
  /\ master \in {"up", "closed", "given up"} /\ currentWorker \in Worker /\ hangs \in 0..MaxHang
  /\ worker \in [Worker -> WorkerState]
  /\ \A w \in Worker : worker[w] # "unborn" <=> w <= currentWorker
  /\ isRestarting \in BOOLEAN /\ isShuttingDown \in BOOLEAN
  /\ restart \in [Restart -> RestartRecord]
  /\ killTimer \in [Restart -> 0..(KillAfter + 1)] /\ shutTimer \in 0..2
  /\ overlapped \in BOOLEAN /\ spawnFailed \in BOOLEAN /\ misfired \in BOOLEAN

CrashesShape ==
  /\ crashes \in Seq(0..Window) /\ Len(crashes) <= MaxCrashes /\ OldestFirst(crashes)
  /\ master = "up" => Len(crashes) < MaxCrashes

(* A restart that is going on, at each of its phases: the current worker   *)
(* is the one it is about, and its kill timer fires before the pause ends. *)
RestartFine(r) ==
  LET it == restart[r]  w == worker[currentWorker] IN
  /\ it.phase \notin {"killing", "pause"} => killTimer[r] = 0
  /\ it.phase = "killing" => killTimer[r] > 0
  /\ it.phase = "pause" => killTimer[r] <= it.left /\ w = "dead"
  /\ it.phase \in {"waiting", "killing"} => w \in {"exiting", "hung"}
  /\ it.phase = "confirm" => w \in {"killed", "dead"} /\ (it.left = 0 => w = "dead")
  /\ it.phase = "starting" => w = "spawning"
  /\ Going(r) => it.of = currentWorker

(* As long as no two restarts overlapped, one goes on at most, and all     *)
(* workers but the current one are dead.                                   *)
OneAtATime ==
  /\ ~misfired
  /\ \A w \in 1..(currentWorker - 1) : worker[w] = "dead"
  /\ \A q, r \in Restart : Going(q) /\ Going(r) => q = r
  /\ (\E r \in Restart : Going(r)) => isRestarting
  /\ master = "up" => \A r \in Restart : RestartFine(r)
  /\ master # "up" => worker[currentWorker] \in {"dead", "killed"}

SupervisorInv == SupervisorShapes /\ CrashesShape /\ (~overlapped => OneAtATime)

(* The bounds are numbers.                                                 *)
LEMMA SupervisorNumbers ==
  /\ {MaxWorker, Prepare, KillAfter, Pause, Window, MaxCrashes} \subseteq Nat /\ MaxHang \in Nat
  /\ MaxWorker > 0 /\ MaxCrashes > 0 /\ Window > 0 /\ Prepare > 0 /\ Pause > 0 /\ KillAfter > 0
  /\ KillAfter < Pause /\ MaxWorker \in Nat /\ Window \in Nat /\ Pause \in Nat /\ Prepare \in Nat /\ KillAfter \in Nat
  /\ MaxCrashes \in Nat
BY SupervisorAssumption

(* The invariant is enough for the properties.                             *)
LEMMA SupervisorInvIsSafe == SupervisorInv => SupervisorSafe
<1> SUFFICES ASSUME SupervisorInv PROVE SupervisorSafe
  OBVIOUS
<1>1. SupervisorTypeOK
  <2>1. \A i \in 1..Len(crashes) : crashes[i] \in 0..Window
    BY ElementOfSeq DEF SupervisorInv, CrashesShape
  <2> QED  BY <2>1 DEF SupervisorInv, SupervisorShapes, CrashesShape, SupervisorTypeOK, OneAtATime,
             RestartRecord, Phase, WorkerState
<1>2. ~overlapped => \A w \in Worker : Alive(w) => w = currentWorker
  <2> SUFFICES ASSUME ~overlapped, NEW w \in Worker, Alive(w) PROVE w = currentWorker
    OBVIOUS
  <2>1. w <= currentWorker /\ currentWorker \in Nat /\ w \in Nat
    <3>1. Worker \subseteq Nat /\ currentWorker \in Worker
      <4>1. Worker \subseteq Nat  BY SupervisorNumbers DEF Worker
      <4>2. currentWorker \in Worker  BY DEF SupervisorInv, SupervisorShapes
      <4> QED  BY <4>1, <4>2
    <3>2. worker[w] # "unborn"  BY DEF Alive
    <3>3. w <= currentWorker  BY <3>2 DEF SupervisorInv, SupervisorShapes
    <3> QED  BY <3>1, <3>3
  <2>2. w < currentWorker => worker[w] = "dead"
    <3>1. w < currentWorker => w \in 1..(currentWorker - 1)  BY <2>1 DEF Worker
    <3> QED  BY <3>1 DEF SupervisorInv, OneAtATime
  <2> QED  BY <2>1, <2>2 DEF Alive
<1>3. OneWorker
  <2> SUFFICES ASSUME ~overlapped PROVE Cardinality({w \in Worker : Alive(w)}) <= 1
    BY DEF OneWorker
  <2>1. {w \in Worker : Alive(w)} \in SUBSET {currentWorker}  BY <1>2
  <2>2. IsFiniteSet({currentWorker}) /\ Cardinality({currentWorker}) = 1  BY FS_Singleton
  <2> QED  BY <2>1, <2>2, FS_Subset
<1>4. NewWorkerSpared  BY DEF SupervisorInv, OneAtATime, NewWorkerSpared
<1>5. NoneLeftBehind
  <2> SUFFICES ASSUME master # "up", ~overlapped, NEW w \in Worker
               PROVE  worker[w] \in {"unborn", "dead", "killed"}
    BY DEF NoneLeftBehind
  <2>1. worker[currentWorker] \in {"dead", "killed"}  BY DEF SupervisorInv, OneAtATime
  <2>2. worker[w] \in WorkerState  BY DEF SupervisorInv, SupervisorShapes
  <2> QED  BY <2>1, <2>2, <1>2 DEF Alive, WorkerState
<1> QED  BY <1>1, <1>3, <1>4, <1>5 DEF SupervisorSafe

(* The first worker is being started and nothing else has happened.        *)
LEMMA SupervisorStarts == SupervisorInit => SupervisorInv
<1> SUFFICES ASSUME SupervisorInit PROVE SupervisorInv
  OBVIOUS
<1> USE DEF SupervisorInit
<1>1. 1 \in Worker /\ \A w \in Worker : w # 1 => ~(w <= 1)  BY SupervisorNumbers DEF Worker
<1>2. NoRestart \in RestartRecord  BY SupervisorNumbers DEF NoRestart, RestartRecord, Phase
<1>3. SupervisorShapes
  <2>1. 0 \in 0..MaxHang /\ 0 \in 0..(KillAfter + 1) /\ 0 \in 0..2  BY SupervisorNumbers
  <2>2. worker \in [Worker -> WorkerState] /\ \A w \in Worker : worker[w] # "unborn" <=> w <= currentWorker
    <3>1. \A w \in Worker : w <= 1 <=> w = 1  BY SupervisorNumbers DEF Worker
    <3> QED  BY <3>1 DEF WorkerState
  <2> QED  BY <1>1, <1>2, <2>1, <2>2 DEF SupervisorShapes
<1>4. CrashesShape
  <2>1. <<>> \in Seq(0..Window) /\ Len(<<>>) = 0  BY EmptySeq
  <2> QED  BY <2>1, SupervisorNumbers DEF CrashesShape, OldestFirst
<1>5. \A r \in Restart : ~Going(r) /\ RestartFine(r)  BY DEF Going, NoRestart, RestartFine
<1>6. OneAtATime  BY <1>1, <1>5 DEF OneAtATime
<1> QED  BY <1>3, <1>4, <1>6 DEF SupervisorInv

(* Shifting out the oldest crashes leaves the young ones, oldest first.    *)
LEMMA YoungOnes ==
  ASSUME NEW c \in Seq(Nat), OldestFirst(c)
  PROVE  Young(c) \in Seq(0..Window) /\ OldestFirst(Young(c)) /\ Len(Young(c)) <= Len(c)
<1>1. PICK L \in Nat : L = Len(c) /\ \A i \in 1..L : c[i] \in Nat  BY LenProperties, ElementOfSeq
<1>2. \E n \in 0..L : (\A i \in 1..n : c[i] > Window) /\ (n < L => c[n + 1] <= Window)
  <2> DEFINE T == {n \in 0..L : n < L => c[n + 1] <= Window}
  <2>1. T \subseteq Nat /\ L \in T  BY <1>1
  <2>2. PICK n \in T : \A m \in T : n <= m
    <3> HIDE DEF T
    <3> QED  BY <2>1, Least
  <2>3. ASSUME NEW i \in 1..n PROVE c[i] > Window
    <3>1. i - 1 \in 0..L /\ i - 1 < n /\ n \in 0..L /\ i \in 1..L /\ (i - 1) + 1 = i  BY <1>1
    <3>2. i - 1 \notin T
      <4>1. i - 1 \in T => n <= i - 1  BY <2>2
      <4> QED  BY <4>1, <3>1
    <3>3. ~(c[i] <= Window)  BY <3>1, <3>2
    <3> QED  BY <3>1, <3>3, <1>1, SupervisorNumbers
  <2> QED  BY <2>3
<1>3. PICK n \in 0..L : n = Shifts(c) /\ (n < L => c[n + 1] <= Window)
  BY <1>1, <1>2 DEF Shifts
<1>4. PICK s : s = Young(c) /\ s = SubSeq(c, n + 1, L)  BY <1>1, <1>3 DEF Young
<1>5. \A i \in (n + 1)..L : c[i] \in 0..Window
  <2> SUFFICES ASSUME NEW i \in (n + 1)..L PROVE c[i] \in 0..Window
    OBVIOUS
  <2>1. n + 1 \in 1..L /\ i \in 1..L /\ (n + 1 = i \/ n + 1 < i) /\ n < L  BY <1>1
  <2>2. c[n + 1] >= c[i]  BY <2>1, <1>1 DEF OldestFirst
  <2> QED  BY <2>1, <2>2, <1>1, <1>3, SupervisorNumbers
<1>6. /\ s \in Seq(0..Window) /\ Len(s) = L - n
      /\ \A i \in 1..(L - n) : s[i] = c[n + i]
  <2>1. n + 1 \in Int /\ L \in Int  BY <1>1
  <2>2. /\ SubSeq(c, n + 1, L) \in Seq(0..Window)
        /\ Len(SubSeq(c, n + 1, L)) = IF n + 1 <= L THEN L - (n + 1) + 1 ELSE 0
        /\ \A i \in 1..(L - (n + 1) + 1) : SubSeq(c, n + 1, L)[i] = c[(n + 1) + i - 1]
    BY <2>1, <1>5, SubSeqProperties
  <2>3. L - (n + 1) + 1 = L - n /\ (n + 1 > L => L - n = 0)  BY <1>1
  <2>4. Len(s) = L - n
    <3>1. Len(s) = IF n + 1 <= L THEN L - n ELSE 0  BY <2>2, <2>3, <1>4
    <3>2. CASE n + 1 <= L  BY <3>1, <3>2
    <3>3. CASE ~(n + 1 <= L)
      <4>1. n = L  BY <3>3, <1>1
      <4> QED  BY <3>1, <3>3, <4>1, <1>1
    <3> QED  BY <3>2, <3>3
  <2>5. ASSUME NEW i \in 1..(L - n) PROVE s[i] = c[n + i]
    <3>1. (n + 1) + i - 1 = n + i /\ i \in 1..(L - (n + 1) + 1)  BY <1>1
    <3> QED  BY <3>1, <2>2, <1>4
  <2> QED  BY <2>2, <2>4, <2>5, <1>4
<1>7. OldestFirst(s)
  <2> SUFFICES ASSUME NEW i \in 1..(L - n), NEW j \in 1..(L - n), i < j PROVE s[i] >= s[j]
    BY <1>6 DEF OldestFirst
  <2>1. n + i \in 1..L /\ n + j \in 1..L /\ n + i < n + j  BY <1>1
  <2>2. c[n + i] >= c[n + j]  BY <2>1, <1>1 DEF OldestFirst
  <2> QED  BY <2>2, <1>6
<1> QED  BY <1>1, <1>4, <1>6, <1>7

(* A crash more, remembered with the young ones.                           *)
LEMMA CrashRemembered ==
  ASSUME CrashesShape, crashes' = Append(Young(crashes), 0)
  PROVE  crashes' \in Seq(0..Window) /\ OldestFirst(crashes') /\ Len(crashes') <= Len(crashes) + 1
<1>1. crashes \in Seq(Nat)
  <2>1. 0..Window \subseteq Nat  BY SupervisorNumbers
  <2> QED  BY <2>1, SeqMonotonic DEF CrashesShape
<1>2. PICK y \in Seq(0..Window) : y = Young(crashes) /\ OldestFirst(y) /\ Len(y) <= Len(crashes)
  BY <1>1, YoungOnes DEF CrashesShape
<1>3. 0 \in 0..Window  BY SupervisorNumbers
<1>4. PICK L \in Nat : L = Len(y) /\ \A i \in 1..L : y[i] \in 0..Window  BY LenProperties, ElementOfSeq
<1>5. /\ Append(y, 0) \in Seq(0..Window) /\ Len(Append(y, 0)) = L + 1
      /\ \A i \in 1..L : Append(y, 0)[i] = y[i]
      /\ Append(y, 0)[L + 1] = 0
  BY <1>3, <1>4, AppendProperties
<1>6. Len(crashes) \in Nat  BY <1>1, LenProperties
<1>7. OldestFirst(Append(y, 0))
  <2> SUFFICES ASSUME NEW i \in 1..(L + 1), NEW j \in 1..(L + 1), i < j
               PROVE  Append(y, 0)[i] >= Append(y, 0)[j]
    BY <1>5 DEF OldestFirst
  <2>1. i \in 1..L /\ Append(y, 0)[i] = y[i] /\ y[i] >= 0
    <3>1. i \in 1..L  BY <1>4
    <3>2. y[i] \in 0..Window  BY <3>1, <1>4
    <3> QED  BY <3>1, <3>2, <1>5, SupervisorNumbers
  <2>2. CASE j = L + 1
    <3>1. Append(y, 0)[j] = 0  BY <2>2, <1>5
    <3> QED  BY <2>1, <3>1
  <2>3. CASE j \in 1..L
    <3>1. y[i] >= y[j]  BY <2>1, <2>3, <1>2, <1>4 DEF OldestFirst
    <3>2. Append(y, 0)[j] = y[j]  BY <2>3, <1>5
    <3> QED  BY <2>1, <3>1, <3>2
  <2>4. j \in 1..L \/ j = L + 1  OBVIOUS
  <2> QED  BY <2>2, <2>3, <2>4
<1> QED  BY <1>2, <1>4, <1>5, <1>6, <1>7

(* A second more for every crash.                                          *)
LEMMA CrashesAge ==
  ASSUME CrashesShape, crashes' = Young([i \in 1..Len(crashes) |-> crashes[i] + 1])
  PROVE  crashes' \in Seq(0..Window) /\ OldestFirst(crashes') /\ Len(crashes') <= Len(crashes)
<1>1. PICK L \in Nat : L = Len(crashes) /\ \A i \in 1..L : crashes[i] \in 0..Window
  BY LenProperties, ElementOfSeq DEF CrashesShape
<1>2. PICK d : d = [i \in 1..L |-> crashes[i] + 1]  OBVIOUS
<1>3. d \in [1..L -> Nat]  BY <1>1, <1>2, SupervisorNumbers
<1>4. d \in Seq(Nat) /\ Len(d) = L  BY <1>3, ListIsSeq
<1>5. OldestFirst(d)
  <2> SUFFICES ASSUME NEW i \in 1..L, NEW j \in 1..L, i < j PROVE d[i] >= d[j]
    BY <1>4 DEF OldestFirst
  <2>1. crashes[i] >= crashes[j]  BY <1>1 DEF CrashesShape, OldestFirst
  <2> QED  BY <2>1, <1>1, <1>2, SupervisorNumbers
<1> QED  BY <1>1, <1>2, <1>4, <1>5, YoungOnes

(* The part of the shapes that telling, killing and ending a worker keep.  *)
LEMMA WorkersKept ==
  ASSUME SupervisorShapes, NEW w, NEW ws, ws \in [Worker -> WorkerState],
         \A k \in Worker : ws[k] = "unborn" <=> worker[k] = "unborn"
  PROVE  /\ ToldToExit(ws, w) \in [Worker -> WorkerState] /\ Killed(ws, w) \in [Worker -> WorkerState]
         /\ \A k \in Worker : ToldToExit(ws, w)[k] = "unborn" <=> worker[k] = "unborn"
         /\ \A k \in Worker : Killed(ws, w)[k] = "unborn" <=> worker[k] = "unborn"
         /\ \A k \in Worker : ToldToExit(ws, w)[k] = IF k = w /\ ws[k] = "running" THEN "exiting" ELSE ws[k]
         /\ \A k \in Worker : Killed(ws, w)[k] =
              IF k = w /\ ws[k] \in {"spawning", "running", "exiting", "hung"} THEN "killed" ELSE ws[k]
  BY DEF ToldToExit, Killed, WorkerState

(* A process more.                                                         *)
LEMMA WorkerStarted ==
  ASSUME SupervisorShapes, NEW ws, ws \in [Worker -> WorkerState], RoomForOne, StartWorker(ws),
         \A k \in Worker : ws[k] = "unborn" <=> worker[k] = "unborn"
  PROVE  /\ currentWorker' = currentWorker + 1 /\ currentWorker' \in Worker
         /\ worker' \in [Worker -> WorkerState] /\ worker'[currentWorker'] = "spawning"
         /\ \A k \in Worker : worker'[k] # "unborn" <=> k <= currentWorker'
         /\ \A k \in 1..currentWorker : worker'[k] = ws[k] /\ k \in Worker
<1>1. currentWorker \in 1..MaxWorker /\ MaxWorker \in Nat /\ currentWorker < MaxWorker
  BY SupervisorNumbers DEF SupervisorShapes, Worker, RoomForOne
<1>2. currentWorker' = currentWorker + 1 /\ worker' = [ws EXCEPT ![currentWorker + 1] = "spawning"]
  BY DEF StartWorker
<1>3. currentWorker + 1 \in Worker /\ \A k \in 1..currentWorker : k \in Worker /\ k # currentWorker + 1
  BY <1>1 DEF Worker
<1>4. ASSUME NEW k \in Worker PROVE worker'[k] # "unborn" <=> k <= currentWorker + 1
  <2>1. k <= currentWorker + 1 <=> (k <= currentWorker \/ k = currentWorker + 1)  BY <1>1 DEF Worker
  <2>2. worker[k] # "unborn" <=> k <= currentWorker  BY DEF SupervisorShapes
  <2>3. worker'[k] = IF k = currentWorker + 1 THEN "spawning" ELSE ws[k]  BY <1>2
  <2> QED  BY <2>1, <2>2, <2>3
<1> QED  BY <1>2, <1>3, <1>4 DEF WorkerState

(* Below the current worker nothing is alive, so whoever is alive is it.   *)
LEMMA AliveIsCurrent ==
  ASSUME SupervisorShapes, OneAtATime, NEW w \in Worker, worker[w] \notin {"unborn", "dead"}
  PROVE  w = currentWorker
<1>1. Worker \subseteq Nat /\ \A k \in Worker : k > 0  BY SupervisorNumbers DEF Worker
<1>2. currentWorker \in Worker /\ w <= currentWorker  BY DEF SupervisorShapes
<1>3. w < currentWorker => w \in 1..(currentWorker - 1)  BY <1>1, <1>2
<1> QED  BY <1>1, <1>2, <1>3 DEF OneAtATime

(* The workers made before the current one.                                *)
LEMMA EarlierWorkers ==
  ASSUME SupervisorShapes
  PROVE  currentWorker \in Nat /\ \A k \in 1..(currentWorker - 1) : k \in Worker /\ k # currentWorker
<1>1. currentWorker \in 1..MaxWorker /\ MaxWorker \in Nat  BY SupervisorNumbers DEF SupervisorShapes, Worker
<1>2. \A k \in 1..(currentWorker - 1) : k \in 1..MaxWorker /\ k # currentWorker  BY <1>1
<1> QED  BY <1>1, <1>2 DEF Worker

(* The process is there, or it cannot be started.                          *)
LEMMA SpawnKeeps ==
  ASSUME SupervisorInv, NEW w \in Worker, Spawned(w) \/ SpawnError(w)
  PROVE  SupervisorInv'
<1> USE DEF SupervisorInv
<1>1. /\ worker[w] = "spawning" /\ master = "up"
      /\ UNCHANGED <<master, currentWorker, isShuttingDown, killTimer, shutTimer, crashes, hangs, overlapped, misfired>>
  BY DEF Spawned, SpawnError, history
<1>2. /\ worker' \in [Worker -> WorkerState] /\ worker'[w] \in {"running", "dead"}
      /\ \A k \in Worker : k # w => worker'[k] = worker[k]
      /\ \A k \in Worker : worker'[k] # "unborn" <=> worker[k] # "unborn"
  BY <1>1 DEF Spawned, SpawnError, SupervisorShapes, WorkerState
<1>3. CrashesShape'  BY <1>1 DEF CrashesShape, OldestFirst
<1>4. restart' \in [Restart -> RestartRecord] /\ isRestarting' \in BOOLEAN /\ spawnFailed' \in BOOLEAN
  <2>1. CASE Spawned(w)
    BY ZenonT(60), <2>1 DEF Spawned, history, SupervisorShapes, RestartRecord, Phase, FlagReset
  <2>2. CASE SpawnError(w)
    <3>1. \A r \in Restart : [restart[r] EXCEPT !.phase = "failed"] \in RestartRecord
      BY DEF SupervisorShapes, RestartRecord, Phase
    <3> QED  BY <2>2, <3>1 DEF SpawnError, SupervisorShapes
  <2> QED  BY <2>1, <2>2
<1>5. SupervisorShapes'  BY <1>1, <1>2, <1>4 DEF SupervisorShapes
<1>6. ASSUME ~overlapped' PROVE OneAtATime'
  <2>1. OneAtATime  BY <1>1, <1>6
  <2>2. w = currentWorker  BY <1>1, <2>1, AliveIsCurrent
  <2>3. ASSUME NEW r \in Restart
        PROVE  killTimer[r] = 0 /\ (Going(r) => restart[r].phase = "starting" /\ restart[r].of = w)
    <3>1. RestartFine(r) /\ worker[currentWorker] = "spawning"  BY <1>1, <2>1, <2>2 DEF OneAtATime
    <3>2. restart[r].phase \in Phase  BY DEF SupervisorShapes, RestartRecord
    <3>3. restart[r].phase \notin {"waiting", "killing", "pause", "confirm"}  BY <3>1 DEF RestartFine
    <3> QED  BY <2>2, <3>1, <3>2, <3>3 DEF RestartFine, Going, Phase
  <2>4. ASSUME NEW r \in Restart PROVE ~Going(r)'
    <3>1. CASE SpawnError(w)
      <4>1. restart'[r] = IF restart[r].phase = "starting" /\ restart[r].of = w
                          THEN [restart[r] EXCEPT !.phase = "failed"] ELSE restart[r]
        BY <3>1 DEF SpawnError
      <4>2. [restart[r] EXCEPT !.phase = "failed"].phase = "failed"  BY DEF SupervisorShapes, RestartRecord
      <4> QED  BY <2>3, <4>1, <4>2 DEF Going
    <3>2. CASE \E q \in Restart : restart[q].phase = "starting" /\ restart[q].of = w
                                  /\ restart' = [restart EXCEPT ![q].phase = "done"]
      <4>1. PICK q \in Restart : restart[q].phase = "starting" /\ restart[q].of = w
                                 /\ restart' = [restart EXCEPT ![q].phase = "done"]
        BY <3>2
      <4>2. Going(q) /\ (Going(r) => r = q)  BY <2>1, <4>1 DEF OneAtATime, Going
      <4>3. CASE r = q
        <5>1. restart'[r].phase = "done"  BY <4>1, <4>3 DEF SupervisorShapes, RestartRecord
        <5> QED  BY <5>1 DEF Going
      <4>4. CASE r # q  BY <4>1, <4>2, <4>4 DEF Going, SupervisorShapes
      <4> QED  BY <4>3, <4>4
    <3>3. CASE (\A q \in Restart : ~(restart[q].phase = "starting" /\ restart[q].of = w)) /\ restart' = restart
      BY <2>3, <3>3 DEF Going
    <3> QED  BY <3>1, <3>2, <3>3 DEF Spawned
  <2>5. \A r \in Restart : RestartFine(r)'  BY <2>3, <2>4, <1>1 DEF RestartFine, Going
  <2>6. \A k \in 1..(currentWorker' - 1) : worker'[k] = "dead"
    <3>1. \A k \in 1..(currentWorker - 1) : k \in Worker /\ k # currentWorker
      BY EarlierWorkers
    <3> QED  BY <3>1, <2>1, <2>2, <1>1, <1>2 DEF OneAtATime
  <2> QED  BY <2>1, <2>4, <2>5, <2>6, <1>1 DEF OneAtATime
<1> QED  BY <1>3, <1>5, <1>6

(* A restart is asked for.                                                 *)
LEMMA RequestKeeps ==
  ASSUME SupervisorInv, NEW w \in Worker, NEW r \in Restart, RequestRestart(w, r)
  PROVE  SupervisorInv'
<1> USE DEF SupervisorInv
<1>1. /\ master = "up" /\ worker[w] \in {"running", "exiting"} /\ restart[r] = NoRestart
      /\ isRestarting' = TRUE /\ overlapped' = (overlapped \/ \E q \in Restart : Going(q))
      /\ worker' = ToldToExit(worker, currentWorker)
      /\ restart' = [restart EXCEPT ![r] = [phase |-> "waiting", of |-> currentWorker, left |-> Prepare]]
      /\ UNCHANGED <<master, currentWorker, isShuttingDown, killTimer, shutTimer, crashes, hangs, spawnFailed, misfired>>
  BY DEF RequestRestart
<1>2. /\ worker' \in [Worker -> WorkerState]
      /\ \A k \in Worker : worker'[k] = "unborn" <=> worker[k] = "unborn"
      /\ \A k \in Worker : worker'[k] = IF k = currentWorker /\ worker[k] = "running" THEN "exiting" ELSE worker[k]
  BY <1>1, WorkersKept DEF SupervisorShapes
<1>3. CrashesShape'  BY <1>1 DEF CrashesShape, OldestFirst
<1>4. SupervisorShapes'
  <2>1. [phase |-> "waiting", of |-> currentWorker, left |-> Prepare] \in RestartRecord
    <3>1. Prepare \in 0..(Prepare + Pause)  BY SupervisorNumbers
    <3>2. currentWorker \in Worker  BY DEF SupervisorShapes
    <3> QED  BY <3>1, <3>2 DEF RestartRecord, Phase
  <2>2. restart' \in [Restart -> RestartRecord]  BY <1>1, <2>1 DEF SupervisorShapes
  <2> QED  BY <1>1, <1>2, <2>2 DEF SupervisorShapes
<1>5. ASSUME ~overlapped' PROVE OneAtATime'
  <2>1. OneAtATime /\ \A q \in Restart : ~Going(q)  BY <1>1, <1>5
  <2>2. w = currentWorker  BY <1>1, <2>1, AliveIsCurrent
  <2>3. worker'[currentWorker] = "exiting"  BY <1>1, <1>2, <2>2
  <2>4. /\ restart'[r].phase = "waiting" /\ restart'[r].of = currentWorker
        /\ \A q \in Restart : q # r => restart'[q] = restart[q]
    BY <1>1 DEF SupervisorShapes
  <2>5. ASSUME NEW q \in Restart PROVE RestartFine(q)' /\ (Going(q)' => q = r)
    <3>1. RestartFine(q) /\ ~Going(q)  BY <1>1, <2>1 DEF OneAtATime
    <3>2. killTimer[q] = 0  BY <3>1 DEF RestartFine, Going
    <3>3. CASE q = r  BY <3>2, <3>3, <2>3, <2>4, <1>1 DEF RestartFine, Going
    <3>4. CASE q # r  BY <3>1, <3>2, <3>4, <2>4, <1>1 DEF RestartFine, Going
    <3> QED  BY <3>3, <3>4
  <2>6. \A k \in 1..(currentWorker - 1) : worker'[k] = "dead"
    BY <2>1, <1>2, EarlierWorkers DEF OneAtATime
  <2> QED  BY <2>1, <2>5, <2>6, <1>1 DEF OneAtATime
<1> QED  BY <1>3, <1>4, <1>5

(* A restart's record changes in its phase, and in one more field.         *)
LEMMA RecordChanged ==
  ASSUME NEW f \in [Restart -> RestartRecord], NEW r \in Restart, NEW p \in Phase, NEW o \in {0} \cup Worker,
         NEW n \in 0..(Prepare + Pause)
  PROVE  /\ [f EXCEPT ![r].phase = p] \in [Restart -> RestartRecord]
         /\ [f EXCEPT ![r].phase = p, ![r].left = n] \in [Restart -> RestartRecord]
         /\ [f EXCEPT ![r].phase = p, ![r].of = o] \in [Restart -> RestartRecord]
<1>1. f[r] \in RestartRecord  OBVIOUS
<1>2. [f EXCEPT ![r].phase = p] \in [Restart -> RestartRecord]
  <2>1. [f[r] EXCEPT !.phase = p] \in RestartRecord  BY <1>1 DEF RestartRecord
  <2> QED  BY <2>1
<1>3. [f EXCEPT ![r].phase = p, ![r].left = n] \in [Restart -> RestartRecord]
  <2>1. [f[r] EXCEPT !.phase = p, !.left = n] \in RestartRecord  BY <1>1 DEF RestartRecord
  <2>2. [f EXCEPT ![r].phase = p, ![r].left = n] = [f EXCEPT ![r] = [f[r] EXCEPT !.phase = p, !.left = n]]
    OBVIOUS
  <2> QED  BY <2>1, <2>2
<1>4. [f EXCEPT ![r].phase = p, ![r].of = o] \in [Restart -> RestartRecord]
  <2>1. \A g \in [Restart -> RestartRecord] : [g EXCEPT ![r].of = o] \in [Restart -> RestartRecord]
    BY DEF RestartRecord
  <2> QED  BY <2>1, <1>2
<1> QED  BY <1>2, <1>3, <1>4

(* A restart's timers: it is told again, it is killed, it is looked for    *)
(* once more.                                                              *)
LEMMA RestartTimersKeep ==
  ASSUME SupervisorInv, NEW r \in Restart, PrepareExpires(r) \/ KillTimerFires(r) \/ Confirmed(r)
  PROVE  SupervisorInv'
<1> USE DEF SupervisorInv
<1> DEFINE cw == currentWorker
<1>1. /\ master = "up" /\ UNCHANGED <<master, currentWorker, isRestarting, isShuttingDown, shutTimer, crashes, hangs,
                                      overlapped, spawnFailed>>
  BY DEF PrepareExpires, KillTimerFires, Confirmed, history
<1>2. worker' \in {worker, ToldToExit(worker, cw), Killed(worker, cw)}
  BY DEF PrepareExpires, KillTimerFires, Confirmed
<1>3. /\ worker' \in [Worker -> WorkerState]
      /\ \A k \in Worker : worker'[k] = "unborn" <=> worker[k] = "unborn"
      /\ \A k \in Worker : k # cw => worker'[k] = worker[k]
  <2>1. worker \in [Worker -> WorkerState]  BY DEF SupervisorShapes
  <2>2. CASE worker' = worker  BY <2>1, <2>2
  <2>3. CASE worker' = ToldToExit(worker, cw)  BY <2>1, <2>3, WorkersKept
  <2>4. CASE worker' = Killed(worker, cw)  BY <2>1, <2>4, WorkersKept
  <2> QED  BY <2>2, <2>3, <2>4, <1>2
<1>4. CrashesShape'  BY <1>1 DEF CrashesShape, OldestFirst
<1>5. /\ \A q \in Restart : restart[q] \in RestartRecord
      /\ \A q \in Restart, p \in Phase : [restart[q] EXCEPT !.phase = p] \in RestartRecord
      /\ \A q \in Restart, p \in Phase, n \in 0..(Prepare + Pause) :
           [restart[q] EXCEPT !.phase = p, !.left = n] \in RestartRecord
  BY DEF SupervisorShapes, RestartRecord
<1>6. 1 \in 0..(Prepare + Pause) /\ Pause \in 0..(Prepare + Pause) /\ KillAfter + 1 \in 0..(KillAfter + 1)
      /\ 0 \in 0..(KillAfter + 1) /\ KillAfter + 1 > 0
  BY SupervisorNumbers
<1>7. /\ restart' \in [Restart -> RestartRecord] /\ restart'[r].of = restart[r].of
      /\ \A q \in Restart : q # r => restart'[q] = restart[q]
  <2>1. restart \in [Restart -> RestartRecord] /\ {"killing", "confirm", "pause"} \subseteq Phase
    BY DEF SupervisorShapes, Phase
  <2>2. CASE PrepareExpires(r)
    <3>1. restart' = [restart EXCEPT ![r].phase = "killing"]  BY <2>2 DEF PrepareExpires
    <3>2. restart' \in [Restart -> RestartRecord]
      <4>1. "killing" \in Phase /\ 0 \in {0} \cup Worker  BY <2>1
      <4> QED  BY <4>1, <2>1, <3>1, <1>6, RecordChanged
    <3> QED  BY <3>1, <3>2, <2>1 DEF RestartRecord
  <2>3. CASE KillTimerFires(r)
    <3>1. restart' = restart \/ restart' = [restart EXCEPT ![r].phase = "confirm", ![r].left = 1]
      BY <2>3 DEF KillTimerFires
    <3>2. restart' \in [Restart -> RestartRecord]
      <4>1. "confirm" \in Phase /\ 0 \in {0} \cup Worker  BY <2>1
      <4>2. [restart EXCEPT ![r].phase = "confirm", ![r].left = 1] \in [Restart -> RestartRecord]
        BY <4>1, <2>1, <1>6, RecordChanged
      <4> QED  BY <4>2, <2>1, <3>1
    <3> QED  BY <3>1, <3>2, <2>1 DEF RestartRecord
  <2>4. CASE Confirmed(r)
    <3>1. restart' = [restart EXCEPT ![r].phase = "pause", ![r].left = Pause]  BY <2>4 DEF Confirmed
    <3>2. restart' \in [Restart -> RestartRecord]
      <4>1. "pause" \in Phase /\ 0 \in {0} \cup Worker  BY <2>1
      <4> QED  BY <4>1, <2>1, <3>1, <1>6, RecordChanged
    <3> QED  BY <3>1, <3>2, <2>1 DEF RestartRecord
  <2> QED  BY <2>2, <2>3, <2>4
<1>8. /\ restart' \in [Restart -> RestartRecord] /\ killTimer' \in [Restart -> 0..(KillAfter + 1)]
      /\ misfired' \in BOOLEAN
      /\ \A q \in Restart : q # r => restart'[q] = restart[q] /\ killTimer'[q] = killTimer[q]
      /\ restart'[r].of = restart[r].of
  <2>1. \E n \in 0..(KillAfter + 1) : killTimer' = [killTimer EXCEPT ![r] = n]
    <3>1. killTimer = [killTimer EXCEPT ![r] = killTimer[r]] /\ killTimer[r] \in 0..(KillAfter + 1)
      BY DEF SupervisorShapes
    <3> QED  BY <3>1, <1>6 DEF PrepareExpires, KillTimerFires, Confirmed
  <2>2. misfired' \in BOOLEAN  BY DEF PrepareExpires, KillTimerFires, Confirmed, history, SupervisorShapes
  <2>3. killTimer \in [Restart -> 0..(KillAfter + 1)]  BY DEF SupervisorShapes
  <2> QED  BY <1>7, <2>1, <2>2, <2>3
<1>9. SupervisorShapes'  BY <1>1, <1>3, <1>8 DEF SupervisorShapes
<1>10. ASSUME ~overlapped' PROVE OneAtATime'
  <2>1. OneAtATime /\ RestartFine(r) /\ cw \in Worker
    BY <1>1, <1>10 DEF OneAtATime, SupervisorShapes
  <2>2. Going(r)
    <3>1. killTimer[r] = 1 => restart[r].phase \in {"killing", "pause"}  BY <2>1 DEF RestartFine
    <3> QED  BY <3>1 DEF PrepareExpires, KillTimerFires, Confirmed, Going
  <2>3. restart[r].of = cw  BY <2>1, <2>2 DEF RestartFine
  <2>4. RestartFine(r)' /\ ~misfired'
    <3>1. CASE PrepareExpires(r)
      <4>1. worker[cw] \in {"exiting", "hung"} /\ restart[r].phase = "waiting"
        BY <3>1, <2>1 DEF PrepareExpires, RestartFine
      <4>2. worker'[cw] = worker[cw]
        BY <3>1, <4>1, <2>1, WorkersKept DEF PrepareExpires, SupervisorShapes
      <4>3. restart'[r].phase = "killing" /\ killTimer'[r] = KillAfter + 1 /\ misfired' = misfired
        BY <3>1 DEF PrepareExpires, SupervisorShapes, RestartRecord, history
      <4> QED  BY <4>1, <4>2, <4>3, <2>1, <2>3, <1>1, <1>6, <1>8 DEF RestartFine, Going, OneAtATime
    <3>2. CASE KillTimerFires(r)
      <4>1. killTimer[r] = 1 /\ killTimer'[r] = 0  BY <3>2 DEF KillTimerFires, SupervisorShapes
      <4>2. ~misfired'  BY <3>2, <2>1, <2>3 DEF KillTimerFires, OneAtATime
      <4>3. CASE restart[r].phase = "killing"
        <5>1. worker[cw] \in {"exiting", "hung"}  BY <4>3, <2>1 DEF RestartFine
        <5>2. worker'[cw] = "killed"
          BY <3>2, <5>1, <2>1, WorkersKept DEF KillTimerFires, SupervisorShapes
        <5>3. restart'[r].phase = "confirm" /\ restart'[r].left = 1
          BY <3>2, <4>3 DEF KillTimerFires, SupervisorShapes, RestartRecord
        <5> QED  BY <4>1, <4>2, <5>2, <5>3, <2>3, <1>1, <1>8 DEF RestartFine, Going
      <4>4. CASE restart[r].phase = "pause"
        <5>1. worker[cw] = "dead" /\ restart' = restart  BY <3>2, <4>4, <2>1 DEF RestartFine, KillTimerFires
        <5>2. worker'[cw] = "dead"
          BY <3>2, <5>1, <2>1, WorkersKept DEF KillTimerFires, SupervisorShapes
        <5>3. restart[r].left >= 0
          <6>1. restart[r].left \in 0..(Prepare + Pause)  BY <1>5 DEF RestartRecord
          <6> QED  BY <6>1, SupervisorNumbers
        <5> QED  BY <4>1, <4>2, <4>4, <5>1, <5>2, <5>3, <2>3, <1>1, <1>8 DEF RestartFine, Going
      <4>5. restart[r].phase \in {"killing", "pause"}  BY <4>1, <2>1 DEF RestartFine
      <4> QED  BY <4>3, <4>4, <4>5
    <3>3. CASE Confirmed(r)
      <4>1. /\ restart[r].phase = "confirm" /\ restart[r].left = 0 /\ worker' = worker /\ killTimer' = killTimer
            /\ restart'[r].phase = "pause" /\ restart'[r].left = Pause /\ misfired' = misfired
        BY <3>3 DEF Confirmed, SupervisorShapes, RestartRecord, history
      <4>2. worker[cw] = "dead" /\ killTimer[r] = 0  BY <4>1, <2>1 DEF RestartFine
      <4>3. 0 <= Pause  BY SupervisorNumbers
      <4> QED  BY <4>1, <4>2, <4>3, <2>1, <2>3, <1>1, <1>8 DEF RestartFine, Going, OneAtATime
    <3> QED  BY <3>1, <3>2, <3>3
  <2>5. ASSUME NEW q \in Restart, q # r PROVE RestartFine(q)' /\ ~Going(q)'
    <3>1. ~Going(q) /\ RestartFine(q)  BY <2>1, <2>2, <2>5, <1>1 DEF OneAtATime
    <3>2. restart'[q] = restart[q] /\ killTimer'[q] = killTimer[q]  BY <2>5, <1>8
    <3>3. killTimer[q] = 0  BY <3>1 DEF RestartFine, Going
    <3> QED  BY <3>1, <3>2, <3>3, <1>1 DEF RestartFine, Going
  <2>6. \A k \in 1..(cw - 1) : worker'[k] = "dead"
    BY <2>1, <1>3, EarlierWorkers DEF OneAtATime
  <2>7. isRestarting  BY <2>1, <2>2 DEF OneAtATime
  <2> QED  BY <2>1, <2>4, <2>5, <2>6, <2>7, <1>1 DEF OneAtATime
<1> QED  BY <1>4, <1>9, <1>10

(* After the pause the next worker is started.                             *)
LEMMA StartNextKeeps ==
  ASSUME SupervisorInv, NEW r \in Restart, StartNext(r)
  PROVE  SupervisorInv'
<1> USE DEF SupervisorInv
<1>1. /\ master = "up" /\ restart[r].phase = "pause" /\ restart[r].left = 0 /\ RoomForOne /\ StartWorker(worker)
      /\ restart' = [restart EXCEPT ![r].phase = "starting", ![r].of = currentWorker + 1]
      /\ UNCHANGED <<master, isRestarting, isShuttingDown, killTimer, shutTimer, crashes, hangs, overlapped,
                     spawnFailed, misfired>>
  BY DEF StartNext, history
<1>2. /\ currentWorker' = currentWorker + 1 /\ currentWorker' \in Worker
      /\ worker' \in [Worker -> WorkerState] /\ worker'[currentWorker'] = "spawning"
      /\ \A k \in Worker : worker'[k] # "unborn" <=> k <= currentWorker'
      /\ \A k \in 1..currentWorker : worker'[k] = worker[k] /\ k \in Worker
  BY <1>1, WorkerStarted DEF SupervisorShapes
<1>3. CrashesShape'  BY <1>1 DEF CrashesShape, OldestFirst
<1>4. /\ restart' \in [Restart -> RestartRecord]
      /\ restart'[r].phase = "starting" /\ restart'[r].of = currentWorker' /\ \A q \in Restart : q # r => restart'[q] = restart[q]
  <2>1. restart \in [Restart -> RestartRecord] /\ restart[r].left \in 0..(Prepare + Pause)
    BY DEF SupervisorShapes, RestartRecord
  <2>2. restart' = [restart EXCEPT ![r].phase = "starting", ![r].of = currentWorker']  BY <1>1, <1>2
  <2>3. "starting" \in Phase /\ currentWorker' \in {0} \cup Worker  BY <1>2 DEF Phase
  <2>4. restart' \in [Restart -> RestartRecord]  BY <2>1, <2>2, <2>3, RecordChanged
  <2> QED  BY <2>1, <2>2, <2>4 DEF RestartRecord
<1>5. SupervisorShapes'  BY <1>1, <1>2, <1>4 DEF SupervisorShapes
<1>6. ASSUME ~overlapped' PROVE OneAtATime'
  <2>1. OneAtATime /\ RestartFine(r) /\ Going(r)  BY <1>1, <1>6 DEF OneAtATime, Going
  <2>2. worker[currentWorker] = "dead" /\ killTimer[r] = 0
    <3>1. killTimer[r] <= 0 /\ killTimer[r] \in 0..(KillAfter + 1)  BY <1>1, <2>1 DEF RestartFine, SupervisorShapes
    <3>2. killTimer[r] = 0  BY <3>1, SupervisorNumbers
    <3> QED  BY <3>2, <1>1, <2>1 DEF RestartFine
  <2>3. RestartFine(r)'  BY <2>2, <1>1, <1>2, <1>4 DEF RestartFine, Going
  <2>4. ASSUME NEW q \in Restart, q # r PROVE RestartFine(q)' /\ ~Going(q)'
    <3>1. ~Going(q) /\ RestartFine(q)  BY <2>1, <2>4, <1>1 DEF OneAtATime
    <3>2. killTimer[q] = 0  BY <3>1 DEF RestartFine, Going
    <3> QED  BY <3>1, <3>2, <1>1, <1>4, <2>4 DEF RestartFine, Going
  <2>5. \A k \in 1..(currentWorker' - 1) : worker'[k] = "dead"
    <3>1. currentWorker \in Nat /\ (currentWorker + 1) - 1 = currentWorker  BY EarlierWorkers
    <3>2. \A k \in 1..currentWorker : k = currentWorker \/ k \in 1..(currentWorker - 1)  BY <3>1
    <3>3. \A k \in 1..currentWorker : worker[k] = "dead"  BY <2>1, <2>2, <3>2 DEF OneAtATime
    <3> QED  BY <3>1, <3>3, <1>2
  <2>6. isRestarting  BY <2>1 DEF OneAtATime
  <2> QED  BY <2>1, <2>3, <2>4, <2>5, <2>6, <1>1 DEF OneAtATime
<1> QED  BY <1>3, <1>5, <1>6

(* A worker ends.                                                          *)
LEMMA ExitKeeps ==
  ASSUME SupervisorInv, NEW w \in Worker, Exit(w)
  PROVE  SupervisorInv'
<1> USE DEF SupervisorInv
<1> DEFINE gone == [worker EXCEPT ![w] = "dead"]
<1>1. /\ master = "up" /\ worker[w] \in {"running", "exiting", "hung", "killed"}
      /\ restart' = [r \in Restart |-> IF Waits(r, w) THEN [restart[r] EXCEPT !.phase = "pause", !.left = Pause]
                                                    ELSE restart[r]]
      /\ UNCHANGED <<isRestarting, isShuttingDown, killTimer, shutTimer, hangs, overlapped, spawnFailed, misfired>>
  BY DEF Exit, AfterExit, history
<1>2. \/ Expected /\ worker' = gone /\ UNCHANGED <<master, currentWorker, crashes>>
      \/ /\ ~Expected /\ crashes' = Append(Young(crashes), 0) /\ Len(crashes') >= MaxCrashes
         /\ master' = "given up" /\ worker' = gone /\ UNCHANGED currentWorker
      \/ /\ ~Expected /\ crashes' = Append(Young(crashes), 0) /\ Len(crashes') < MaxCrashes
         /\ RoomForOne /\ StartWorker(gone) /\ UNCHANGED master
  BY DEF Exit
<1>3. /\ gone \in [Worker -> WorkerState] /\ gone[w] = "dead"
      /\ \A k \in Worker : gone[k] = "unborn" <=> worker[k] = "unborn"
      /\ \A k \in Worker : k # w => gone[k] = worker[k]
  BY <1>1 DEF SupervisorShapes, WorkerState
<1>4. CrashesShape'
  <2>1. CASE Expected  BY <2>1, <1>2 DEF CrashesShape, OldestFirst
  <2>2. CASE ~Expected
    <3>1. /\ crashes' \in Seq(0..Window) /\ OldestFirst(crashes') /\ Len(crashes') <= Len(crashes) + 1
      BY <2>2, <1>2, CrashRemembered
    <3>2. Len(crashes) \in Nat /\ Len(crashes') \in Nat  BY <3>1, LenProperties DEF CrashesShape
    <3>3. Len(crashes) < MaxCrashes  BY <1>1 DEF CrashesShape
    <3>4. Len(crashes') <= MaxCrashes  BY <3>1, <3>2, <3>3, SupervisorNumbers
    <3>5. master' = "up" => Len(crashes') < MaxCrashes  BY <2>2, <1>2
    <3>6. OldestFirst(crashes)'  BY <3>1 DEF OldestFirst
    <3> QED  BY <3>1, <3>4, <3>5, <3>6 DEF CrashesShape
  <2> QED  BY <2>1, <2>2
<1>5. restart' \in [Restart -> RestartRecord]
  <2>1. \A r \in Restart : restart[r] \in RestartRecord /\ [restart[r] EXCEPT !.phase = "pause", !.left = Pause] \in RestartRecord
    <3>1. Pause \in 0..(Prepare + Pause)  BY SupervisorNumbers
    <3> QED  BY <3>1 DEF SupervisorShapes, RestartRecord, Phase
  <2> QED  BY <2>1, <1>1
<1>6. \/ /\ worker' = gone /\ currentWorker' = currentWorker
      \/ /\ ~Expected /\ master' = "up" /\ currentWorker' = currentWorker + 1 /\ currentWorker' \in Worker
         /\ worker' \in [Worker -> WorkerState] /\ worker'[currentWorker'] = "spawning"
         /\ \A k \in Worker : worker'[k] # "unborn" <=> k <= currentWorker'
         /\ \A k \in 1..currentWorker : worker'[k] = gone[k] /\ k \in Worker
  <2>1. CASE RoomForOne /\ StartWorker(gone) /\ ~Expected /\ UNCHANGED master
    BY <2>1, <1>1, <1>3, WorkerStarted
  <2> QED  BY <2>1, <1>2
<1>7. SupervisorShapes'
  <2>1. worker' \in [Worker -> WorkerState] /\ currentWorker' \in Worker
        /\ \A k \in Worker : worker'[k] # "unborn" <=> k <= currentWorker'
    <3>1. currentWorker \in Worker /\ \A k \in Worker : worker[k] # "unborn" <=> k <= currentWorker
      BY DEF SupervisorShapes
    <3> QED  BY <3>1, <1>3, <1>6
  <2>2. master' \in {"up", "closed", "given up"}  BY <1>1, <1>2
  <2> QED  BY <2>1, <2>2, <1>1, <1>5 DEF SupervisorShapes
<1>8. ASSUME ~overlapped' PROVE OneAtATime'
  <2>1. OneAtATime  BY <1>1, <1>8
  <2>2. w = currentWorker  BY <1>1, <2>1, AliveIsCurrent
  <2>3. \A k \in 1..(currentWorker - 1) : k \in Worker /\ gone[k] = "dead"
    BY <2>1, <2>2, <1>3, EarlierWorkers DEF OneAtATime
  <2>4. CASE worker' = gone /\ currentWorker' = currentWorker
    <3>1. worker'[currentWorker'] = "dead"  BY <2>4, <2>2, <1>3
    <3>2. ASSUME NEW r \in Restart PROVE RestartFine(r)' /\ (Going(r)' => Going(r))
      <4>1. RestartFine(r)  BY <1>1, <2>1 DEF OneAtATime
      <4>2. CASE Waits(r, w)
        <5>1. restart'[r].phase = "pause" /\ restart'[r].left = Pause /\ restart'[r].of = w
          BY <4>2, <1>1 DEF Waits, SupervisorShapes, RestartRecord
        <5>2. killTimer'[r] <= Pause
          <6>1. killTimer'[r] \in 0..(KillAfter + 1)  BY <1>1 DEF SupervisorShapes
          <6>2. \A n \in 0..(KillAfter + 1) : n <= Pause  BY SupervisorNumbers
          <6> QED  BY <6>1, <6>2
        <5>3. Going(r)  BY <4>2 DEF Waits, Going
        <5> QED  BY <5>1, <5>2, <5>3, <3>1, <2>2, <2>4 DEF RestartFine
      <4>3. CASE ~Waits(r, w)
        <5>1. restart'[r] = restart[r] /\ killTimer'[r] = killTimer[r]  BY <4>3, <1>1
        <5>2. restart[r].phase \notin {"waiting", "killing", "pause", "starting"}
          BY <4>1, <4>3, <2>2, <1>1 DEF RestartFine, Waits, Going
        <5> QED  BY <5>1, <5>2, <4>1, <3>1, <2>4 DEF RestartFine, Going
      <4> QED  BY <4>2, <4>3
    <3>3. \A k \in 1..(currentWorker' - 1) : worker'[k] = "dead"  BY <2>3, <2>4
    <3> QED  BY <3>1, <3>2, <3>3, <2>1, <1>1 DEF OneAtATime
  <2>5. CASE /\ ~Expected /\ master' = "up" /\ currentWorker' = currentWorker + 1
             /\ \A k \in 1..currentWorker : worker'[k] = gone[k]
    <3>1. \A r \in Restart : ~Going(r) /\ RestartFine(r)  BY <2>1, <2>5, <1>1 DEF OneAtATime, Expected
    <3>2. ASSUME NEW r \in Restart PROVE RestartFine(r)' /\ ~Going(r)'
      <4>1. ~Waits(r, w)  BY <3>1 DEF Waits, Going
      <4>2. restart'[r] = restart[r] /\ killTimer'[r] = killTimer[r]  BY <4>1, <1>1
      <4>3. killTimer[r] = 0  BY <3>1 DEF RestartFine, Going
      <4> QED  BY <3>1, <4>2, <4>3 DEF RestartFine, Going
    <3>3. \A k \in 1..(currentWorker' - 1) : worker'[k] = "dead"
      <4>1. currentWorker \in Nat /\ (currentWorker + 1) - 1 = currentWorker  BY EarlierWorkers
      <4>2. \A k \in 1..currentWorker : k = currentWorker \/ k \in 1..(currentWorker - 1)  BY <4>1
      <4>3. \A k \in 1..currentWorker : gone[k] = "dead"  BY <4>2, <2>2, <2>3, <1>3
      <4> QED  BY <4>1, <4>3, <2>5
    <3> QED  BY <3>2, <3>3, <2>1, <2>5, <1>1 DEF OneAtATime
  <2> QED  BY <2>4, <2>5, <1>6
<1> QED  BY <1>4, <1>7, <1>8

(* The master is told to end, and ends.                                    *)
LEMMA ShutdownKeeps ==
  ASSUME SupervisorInv, Shutdown \/ ShutTimerFires
  PROVE  SupervisorInv'
<1> USE DEF SupervisorInv
<1>1. /\ master = "up" /\ isShuttingDown' \in BOOLEAN /\ shutTimer' \in 0..2
      /\ UNCHANGED <<currentWorker, isRestarting, restart, killTimer, crashes, hangs, overlapped, spawnFailed, misfired>>
  <2>1. CASE Shutdown  BY <2>1 DEF Shutdown, history
  <2>2. CASE ShutTimerFires  BY <2>2 DEF ShutTimerFires, history, SupervisorShapes
  <2> QED  BY <2>1, <2>2
<1>2. \/ worker' = ToldToExit(worker, currentWorker) /\ master' = "up"
      \/ worker' = Killed(worker, currentWorker) /\ master' = "closed"
  BY DEF Shutdown, ShutTimerFires, KilledAtEnd
<1>3. /\ worker' \in [Worker -> WorkerState]
      /\ \A k \in Worker : worker'[k] = "unborn" <=> worker[k] = "unborn"
      /\ \A k \in Worker : k # currentWorker => worker'[k] = worker[k]
  <2>1. worker \in [Worker -> WorkerState]  BY DEF SupervisorShapes
  <2>2. CASE worker' = ToldToExit(worker, currentWorker)  BY <2>1, <2>2, WorkersKept
  <2>3. CASE worker' = Killed(worker, currentWorker)  BY <2>1, <2>3, WorkersKept
  <2> QED  BY <2>2, <2>3, <1>2
<1>4. CrashesShape'  BY <1>1 DEF CrashesShape, OldestFirst
<1>5. SupervisorShapes'  BY <1>1, <1>2, <1>3 DEF SupervisorShapes
<1>6. ASSUME ~overlapped' PROVE OneAtATime'
  <2>1. OneAtATime /\ currentWorker \in Worker /\ worker \in [Worker -> WorkerState]
    BY <1>1, <1>6 DEF SupervisorShapes
  <2>2. \A k \in 1..(currentWorker - 1) : worker'[k] = "dead"
    BY <2>1, <1>3, EarlierWorkers DEF OneAtATime
  <2>3. ASSUME master' = "up", NEW r \in Restart PROVE RestartFine(r)'
    <3>1. RestartFine(r)  BY <1>1, <2>1 DEF OneAtATime
    <3>2. worker[currentWorker] # "running" => worker'[currentWorker] = worker[currentWorker]
      BY <2>3, <2>1, <1>2, WorkersKept
    <3> QED  BY <3>1, <3>2, <1>1 DEF RestartFine, Going
  <2>4. ASSUME master' # "up" PROVE worker'[currentWorker'] \in {"dead", "killed"}
    <3>1. worker[currentWorker] \in WorkerState \ {"unborn"}
      <4>1. currentWorker <= currentWorker  BY EarlierWorkers
      <4> QED  BY <2>1, <4>1 DEF SupervisorShapes
    <3>2. worker'[currentWorker] = IF worker[currentWorker] \in {"spawning", "running", "exiting", "hung"}
                                   THEN "killed" ELSE worker[currentWorker]
      BY <2>4, <2>1, <1>2, WorkersKept
    <3> QED  BY <3>1, <3>2, <1>1 DEF WorkerState
  <2>5. \A r \in Restart : Going(r)' <=> Going(r)  BY <1>1 DEF Going
  <2> QED  BY <2>1, <2>2, <2>3, <2>4, <2>5, <1>1 DEF OneAtATime
<1> QED  BY <1>4, <1>5, <1>6

(* A second passes.                                                        *)
LEMMA TickKeeps ==
  ASSUME SupervisorInv, Tick
  PROVE  SupervisorInv'
<1> USE DEF SupervisorInv
<1>1. /\ master = "up" /\ ~Due
      /\ restart' = [r \in Restart |-> [restart[r] EXCEPT !.left = Down(restart[r].left)]]
      /\ killTimer' = [r \in Restart |-> Down(killTimer[r])] /\ shutTimer' = Down(shutTimer)
      /\ crashes' = Young([i \in 1..Len(crashes) |-> crashes[i] + 1])
      /\ worker' = [w \in Worker |-> IF worker[w] = "exiting" THEN "hung" ELSE worker[w]]
      /\ hangs' = hangs + Cardinality({w \in Worker : worker[w] = "exiting"}) /\ hangs' <= MaxHang
      /\ UNCHANGED <<master, currentWorker, isRestarting, isShuttingDown, overlapped, spawnFailed, misfired>>
  BY DEF Tick, history
<1>2. CrashesShape'
  <2>1. crashes' \in Seq(0..Window) /\ OldestFirst(crashes') /\ Len(crashes') <= Len(crashes)  BY <1>1, CrashesAge
  <2>2. Len(crashes) \in Nat /\ Len(crashes') \in Nat  BY <2>1, LenProperties DEF CrashesShape
  <2>3. Len(crashes) <= MaxCrashes /\ Len(crashes) < MaxCrashes  BY <1>1 DEF CrashesShape
  <2>4. Len(crashes') <= MaxCrashes /\ Len(crashes') < MaxCrashes  BY <2>1, <2>2, <2>3, SupervisorNumbers
  <2>5. OldestFirst(crashes)'  BY <2>1 DEF OldestFirst
  <2> QED  BY <2>1, <2>4, <2>5 DEF CrashesShape
<1>3. ASSUME NEW r \in Restart
      PROVE  /\ restart'[r] \in RestartRecord /\ restart'[r].phase = restart[r].phase /\ restart'[r].of = restart[r].of
             /\ restart'[r].left = Down(restart[r].left)
  <2>1. restart[r] \in RestartRecord  BY DEF SupervisorShapes
  <2>2. \A n \in 0..(Prepare + Pause) : Down(n) \in 0..(Prepare + Pause)  BY SupervisorNumbers DEF Down
  <2>3. Down(restart[r].left) \in 0..(Prepare + Pause)  BY <2>1, <2>2 DEF RestartRecord
  <2>4. restart'[r] = [restart[r] EXCEPT !.left = Down(restart[r].left)]  BY <1>1
  <2> QED  BY <2>1, <2>3, <2>4 DEF RestartRecord
<1>4. SupervisorShapes'
  <2>1. killTimer' \in [Restart -> 0..(KillAfter + 1)]
    <3>1. \A n \in 0..(KillAfter + 1) : Down(n) \in 0..(KillAfter + 1)  BY SupervisorNumbers DEF Down
    <3>2. \A r \in Restart : killTimer[r] \in 0..(KillAfter + 1)  BY DEF SupervisorShapes
    <3> QED  BY <3>1, <3>2, <1>1
  <2>2. shutTimer' \in 0..2  BY <1>1 DEF Down, SupervisorShapes
  <2>3. restart' \in [Restart -> RestartRecord]
    <3>1. restart' = [r \in Restart |-> restart'[r]]  BY <1>1
    <3> QED  BY <3>1, <1>3
  <2>4. worker' \in [Worker -> WorkerState] /\ \A w \in Worker : worker'[w] # "unborn" <=> w <= currentWorker'
    BY <1>1 DEF SupervisorShapes, WorkerState
  <2>5. hangs' \in 0..MaxHang
    <3>1. 1 \in Int /\ MaxWorker \in Int  BY SupervisorNumbers
    <3>2. IsFiniteSet(Worker)  BY <3>1, FS_Interval DEF Worker
    <3>3. IsFiniteSet({w \in Worker : worker[w] = "exiting"})  BY <3>2, FS_Subset
    <3>4. Cardinality({w \in Worker : worker[w] = "exiting"}) \in Nat  BY <3>3, FS_CardinalityType
    <3>5. hangs \in 0..MaxHang  BY DEF SupervisorShapes
    <3> QED  BY <3>4, <3>5, <1>1, SupervisorNumbers
  <2> QED  BY <2>1, <2>2, <2>3, <2>4, <2>5, <1>1 DEF SupervisorShapes
<1>5. ASSUME ~overlapped' PROVE OneAtATime'
  <2>1. OneAtATime /\ currentWorker \in Worker  BY <1>1, <1>5 DEF SupervisorShapes
  <2>2. worker'[currentWorker] = IF worker[currentWorker] = "exiting" THEN "hung" ELSE worker[currentWorker]
    BY <1>1, <2>1
  <2>3. worker[currentWorker] \notin {"killed", "spawning"}  BY <1>1, <2>1 DEF Due
  <2>4. ASSUME NEW r \in Restart PROVE RestartFine(r)' /\ (Going(r)' <=> Going(r))
    <3>1. RestartFine(r)  BY <1>1, <2>1 DEF OneAtATime
    <3>2. /\ killTimer[r] \in Nat /\ restart[r].left \in Nat
      <4>1. killTimer[r] \in 0..(KillAfter + 1) /\ restart[r] \in RestartRecord  BY DEF SupervisorShapes
      <4>2. restart[r].left \in 0..(Prepare + Pause)  BY <4>1 DEF RestartRecord
      <4> QED  BY <4>1, <4>2, SupervisorNumbers
    <3>3. killTimer'[r] = Down(killTimer[r])  BY <1>1
    <3>4. killTimer[r] # 1 /\ (restart[r].phase \in {"waiting", "confirm", "pause"} => restart[r].left # 0)
      BY <1>1 DEF Due
    <3>5. restart'[r].phase \notin {"killing", "pause"} => killTimer'[r] = 0
      BY <3>1, <3>3, <1>3 DEF RestartFine, Down
    <3>6. restart'[r].phase = "killing" => killTimer'[r] > 0
      BY <3>1, <3>2, <3>3, <3>4, <1>3 DEF RestartFine, Down
    <3>7. restart'[r].phase = "pause" => killTimer'[r] <= restart'[r].left
      BY <3>1, <3>2, <3>3, <3>4, <1>3 DEF RestartFine, Down
    <3> QED  BY <3>1, <3>5, <3>6, <3>7, <2>2, <2>3, <1>1, <1>3 DEF RestartFine, Going
  <2>5. \A k \in 1..(currentWorker - 1) : worker'[k] = "dead"
    BY <2>1, <1>1, EarlierWorkers DEF OneAtATime
  <2> QED  BY <2>1, <2>4, <2>5, <1>1 DEF OneAtATime
<1> QED  BY <1>2, <1>4, <1>5

(* Every step keeps the invariant.                                         *)
LEMMA SupervisorSteps == SupervisorInv /\ [SupervisorNext]_supvars => SupervisorInv'
<1> SUFFICES ASSUME SupervisorInv, [SupervisorNext]_supvars PROVE SupervisorInv'
  OBVIOUS
<1>1. CASE \E w \in Worker : Spawned(w) \/ SpawnError(w)  BY <1>1, SpawnKeeps
<1>2. CASE \E w \in Worker : Exit(w)  BY <1>2, ExitKeeps
<1>3. CASE \E w \in Worker, r \in Restart : RequestRestart(w, r)  BY <1>3, RequestKeeps
<1>4. CASE \E r \in Restart : PrepareExpires(r) \/ KillTimerFires(r) \/ Confirmed(r)  BY <1>4, RestartTimersKeep
<1>5. CASE \E r \in Restart : StartNext(r)  BY <1>5, StartNextKeeps
<1>6. CASE Shutdown \/ ShutTimerFires  BY <1>6, ShutdownKeeps
<1>7. CASE Tick  BY <1>7, TickKeeps
<1>8. CASE UNCHANGED supvars
  BY <1>8 DEF supvars, SupervisorInv, SupervisorShapes, CrashesShape, OldestFirst, OneAtATime, RestartFine, Going
<1> QED  BY <1>1, <1>2, <1>3, <1>4, <1>5, <1>6, <1>7, <1>8 DEF SupervisorNext

(* While restarts do not overlap, the master never has two workers alive,  *)
(* the kill timer of a restart (which nothing cancels) never hits the      *)
(* worker started after it, and a master that ends leaves none behind.     *)
THEOREM OneWorkerAtATime == SupervisorSpec => []SupervisorSafe
<1>1. SupervisorInit => SupervisorInv  BY SupervisorStarts
<1>2. SupervisorInv /\ [SupervisorNext]_supvars => SupervisorInv'  BY SupervisorSteps
<1>3. SupervisorInv => SupervisorSafe  BY SupervisorInvIsSafe
<1> QED  BY <1>1, <1>2, <1>3, PTL DEF SupervisorSpec

----------------------------------------------------------------------------
(* Nobody goes by speeds of the mirrors older than the TTL, and a download *)
(* is given up only after every address was tried, for any number of       *)
(* mirrors, calls and tests.                                               *)

CallPhase == {"idle", "testing", "asking", "done", "failed"}
CallRecord == [kind : {None, "tags", "download"}, phase : CallPhase, from : Lists \cup {<<>>},
               failed : SUBSET (Mirror \cup {Original}), measured : 0..MaxTime, began : 0..MaxTime]
FastRecord == [mirrors : Lists, at : 0..MaxTime, measured : 0..MaxTime]

(* The speeds that are kept are as old as they claim, and a test under way *)
(* began no longer ago than a test takes.                                  *)
Stamps ==
  /\ now \in 0..MaxTime /\ testing \in {None} \cup 0..MaxTime /\ tags \in {None} \cup 0..MaxTime
  /\ fast \in {None} \cup FastRecord
  /\ fast # None => fast.at = fast.measured
  /\ testing # None => testing <= now /\ now <= testing + TestTime

(* A call that waits for a test waits for one that began recently enough,  *)
(* and a download has asked exactly those before the one it asks.          *)
CallFine(r) ==
  /\ r.phase = "testing" => testing # None /\ testing > r.began - TTL /\ r.failed = {}
  /\ r.phase = "asking" => r.measured > r.began - TTL
  /\ r.kind = "download" =>
       /\ r.failed \subseteq {Original} \cup Members(r.from)
       /\ r.phase = "failed" => NoneLeft(r, r.failed)
       /\ \A i \in DOMAIN r.from : r.from[i] \in r.failed => \A j \in 1..i : r.from[j] \in r.failed

MirrorInv == Stamps /\ call \in [Call -> CallRecord] /\ \A c \in Call : CallFine(call[c])

(* The clock's bounds are numbers, and None is not one.                    *)
LEMMA MirrorNumbers == TTL \in Nat /\ TestTime \in Nat /\ TestTime < TTL /\ MaxTime \in Nat /\ None \notin 0..MaxTime
  BY MirrorAssumption

(* A list names no mirror twice, and the original only alone.              *)
LEMMA ListsAre ==
  ASSUME NEW s \in Lists \cup {<<>>}
  PROVE  /\ Members(s) \subseteq Mirror \cup {Original}
         /\ \A i, j \in DOMAIN s : s[i] = s[j] => i = j
         /\ \A i \in DOMAIN s : i \in Nat /\ i > 0
         /\ \A i \in DOMAIN s : s[i] = Original => \A j \in DOMAIN s : j = i
<1>1. CASE s \in Orders(Mirror)
  <2>1. PICK n \in Nat : s \in [1..n -> Mirror] /\ \A i, j \in DOMAIN s : s[i] = s[j] => i = j
    <3>1. PICK n \in 1..Cardinality(Mirror) : s \in [1..n -> Mirror]  BY <1>1 DEF Orders
    <3>2. \A i, j \in DOMAIN s : s[i] = s[j] => i = j  BY <1>1 DEF Orders
    <3>3. n \in Nat  OBVIOUS
    <3> QED  BY <3>1, <3>2, <3>3
  <2>2. \A i \in DOMAIN s : i \in Nat /\ i > 0 /\ s[i] \in Mirror  BY <2>1
  <2> QED  BY <2>1, <2>2, MirrorAssumption DEF Members
<1>2. CASE s = <<Original>>
  <2>1. DOMAIN s = {1} /\ s[1] = Original  BY <1>2
  <2> QED  BY <2>1 DEF Members
<1>3. CASE s = <<>>
  <2>1. DOMAIN s = {}  BY <1>3
  <2> QED  BY <2>1 DEF Members
<1> QED  BY <1>1, <1>2, <1>3 DEF Lists

(* The invariant is enough for the properties.                             *)
LEMMA MirrorInvIsSafe == MirrorInv => MirrorSafe
<1> SUFFICES ASSUME MirrorInv PROVE MirrorSafe
  OBVIOUS
<1>1. MirrorTypeOK  BY DEF MirrorInv, Stamps, MirrorTypeOK, CallRecord, CallPhase, FastRecord
<1>2. WaitersHaveATest /\ SpeedsAreRecent  BY DEF MirrorInv, CallFine, WaitersHaveATest, SpeedsAreRecent
<1>3. DownloadTriesAll  BY DEF MirrorInv, CallFine, DownloadTriesAll, NoneLeft
<1> QED  BY <1>1, <1>2, <1>3 DEF MirrorSafe

(* Nobody calls, and nothing is kept.                                      *)
LEMMA MirrorStarts == MirrorInit => MirrorInv
<1> SUFFICES ASSUME MirrorInit PROVE MirrorInv
  OBVIOUS
<1>1. Stamps  BY MirrorNumbers DEF MirrorInit, Stamps
<1>2. Idle \in CallRecord  BY MirrorNumbers DEF Idle, CallRecord, CallPhase
<1>3. CallFine(Idle)  BY DEF Idle, CallFine
<1> QED  BY <1>1, <1>2, <1>3 DEF MirrorInv, MirrorInit

(* One call's record changes, and perhaps a test begins.                   *)
LEMMA OneCallChanges ==
  ASSUME MirrorInv, NEW c \in Call, NEW r \in CallRecord, call' = [call EXCEPT ![c] = r],
         UNCHANGED <<now, fast>>, Stamps', testing # None => testing' = testing, CallFine(r)'
  PROVE  MirrorInv'
<1>1. call' \in [Call -> CallRecord]  BY DEF MirrorInv
<1>2. ASSUME NEW d \in Call PROVE CallFine(call[d])'
  <2>1. CASE d = c  BY <2>1 DEF MirrorInv
  <2>2. CASE d # c
    <3>1. call'[d] = call[d] /\ CallFine(call[d])  BY <2>2 DEF MirrorInv
    <3> QED  BY <3>1 DEF CallFine
  <2> QED  BY <2>1, <2>2
<1> QED  BY <1>1, <1>2 DEF MirrorInv

(* getFastMirrors: the list that is kept, or a test.                       *)
LEMMA CallBegins ==
  ASSUME MirrorInv, NEW c \in Call, NEW k \in {"tags", "download"}, getFastMirrors(c, k, FALSE),
         UNCHANGED <<now, fast, tags>>
  PROVE  MirrorInv'
<1> USE DEF MirrorInv
<1>1. now \in 0..MaxTime /\ 0 \in 0..MaxTime /\ now \in Int  BY MirrorNumbers DEF Stamps
<1>2. PICK r : r = [Idle EXCEPT !.kind = k, !.began = now]  OBVIOUS
<1>3. r = [kind |-> k, phase |-> "idle", from |-> <<>>, failed |-> {}, measured |-> 0, began |-> now]
  BY <1>2 DEF Idle
<1>4. CASE Fresh
  <2>1. fast \in FastRecord /\ fast # None /\ now - fast.at < TTL /\ fast.at = fast.measured
    BY <1>4 DEF Fresh, Stamps
  <2>2. call' = [call EXCEPT ![c] = Asking(r, fast.mirrors, fast.measured)] /\ testing' = testing
    BY <1>2, <1>4 DEF getFastMirrors
  <2>3. PICK a : a = Asking(r, fast.mirrors, fast.measured)  OBVIOUS
  <2>4. a = [kind |-> k, phase |-> "asking", from |-> fast.mirrors, failed |-> {}, measured |-> fast.measured,
             began |-> now]
    BY <1>3, <2>3 DEF Asking
  <2>5. a \in CallRecord /\ fast.measured \in 0..MaxTime  BY <2>1, <2>4, <1>1 DEF CallRecord, CallPhase, FastRecord
  <2>6. fast.measured > now - TTL
    <3>1. fast.measured \in Int  BY <2>5
    <3> QED  BY <2>1, <3>1, <1>1, MirrorNumbers
  <2>7. CallFine(a)'  BY <2>4, <2>6 DEF CallFine, Members
  <2>8. Stamps'  BY <2>2 DEF Stamps
  <2> QED  BY <2>2, <2>3, <2>5, <2>7, <2>8, OneCallChanges
<1>5. CASE ~Fresh
  <2>1. /\ call' = [call EXCEPT ![c] = [r EXCEPT !.phase = "testing"]]
        /\ testing' = IF testing = None THEN now ELSE testing
    BY <1>2, <1>5 DEF getFastMirrors
  <2>2. PICK a : a = [r EXCEPT !.phase = "testing"]  OBVIOUS
  <2>3. a = [kind |-> k, phase |-> "testing", from |-> <<>>, failed |-> {}, measured |-> 0, began |-> now]
    BY <1>3, <2>2
  <2>4. a \in CallRecord  BY <2>3, <1>1 DEF CallRecord, CallPhase
  <2>5. /\ testing' \in 0..MaxTime /\ testing' # None /\ testing' <= now /\ now <= testing' + TestTime
    BY <2>1, <1>1, MirrorNumbers DEF Stamps
  <2>6. testing' > now - TTL
    <3>1. \A t, n \in 0..MaxTime : n <= t + TestTime => t > n - TTL  BY MirrorNumbers
    <3> QED  BY <3>1, <2>5, <1>1
  <2>7. Stamps'  BY <2>5 DEF Stamps
  <2>8. CallFine(a)'  BY <2>3, <2>5, <2>6 DEF CallFine, Members
  <2> QED  BY <2>1, <2>2, <2>4, <2>7, <2>8, OneCallChanges
<1> QED  BY <1>4, <1>5

(* A lookup or a search begins, or its record is put away.                 *)
LEMMA StepKeeps ==
  ASSUME MirrorInv, NEW c \in Call, Step(c)
  PROVE  MirrorInv'
<1> USE DEF MirrorInv
<1>1. CASE getFastMirrors(c, "tags", FALSE) /\ UNCHANGED <<now, fast, tags>>  BY <1>1, CallBegins
<1>2. CASE getFastMirrors(c, "download", FALSE) /\ UNCHANGED <<now, fast, tags>>  BY <1>2, CallBegins
<1>3. CASE call' \in {[call EXCEPT ![c] = Done("tags")], [call EXCEPT ![c] = Idle]} /\ UNCHANGED <<now, fast, testing, tags>>
  <2>1. PICK i, d : i = Idle /\ d = Done("tags")  OBVIOUS
  <2>2. /\ i = [kind |-> None, phase |-> "idle", from |-> <<>>, failed |-> {}, measured |-> 0, began |-> 0]
        /\ d = [kind |-> "tags", phase |-> "done", from |-> <<>>, failed |-> {}, measured |-> 0, began |-> 0]
    BY <2>1 DEF Idle, Done
  <2>3. i \in CallRecord /\ d \in CallRecord  BY <2>2, MirrorNumbers DEF CallRecord, CallPhase
  <2>4. CallFine(i)' /\ CallFine(d)'  BY <2>2 DEF CallFine
  <2>5. Stamps'  BY <1>3 DEF Stamps
  <2> QED  BY <1>3, <2>1, <2>3, <2>4, <2>5, OneCallChanges
<1> QED  BY <1>1, <1>2, <1>3 DEF Step, getAllGitHubTags, findAvailableDownloadUrl, Over

(* The speed test ends.                                                    *)
LEMMA TestKeeps ==
  ASSUME MirrorInv, performMirrorTest
  PROVE  MirrorInv'
<1> USE DEF MirrorInv
<1>1. PICK mirrors \in Lists :
        /\ fast' = [mirrors |-> mirrors, at |-> testing, measured |-> testing]
        /\ call' = [c \in Call |-> IF call[c].phase = "testing" THEN Asking(call[c], mirrors, testing) ELSE call[c]]
  BY DEF performMirrorTest, Results, Lists, Stamp, Served
<1>2. testing # None /\ testing' = None /\ UNCHANGED <<now, tags>>  BY DEF performMirrorTest
<1>3. testing \in 0..MaxTime  BY <1>2 DEF Stamps
<1>4. Stamps'
  <2>1. fast' \in FastRecord /\ fast'.at = fast'.measured  BY <1>1, <1>3 DEF FastRecord
  <2> QED  BY <2>1, <1>2 DEF Stamps
<1>5. ASSUME NEW c \in Call PROVE call'[c] \in CallRecord /\ CallFine(call[c])'
  <2>1. call[c] \in CallRecord /\ CallFine(call[c])  OBVIOUS
  <2>2. CASE call[c].phase = "testing"
    <3>1. call'[c] = Asking(call[c], mirrors, testing)  BY <1>1, <2>2
    <3>2. call'[c] \in CallRecord  BY <3>1, <2>1, <1>3 DEF Asking, CallRecord, CallPhase
    <3>3. /\ call'[c].phase = "asking" /\ call'[c].measured = testing /\ call'[c].began = call[c].began
          /\ call'[c].failed = {}
      BY <3>1, <2>1, <2>2 DEF Asking, CallRecord, CallFine
    <3>4. CallFine(call[c])'  BY <3>3, <2>1, <2>2 DEF CallFine
    <3> QED  BY <3>2, <3>4
  <2>3. CASE call[c].phase # "testing"
    <3>1. call'[c] = call[c]  BY <1>1, <2>3
    <3> QED  BY <3>1, <2>1, <2>3 DEF CallFine
  <2> QED  BY <2>2, <2>3
<1>6. call' \in [Call -> CallRecord]
  <2>1. call' = [c \in Call |-> call'[c]]  BY <1>1
  <2> QED  BY <2>1, <1>5
<1> QED  BY <1>4, <1>5, <1>6

(* A mirror, or the original, answers.                                     *)
LEMMA AnswersKeep ==
  ASSUME MirrorInv, NEW c \in Call, Answers(c)
  PROVE  MirrorInv'
<1> USE DEF MirrorInv
<1>1. PICK m \in Mirror \cup {Original} : TagsAnswered(c, m) \/ AddressTested(c, m)  BY DEF Answers
<1>2. PICK k, r : r = call[c] /\ k = call[c].kind  OBVIOUS
<1>3. r \in CallRecord /\ CallFine(r) /\ r.phase = "asking" /\ k \in {"tags", "download"}
  BY <1>1, <1>2 DEF TagsAnswered, AddressTested
<1>4. UNCHANGED <<now, fast, testing>> /\ tags' \in {tags, now}  BY <1>1 DEF TagsAnswered, AddressTested
<1>5. Stamps'  BY <1>4 DEF Stamps
<1>6. CASE call' = [call EXCEPT ![c] = Done(k)]
  <2>1. PICK d : d = Done(k)  OBVIOUS
  <2>2. d = [kind |-> k, phase |-> "done", from |-> <<>>, failed |-> {}, measured |-> 0, began |-> 0]
    BY <2>1 DEF Done, Idle
  <2>3. d \in CallRecord  BY <2>2, <1>3, MirrorNumbers DEF CallRecord, CallPhase
  <2>4. CallFine(d)'  BY <2>2 DEF CallFine, Members
  <2> QED  BY <2>1, <2>3, <2>4, <1>4, <1>5, <1>6, OneCallChanges
<1>7. CASE k = "tags" /\ call' = [call EXCEPT ![c].failed = call[c].failed \cup {m}, ![c].phase = "failed"]
  <2>1. PICK n : n = [r EXCEPT !.failed = r.failed \cup {m}, !.phase = "failed"]  OBVIOUS
  <2>2. n \in CallRecord /\ n.phase = "failed" /\ n.kind = "tags"  BY <2>1, <1>2, <1>3, <1>7 DEF CallRecord, CallPhase
  <2>3. call' = [call EXCEPT ![c] = n]  BY <1>7, <1>2, <2>1
  <2>4. CallFine(n)'  BY <2>2 DEF CallFine
  <2> QED  BY <2>2, <2>3, <2>4, <1>4, <1>5, OneCallChanges
<1>8. CASE AddressTested(c, m) /\ call' # [call EXCEPT ![c] = Done(k)]
  <2>1. PICK failed, p : failed = r.failed \cup {m} /\ p = IF NoneLeft(r, failed) THEN "failed" ELSE "asking"
    OBVIOUS
  <2>2. /\ k = "download" /\ m \in ({Original} \cup Members(r.from)) \ r.failed /\ Turn(r, m)
        /\ call' = [call EXCEPT ![c].failed = failed, ![c].phase = p]
    BY <1>2, <1>8, <2>1 DEF AddressTested
  <2>3. PICK n : n = [r EXCEPT !.failed = failed, !.phase = p]  OBVIOUS
  <2>4. /\ n \in CallRecord /\ n.phase = p /\ n.kind = "download" /\ n.failed = failed /\ n.from = r.from
        /\ n.measured = r.measured /\ n.began = r.began /\ p \in {"asking", "failed"}
    BY <2>1, <2>2, <2>3, <1>2, <1>3 DEF CallRecord, CallPhase
  <2>5. call' = [call EXCEPT ![c] = n]  BY <2>2, <2>3, <1>2
  <2>6. failed \subseteq {Original} \cup Members(r.from)  BY <2>1, <2>2, <1>2, <1>3 DEF CallFine
  <2>7. p = "failed" => NoneLeft(n, failed)  BY <2>1, <2>4 DEF NoneLeft
  <2>8. ASSUME NEW i \in DOMAIN r.from, r.from[i] \in failed, NEW j \in 1..i PROVE r.from[j] \in failed
    <3>1. r.from \in Lists \cup {<<>>}  BY <1>3 DEF CallRecord
    <3>2. i \in Nat /\ i > 0 /\ j \in Nat /\ (j < i \/ j = i)  BY <3>1, ListsAre
    <3>3. CASE r.from[i] \in r.failed  BY <3>3, <2>1, <2>2, <1>2, <1>3 DEF CallFine
    <3>4. CASE r.from[i] = m /\ m # Original
      <4>1. PICK q \in DOMAIN r.from : r.from[q] = m /\ \A x \in 1..(q - 1) : r.from[x] \in r.failed
        BY <2>2, <3>4 DEF Turn
      <4>2. q = i  BY <3>1, <3>4, <4>1, ListsAre
      <4>3. j = i \/ j \in 1..(i - 1)  BY <3>2
      <4> QED  BY <2>1, <2>8, <4>1, <4>2, <4>3
    <3>5. CASE r.from[i] = m /\ m = Original
      <4>1. \A x \in DOMAIN r.from : x = i  BY <3>1, <3>5, ListsAre
      <4>2. j \in DOMAIN r.from
        <5>1. CASE r.from = <<Original>>  BY <5>1, <3>2
        <5>2. CASE r.from \in Orders(Mirror)  BY <5>2, <3>5, MirrorAssumption DEF Orders
        <5> QED  BY <5>1, <5>2, <3>1 DEF Lists
      <4> QED  BY <4>1, <4>2, <2>8
    <3> QED  BY <3>3, <3>4, <3>5, <2>1, <2>8
  <2>9. CallFine(n)'  BY <2>4, <2>6, <2>7, <2>8, <1>3, <1>4 DEF CallFine
  <2> QED  BY <2>4, <2>5, <2>9, <1>4, <1>5, OneCallChanges
<1> QED
  <2>1. CASE TagsAnswered(c, m)  BY <2>1, <1>2, <1>6, <1>7 DEF TagsAnswered
  <2> QED  BY <2>1, <1>1, <1>6, <1>8

(* Every step keeps the invariant.                                         *)
LEMMA MirrorSteps == MirrorInv /\ [MirrorNext]_mirrorvars => MirrorInv'
<1> SUFFICES ASSUME MirrorInv, [MirrorNext]_mirrorvars PROVE MirrorInv'
  OBVIOUS
<1>1. CASE MirrorTick
  <2>1. now < MaxTime /\ (testing # None => now < testing + TestTime) /\ now' = now + 1 /\ UNCHANGED <<fast, testing, tags, call>>
    BY <1>1 DEF MirrorTick
  <2>2. Stamps'  BY <2>1, MirrorNumbers DEF MirrorInv, Stamps
  <2>3. \A c \in Call : CallFine(call[c])'  BY <2>1 DEF MirrorInv, CallFine
  <2> QED  BY <2>1, <2>2, <2>3 DEF MirrorInv
<1>2. CASE performMirrorTest  BY <1>2, TestKeeps
<1>3. CASE clearMirrorCache
  <2>1. fast' = None /\ UNCHANGED <<now, testing, tags, call>>  BY <1>3 DEF clearMirrorCache
  <2>2. Stamps'  BY <2>1 DEF MirrorInv, Stamps
  <2>3. \A c \in Call : CallFine(call[c])'  BY <2>1 DEF MirrorInv, CallFine
  <2> QED  BY <2>1, <2>2, <2>3 DEF MirrorInv
<1>4. CASE \E c \in Call : Step(c)  BY <1>4, StepKeeps
<1>5. CASE \E c \in Call : Answers(c)  BY <1>5, AnswersKeep
<1>6. CASE UNCHANGED mirrorvars  BY <1>6 DEF mirrorvars, MirrorInv, Stamps, CallFine
<1> QED  BY <1>1, <1>2, <1>3, <1>4, <1>5, <1>6 DEF MirrorNext

(* Whoever waits has a speed test under way, nobody goes by speeds older   *)
(* than the TTL, and a download is given up only after every address was   *)
(* tried, fastest first, for any mirrors, callers and times.               *)
THEOREM SpeedsStayFresh == MirrorSpec => []MirrorSafe
<1>1. MirrorInit => MirrorInv  BY MirrorStarts
<1>2. MirrorInv /\ [MirrorNext]_mirrorvars => MirrorInv'  BY MirrorSteps
<1>3. MirrorInv => MirrorSafe  BY MirrorInvIsSafe
<1> QED  BY <1>1, <1>2, <1>3, PTL DEF MirrorSpec

----------------------------------------------------------------------------
(* A plugin is loaded once at a time and cleaned up after, for any number  *)
(* of plugins, instances, operations and failures.                         *)

\* An operation, and a table entry with its shape.
OpRec == [pc : {"idle", "scan", "extract", "import", "init", "cleanup"}, kind : OpKind, e : 0..MaxStart, i : 0..MaxStart]
EntryRec == [enable : BOOLEAN, loaded : BOOLEAN, status : {"unborn", "unloaded", "loaded", "error"}, ctx : 0..MaxStart]
InstState == {"none", "init", "running", "cleaning", "stopped", "failed"}
ScanOf(s, sv) == s = [enable |-> sv, loaded |-> FALSE, status |-> s.status, ctx |-> 0] /\ s.status \in {"unloaded", "error"}

\* An entry not made yet is blank; one is loaded exactly if it has an instance.
EntryFine(en) ==
  /\ en.status = "unborn" => en = Unborn
  /\ en.status = "loaded" <=> en.ctx # 0
  /\ en.status = "loaded" => en.loaded
EntriesFine(E, N) ==
  /\ \A e \in Id : EntryFine(E[e])
  /\ \A e \in Id : E[e].ctx # 0 => N[E[e].ctx] \in {"running", "cleaning"}
  /\ \A e, f \in Id : E[e].ctx # 0 /\ E[e].ctx = E[f].ctx => e = f

\* An operation holds an entry that was made; the instance it initialises is
\* its own, and the one it cleans up belongs to no other entry.
OpFine(op, E, N) ==
  /\ op.pc \in {"import", "init", "cleanup"} => op.e # 0
  /\ op.pc \in {"import", "init", "cleanup", "scan"} /\ op.e # 0 => E[op.e].status # "unborn"
  /\ op.pc = "init" => op.i # 0 /\ N[op.i] = "init"
  /\ op.pc = "cleanup" => /\ op.i # 0 /\ N[op.i] \in {"cleaning", "stopped"} /\ op.kind # "none"
                          /\ \A f \in Id : E[f].ctx = op.i => f = op.e
OpsFine(O, E, N) ==
  /\ \A o \in Op : OpFine(O[o], E, N)
  /\ \A o, q \in Op : O[o].pc = "init" /\ O[q].pc = "init" /\ O[o].i = O[q].i => o = q

\* The entries made, and the operations that may make one more; the instances
\* made, and the operations that may make one more: no more than were started.
Counts(A, B, n) == IsFiniteSet(A) /\ IsFiniteSet(B) /\ Cardinality(A) + Cardinality(B) <= n
Born(E) == {e \in Id : E[e].status # "unborn"}
Used(N) == {i \in Id : N[i] # "none"}
Makes(op) == op.pc = "extract" \/ (op.pc = "cleanup" /\ op.kind \in {"reload", "import"})
Loads(op) == op.pc \in {"scan", "extract", "import", "cleanup"}
WillMake(O) == {o \in Op : Makes(O[o])}
WillLoad(O) == {o \in Op : Loads(O[o])}

PluginTyped(E, N, O, n) == E \in [Id -> EntryRec] /\ N \in [Id -> InstState] /\ O \in [Op -> OpRec] /\ n \in 0..MaxStart
Fine(E, N, O, n) ==
  /\ PluginTyped(E, N, O, n) /\ EntriesFine(E, N) /\ OpsFine(O, E, N)
  /\ Counts(Born(E), WillMake(O), n) /\ Counts(Used(N), WillLoad(O), n)

GenInv ==
  /\ isEnable \in BOOLEAN /\ saved \in BOOLEAN /\ opsOverlapped \in BOOLEAN
  /\ disk \in {"none", "partial", "whole"} /\ table \in 0..MaxStart /\ router \in 0..MaxStart
  /\ ~isEnable => started = 0 /\ InFlight = {} /\ router = 0 /\ table = 0 /\ ~opsOverlapped
  /\ table # 0 => entries[table].status # "unborn"
  /\ Fine(entries, inst, ops, started)

-----------------------------------------------------------------------------
(* Counting *)

\* Counts are numbers.
LEMMA CountsNat ==
  ASSUME NEW A, NEW B, NEW n, Counts(A, B, n)
  PROVE  Cardinality(A) \in Nat /\ Cardinality(B) \in Nat /\ IsFiniteSet(A) /\ IsFiniteSet(B)
         /\ Cardinality(A) + Cardinality(B) <= n
<1> QED  BY FS_CardinalityType DEF Counts

\* Fewer operations that may make one, and more that were started.
LEMMA CountsLess ==
  ASSUME NEW A, NEW B, NEW n \in Nat, Counts(A, B, n), NEW D, D \subseteq B, NEW m \in Nat, n <= m
  PROVE  Counts(A, D, m)
<1>1. IsFiniteSet(D) /\ Cardinality(D) <= Cardinality(B)  BY FS_Subset DEF Counts
<1>2. Cardinality(D) \in Nat  BY <1>1, FS_CardinalityType
<1> QED  BY <1>1, <1>2, CountsNat DEF Counts

\* One more started may make one.
LEMMA CountsMore ==
  ASSUME NEW A, NEW B, NEW n \in Nat, Counts(A, B, n), NEW b, NEW D, D \subseteq B \cup {b}, NEW m, m = n + 1
  PROVE  Counts(A, D, m)
<1>1. PICK C : C = B \cup {b}  OBVIOUS
<1>2. IsFiniteSet(C) /\ Cardinality(C) \in Nat /\ Cardinality(C) <= Cardinality(B) + 1
  <2>1. IsFiniteSet(B) /\ Cardinality(B) \in Nat  BY CountsNat
  <2>2. IsFiniteSet(C) /\ Cardinality(C) = IF b \in B THEN Cardinality(B) ELSE Cardinality(B) + 1
    BY <1>1, <2>1, FS_AddElement
  <2>3. CASE b \in B  BY <2>1, <2>2, <2>3
  <2>4. CASE b \notin B  BY <2>1, <2>2, <2>4
  <2> QED  BY <2>3, <2>4
<1>3. Counts(A, C, m)  BY <1>2, CountsNat DEF Counts
<1> QED  BY <1>1, <1>3, CountsLess

\* One that may make one makes it.
LEMMA CountsTrade ==
  ASSUME NEW A, NEW B, NEW n \in Nat, Counts(A, B, n), NEW b \in B, NEW D, D \subseteq B \ {b}, NEW a, NEW S, S = A \cup {a}
  PROVE  Counts(S, D, n)
<1>1. PICK C : C = B \ {b} /\ S = A \cup {a}  OBVIOUS
<1>2. /\ Cardinality(A) \in Nat /\ Cardinality(B) \in Nat /\ IsFiniteSet(A) /\ IsFiniteSet(B)
      /\ Cardinality(A) + Cardinality(B) <= n
  BY CountsNat
<1>3. IsFiniteSet(C) /\ Cardinality(C) \in Nat /\ Cardinality(C) = Cardinality(B) - 1
  <2>1. IsFiniteSet(C) /\ Cardinality(C) = IF b \in B THEN Cardinality(B) - 1 ELSE Cardinality(B)
    BY <1>1, <1>2, FS_RemoveElement
  <2> QED  BY <2>1, FS_CardinalityType
<1>4. IsFiniteSet(S) /\ Cardinality(S) \in Nat /\ Cardinality(S) <= Cardinality(A) + 1
  <2>1. IsFiniteSet(S) /\ Cardinality(S) = IF a \in A THEN Cardinality(A) ELSE Cardinality(A) + 1
    BY <1>1, <1>2, FS_AddElement
  <2>2. CASE a \in A  BY <2>1, <1>2, <2>2
  <2>3. CASE a \notin A  BY <2>1, <1>2, <2>3
  <2> QED  BY <2>2, <2>3
<1>5. Counts(S, C, n)  BY <1>2, <1>3, <1>4 DEF Counts
<1> QED  BY <1>1, <1>5, CountsLess

\* There is one left to make.
LEMMA CountsRoom ==
  ASSUME NEW A, NEW B, NEW n \in 0..MaxStart, Counts(A, B, n), NEW b \in B, A \subseteq Id
  PROVE  \E a \in Id : a \notin A
<1> SUFFICES ASSUME A = Id PROVE FALSE
  OBVIOUS
<1>1. Cardinality(Id) = MaxStart
  <2>1. MaxStart \in Int /\ MaxStart >= 1 /\ 1 \in Int  BY PluginAssumption
  <2>2. Cardinality(1..MaxStart) = IF 1 > MaxStart THEN 0 ELSE MaxStart - 1 + 1  BY <2>1, FS_Interval
  <2> QED  BY <2>1, <2>2 DEF Id
<1>2. Cardinality(B) \in Nat /\ Cardinality(A) + Cardinality(B) <= n /\ IsFiniteSet(B)  BY CountsNat
<1>3. Cardinality(B) # 0  BY <1>2, FS_EmptySet
<1> QED  BY <1>1, <1>2, <1>3, PluginAssumption

-----------------------------------------------------------------------------
(* What the steps of an operation keep *)

\* An operation goes on with what it may do.
LEMMA FineOp ==
  ASSUME NEW E, NEW N, NEW O, NEW n, Fine(E, N, O, n), NEW o \in Op, NEW x \in OpRec, x.pc # "init", OpFine(x, E, N),
         Makes(x) => Makes(O[o]), Loads(x) => Loads(O[o]), NEW Q, Q = [O EXCEPT ![o] = x]
  PROVE  Fine(E, N, Q, n)
<1>1. PluginTyped(E, N, O, n) /\ EntriesFine(E, N) /\ OpsFine(O, E, N)  BY DEF Fine
<1>2. Counts(Born(E), WillMake(O), n) /\ Counts(Used(N), WillLoad(O), n)  BY DEF Fine
<1>3. n \in Nat /\ n <= n  BY <1>1, PluginAssumption DEF PluginTyped
<1>4. Q[o] = x /\ \A q \in Op : q # o => Q[q] = O[q]  BY <1>1 DEF PluginTyped
<1>5. PluginTyped(E, N, Q, n)  BY <1>1 DEF PluginTyped
<1>6. OpsFine(Q, E, N)  BY <1>1, <1>4 DEF OpsFine
<1>7. WillMake(Q) \subseteq WillMake(O) /\ WillLoad(Q) \subseteq WillLoad(O)  BY <1>4 DEF WillMake, WillLoad
<1>8. Counts(Born(E), WillMake(Q), n)  BY <1>2, <1>3, <1>7, CountsLess
<1>9. Counts(Used(N), WillLoad(Q), n)  BY <1>2, <1>3, <1>7, CountsLess
<1> QED  BY <1>1, <1>5, <1>6, <1>8, <1>9 DEF Fine

\* An operation begins: it may make an entry and an instance.
Begun == [pc |-> "extract", kind |-> "none", e |-> 0, i |-> 0]
\* An operation begins in order.
LEMMA FineBegin ==
  ASSUME NEW E, NEW N, NEW O, NEW n, Fine(E, N, O, n), n < MaxStart, NEW o \in Op, NEW Q, Q = [O EXCEPT ![o] = Begun]
  PROVE  Fine(E, N, Q, n + 1)
<1>1. PluginTyped(E, N, O, n) /\ EntriesFine(E, N) /\ OpsFine(O, E, N)  BY DEF Fine
<1>2. Counts(Born(E), WillMake(O), n) /\ Counts(Used(N), WillLoad(O), n)  BY DEF Fine
<1>3. n \in Nat /\ n + 1 \in 0..MaxStart  BY <1>1, PluginAssumption DEF PluginTyped
<1>4. Q[o] = Begun /\ \A q \in Op : q # o => Q[q] = O[q]  BY <1>1 DEF PluginTyped
<1>5. Begun \in OpRec /\ OpFine(Begun, E, N) /\ Begun.pc # "init"
  BY PluginAssumption DEF Begun, OpRec, OpKind, OpFine
<1>6. PluginTyped(E, N, Q, n + 1)  BY <1>1, <1>3, <1>5 DEF PluginTyped
<1>7. OpsFine(Q, E, N)  BY <1>1, <1>4, <1>5 DEF OpsFine
<1>8. WillMake(Q) \subseteq WillMake(O) \cup {o} /\ WillLoad(Q) \subseteq WillLoad(O) \cup {o}
  BY <1>4 DEF WillMake, WillLoad
<1>11. PICK m : m = n + 1  OBVIOUS
<1>9. Counts(Born(E), WillMake(Q), m)  BY <1>2, <1>3, <1>8, <1>11, CountsMore
<1>10. Counts(Used(N), WillLoad(Q), m)  BY <1>2, <1>3, <1>8, <1>11, CountsMore
<1> QED  BY <1>1, <1>6, <1>7, <1>9, <1>10, <1>11 DEF Fine

\* More were started than make anything.
LEMMA FineMore ==
  ASSUME NEW E, NEW N, NEW O, NEW n, Fine(E, N, O, n), n < MaxStart
  PROVE  Fine(E, N, O, n + 1)
<1>1. PluginTyped(E, N, O, n) /\ EntriesFine(E, N) /\ OpsFine(O, E, N)  BY DEF Fine
<1>2. Counts(Born(E), WillMake(O), n) /\ Counts(Used(N), WillLoad(O), n)  BY DEF Fine
<1>3. n \in Nat /\ n + 1 \in Nat /\ n <= n + 1 /\ n + 1 \in 0..MaxStart  BY <1>1, PluginAssumption DEF PluginTyped
<1>4. Counts(Born(E), WillMake(O), n + 1)  BY <1>2, <1>3, CountsLess
<1>5. Counts(Used(N), WillLoad(O), n + 1)  BY <1>2, <1>3, CountsLess
<1> QED  BY <1>1, <1>3, <1>4, <1>5 DEF Fine, PluginTyped

\* An entry changes but not its instance.
LEMMA FineEntries ==
  ASSUME NEW E, NEW N, NEW O, NEW n, Fine(E, N, O, n), NEW e \in Id, E[e].status # "unborn", NEW s \in EntryRec,
         s.status # "unborn", EntryFine(s), s.ctx \in {0, E[e].ctx}, NEW F, F = [E EXCEPT ![e] = s]
  PROVE  Fine(F, N, O, n)
<1>1. PluginTyped(E, N, O, n) /\ EntriesFine(E, N) /\ OpsFine(O, E, N)  BY DEF Fine
<1>2. Counts(Born(E), WillMake(O), n) /\ Counts(Used(N), WillLoad(O), n)  BY DEF Fine
<1>3. F[e] = s /\ \A f \in Id : f # e => F[f] = E[f]  BY <1>1 DEF PluginTyped
<1>4. PluginTyped(F, N, O, n)  BY <1>1 DEF PluginTyped
<1>5. \A f \in Id : F[f].ctx \in {0, E[f].ctx} /\ (F[f].status # "unborn" <=> E[f].status # "unborn")
  BY <1>3
<1>6. EntriesFine(F, N)
  <2>1. \A f \in Id : EntryFine(F[f])  BY <1>1, <1>3 DEF EntriesFine
  <2>2. \A f \in Id : F[f].ctx # 0 => N[F[f].ctx] \in {"running", "cleaning"}
    BY <1>1, <1>5 DEF EntriesFine
  <2>3. \A f, g \in Id : F[f].ctx # 0 /\ F[f].ctx = F[g].ctx => f = g
    BY <1>1, <1>5 DEF EntriesFine
  <2> QED  BY <2>1, <2>2, <2>3 DEF EntriesFine
<1>7. \A o \in Op : OpFine(O[o], F, N)
  <2> SUFFICES ASSUME NEW o \in Op PROVE OpFine(O[o], F, N)
    OBVIOUS
  <2>1. PICK op : op = O[o]  OBVIOUS
  <2>2. OpFine(op, E, N) /\ op \in OpRec  BY <2>1, <1>1 DEF OpsFine, PluginTyped
  <2>3. op.e # 0 => op.e \in Id  BY <2>2 DEF OpRec, Id
  <2>4. op.pc \in {"import", "init", "cleanup", "scan"} /\ op.e # 0 => F[op.e].status # "unborn"
    BY <2>2, <2>3, <1>5 DEF OpFine
  <2>5. op.pc = "cleanup" => \A f \in Id : F[f].ctx = op.i => f = op.e
    BY <2>2, <1>5 DEF OpFine
  <2> QED  BY <2>1, <2>2, <2>4, <2>5 DEF OpFine
<1>8. OpsFine(O, F, N)  BY <1>1, <1>7 DEF OpsFine
<1>9. Born(F) = Born(E)  BY <1>5 DEF Born
<1> QED  BY <1>2, <1>4, <1>6, <1>8, <1>9 DEF Fine

\* There is room for the entry and for the instance of an operation.
LEMMA RoomForEntry ==
  ASSUME NEW E, NEW N, NEW O, NEW n, Fine(E, N, O, n), NEW o \in Op, Makes(O[o])
  PROVE  \E g \in Id : E[g] = Unborn
<1>1. Counts(Born(E), WillMake(O), n) /\ n \in 0..MaxStart /\ EntriesFine(E, N)  BY DEF Fine, PluginTyped
<1>2. o \in WillMake(O) /\ Born(E) \subseteq Id  BY DEF WillMake, Born
<1>3. PICK g \in Id : g \notin Born(E)  BY <1>1, <1>2, CountsRoom
<1> QED  BY <1>1, <1>3 DEF Born, EntriesFine, EntryFine

\* There is an instance that was never made.
LEMMA RoomForInst ==
  ASSUME NEW E, NEW N, NEW O, NEW n, Fine(E, N, O, n), NEW o \in Op, Loads(O[o])
  PROVE  \E g \in Id : N[g] = "none"
<1>1. Counts(Used(N), WillLoad(O), n) /\ n \in 0..MaxStart  BY DEF Fine, PluginTyped
<1>2. o \in WillLoad(O) /\ Used(N) \subseteq Id  BY DEF WillLoad, Used
<1>3. PICK g \in Id : g \notin Used(N)  BY <1>1, <1>2, CountsRoom
<1> QED  BY <1>3 DEF Used

\* An operation makes an entry, and goes on with it or is done.
LEMMA FineEntry ==
  ASSUME NEW E, NEW N, NEW O, NEW n, Fine(E, N, O, n), NEW o \in Op, Makes(O[o]), NEW g \in Id, E[g] = Unborn,
         NEW s \in EntryRec, NEW sv, ScanOf(s, sv), NEW x \in OpRec, x.pc \in {"idle", "import", "scan"},
         x.pc # "idle" => x.e = g,
         NEW F, F = [E EXCEPT ![g] = s], NEW Q, Q = [O EXCEPT ![o] = x]
  PROVE  Fine(F, N, Q, n)
<1>1. PluginTyped(E, N, O, n) /\ EntriesFine(E, N) /\ OpsFine(O, E, N)  BY DEF Fine
<1>2. Counts(Born(E), WillMake(O), n) /\ Counts(Used(N), WillLoad(O), n) /\ n \in Nat /\ n <= n
  BY <1>1, PluginAssumption DEF Fine, PluginTyped
<1>3. F[g] = s /\ (\A f \in Id : f # g => F[f] = E[f]) /\ Q[o] = x /\ \A q \in Op : q # o => Q[q] = O[q]
  BY <1>1 DEF PluginTyped
<1>4. PluginTyped(F, N, Q, n)  BY <1>1 DEF PluginTyped
<1>5. s.ctx = 0 /\ s.status # "unborn" /\ EntryFine(s) /\ E[g].ctx = 0 /\ E[g].status = "unborn"
  <2>1. s.ctx = 0 /\ s.status \in {"unloaded", "error"}  BY DEF ScanOf
  <2>2. E[g].ctx = 0 /\ E[g].status = "unborn"  BY DEF Unborn
  <2> QED  BY <2>1, <2>2 DEF EntryFine
<1>6. \A f \in Id : F[f].ctx = E[f].ctx /\ (E[f].status # "unborn" => F[f].status # "unborn")
  BY <1>3, <1>5
<1>7. EntriesFine(F, N)
  <2>1. \A f \in Id : EntryFine(F[f])  BY <1>1, <1>3, <1>5 DEF EntriesFine
  <2> QED  BY <2>1, <1>1, <1>6 DEF EntriesFine
<1>8. \A q \in Op : q # o => OpFine(O[q], F, N)
  <2> SUFFICES ASSUME NEW q \in Op PROVE OpFine(O[q], F, N)
    OBVIOUS
  <2>1. PICK op : op = O[q]  OBVIOUS
  <2>2. OpFine(op, E, N) /\ op \in OpRec  BY <2>1, <1>1 DEF OpsFine, PluginTyped
  <2>3. op.e # 0 => op.e \in Id  BY <2>2 DEF OpRec, Id
  <2>4. op.pc \in {"import", "init", "cleanup", "scan"} /\ op.e # 0 => F[op.e].status # "unborn"
    BY <2>2, <2>3, <1>6 DEF OpFine
  <2>5. op.pc = "cleanup" => \A f \in Id : F[f].ctx = op.i => f = op.e
    BY <2>2, <1>6 DEF OpFine
  <2> QED  BY <2>1, <2>2, <2>4, <2>5 DEF OpFine
<1>9. OpFine(x, F, N)
  <2>1. x.pc # "idle" => x.e # 0 /\ F[x.e].status # "unborn"  BY <1>3, <1>5, PluginAssumption DEF Id
  <2> QED  BY <2>1 DEF OpFine
<1>10. OpsFine(Q, F, N)
  <2>1. \A q \in Op : OpFine(Q[q], F, N)  BY <1>3, <1>8, <1>9
  <2>2. \A a \in Op : Q[a].pc = "init" => a # o  BY <1>3
  <2>3. \A a, b \in Op : Q[a].pc = "init" /\ Q[b].pc = "init" /\ Q[a].i = Q[b].i => a = b
    BY <2>2, <1>1, <1>3 DEF OpsFine
  <2> QED  BY <2>1, <2>3 DEF OpsFine
<1>11. Born(F) = Born(E) \cup {g}  BY <1>3, <1>5 DEF Born
<1>12. o \in WillMake(O) /\ WillMake(Q) \subseteq WillMake(O) \ {o}
  <2>1. ~Makes(x)  BY DEF Makes
  <2> QED  BY <2>1, <1>3 DEF WillMake
<1>13. Counts(Born(F), WillMake(Q), n)  BY <1>2, <1>11, <1>12, CountsTrade
<1>14. WillLoad(Q) \subseteq WillLoad(O)
  <2>1. Loads(O[o])  BY DEF Makes, Loads
  <2> QED  BY <2>1, <1>3 DEF WillLoad
<1>15. Counts(Used(N), WillLoad(Q), n)  BY <1>2, <1>14, CountsLess
<1> QED  BY <1>4, <1>7, <1>10, <1>13, <1>15 DEF Fine

\* The clean-up of a loaded plugin begins.
LEMMA FineUnload ==
  ASSUME NEW E, NEW N, NEW O, NEW n, Fine(E, N, O, n), NEW o \in Op, NEW e \in Id, NEW i, i = E[e].ctx, i # 0,
         NEW x \in OpRec, x.pc = "cleanup", x.e = e, x.i = i, x.kind # "none", Makes(x) => Makes(O[o]), Loads(O[o]),
         NEW M, M = [N EXCEPT ![i] = IF N[i] = "running" THEN "cleaning" ELSE N[i]], NEW Q, Q = [O EXCEPT ![o] = x]
  PROVE  Fine(E, M, Q, n)
<1>1. PluginTyped(E, N, O, n) /\ EntriesFine(E, N) /\ OpsFine(O, E, N)  BY DEF Fine
<1>2. Counts(Born(E), WillMake(O), n) /\ Counts(Used(N), WillLoad(O), n) /\ n \in Nat /\ n <= n
  BY <1>1, PluginAssumption DEF Fine, PluginTyped
<1>3. i \in Id /\ N[i] \in {"running", "cleaning"}  BY <1>1 DEF EntriesFine, PluginTyped, EntryRec, Id
<1>4. M[i] = "cleaning" /\ (\A j \in Id : j # i => M[j] = N[j]) /\ M \in [Id -> InstState]
  BY <1>1, <1>3 DEF PluginTyped, InstState
<1>5. Q[o] = x /\ (\A q \in Op : q # o => Q[q] = O[q]) /\ Q \in [Op -> OpRec]
  BY <1>1 DEF PluginTyped
<1>6. PluginTyped(E, M, Q, n)  BY <1>1, <1>4, <1>5 DEF PluginTyped
<1>7. EntriesFine(E, M)
  <2>1. \A f \in Id : E[f].ctx # 0 => E[f].ctx \in Id  BY <1>1 DEF PluginTyped, EntryRec, Id
  <2> QED  BY <2>1, <1>1, <1>4 DEF EntriesFine
<1>8. \A q \in Op : OpFine(O[q], E, M)
  <2> SUFFICES ASSUME NEW q \in Op PROVE OpFine(O[q], E, M)
    OBVIOUS
  <2>1. PICK op : op = O[q]  OBVIOUS
  <2>2. OpFine(op, E, N) /\ op \in OpRec  BY <2>1, <1>1 DEF OpsFine, PluginTyped
  <2>3. op.i # 0 => op.i \in Id  BY <2>2 DEF OpRec, Id
  <2>4. op.pc = "init" => op.i # 0 /\ M[op.i] = "init"  BY <2>2, <2>3, <1>3, <1>4 DEF OpFine
  <2>5. op.pc = "cleanup" => op.i # 0 /\ M[op.i] \in {"cleaning", "stopped"}  BY <2>2, <2>3, <1>3, <1>4 DEF OpFine
  <2> QED  BY <2>1, <2>2, <2>4, <2>5 DEF OpFine
<1>9. OpFine(x, E, M)
  <2>1. \A f \in Id : E[f].ctx = i => f = e  BY <1>1 DEF EntriesFine
  <2>2. E[e].status # "unborn" /\ e # 0
    <3>1. EntryFine(E[e])  BY <1>1 DEF EntriesFine
    <3> QED  BY <3>1, PluginAssumption DEF EntryFine, Id
  <2> QED  BY <2>1, <2>2, <1>4 DEF OpFine
<1>10. OpsFine(Q, E, M)  BY <1>1, <1>5, <1>8, <1>9 DEF OpsFine
<1>11. WillMake(Q) \subseteq WillMake(O) /\ WillLoad(Q) \subseteq WillLoad(O)  BY <1>5 DEF WillMake, WillLoad
<1>12. Used(M) = Used(N)  BY <1>3, <1>4 DEF Used
<1>13. Counts(Born(E), WillMake(Q), n)  BY <1>2, <1>11, CountsLess
<1>14. Counts(Used(N), WillLoad(Q), n)  BY <1>2, <1>11, CountsLess
<1> QED  BY <1>6, <1>7, <1>10, <1>12, <1>13, <1>14 DEF Fine

\* The module is imported: its instance is initialised.
LEMMA FineImport ==
  ASSUME NEW E, NEW N, NEW O, NEW n, Fine(E, N, O, n), NEW o \in Op, O[o].pc = "import", NEW g \in Id, N[g] = "none",
         NEW x \in OpRec, x.pc = "init", x.e = O[o].e, x.i = g,
         NEW M, M = [N EXCEPT ![g] = "init"], NEW Q, Q = [O EXCEPT ![o] = x]
  PROVE  Fine(E, M, Q, n)
<1>1. PluginTyped(E, N, O, n) /\ EntriesFine(E, N) /\ OpsFine(O, E, N)  BY DEF Fine
<1>2. Counts(Born(E), WillMake(O), n) /\ Counts(Used(N), WillLoad(O), n) /\ n \in Nat /\ n <= n
  BY <1>1, PluginAssumption DEF Fine, PluginTyped
<1>4. M[g] = "init" /\ (\A j \in Id : j # g => M[j] = N[j]) /\ M \in [Id -> InstState]
  BY <1>1 DEF PluginTyped, InstState
<1>5. Q[o] = x /\ (\A q \in Op : q # o => Q[q] = O[q]) /\ Q \in [Op -> OpRec]
  BY <1>1 DEF PluginTyped
<1>6. PluginTyped(E, M, Q, n)  BY <1>1, <1>4, <1>5 DEF PluginTyped
<1>7. EntriesFine(E, M)
  <2>1. \A f \in Id : E[f].ctx # 0 => E[f].ctx \in Id /\ E[f].ctx # g
    BY <1>1 DEF PluginTyped, EntryRec, Id, EntriesFine
  <2> QED  BY <2>1, <1>1, <1>4 DEF EntriesFine
<1>8. \A q \in Op : OpFine(O[q], E, M) /\ (O[q].pc = "init" => O[q].i # g)
  <2> SUFFICES ASSUME NEW q \in Op PROVE OpFine(O[q], E, M) /\ (O[q].pc = "init" => O[q].i # g)
    OBVIOUS
  <2>1. PICK op : op = O[q]  OBVIOUS
  <2>2. OpFine(op, E, N) /\ op \in OpRec  BY <2>1, <1>1 DEF OpsFine, PluginTyped
  <2>3. op.i # 0 => op.i \in Id  BY <2>2 DEF OpRec, Id
  <2>4. op.pc = "init" => op.i # 0 /\ M[op.i] = "init" /\ op.i # g  BY <2>2, <2>3, <1>4 DEF OpFine
  <2>5. op.pc = "cleanup" => op.i # 0 /\ M[op.i] \in {"cleaning", "stopped"}  BY <2>2, <2>3, <1>4 DEF OpFine
  <2> QED  BY <2>1, <2>2, <2>4, <2>5 DEF OpFine
<1>9. OpFine(x, E, M)
  <2>1. OpFine(O[o], E, N)  BY <1>1 DEF OpsFine
  <2> QED  BY <2>1, <1>4, PluginAssumption DEF OpFine, Id
<1>10. OpsFine(Q, E, M)
  <2>1. \A q \in Op : OpFine(Q[q], E, M)  BY <1>5, <1>8, <1>9
  <2>2. ASSUME NEW a \in Op, NEW b \in Op, Q[a].pc = "init", Q[b].pc = "init", Q[a].i = Q[b].i PROVE a = b
    <3>1. CASE a = o  BY <3>1, <2>2, <1>5, <1>8
    <3>2. CASE b = o  BY <3>2, <2>2, <1>5, <1>8
    <3>3. CASE a # o /\ b # o  BY <3>3, <2>2, <1>1, <1>5 DEF OpsFine
    <3> QED  BY <3>1, <3>2, <3>3
  <2> QED  BY <2>1, <2>2 DEF OpsFine
<1>11. WillMake(Q) \subseteq WillMake(O)
  <2>1. ~Makes(x)  BY DEF Makes
  <2> QED  BY <2>1, <1>5 DEF WillMake
<1>12. Used(M) = Used(N) \cup {g}  BY <1>4 DEF Used
<1>13. Counts(Born(E), WillMake(Q), n)  BY <1>2, <1>11, CountsLess
<1>14. o \in WillLoad(O) /\ WillLoad(Q) \subseteq WillLoad(O) \ {o}
  <2>1. ~Loads(x) /\ Loads(O[o])  BY DEF Loads
  <2> QED  BY <2>1, <1>5 DEF WillLoad
<1>15. Counts(Used(M), WillLoad(Q), n)  BY <1>2, <1>12, <1>14, CountsTrade
<1> QED  BY <1>6, <1>7, <1>10, <1>13, <1>15 DEF Fine

\* plugin_init is over: the entry has the instance, or an error.
LEMMA FineInit ==
  ASSUME NEW E, NEW N, NEW O, NEW n, Fine(E, N, O, n), NEW o \in Op, O[o].pc = "init",
         NEW e, e = O[o].e, NEW i, i = O[o].i, NEW v \in InstState, NEW s \in EntryRec, EntryFine(s), s.status # "unborn",
         (v = "running" /\ s.ctx = i) \/ (v = "failed" /\ s.ctx = 0), NEW x \in OpRec, x.pc = "idle",
         NEW F, F = [E EXCEPT ![e] = s], NEW M, M = [N EXCEPT ![i] = v], NEW Q, Q = [O EXCEPT ![o] = x]
  PROVE  Fine(F, M, Q, n) /\ e \in Id /\ i \in Id /\ N[i] = "init"
<1>1. PluginTyped(E, N, O, n) /\ EntriesFine(E, N) /\ OpsFine(O, E, N)  BY DEF Fine
<1>2. Counts(Born(E), WillMake(O), n) /\ Counts(Used(N), WillLoad(O), n) /\ n \in Nat /\ n <= n
  BY <1>1, PluginAssumption DEF Fine, PluginTyped
<1>3. e \in Id /\ i \in Id /\ N[i] = "init" /\ E[e].status # "unborn"
  <2>1. OpFine(O[o], E, N) /\ O[o] \in OpRec  BY <1>1 DEF OpsFine, PluginTyped
  <2> QED  BY <2>1 DEF OpFine, OpRec, Id
<1>4. M[i] = v /\ (\A j \in Id : j # i => M[j] = N[j]) /\ M \in [Id -> InstState]
  BY <1>1, <1>3 DEF PluginTyped
<1>5. Q[o] = x /\ (\A q \in Op : q # o => Q[q] = O[q]) /\ Q \in [Op -> OpRec]
  BY <1>1 DEF PluginTyped
<1>6. F[e] = s /\ (\A f \in Id : f # e => F[f] = E[f]) /\ F \in [Id -> EntryRec]
  BY <1>1, <1>3 DEF PluginTyped
<1>7. PluginTyped(F, M, Q, n)  BY <1>1, <1>4, <1>5, <1>6 DEF PluginTyped
<1>8. \A f \in Id : E[f].ctx # 0 => E[f].ctx \in Id /\ E[f].ctx # i
  BY <1>1, <1>3 DEF EntriesFine, PluginTyped, EntryRec, Id
<1>9. EntriesFine(F, M)
  <2>1. \A f \in Id : EntryFine(F[f])  BY <1>1, <1>6 DEF EntriesFine
  <2>2. ASSUME NEW f \in Id, F[f].ctx # 0 PROVE M[F[f].ctx] \in {"running", "cleaning"}
    <3>1. CASE f = e
      <4>1. F[f] = s  BY <3>1, <1>6
      <4> QED  BY <4>1, <2>2, <1>4
    <3>2. CASE f # e  BY <3>2, <2>2, <1>1, <1>4, <1>6, <1>8 DEF EntriesFine
    <3> QED  BY <3>1, <3>2
  <2>3. ASSUME NEW f \in Id, NEW g \in Id, F[f].ctx # 0, F[f].ctx = F[g].ctx PROVE f = g
    <3>1. CASE f = e /\ g # e
      <4>1. F[f] = s /\ F[g] = E[g]  BY <3>1, <1>6
      <4>2. E[g].ctx = i /\ i # 0  BY <4>1, <2>3
      <4> QED  BY <4>2, <1>8
    <3>2. CASE f # e /\ g = e
      <4>1. F[g] = s /\ F[f] = E[f]  BY <3>2, <1>6
      <4>2. E[f].ctx = i /\ i # 0  BY <4>1, <2>3
      <4> QED  BY <4>2, <1>8
    <3>3. CASE f # e /\ g # e  BY <3>3, <2>3, <1>1, <1>6 DEF EntriesFine
    <3> QED  BY <3>1, <3>2, <3>3
  <2> QED  BY <2>1, <2>2, <2>3 DEF EntriesFine
<1>10. \A f \in Id : F[f].status # "unborn" <=> E[f].status # "unborn"  BY <1>3, <1>6
<1>11. \A q \in Op : q # o => OpFine(O[q], F, M)
  <2> SUFFICES ASSUME NEW q \in Op, q # o PROVE OpFine(O[q], F, M)
    OBVIOUS
  <2>1. PICK op : op = O[q]  OBVIOUS
  <2>2. OpFine(op, E, N) /\ op \in OpRec  BY <2>1, <1>1 DEF OpsFine, PluginTyped
  <2>3. (op.i # 0 => op.i \in Id) /\ (op.e # 0 => op.e \in Id)  BY <2>2 DEF OpRec, Id
  <2>4. op.pc = "init" => op.i # 0 /\ op.i # i  BY <2>1, <2>2, <1>1 DEF OpFine, OpsFine
  <2>5. op.pc = "init" => M[op.i] = "init"  BY <2>2, <2>3, <2>4, <1>4 DEF OpFine
  <2>6. op.pc = "cleanup" => op.i # 0 /\ op.i # i /\ M[op.i] \in {"cleaning", "stopped"}
    BY <2>2, <2>3, <1>3, <1>4 DEF OpFine
  <2>7. op.pc \in {"import", "init", "cleanup", "scan"} /\ op.e # 0 => F[op.e].status # "unborn"
    BY <2>2, <2>3, <1>10 DEF OpFine
  <2>8. ASSUME op.pc = "cleanup", NEW f \in Id, F[f].ctx = op.i PROVE f = op.e
    <3>1. f # e
      <4>1. s.ctx \in {0, i}  OBVIOUS
      <4> QED  BY <4>1, <2>6, <2>8, <1>6
    <3> QED  BY <3>1, <2>2, <2>8, <1>6 DEF OpFine
  <2> QED  BY <2>1, <2>2, <2>4, <2>5, <2>6, <2>7, <2>8 DEF OpFine
<1>12. OpsFine(Q, F, M)
  <2>1. OpFine(x, F, M)  BY DEF OpFine
  <2>2. \A q \in Op : OpFine(Q[q], F, M)  BY <2>1, <1>5, <1>11
  <2>3. \A a \in Op : Q[a].pc = "init" => a # o  BY <1>5
  <2>4. \A a, b \in Op : Q[a].pc = "init" /\ Q[b].pc = "init" /\ Q[a].i = Q[b].i => a = b
    BY <2>3, <1>1, <1>5 DEF OpsFine
  <2> QED  BY <2>2, <2>4 DEF OpsFine
<1>13. Born(F) = Born(E)  BY <1>10 DEF Born
<1>14. Used(M) = Used(N)
  <2>1. v # "none" /\ N[i] # "none"  BY <1>3
  <2> QED  BY <2>1, <1>4 DEF Used
<1>15. WillMake(Q) \subseteq WillMake(O) /\ WillLoad(Q) \subseteq WillLoad(O)
  <2>1. ~Makes(x) /\ ~Loads(x)  BY DEF Makes, Loads
  <2> QED  BY <2>1, <1>5 DEF WillMake, WillLoad
<1>16. Counts(Born(E), WillMake(Q), n)  BY <1>2, <1>15, CountsLess
<1>17. Counts(Used(N), WillLoad(Q), n)  BY <1>2, <1>15, CountsLess
<1> QED  BY <1>3, <1>7, <1>9, <1>12, <1>13, <1>14, <1>16, <1>17 DEF Fine

\* plugin_cleanup is over: the entry has no instance any more.
LEMMA FineCleaned ==
  ASSUME NEW E, NEW N, NEW O, NEW n, Fine(E, N, O, n), NEW o \in Op, O[o].pc = "cleanup",
         NEW e, e = O[o].e, NEW i, i = O[o].i, NEW s \in EntryRec, EntryFine(s), s.status # "unborn", s.ctx = 0,
         NEW F, F = [E EXCEPT ![e] = s], NEW M, M = [N EXCEPT ![i] = "stopped"]
  PROVE  Fine(F, M, O, n) /\ e \in Id /\ i \in Id /\ E[e].status # "unborn"
<1>1. PluginTyped(E, N, O, n) /\ EntriesFine(E, N) /\ OpsFine(O, E, N)  BY DEF Fine
<1>2. Counts(Born(E), WillMake(O), n) /\ Counts(Used(N), WillLoad(O), n)  BY DEF Fine
<1>3. /\ e \in Id /\ i \in Id /\ N[i] \in {"cleaning", "stopped"} /\ E[e].status # "unborn"
      /\ \A f \in Id : E[f].ctx = i => f = e
  <2>1. OpFine(O[o], E, N) /\ O[o] \in OpRec  BY <1>1 DEF OpsFine, PluginTyped
  <2> QED  BY <2>1 DEF OpFine, OpRec, Id
<1>4. M[i] = "stopped" /\ (\A j \in Id : j # i => M[j] = N[j]) /\ M \in [Id -> InstState]
  BY <1>1, <1>3 DEF PluginTyped, InstState
<1>5. F[e] = s /\ (\A f \in Id : f # e => F[f] = E[f]) /\ F \in [Id -> EntryRec]
  BY <1>1, <1>3 DEF PluginTyped
<1>6. PluginTyped(F, M, O, n)  BY <1>1, <1>4, <1>5 DEF PluginTyped
<1>7. \A f \in Id : F[f].ctx # 0 => f # e /\ F[f] = E[f] /\ E[f].ctx \in Id /\ E[f].ctx # i
  BY <1>1, <1>3, <1>5 DEF EntriesFine, PluginTyped, EntryRec, Id
<1>8. EntriesFine(F, M)
  <2>1. \A f \in Id : EntryFine(F[f])  BY <1>1, <1>5 DEF EntriesFine
  <2>2. \A f \in Id : F[f].ctx # 0 => M[F[f].ctx] \in {"running", "cleaning"}
    BY <1>1, <1>4, <1>7 DEF EntriesFine
  <2>3. ASSUME NEW f \in Id, NEW g \in Id, F[f].ctx # 0, F[f].ctx = F[g].ctx PROVE f = g
    <3>1. F[g].ctx # 0 /\ F[f] = E[f] /\ F[g] = E[g]  BY <2>3, <1>7
    <3> QED  BY <3>1, <2>3, <1>1 DEF EntriesFine
  <2> QED  BY <2>1, <2>2, <2>3 DEF EntriesFine
<1>9. \A f \in Id : F[f].status # "unborn" <=> E[f].status # "unborn"  BY <1>3, <1>5
<1>10. \A q \in Op : OpFine(O[q], F, M)
  <2> SUFFICES ASSUME NEW q \in Op PROVE OpFine(O[q], F, M)
    OBVIOUS
  <2>1. PICK op : op = O[q]  OBVIOUS
  <2>2. OpFine(op, E, N) /\ op \in OpRec  BY <2>1, <1>1 DEF OpsFine, PluginTyped
  <2>3. (op.i # 0 => op.i \in Id) /\ (op.e # 0 => op.e \in Id)  BY <2>2 DEF OpRec, Id
  <2>5. op.pc = "init" => op.i # 0 /\ M[op.i] = "init"  BY <2>2, <2>3, <1>3, <1>4 DEF OpFine
  <2>6. op.pc = "cleanup" => op.i # 0 /\ M[op.i] \in {"cleaning", "stopped"}
    BY <2>2, <2>3, <1>4 DEF OpFine
  <2>7. op.pc \in {"import", "init", "cleanup", "scan"} /\ op.e # 0 => F[op.e].status # "unborn"
    BY <2>2, <2>3, <1>9 DEF OpFine
  <2>8. ASSUME op.pc = "cleanup", NEW f \in Id, F[f].ctx = op.i PROVE f = op.e
    <3>1. F[f] = E[f]  BY <2>6, <2>8, <1>7
    <3> QED  BY <3>1, <2>2, <2>8 DEF OpFine
  <2> QED  BY <2>1, <2>2, <2>5, <2>6, <2>7, <2>8 DEF OpFine
<1>11. OpsFine(O, F, M)  BY <1>1, <1>10 DEF OpsFine
<1>12. Born(F) = Born(E)  BY <1>9 DEF Born
<1>13. Used(M) = Used(N)  BY <1>3, <1>4 DEF Used
<1> QED  BY <1>2, <1>3, <1>6, <1>8, <1>11, <1>12, <1>13 DEF Fine

-----------------------------------------------------------------------------
(* What comes after an unload *)

\* A fine state in which the table holds an entry that was made.
Outcome(E, N, O, n, tb) == Fine(E, N, O, n) /\ tb \in 0..MaxStart /\ (tb # 0 => E[tb].status # "unborn")

\* The operation is done, loads the entry as it is, or makes an entry.
Follows(x, kind, F, g, tb, H, tc, sv) ==
  \/ H = F /\ x.pc = "idle" /\ (tc = tb \/ (kind = "uninstall" /\ tc = 0))
  \/ H = F /\ tc = tb /\ tb # 0 /\ x.pc = "import" /\ x.e = tb /\ ~F[tb].loaded /\ F[tb].status # "error"
  \/ /\ kind \in {"reload", "import"} /\ (kind = "reload" \/ tb = 0)
     /\ \E s \in EntryRec : ScanOf(s, sv) /\ H = [F EXCEPT ![g] = s] /\ (x.pc = "import" => s.status = "unloaded")
     /\ tc = g /\ x.pc \in {"idle", "import"} /\ (x.pc = "import" => x.e = g)

\* What follows an operation is in order.
LEMMA FineAfter ==
  ASSUME NEW F, NEW N, NEW O, NEW n, Fine(F, N, O, n), NEW o \in Op, Loads(O[o]),
         NEW kind, NEW g, kind \in {"reload", "import"} => Makes(O[o]) /\ g \in Id /\ F[g] = Unborn,
         NEW tb \in 0..MaxStart, tb # 0 => F[tb].status # "unborn", NEW x \in OpRec, NEW sv, NEW H, NEW tc,
         Follows(x, kind, F, g, tb, H, tc, sv), NEW Q, Q = [O EXCEPT ![o] = x]
  PROVE  Outcome(H, N, Q, n, tc)
<1>1. CASE H = F /\ x.pc = "idle" /\ (tc = tb \/ (kind = "uninstall" /\ tc = 0))
  <2>1. OpFine(x, F, N) /\ ~Makes(x) /\ ~Loads(x) /\ x.pc # "init"  BY <1>1 DEF OpFine, Makes, Loads
  <2>2. Fine(F, N, Q, n)  BY <2>1, FineOp
  <2> QED  BY <2>2, <1>1, PluginAssumption DEF Outcome
<1>2. CASE H = F /\ tc = tb /\ tb # 0 /\ x.pc = "import" /\ x.e = tb
  <2>1. OpFine(x, F, N) /\ ~Makes(x) /\ x.pc # "init"  BY <1>2 DEF OpFine, Makes
  <2>2. Fine(F, N, Q, n)  BY <2>1, FineOp
  <2> QED  BY <2>2, <1>2 DEF Outcome
<1>3. ASSUME kind \in {"reload", "import"}, tc = g, x.pc \in {"idle", "import"}, x.pc = "import" => x.e = g,
             NEW s \in EntryRec, ScanOf(s, sv), H = [F EXCEPT ![g] = s]
      PROVE  Outcome(H, N, Q, n, tc)
  <2>1. Makes(O[o]) /\ g \in Id /\ F[g] = Unborn /\ (x.pc # "idle" => x.e = g) /\ x.pc \in {"idle", "import", "scan"}
    BY <1>3
  <2>2. Fine(H, N, Q, n)  BY <2>1, <1>3, FineEntry
  <2>3. F \in [Id -> EntryRec]  BY DEF Fine, PluginTyped
  <2>4. H[g] = s  BY <2>1, <2>3, <1>3
  <2>5. s.status # "unborn"  BY <1>3 DEF ScanOf
  <2>6. g \in 0..MaxStart  BY <2>1, PluginAssumption DEF Id
  <2> QED  BY <2>2, <2>4, <2>5, <2>6, <1>3 DEF Outcome
<1> QED  BY <1>1, <1>2, <1>3 DEF Follows

\* What an operation that reaches an unload does: the loaded entry's instance
\* is cleaned up first, or what comes after happens at once.
Turns(x, kind, F, g, tb, H, tc, sv, N, M) ==
  \/ /\ tb # 0 /\ F[tb].status = "loaded" /\ H = F /\ tc = tb
     /\ x.pc = "cleanup" /\ x.kind = kind /\ x.e = tb /\ x.i = F[tb].ctx
     /\ M = [N EXCEPT ![F[tb].ctx] = IF N[F[tb].ctx] = "running" THEN "cleaning" ELSE N[F[tb].ctx]]
  \/ /\ M = N /\ Follows(x, kind, F, g, tb, H, tc, sv)
     /\ kind \in {"uninstall", "reload"} => tb = 0 \/ F[tb].status # "loaded"

\* So is its turn.
LEMMA TurnsFine ==
  ASSUME NEW F, NEW N, NEW O, NEW n, Fine(F, N, O, n), NEW o \in Op, O[o].pc = "extract",
         NEW kind, kind # "none", NEW g \in Id, F[g] = Unborn,
         NEW tb \in 0..MaxStart, tb # 0 => F[tb].status # "unborn", NEW x \in OpRec, NEW sv, NEW H, NEW tc, NEW M,
         Turns(x, kind, F, g, tb, H, tc, sv, N, M), NEW Q, Q = [O EXCEPT ![o] = x]
  PROVE  Outcome(H, M, Q, n, tc)
<1>1. Makes(O[o]) /\ Loads(O[o])  BY DEF Makes, Loads
<1>2. CASE M = N /\ Follows(x, kind, F, g, tb, H, tc, sv)
  <2>0. kind \in {"reload", "import"} => Makes(O[o]) /\ g \in Id /\ F[g] = Unborn  BY <1>1
  <2>1. Outcome(H, N, Q, n, tc)
    BY <1>1, <1>2, <2>0, FineAfter
  <2> QED  BY <2>1, <1>2
<1>3. ASSUME tb # 0, F[tb].status = "loaded", H = F, tc = tb,
             x.pc = "cleanup", x.kind = kind, x.e = tb, x.i = F[tb].ctx,
             M = [N EXCEPT ![F[tb].ctx] = IF N[F[tb].ctx] = "running" THEN "cleaning" ELSE N[F[tb].ctx]]
      PROVE  Fine(F, M, Q, n)
  <2>1. tb \in Id  BY <1>3, PluginAssumption DEF Id
  <2>2. PICK i : i = F[tb].ctx  OBVIOUS
  <2>3. EntryFine(F[tb])  BY <2>1 DEF Fine, EntriesFine
  <2>4. i # 0  BY <2>2, <2>3, <1>3 DEF EntryFine
  <2>5. M = [N EXCEPT ![i] = IF N[i] = "running" THEN "cleaning" ELSE N[i]]  BY <2>2, <1>3
  <2>6. x.e = tb /\ x.i = i /\ x.kind # "none" /\ x.pc = "cleanup"  BY <2>2, <1>3
  <2>7. Makes(x) => Makes(O[o])  BY <1>1
  <2> QED  BY <2>1, <2>2, <2>4, <2>5, <2>6, <2>7, <1>1, FineUnload
<1>4. ASSUME H = F, tc = tb, Fine(F, M, Q, n) PROVE Outcome(H, M, Q, n, tc)  BY <1>4 DEF Outcome
<1> QED  BY <1>2, <1>3, <1>4 DEF Turns

-----------------------------------------------------------------------------
(* What the actions do *)

\* What loading leaves.
LEMMA LoadingDoes ==
  ASSUME NEW o \in Op, ops \in [Op -> OpRec], NEW e \in 0..MaxStart, NEW en, Loading(o, e, en)
  PROVE  \E x \in OpRec : /\ ops' = [ops EXCEPT ![o] = x]
                          /\ (x.pc = "idle" \/ (x.pc = "import" /\ x.e = e /\ ~en.loaded /\ en.status # "error"))
<1>1. CASE en.loaded \/ en.status = "error"
  <2>1. IdleOp \in OpRec /\ IdleOp.pc = "idle"  BY PluginAssumption DEF IdleOp, OpRec, OpKind
  <2>2. ops' = [ops EXCEPT ![o] = IdleOp]  BY <1>1 DEF Loading, OpDone
  <2> QED  BY <2>1, <2>2
<1>2. CASE ~(en.loaded \/ en.status = "error")
  <2>1. PICK x : x = [pc |-> "import", kind |-> ops[o].kind, e |-> e, i |-> ops[o].i]  OBVIOUS
  <2>2. x \in OpRec /\ x.pc = "import" /\ x.e = e  BY <2>1 DEF OpRec
  <2>3. ops' = [ops EXCEPT ![o].pc = "import", ![o].e = e]  BY <1>2 DEF Loading
  <2>4. ops' = [ops EXCEPT ![o] = x]
    <3>1. PICK op \in OpRec : op = ops[o]  OBVIOUS
    <3>2. PICK y : y = [op EXCEPT !.pc = "import"]  OBVIOUS
    <3>3. y \in OpRec /\ y = [pc |-> "import", kind |-> op.kind, e |-> op.e, i |-> op.i]  BY <3>2 DEF OpRec
    <3>4. [y EXCEPT !.e = e] = x  BY <3>1, <3>3, <2>1 DEF OpRec
    <3>5. ops' = [ops EXCEPT ![o] = [y EXCEPT !.e = e]]  BY <3>1, <3>2, <2>3
    <3> QED  BY <3>4, <3>5
  <2> QED  BY <2>2, <2>4, <1>2
<1> QED  BY <1>1, <1>2

\* What the end of an operation leaves.
LEMMA DoneDoes ==
  ASSUME NEW o \in Op, OpDone(o)
  PROVE  \E x \in OpRec : ops' = [ops EXCEPT ![o] = x] /\ x.pc = "idle"
<1>1. IdleOp \in OpRec /\ IdleOp.pc = "idle"  BY PluginAssumption DEF IdleOp, OpRec, OpKind
<1>2. ops' = [ops EXCEPT ![o] = IdleOp]  BY DEF OpDone
<1> QED  BY <1>1, <1>2

Places == {"none", "partial", "whole"}

\* What a scan finds.
LEMMA ScansEntry == ASSUME NEW d, saved \in BOOLEAN, NEW s, s = ScannedEntry(d) PROVE s \in EntryRec /\ ScanOf(s, saved)
<1> QED  BY PluginAssumption DEF ScannedEntry, EntryRec, ScanOf

\* What the replacement of an entry leaves.
LEMMA ReplacedDoes ==
  ASSUME NEW o \in Op, ops \in [Op -> OpRec], saved \in BOOLEAN, NEW F, NEW d, NEW g \in Id, g = NewEntry, Replaced(o, F, d)
  PROVE  \E x \in OpRec, s \in EntryRec :
           /\ ops' = [ops EXCEPT ![o] = x] /\ ScanOf(s, saved) /\ entries' = [F EXCEPT ![g] = s] /\ table' = g
           /\ x.pc \in {"idle", "import"} /\ (x.pc = "import" => x.e = g /\ s.status = "unloaded")
<1>1. PICK s : s = ScannedEntry(d)  OBVIOUS
<1>2. s \in EntryRec /\ ScanOf(s, saved)  BY <1>1, ScansEntry
<1>3. entries' = [F EXCEPT ![g] = s] /\ table' = g  BY <1>1 DEF Replaced
<1>4. g \in 0..MaxStart  BY PluginAssumption DEF Id
<1>5. CASE saved
  <2>1. Loading(o, g, s)  BY <1>1, <1>5 DEF Replaced
  <2>2. PICK x \in OpRec : /\ ops' = [ops EXCEPT ![o] = x]
                          /\ (x.pc = "idle" \/ (x.pc = "import" /\ x.e = g /\ ~s.loaded /\ s.status # "error"))
    BY <2>1, <1>4, LoadingDoes
  <2>3. x.pc = "import" => x.e = g /\ s.status = "unloaded"  BY <2>2, <1>2 DEF ScanOf
  <2>4. x.pc \in {"idle", "import"}  BY <2>2
  <2> s \in EntryRec  BY <1>2
  <2> WITNESS x \in OpRec, s \in EntryRec
  <2> QED  BY <2>2, <2>3, <2>4, <1>2, <1>3
<1>6. CASE ~saved
  <2>1. OpDone(o)  BY <1>6 DEF Replaced
  <2>2. PICK x \in OpRec : ops' = [ops EXCEPT ![o] = x] /\ x.pc = "idle"  BY <2>1, DoneDoes
  <2> QED  BY <2>2, <1>2, <1>3
<1> QED  BY <1>5, <1>6

\* What goes on after an operation leaves.
LEMMA AfterDoes ==
  ASSUME NEW o \in Op, ops \in [Op -> OpRec], saved \in BOOLEAN, table \in 0..MaxStart, NEW kind, NEW F, NEW d \in Places,
         NEW g, g = NewEntry, NEW sv, kind \in {"reload", "import"} => g \in Id /\ sv = saved, AfterUnload(o, kind, F, d)
  PROVE  /\ disk' \in Places
         /\ \E x \in OpRec : ops' = [ops EXCEPT ![o] = x] /\ Follows(x, kind, F, g, table, entries', table', sv)
<1>1. CASE kind = "disable" /\ entries' = F /\ table' = table /\ disk' = d /\ OpDone(o)
  <2>1. PICK x \in OpRec : ops' = [ops EXCEPT ![o] = x] /\ x.pc = "idle"  BY <1>1, DoneDoes
  <2> QED  BY <2>1, <1>1 DEF Follows
<1>2. CASE kind = "uninstall" /\ entries' = F /\ table' = 0 /\ disk' = "none" /\ OpDone(o)
  <2>1. PICK x \in OpRec : ops' = [ops EXCEPT ![o] = x] /\ x.pc = "idle"  BY <1>2, DoneDoes
  <2> QED  BY <2>1, <1>2 DEF Follows, Places
<1>3. ASSUME Replaced(o, F, d), kind = "reload" \/ (kind = "import" /\ table = 0)
      PROVE  \E x \in OpRec : ops' = [ops EXCEPT ![o] = x] /\ Follows(x, kind, F, g, table, entries', table', sv)
  <2>1. g \in Id /\ sv = saved  BY <1>3
  <2>2. PICK x \in OpRec, s \in EntryRec :
           /\ ops' = [ops EXCEPT ![o] = x] /\ ScanOf(s, saved) /\ entries' = [F EXCEPT ![g] = s] /\ table' = g
           /\ x.pc \in {"idle", "import"} /\ (x.pc = "import" => x.e = g /\ s.status = "unloaded")
    BY <2>1, <1>3, ReplacedDoes
  <2>3. Follows(x, kind, F, g, table, entries', table', sv)  BY <2>1, <2>2, <1>3 DEF Follows
  <2> QED  BY <2>2, <2>3
<1>4. CASE kind = "reload" /\ Replaced(o, F, d) /\ disk' = d  BY <1>3, <1>4
<1>5. CASE kind = "import" /\ LoadedById(o, F, "whole") /\ disk' = "whole"
  <2>1. CASE table = 0
    <3>1. Replaced(o, F, "whole")  BY <2>1, <1>5 DEF LoadedById
    <3>2. g \in Id /\ sv = saved  BY <1>5
    <3>3. PICK x \in OpRec, s \in EntryRec :
             /\ ops' = [ops EXCEPT ![o] = x] /\ ScanOf(s, saved) /\ entries' = [F EXCEPT ![g] = s] /\ table' = g
             /\ x.pc \in {"idle", "import"} /\ (x.pc = "import" => x.e = g /\ s.status = "unloaded")
      BY <3>1, <3>2, ReplacedDoes
    <3>4. Follows(x, kind, F, g, table, entries', table', sv)  BY <3>2, <3>3, <2>1, <1>5 DEF Follows
    <3> QED  BY <3>3, <3>4, <1>5 DEF Places
  <2>2. CASE table # 0 /\ F[table].enable
    <3>1. entries' = F /\ table' = table /\ Loading(o, table, F[table])  BY <2>2, <1>5 DEF LoadedById
    <3>2. PICK x \in OpRec :
             /\ ops' = [ops EXCEPT ![o] = x]
             /\ (x.pc = "idle" \/ (x.pc = "import" /\ x.e = table /\ ~F[table].loaded /\ F[table].status # "error"))
      BY <3>1, LoadingDoes
    <3>3. Follows(x, kind, F, g, table, entries', table', sv)  BY <3>1, <3>2, <2>2 DEF Follows
    <3> QED  BY <3>2, <3>3, <1>5 DEF Places
  <2>3. CASE table # 0 /\ ~F[table].enable
    <3>1. entries' = F /\ table' = table /\ OpDone(o)  BY <2>3, <1>5 DEF LoadedById
    <3>2. PICK x \in OpRec : ops' = [ops EXCEPT ![o] = x] /\ x.pc = "idle"  BY <3>1, DoneDoes
    <3>3. Follows(x, kind, F, g, table, entries', table', sv)  BY <3>1, <3>2 DEF Follows
    <3> QED  BY <3>2, <3>3, <1>5 DEF Places
  <2> QED  BY <2>1, <2>2, <2>3
<1> QED  BY <1>1, <1>2, <1>4, <1>5 DEF AfterUnload

\* What unloading leaves.
LEMMA UnloadingDoes ==
  ASSUME NEW o \in Op, ops \in [Op -> OpRec], saved \in BOOLEAN, NEW tb, tb = table, tb \in Id,
         NEW kind \in OpKind, NEW F \in [Id -> EntryRec], NEW d \in Places,
         NEW g, g = NewEntry, NEW sv, kind \in {"reload", "import"} => g \in Id /\ sv = saved, Unloading(o, kind, tb, F, d)
  PROVE  /\ disk' \in Places
         /\ \E x \in OpRec : ops' = [ops EXCEPT ![o] = x] /\ Turns(x, kind, F, g, table, entries', table', sv, inst, inst')
<1>1. table \in 0..MaxStart /\ table # 0 /\ table = tb  BY PluginAssumption DEF Id
<1>2. CASE F[tb].status = "loaded"
  <2>1. PICK i : i = F[tb].ctx  OBVIOUS
  <2>2. PICK x : x = [pc |-> "cleanup", kind |-> kind, e |-> tb, i |-> i]  OBVIOUS
  <2>3. i \in 0..MaxStart /\ tb \in 0..MaxStart  BY <2>1, <1>1 DEF EntryRec
  <2>4. x \in OpRec /\ x.pc = "cleanup" /\ x.kind = kind /\ x.e = tb /\ x.i = i  BY <2>2, <2>3 DEF OpRec
  <2>5. ops' = [ops EXCEPT ![o] = x]  BY <1>2, <2>1, <2>2 DEF Unloading
  <2>6. inst' = [inst EXCEPT ![i] = IF inst[i] = "running" THEN "cleaning" ELSE inst[i]]
    BY <1>2, <2>1 DEF Unloading
  <2>7. entries' = F /\ disk' = d /\ table' = table  BY <1>2 DEF Unloading
  <2>8. Turns(x, kind, F, g, table, entries', table', sv, inst, inst')  BY <1>1, <1>2, <2>1, <2>4, <2>6, <2>7 DEF Turns
  <2> QED  BY <2>4, <2>5, <2>7, <2>8
<1>3. CASE F[tb].status # "loaded"
  <2>1. AfterUnload(o, kind, F, d) /\ inst' = inst  BY <1>3 DEF Unloading
  <2>2. disk' \in Places  BY <1>1, <2>1, AfterDoes
  <2>3. PICK x \in OpRec : ops' = [ops EXCEPT ![o] = x] /\ Follows(x, kind, F, g, table, entries', table', sv)
    BY <1>1, <2>1, AfterDoes
  <2>4. Turns(x, kind, F, g, table, entries', table', sv, inst, inst')  BY <1>1, <1>3, <2>1, <2>3 DEF Turns
  <2> QED  BY <2>2, <2>3, <2>4
<1> QED  BY <1>2, <1>3

-----------------------------------------------------------------------------
(* One operation at a time *)

AliveIn(N) == {i \in Id : N[i] \in {"init", "running", "cleaning"}}
CtxOf(E, tb) == IF tb = 0 THEN 0 ELSE E[tb].ctx

\* The entry in the table says what plugins.json says, is flagged loaded
\* exactly if it has an instance, and that instance has the routes.
TableSolo(E, tb, rt, sv) ==
  tb # 0 => /\ E[tb].enable = sv /\ (E[tb].loaded <=> E[tb].ctx # 0)
            /\ E[tb].ctx # 0 => rt = E[tb].ctx
\* The operation works on that entry, whose instance is the only one alive.
OpSolo(op, E, tb, rt, sv, al) ==
  /\ op.pc # "init" => al = {CtxOf(E, tb)} \ {0}
  /\ op.pc = "init" => al = {op.i} /\ rt = op.i
  /\ op.pc = "scan" => tb = 0 /\ (op.e # 0 => E[op.e].enable = sv /\ ~E[op.e].loaded /\ E[op.e].ctx = 0)
  /\ op.pc \in {"import", "init"} => tb = op.e /\ E[tb].status = "unloaded"
  /\ op.pc = "cleanup" => tb = op.e /\ E[tb].ctx = op.i
Solo(op, E, tb, rt, sv, al) == TableSolo(E, tb, rt, sv) /\ OpSolo(op, E, tb, rt, sv, al)

Alone(O, o) == \A q \in Op : q # o => O[q].pc = "idle"
SoloInv == ~opsOverlapped =>
  /\ \A o, q \in Op : ops[o].pc # "idle" /\ ops[q].pc # "idle" => o = q
  /\ TableSolo(entries, table, router, saved)
  /\ (\A o \in Op : ops[o].pc = "idle") => AliveIn(inst) = {CtxOf(entries, table)} \ {0}
  /\ \A o \in Op : ops[o].pc # "idle" => OpSolo(ops[o], entries, table, router, saved, AliveIn(inst))

\* The only operation in flight, if one is.
LEMMA SoloBefore ==
  ASSUME SoloInv, ~opsOverlapped, NEW o \in Op, ops[o].pc # "idle" \/ \A q \in Op : ops[q].pc = "idle"
  PROVE  Alone(ops, o) /\ Solo(ops[o], entries, table, router, saved, AliveIn(inst))
<1>1. Alone(ops, o)  BY DEF SoloInv, Alone
<1>2. TableSolo(entries, table, router, saved)  BY DEF SoloInv
<1>3. CASE ops[o].pc # "idle"  BY <1>1, <1>2, <1>3 DEF SoloInv, Solo
<1>4. CASE \A q \in Op : ops[q].pc = "idle"
  <2>1. AliveIn(inst) = {CtxOf(entries, table)} \ {0} /\ ops[o].pc = "idle"  BY <1>4 DEF SoloInv
  <2> QED  BY <1>1, <1>2, <2>1 DEF Solo, OpSolo
<1> QED  BY <1>3, <1>4

\* An operation stays alone.
LEMMA SoloAfter ==
  ASSUME ops \in [Op -> OpRec], NEW o \in Op, NEW x, ops' = [ops EXCEPT ![o] = x],
         ~opsOverlapped' => Alone(ops, o) /\ Solo(x, entries', table', router', saved', AliveIn(inst'))
  PROVE  SoloInv'
<1> SUFFICES ASSUME ~opsOverlapped'
             PROVE  /\ \A a, q \in Op : ops'[a].pc # "idle" /\ ops'[q].pc # "idle" => a = q
                    /\ TableSolo(entries', table', router', saved')
                    /\ (\A a \in Op : ops'[a].pc = "idle") => AliveIn(inst') = {CtxOf(entries', table')} \ {0}
                    /\ \A a \in Op : ops'[a].pc # "idle" => OpSolo(ops'[a], entries', table', router', saved', AliveIn(inst'))
  BY DEF SoloInv
<1>1. ops'[o] = x /\ \A q \in Op : q # o => ops'[q] = ops[q]  OBVIOUS
<1>2. \A q \in Op : q # o => ops'[q].pc = "idle"  BY <1>1 DEF Alone
<1>3. TableSolo(entries', table', router', saved') /\ OpSolo(x, entries', table', router', saved', AliveIn(inst'))
  BY DEF Solo
<1>4. x.pc = "idle" => AliveIn(inst') = {CtxOf(entries', table')} \ {0}  BY <1>3 DEF OpSolo
<1> QED  BY <1>1, <1>2, <1>3, <1>4

\* What an operation that reaches an unload does, when it is the only one.
LEMMA TurnsSolo ==
  ASSUME NEW F \in [Id -> EntryRec], NEW N, EntriesFine(F, N), NEW g \in Id, NEW tb \in 0..MaxStart, NEW rt, NEW sv,
         tb # 0 => F[tb].status # "unborn", TableSolo(F, tb, rt, sv), AliveIn(N) = {CtxOf(F, tb)} \ {0},
         NEW x, NEW kind, NEW H, NEW tc, NEW M, Turns(x, kind, F, g, tb, H, tc, sv, N, M)
  PROVE  Solo(x, H, tc, rt, sv, AliveIn(M))
<1>0. tb # 0 => tb \in Id  BY PluginAssumption DEF Id
<1>1. ASSUME tb # 0, F[tb].status = "loaded", H = F, tc = tb,
             x.pc = "cleanup", x.kind = kind, x.e = tb, x.i = F[tb].ctx,
             M = [N EXCEPT ![F[tb].ctx] = IF N[F[tb].ctx] = "running" THEN "cleaning" ELSE N[F[tb].ctx]]
      PROVE  Solo(x, H, tc, rt, sv, AliveIn(M))
  <2>1. PICK i : i = F[tb].ctx  OBVIOUS
  <2>2. M = [N EXCEPT ![i] = IF N[i] = "running" THEN "cleaning" ELSE N[i]]  BY <2>1, <1>1
  <2>3. AliveIn(M) = AliveIn(N)
    <3>1. \A j \in Id : M[j] = N[j] \/ (N[j] = "running" /\ M[j] = "cleaning")  BY <2>2
    <3> QED  BY <3>1 DEF AliveIn
  <2> QED  BY <1>1, <2>3 DEF Solo, OpSolo
<1>2. tb # 0 => EntryFine(F[tb])  BY <1>0 DEF EntriesFine
<1>3. ASSUME M = N, kind \in {"uninstall", "reload"} => tb = 0 \/ F[tb].status # "loaded", Follows(x, kind, F, g, tb, H, tc, sv)
      PROVE  Solo(x, H, tc, rt, sv, AliveIn(M))
  <2>1. CASE H = F /\ x.pc = "idle" /\ tc = tb  BY <2>1, <1>3 DEF Solo, OpSolo
  <2>2. CASE H = F /\ x.pc = "idle" /\ kind = "uninstall" /\ tc = 0
    <3>1. CtxOf(F, tb) = 0  BY <2>2, <1>2, <1>3 DEF CtxOf, EntryFine
    <3>2. CtxOf(H, tc) = 0  BY <2>2 DEF CtxOf
    <3> QED  BY <2>2, <3>1, <3>2, <1>3 DEF Solo, OpSolo, TableSolo
  <2>3. CASE H = F /\ tc = tb /\ tb # 0 /\ x.pc = "import" /\ x.e = tb /\ ~F[tb].loaded /\ F[tb].status # "error"
    <3>1. F[tb].status = "unloaded"
      <4>1. F[tb].status \in {"unborn", "unloaded", "loaded", "error"}  BY <2>3, <1>0 DEF EntryRec
      <4> QED  BY <4>1, <2>3, <1>2 DEF EntryFine
    <3> QED  BY <2>3, <3>1, <1>3 DEF Solo, OpSolo
  <2>4. ASSUME kind = "reload" \/ tb = 0, kind \in {"reload", "import"}, NEW s \in EntryRec, ScanOf(s, sv),
               H = [F EXCEPT ![g] = s],
               x.pc = "import" => s.status = "unloaded", tc = g, x.pc \in {"idle", "import"}, x.pc = "import" => x.e = g
        PROVE  Solo(x, H, tc, rt, sv, AliveIn(M))
    <3>1. CtxOf(F, tb) = 0  BY <2>4, <1>2, <1>3 DEF CtxOf, EntryFine
    <3>2. H[g] = s  BY <2>4
    <3>3. s.enable = sv /\ s.loaded = FALSE /\ s.ctx = 0  BY <2>4 DEF ScanOf
    <3>4. CtxOf(H, tc) = 0  BY <2>4, <3>2, <3>3 DEF CtxOf
    <3>5. TableSolo(H, tc, rt, sv)  BY <2>4, <3>2, <3>3 DEF TableSolo
    <3> QED  BY <2>4, <3>1, <3>2, <3>4, <3>5, <1>3 DEF Solo, OpSolo
  <2> QED  BY <1>3, <2>1, <2>2, <2>3, <2>4 DEF Follows
<1> QED  BY <1>1, <1>3 DEF Turns

-----------------------------------------------------------------------------
(* The steps *)

PlugInv == GenInv /\ SoloInv

\* The parts of the invariant.
LEMMA InvHas ==
  ASSUME GenInv
  PROVE  /\ isEnable \in BOOLEAN /\ saved \in BOOLEAN /\ opsOverlapped \in BOOLEAN /\ disk \in Places
         /\ table \in 0..MaxStart /\ router \in 0..MaxStart /\ (table # 0 => table \in Id /\ entries[table].status # "unborn")
         /\ Fine(entries, inst, ops, started) /\ EntriesFine(entries, inst)
         /\ entries \in [Id -> EntryRec] /\ inst \in [Id -> InstState] /\ ops \in [Op -> OpRec]
         /\ started \in Nat /\ started \in 0..MaxStart
<1>1. Fine(entries, inst, ops, started)  BY DEF GenInv
<1>2. PluginTyped(entries, inst, ops, started) /\ EntriesFine(entries, inst)  BY <1>1 DEF Fine
<1> QED  BY <1>1, <1>2, PluginAssumption DEF GenInv, PluginTyped, Places, Id

\* The manager is enabled once an operation has begun.
LEMMA Enabled ==
  ASSUME GenInv, NEW o \in Op, ops[o].pc # "idle"
  PROVE  isEnable = TRUE
<1> QED  BY DEF GenInv, InFlight

\* The parts make the invariant again.
LEMMA StepEnds ==
  ASSUME PlugInv, NEW o \in Op, NEW x, ops' = [ops EXCEPT ![o] = x], isEnable' = TRUE, saved' \in BOOLEAN,
         opsOverlapped' \in BOOLEAN,
         disk' \in Places, table' \in 0..MaxStart, router' \in 0..MaxStart, table' # 0 => entries'[table'].status # "unborn",
         Fine(entries', inst', ops', started'),
         ~opsOverlapped' => Alone(ops, o) /\ Solo(x, entries', table', router', saved', AliveIn(inst'))
  PROVE  PlugInv'
<1>1. ops \in [Op -> OpRec]  BY InvHas DEF PlugInv
<1>2. SoloInv'  BY <1>1, SoloAfter
<1>3. GenInv'  BY DEF GenInv, Places
<1> QED  BY <1>2, <1>3 DEF PlugInv

\* The names of the next entry and the next instance.
LEMMA NewEntryIs ==
  ASSUME NEW O, NEW n, Fine(entries, inst, O, n), NEW o \in Op, Makes(O[o])
  PROVE  NewEntry \in Id /\ entries[NewEntry] = Unborn
<1>1. \E e \in Id : entries[e] = Unborn  BY RoomForEntry
<1> QED  BY <1>1 DEF NewEntry

\* A new instance.
LEMMA NewInstIs ==
  ASSUME NEW O, NEW n, Fine(entries, inst, O, n), NEW o \in Op, Loads(O[o])
  PROVE  NewInst \in Id /\ inst[NewInst] = "none"
<1>1. \E i \in Id : inst[i] = "none"  BY RoomForInst
<1> QED  BY <1>1 DEF NewInst

\* An operation is put in the place of another.
Puts(Q, O, o, x) == Q = [O EXCEPT ![o] = x]

\* An operation turns out to unload what entry the table has, or not to.
LEMMA TurnedEnds ==
  ASSUME PlugInv, NEW o \in Op, NEW P, P[o].pc = "extract", NEW F, Fine(F, inst, P, started'),
         NEW kind, kind # "none", NEW g \in Id, F[g] = Unborn, table # 0 => F[table].status # "unborn",
         NEW x \in OpRec, Puts(ops', ops, o, x), Puts(ops', P, o, x),
         Turns(x, kind, F, g, table, entries', table', saved', inst, inst'),
         isEnable' = TRUE, saved' \in BOOLEAN, opsOverlapped' \in BOOLEAN, disk' \in Places, router' = router,
         ~opsOverlapped' => Alone(ops, o) /\ TableSolo(F, table, router, saved') /\ AliveIn(inst) = {CtxOf(F, table)} \ {0}
  PROVE  PlugInv'
<1>1. table \in 0..MaxStart /\ router' \in 0..MaxStart  BY InvHas DEF PlugInv
<1>0. ops' = [ops EXCEPT ![o] = x] /\ ops' = [P EXCEPT ![o] = x]  BY DEF Puts
<1>2. /\ Fine(entries', inst', ops', started') /\ table' \in 0..MaxStart
      /\ table' # 0 => entries'[table'].status # "unborn"
  <2>1. PICK H, M, Q, n, tb, tc, sv : /\ H = entries' /\ M = inst' /\ Q = ops' /\ n = started' /\ tb = table
                                     /\ tc = table' /\ sv = saved'
    OBVIOUS
  <2>2. Fine(F, inst, P, n) /\ Turns(x, kind, F, g, tb, H, tc, sv, inst, M) /\ Q = [P EXCEPT ![o] = x]  BY <2>1, <1>0
  <2>3. tb \in 0..MaxStart /\ (tb # 0 => F[tb].status # "unborn")  BY <2>1, <1>1
  <2>4. Outcome(H, M, Q, n, tc)  BY <2>2, <2>3, TurnsFine
  <2>5. Outcome(entries', inst', ops', started', table')  BY <2>1, <2>4
  <2> QED  BY <2>5 DEF Outcome
<1>3. F \in [Id -> EntryRec] /\ EntriesFine(F, inst)  BY DEF Fine, PluginTyped
<1>4. ASSUME ~opsOverlapped' PROVE Alone(ops, o) /\ Solo(x, entries', table', router', saved', AliveIn(inst'))
  <2>1. TableSolo(F, table, router, saved') /\ AliveIn(inst) = {CtxOf(F, table)} \ {0} /\ Alone(ops, o)  BY <1>4
  <2>2. Solo(x, entries', table', router, saved', AliveIn(inst'))  BY <1>1, <1>3, <2>1, TurnsSolo
  <2> QED  BY <2>1, <2>2
<1> QED  BY <1>0, <1>1, <1>2, <1>4, StepEnds

\* An operation that begins.
LEMMA BeginDoes ==
  ASSUME PlugInv, NEW o \in Op, Begin(o), NEW P, P = [ops EXCEPT ![o] = Begun]
  PROVE  /\ Fine(entries, inst, P, started') /\ P[o].pc = "extract" /\ P \in [Op -> OpRec]
         /\ Makes(P[o]) /\ Loads(P[o]) /\ NewEntry \in Id /\ entries[NewEntry] = Unborn
         /\ isEnable = TRUE /\ started' = started + 1 /\ started < MaxStart /\ opsOverlapped' \in BOOLEAN
         /\ \A x : [P EXCEPT ![o] = x] = [ops EXCEPT ![o] = x]
         /\ ~opsOverlapped' => /\ Alone(ops, o) /\ TableSolo(entries, table, router, saved)
                               /\ AliveIn(inst) = {CtxOf(entries, table)} \ {0}
<1>1. isEnable = TRUE /\ started < MaxStart /\ started' = started + 1 /\ opsOverlapped' = (opsOverlapped \/ InFlight # {})
  BY InvHas DEF Begin, PlugInv
<1>2. Fine(entries, inst, ops, started) /\ ops \in [Op -> OpRec]  BY InvHas DEF PlugInv
<1>3. Fine(entries, inst, P, started')  BY <1>1, <1>2, FineBegin
<1>4. P[o] = Begun /\ P \in [Op -> OpRec]
  <2>1. Begun \in OpRec  BY PluginAssumption DEF Begun, OpRec, OpKind
  <2> QED  BY <1>2, <2>1
<1>5. P[o].pc = "extract" /\ Makes(P[o]) /\ Loads(P[o])  BY <1>4 DEF Begun, Makes, Loads
<1>6. NewEntry \in Id /\ entries[NewEntry] = Unborn  BY <1>3, <1>5, NewEntryIs
<1>7. ASSUME ~opsOverlapped'
      PROVE  Alone(ops, o) /\ TableSolo(entries, table, router, saved) /\ AliveIn(inst) = {CtxOf(entries, table)} \ {0}
  <2>1. ~opsOverlapped /\ InFlight = {}  BY <1>1, <1>7
  <2>2. \A q \in Op : ops[q].pc = "idle"  BY <2>1 DEF InFlight
  <2>3. Alone(ops, o) /\ Solo(ops[o], entries, table, router, saved, AliveIn(inst))
    BY <2>1, <2>2, SoloBefore DEF PlugInv
  <2> QED  BY <2>2, <2>3 DEF Solo, OpSolo
<1>8. \A x : [P EXCEPT ![o] = x] = [ops EXCEPT ![o] = x]  BY <1>2
<1> QED  BY <1>1, <1>3, <1>4, <1>5, <1>6, <1>7, <1>8

\* Setting the flag of the entry in the table.
LEMMA FlagFine ==
  ASSUME NEW E, NEW N, NEW O, NEW n, Fine(E, N, O, n), NEW tb \in Id, E[tb].status # "unborn", NEW v \in BOOLEAN,
         NEW F, F = [E EXCEPT ![tb].enable = v]
  PROVE  Fine(F, N, O, n)
<1>1. E \in [Id -> EntryRec] /\ EntriesFine(E, N)  BY DEF Fine, PluginTyped
<1>2. PICK s : s = [enable |-> v, loaded |-> E[tb].loaded, status |-> E[tb].status, ctx |-> E[tb].ctx]  OBVIOUS
<1>3. s \in EntryRec  BY <1>1, <1>2 DEF EntryRec
<1>4. F = [E EXCEPT ![tb] = s]
  <2>1. PICK en \in EntryRec : en = E[tb]  BY <1>1
  <2>2. [en EXCEPT !.enable = v] = s  BY <2>1, <1>2 DEF EntryRec
  <2>3. F = [E EXCEPT ![tb] = [en EXCEPT !.enable = v]]  BY <2>1
  <2> QED  BY <2>2, <2>3
<1>5. s.status # "unborn" /\ s.ctx \in {0, E[tb].ctx}  BY <1>2
<1>6. EntryFine(s)
  <2>1. EntryFine(E[tb])  BY <1>1 DEF EntriesFine
  <2> QED  BY <2>1, <1>2, <1>5 DEF EntryFine
<1> QED  BY <1>3, <1>4, <1>5, <1>6, FineEntries

\* It changes nothing else.
LEMMA FlagSet ==
  ASSUME NEW E \in [Id -> EntryRec], NEW tb \in Id, NEW v \in BOOLEAN, NEW F, F = [E EXCEPT ![tb].enable = v]
  PROVE  /\ F[tb].status = E[tb].status /\ F[tb].loaded = E[tb].loaded
         /\ F[tb].ctx = E[tb].ctx /\ F[tb].enable = v /\ \A g \in Id : g # tb => F[g] = E[g]
<1> QED  BY DEF EntryRec

\* An entry a loaded plugin does not have stays out of it.
LEMMA IdleSolo ==
  ASSUME NEW x, x.pc \in {"idle", "extract"}, NEW E, NEW tb, NEW rt, NEW sv, NEW al, TableSolo(E, tb, rt, sv),
         al = {CtxOf(E, tb)} \ {0}
  PROVE  Solo(x, E, tb, rt, sv, al)
<1> QED  BY DEF Solo, OpSolo

\* An operation starts.
LEMMA OpenKeeps == ASSUME PlugInv, NEW o \in Op, Open(o) PROVE PlugInv'
<1>1. /\ Fine(entries, inst, ops, started) /\ ops \in [Op -> OpRec] /\ entries \in [Id -> EntryRec]
      /\ saved \in BOOLEAN /\ disk \in Places /\ started \in Nat
  BY InvHas DEF PlugInv
<1>2. started = 0 /\ (\A q \in Op : ops[q].pc = "idle") /\ table = 0 /\ router = 0 /\ opsOverlapped = FALSE
  BY DEF Open, PlugInv, GenInv, InFlight
<1>3. /\ isEnable' = TRUE /\ started' = started + 1 /\ saved' = saved /\ disk' = disk /\ table' = table
      /\ router' = router /\ inst' = inst /\ opsOverlapped' = opsOverlapped
  BY DEF Open
<1>4. PICK P : P = [ops EXCEPT ![o] = Begun]  OBVIOUS
<1>5. Fine(entries, inst, P, started')
  <2>1. started < MaxStart  BY <1>2, PluginAssumption
  <2>2. Fine(entries, inst, P, started + 1)  BY <2>1, <1>1, <1>4, FineBegin
  <2> QED  BY <2>2, <1>3
<1>6. P[o].pc = "extract" /\ Makes(P[o]) /\ Loads(P[o]) /\ \A x : [P EXCEPT ![o] = x] = [ops EXCEPT ![o] = x]
  BY <1>1, <1>4 DEF Begun, Makes, Loads
<1>7. NewEntry \in Id /\ entries[NewEntry] = Unborn  BY <1>5, <1>6, NewEntryIs
<1>8. PICK e : e = IF disk = "whole" THEN NewEntry ELSE 0  OBVIOUS
<1>9. PICK x : x = [pc |-> "scan", kind |-> "none", e |-> e, i |-> 0]  OBVIOUS
<1>10. x \in OpRec /\ x.pc = "scan" /\ x.e = e
  <2>1. e \in 0..MaxStart  BY <1>7, <1>8, PluginAssumption DEF Id
  <2> QED  BY <2>1, <1>9, PluginAssumption DEF OpRec, OpKind
<1>11. ops' = [ops EXCEPT ![o] = x] /\ ops' = [P EXCEPT ![o] = x]
  <2>1. ops' = [ops EXCEPT ![o] = [IdleOp EXCEPT !.pc = "scan", !.e = e]]  BY <1>8 DEF Open
  <2>2. [IdleOp EXCEPT !.pc = "scan"] = [pc |-> "scan", kind |-> "none", e |-> 0, i |-> 0]  BY DEF IdleOp
  <2>4. PICK y : y = [IdleOp EXCEPT !.pc = "scan"]  OBVIOUS
  <2>5. y \in [pc : {"scan"}, kind : {"none"}, e : {0}, i : {0}]  BY <2>2, <2>4
  <2>6. [y EXCEPT !.e = e] = x  BY <2>5, <1>9
  <2>7. ops' = [ops EXCEPT ![o] = [y EXCEPT !.e = e]]  BY <2>1, <2>4
  <2> QED  BY <2>6, <2>7, <1>6
<1>12. entries' = IF e = 0 THEN entries ELSE [entries EXCEPT ![e] = ScannedEntry(disk)]  BY <1>8 DEF Open
<1>13. Alone(ops, o) /\ AliveIn(inst) = {}
  <2>1. Alone(ops, o) /\ Solo(ops[o], entries, table, router, saved, AliveIn(inst))  BY <1>2, SoloBefore DEF PlugInv
  <2>2. CtxOf(entries, table) = 0  BY <1>2 DEF CtxOf
  <2> QED  BY <2>1, <2>2, <1>2 DEF Solo, OpSolo
<1>14. TableSolo(entries', table', router', saved') /\ CtxOf(entries', table') = 0  BY <1>2, <1>3 DEF TableSolo, CtxOf
<1>17. PICK Q, n : Q = ops' /\ n = started'  OBVIOUS
<1>18. Fine(entries, inst, P, n) /\ Q = [P EXCEPT ![o] = x]  BY <1>5, <1>11, <1>17
<1>19. /\ table' = 0 /\ table' \in 0..MaxStart /\ router' \in 0..MaxStart /\ disk' \in Places /\ saved' \in BOOLEAN
       /\ opsOverlapped' \in BOOLEAN /\ isEnable' = TRUE
  <2>1. table' = 0 /\ table' \in 0..MaxStart /\ router' \in 0..MaxStart  BY <1>2, <1>3, PluginAssumption
  <2>2. disk' \in Places /\ saved' \in BOOLEAN  BY <1>1, <1>3
  <2>3. opsOverlapped' \in BOOLEAN  BY <1>2, <1>3
  <2> QED  BY <2>1, <2>2, <2>3, <1>3
<1>15. CASE e = 0
  <2>1. entries' = entries  BY <1>12, <1>15
  <2>2. OpFine(x, entries, inst) /\ ~Makes(x) /\ x.pc # "init"  BY <1>10, <1>15 DEF OpFine, Makes
  <2>3. Fine(entries, inst, Q, n)  BY <1>6, <1>10, <1>18, <2>2, FineOp
  <2>4. Solo(x, entries', table', router', saved', AliveIn(inst'))
    BY <1>2, <1>3, <1>10, <1>13, <1>14, <1>15 DEF Solo, OpSolo
  <2>5. Fine(entries', inst', ops', started')  BY <2>1, <2>3, <1>3, <1>17
  <2> QED  BY <2>4, <2>5, <1>11, <1>13, <1>19, StepEnds
<1>16. CASE e # 0
  <2>1. e \in Id /\ entries[e] = Unborn  BY <1>7, <1>8, <1>16
  <2>2. PICK s : s = ScannedEntry(disk)  OBVIOUS
  <2>3. s \in EntryRec /\ ScanOf(s, saved)  BY <2>2, <1>1, ScansEntry
  <2>4. entries' = [entries EXCEPT ![e] = s]  BY <2>2, <1>12, <1>16
  <2>10. PICK F, sv : F = entries' /\ sv = saved  OBVIOUS
  <2>11. ScanOf(s, sv) /\ F = [entries EXCEPT ![e] = s]  BY <2>3, <2>4, <2>10
  <2>12. x.pc \in {"idle", "import", "scan"} /\ (x.pc # "idle" => x.e = e)  BY <1>10
  <2>5. Fine(F, inst, Q, n)  BY <2>1, <2>3, <2>11, <2>12, <1>6, <1>10, <1>18, FineEntry
  <2>6. entries'[e] = s  BY <2>1, <2>4, <1>1
  <2>7. s.enable = saved /\ ~s.loaded /\ s.ctx = 0  BY <2>3 DEF ScanOf
  <2>8. Solo(x, entries', table', router', saved', AliveIn(inst'))
    BY <2>6, <2>7, <1>2, <1>3, <1>10, <1>13, <1>14 DEF Solo, OpSolo
  <2>9. Fine(entries', inst', ops', started')  BY <2>5, <2>10, <1>3, <1>17
  <2> QED  BY <2>8, <2>9, <1>11, <1>13, <1>19, StepEnds
<1> QED  BY <1>15, <1>16

\* An operation that begins and finds no entry in the table.
LEMMA BeginsIdle ==
  ASSUME PlugInv, NEW o \in Op, Begin(o), table = 0, entries' = entries, ops' = ops, table' = table, disk' = disk, inst' = inst,
         router' = router, isEnable' = isEnable, saved' \in BOOLEAN
  PROVE  PlugInv'
<1>1. /\ Fine(entries, inst, ops, started) /\ ops \in [Op -> OpRec] /\ disk \in Places /\ started \in Nat
      /\ router \in 0..MaxStart
  BY InvHas DEF PlugInv
<1>2. /\ isEnable = TRUE /\ started' = started + 1 /\ started < MaxStart /\ opsOverlapped' \in BOOLEAN
      /\ ~opsOverlapped' => /\ Alone(ops, o) /\ TableSolo(entries, table, router, saved)
                            /\ AliveIn(inst) = {CtxOf(entries, table)} \ {0}
  BY BeginDoes
<1>3. Fine(entries', inst', ops', started')
  <2>1. Fine(entries, inst, ops, started + 1)  BY <1>1, <1>2, FineMore
  <2> QED  BY <2>1, <1>2
<1>4. ops' = [ops EXCEPT ![o] = ops[o]]  BY <1>1
<1>5. ASSUME ~opsOverlapped' PROVE Alone(ops, o) /\ Solo(ops[o], entries', table', router', saved', AliveIn(inst'))
  <2>1. ~opsOverlapped /\ \A q \in Op : ops[q].pc = "idle"  BY <1>5 DEF Begin, InFlight
  <2>2. TableSolo(entries', table', router', saved')  BY DEF TableSolo
  <2>3. AliveIn(inst') = {CtxOf(entries', table')} \ {0}  BY <1>2, <1>5
  <2>4. ops[o].pc = "idle"  BY <2>1
  <2> QED  BY <2>2, <2>3, <2>4, <1>2, <1>5, IdleSolo
<1>6. /\ table' = 0 /\ table' \in 0..MaxStart /\ router' \in 0..MaxStart /\ disk' \in Places
      /\ opsOverlapped' \in BOOLEAN /\ isEnable' = TRUE
  BY <1>1, <1>2, PluginAssumption
<1>7. ops' = [ops EXCEPT ![o] = ops[o]]  BY <1>4
<1> QED  BY <1>3, <1>5, <1>6, <1>7, StepEnds

\* A plugin is installed.
LEMMA InstallKeeps == ASSUME PlugInv, NEW o \in Op, Install(o) PROVE PlugInv'
<1>1. router \in 0..MaxStart /\ table \in 0..MaxStart /\ saved \in BOOLEAN /\ (table # 0 => entries[table].status # "unborn")
  BY InvHas DEF PlugInv
<1>2. PICK P : P = [ops EXCEPT ![o] = Begun]  OBVIOUS
<1>3. /\ Fine(entries, inst, P, started') /\ opsOverlapped' \in BOOLEAN /\ isEnable = TRUE
      /\ ~opsOverlapped' => /\ Alone(ops, o) /\ TableSolo(entries, table, router, saved)
                            /\ AliveIn(inst) = {CtxOf(entries, table)} \ {0}
  BY <1>2, BeginDoes DEF Install
<1>4. /\ entries' = entries /\ table' = table /\ router' = router /\ inst' = inst /\ saved' = saved /\ isEnable' = isEnable
      /\ disk' = "partial"
  BY DEF Install
<1>5. [IdleOp EXCEPT !.pc = "extract"] = Begun  BY DEF IdleOp, Begun
<1>6. ops' = [ops EXCEPT ![o] = Begun] /\ ops' = P  BY <1>2, <1>5 DEF Install
<1>7. Begun.pc \in {"idle", "extract"}  BY DEF Begun
<1>8. ASSUME ~opsOverlapped' PROVE Alone(ops, o) /\ Solo(Begun, entries', table', router', saved', AliveIn(inst'))
  <2>1. TableSolo(entries', table', router', saved') /\ AliveIn(inst') = {CtxOf(entries', table')} \ {0}
    BY <1>3, <1>4, <1>8
  <2> QED  BY <2>1, <1>3, <1>7, <1>8, IdleSolo
<1>9. table' \in 0..MaxStart /\ router' \in 0..MaxStart /\ (table' # 0 => entries'[table'].status # "unborn")
  BY <1>1, <1>4
<1>10. disk' \in Places /\ saved' \in BOOLEAN /\ isEnable' = TRUE  BY <1>1, <1>3, <1>4 DEF Places
<1>11. Fine(entries', inst', ops', started')  BY <1>3, <1>4, <1>6
<1> QED  BY <1>3, <1>6, <1>8, <1>9, <1>10, <1>11, StepEnds

\* The entry in the table, as it stands or with its flag set to what is saved.
Flagged(F, E, tb, sv, sw) == (F = E /\ sw = sv) \/ (tb # 0 /\ F = [E EXCEPT ![tb].enable = sw])

\* An operation that begins and finds that entry.
LEMMA FlaggedFine ==
  ASSUME NEW N, NEW O, NEW n, NEW E, Fine(E, N, O, n), NEW tb \in 0..MaxStart, tb # 0 => E[tb].status # "unborn",
         NEW sv \in BOOLEAN, NEW sw \in BOOLEAN, NEW F, Flagged(F, E, tb, sv, sw), NEW g \in Id, E[g] = Unborn
  PROVE  /\ Fine(F, N, O, n) /\ F \in [Id -> EntryRec] /\ F[g] = Unborn
         /\ tb # 0 => F[tb].status = E[tb].status /\ F[tb].loaded = E[tb].loaded
         /\ CtxOf(F, tb) = CtxOf(E, tb)
         /\ \A rt : TableSolo(E, tb, rt, sv) => TableSolo(F, tb, rt, sw)
<1>1. E \in [Id -> EntryRec]  BY DEF Fine, PluginTyped
<1>2. CASE F = E /\ sw = sv  BY <1>1, <1>2
<1>3. CASE tb # 0 /\ F = [E EXCEPT ![tb].enable = sw]
  <2>1. tb \in Id /\ E[tb].status # "unborn"  BY <1>3, PluginAssumption DEF Id
  <2>8. F = [E EXCEPT ![tb].enable = sw]  BY <1>3
  <2>9. Fine(F, N, O, n)  BY <2>1, <2>8, FlagFine
  <2>10. F \in [Id -> EntryRec]  BY <2>9 DEF Fine, PluginTyped
  <2>2. F[tb].status = E[tb].status  BY <1>1, <2>1, <2>8, FlagSet
  <2>3. F[tb].loaded = E[tb].loaded /\ F[tb].ctx = E[tb].ctx /\ F[tb].enable = sw  BY <1>1, <2>1, <2>8, FlagSet
  <2>4. g # tb  BY <2>1 DEF Unborn
  <2>5. F[g] = Unborn  BY <2>1, <2>4, <2>8, <1>1, FlagSet
  <2>6. CtxOf(F, tb) = CtxOf(E, tb)  BY <2>3 DEF CtxOf
  <2>7. \A rt : TableSolo(E, tb, rt, sv) => TableSolo(F, tb, rt, sw)  BY <2>3 DEF TableSolo
  <2> QED  BY <2>2, <2>3, <2>5, <2>6, <2>7, <2>9, <2>10
<1> QED  BY <1>2, <1>3 DEF Flagged

\* An operation begins its turn.
LEMMA BeginsTurn ==
  ASSUME PlugInv, NEW o \in Op, Begin(o), NEW kind, kind # "none", saved' \in BOOLEAN, NEW F,
         Flagged(F, entries, table, saved, saved'),
         NEW x \in OpRec, ops' = [ops EXCEPT ![o] = x],
         Turns(x, kind, F, NewEntry, table, entries', table', saved', inst, inst'),
         isEnable' = isEnable, router' = router, disk' \in Places
  PROVE  PlugInv'
<1>1. ops \in [Op -> OpRec] /\ saved \in BOOLEAN /\ table \in 0..MaxStart /\ (table # 0 => entries[table].status # "unborn")
  BY InvHas DEF PlugInv
<1>2. PICK P : P = [ops EXCEPT ![o] = Begun]  OBVIOUS
<1>3. /\ Fine(entries, inst, P, started') /\ opsOverlapped' \in BOOLEAN /\ isEnable = TRUE
      /\ P[o].pc = "extract" /\ (\A y : [P EXCEPT ![o] = y] = [ops EXCEPT ![o] = y])
      /\ ~opsOverlapped' => /\ Alone(ops, o) /\ TableSolo(entries, table, router, saved)
                            /\ AliveIn(inst) = {CtxOf(entries, table)} \ {0}
  BY <1>2, BeginDoes
<1>4. PICK g : g = NewEntry  OBVIOUS
<1>5. g \in Id /\ entries[g] = Unborn  BY <1>2, <1>4, BeginDoes
<1>6. PICK sw, n : sw = saved' /\ n = started'  OBVIOUS
<1>7. Fine(entries, inst, P, n) /\ Flagged(F, entries, table, saved, sw) /\ sw \in BOOLEAN  BY <1>3, <1>6
<1>8. Fine(F, inst, P, n) /\ F[g] = Unborn  BY <1>1, <1>5, <1>7, FlaggedFine
<1>9. table # 0 => F[table].status = entries[table].status  BY <1>1, <1>5, <1>7, FlaggedFine
<1>10. CtxOf(F, table) = CtxOf(entries, table)  BY <1>1, <1>5, <1>7, FlaggedFine
<1>11. TableSolo(entries, table, router, saved) => TableSolo(F, table, router, sw)  BY <1>1, <1>5, <1>7, FlaggedFine
<1>12. Fine(F, inst, P, started') /\ ops' = [P EXCEPT ![o] = x] /\ isEnable' = TRUE  BY <1>3, <1>6, <1>8
<1>13. ~opsOverlapped' => Alone(ops, o) /\ TableSolo(F, table, router, saved') /\ AliveIn(inst) = {CtxOf(F, table)} \ {0}
  BY <1>3, <1>6, <1>10, <1>11
<1>14. table # 0 => F[table].status # "unborn"  BY <1>1, <1>9
<1>15. Turns(x, kind, F, g, table, entries', table', saved', inst, inst')  BY <1>4
<1>16. P[o].pc = "extract" /\ opsOverlapped' \in BOOLEAN  BY <1>3
<1>17. g \in Id /\ F[g] = Unborn  BY <1>5, <1>8
<1>18. Puts(ops', ops, o, x) /\ Puts(ops', P, o, x)  BY <1>12 DEF Puts
<1> QED  BY <1>12, <1>13, <1>14, <1>15, <1>16, <1>17, <1>18, TurnedEnds

\* An operation begins with unloading.
LEMMA BeginsUnload ==
  ASSUME PlugInv, NEW o \in Op, Begin(o), table # 0, NEW kind \in OpKind, kind # "none", saved' \in BOOLEAN,
         NEW F, Flagged(F, entries, table, saved, saved'), kind \in {"reload", "import"} => saved' = saved,
         Unloading(o, kind, table, F, disk), isEnable' = isEnable, router' = router
  PROVE  PlugInv'
<1>1. /\ ops \in [Op -> OpRec] /\ saved \in BOOLEAN /\ table \in 0..MaxStart /\ table \in Id /\ disk \in Places
      /\ entries \in [Id -> EntryRec] /\ entries[table].status # "unborn"
  BY InvHas DEF PlugInv
<1>2. PICK tb, sv, g : tb = table /\ sv = saved' /\ g = NewEntry  OBVIOUS
<1>3. g \in Id /\ entries[g] = Unborn  BY <1>2, BeginDoes
<1>4. F \in [Id -> EntryRec]
  <2>1. Fine(entries, inst, ops, started)  BY InvHas DEF PlugInv
  <2>2. sv \in BOOLEAN /\ Flagged(F, entries, table, saved, sv)  BY <1>2
  <2> QED  BY <2>1, <2>2, <1>1, <1>3, FlaggedFine
<1>5. tb = table /\ tb \in Id /\ Unloading(o, kind, tb, F, disk) /\ (kind \in {"reload", "import"} => g \in Id /\ sv = saved)
  BY <1>1, <1>2, <1>3
<1>6. disk' \in Places  BY <1>1, <1>2, <1>4, <1>5, UnloadingDoes
<1>7. PICK x \in OpRec : ops' = [ops EXCEPT ![o] = x] /\ Turns(x, kind, F, g, table, entries', table', sv, inst, inst')
  BY <1>1, <1>2, <1>4, <1>5, UnloadingDoes
<1>8. Turns(x, kind, F, NewEntry, table, entries', table', saved', inst, inst')  BY <1>2, <1>7
<1> QED  BY <1>6, <1>7, <1>8, BeginsTurn

\* A plugin is enabled.
LEMMA EnableKeeps == ASSUME PlugInv, NEW o \in Op, Enable(o) PROVE PlugInv'
<1>1. Begin(o) /\ saved' = TRUE /\ isEnable' = isEnable /\ router' = router /\ table' = table /\ disk' = disk /\ inst' = inst
  BY DEF Enable
<1>2. /\ ops \in [Op -> OpRec] /\ table \in 0..MaxStart /\ disk \in Places /\ saved \in BOOLEAN
      /\ (table # 0 => table \in Id /\ entries[table].status # "unborn") /\ entries \in [Id -> EntryRec]
  BY InvHas DEF PlugInv
<1>3. CASE table = 0
  <2>1. entries' = entries /\ ops' = ops  BY <1>3 DEF Enable
  <2> QED  BY <1>1, <1>3, <2>1, BeginsIdle
<1>4. CASE table # 0
  <2>1. PICK F, tb : F = entries' /\ tb = table  OBVIOUS
  <2>2. F = [entries EXCEPT ![tb].enable = TRUE] /\ Loading(o, tb, entries[tb]) /\ tb \in 0..MaxStart
    BY <1>2, <1>4, <2>1 DEF Enable
  <2>3. PICK x \in OpRec :
           /\ ops' = [ops EXCEPT ![o] = x]
           /\ (x.pc = "idle" \/ (x.pc = "import" /\ x.e = tb /\ ~entries[tb].loaded /\ entries[tb].status # "error"))
    BY <1>2, <2>2, LoadingDoes
  <2>4. F[tb].loaded = entries[tb].loaded /\ F[tb].status = entries[tb].status
    <3>1. tb \in Id  BY <1>2, <1>4, <2>1
    <3> QED  BY <3>1, <1>2, <2>2, FlagSet
  <2>5. Flagged(F, entries, table, saved, saved')  BY <1>1, <1>4, <2>1, <2>2 DEF Flagged
  <2>6. Follows(x, "enable", F, NewEntry, table, entries', table', saved')
    BY <1>1, <1>4, <2>1, <2>3, <2>4 DEF Follows
  <2>7. Turns(x, "enable", F, NewEntry, table, entries', table', saved', inst, inst')  BY <1>1, <2>6 DEF Turns
  <2> QED  BY <1>1, <1>2, <2>3, <2>5, <2>7, BeginsTurn
<1> QED  BY <1>3, <1>4

\* A plugin is disabled.
LEMMA DisableKeeps == ASSUME PlugInv, NEW o \in Op, Disable(o) PROVE PlugInv'
<1>1. Begin(o) /\ saved' = FALSE /\ isEnable' = isEnable /\ router' = router  BY DEF Disable, SavedOff
<1>2. CASE table = 0
  <2>1. entries' = entries /\ ops' = ops /\ table' = table /\ disk' = disk /\ inst' = inst  BY <1>2 DEF Disable
  <2> QED  BY <1>1, <1>2, <2>1, BeginsIdle
<1>3. CASE table # 0
  <2>1. PICK F : F = [entries EXCEPT ![table].enable = FALSE]  OBVIOUS
  <2>2. Unloading(o, "disable", table, F, disk)  BY <1>3, <2>1 DEF Disable
  <2>3. Flagged(F, entries, table, saved, saved')  BY <2>1, <1>1, <1>3 DEF Flagged
  <2>4. "disable" \in OpKind  BY DEF OpKind
  <2> QED  BY <1>1, <1>3, <2>2, <2>3, <2>4, BeginsUnload
<1> QED  BY <1>2, <1>3

\* A plugin is reloaded.
LEMMA ReloadKeeps == ASSUME PlugInv, NEW o \in Op, Reload(o) PROVE PlugInv'
<1>1. /\ Begin(o) /\ saved' = saved /\ isEnable' = isEnable /\ router' = router /\ table # 0
      /\ Unloading(o, "reload", table, entries, disk)
  BY DEF Reload
<1>2. Flagged(entries, entries, table, saved, saved') /\ "reload" \in OpKind  BY <1>1 DEF Flagged, OpKind
<1>3. saved' \in BOOLEAN  BY <1>1, InvHas DEF PlugInv
<1> QED  BY <1>1, <1>2, <1>3, BeginsUnload

\* A plugin is uninstalled.
LEMMA UninstallKeeps == ASSUME PlugInv, NEW o \in Op, Uninstall(o) PROVE PlugInv'
<1>1. /\ Begin(o) /\ saved' = saved /\ isEnable' = isEnable /\ router' = router /\ table # 0
      /\ Unloading(o, "uninstall", table, entries, disk)
  BY DEF Uninstall
<1>2. Flagged(entries, entries, table, saved, saved') /\ "uninstall" \in OpKind  BY <1>1 DEF Flagged, OpKind
<1>3. saved' \in BOOLEAN  BY <1>1, InvHas DEF PlugInv
<1> QED  BY <1>1, <1>2, <1>3, BeginsUnload

\* A plugin is imported.
LEMMA ImportKeeps == ASSUME PlugInv, NEW o \in Op, Import(o) PROVE PlugInv'
<1>1. Begin(o) /\ saved' = saved /\ isEnable' = isEnable /\ router' = router  BY DEF Import
<1>2. Flagged(entries, entries, table, saved, saved') /\ "import" \in OpKind  BY <1>1 DEF Flagged, OpKind
<1>3. saved' \in BOOLEAN /\ saved \in BOOLEAN /\ ops \in [Op -> OpRec] /\ table \in 0..MaxStart /\ disk \in Places
  BY <1>1, InvHas DEF PlugInv
<1>4. CASE disk # "none" /\ table # 0 /\ entries[table].loaded
  <2>1. Unloading(o, "import", table, entries, disk)  BY <1>4 DEF Import
  <2> QED  BY <1>1, <1>2, <1>3, <1>4, <2>1, BeginsUnload
<1>5. CASE ~(disk # "none" /\ table # 0 /\ entries[table].loaded)
  <2>1. AfterUnload(o, "import", entries, disk) /\ inst' = inst  BY <1>5 DEF Import
  <2>2. PICK g, sv : g = NewEntry /\ sv = saved'  OBVIOUS
  <2>3. g \in Id /\ sv = saved  BY <2>2, <1>1, BeginDoes
  <2>4. disk' \in Places  BY <2>1, <2>2, <2>3, <1>3, AfterDoes
  <2>5. PICK x \in OpRec : ops' = [ops EXCEPT ![o] = x] /\ Follows(x, "import", entries, g, table, entries', table', sv)
    BY <2>1, <2>2, <2>3, <1>3, AfterDoes
  <2>6. Turns(x, "import", entries, NewEntry, table, entries', table', saved', inst, inst')  BY <2>1, <2>2, <2>5 DEF Turns
  <2> QED  BY <1>1, <1>2, <1>3, <2>4, <2>5, <2>6, BeginsTurn
<1> QED  BY <1>4, <1>5

\* What an operation in flight knows.
LEMMA InFlightHas ==
  ASSUME PlugInv, NEW o \in Op, ops[o].pc # "idle", opsOverlapped' = opsOverlapped
  PROVE  /\ isEnable = TRUE /\ opsOverlapped' \in BOOLEAN
         /\ ~opsOverlapped' => Alone(ops, o) /\ Solo(ops[o], entries, table, router, saved, AliveIn(inst))
<1>1. isEnable = TRUE  BY Enabled DEF PlugInv
<1>2. opsOverlapped' \in BOOLEAN  BY InvHas DEF PlugInv
<1>3. ASSUME ~opsOverlapped' PROVE Alone(ops, o) /\ Solo(ops[o], entries, table, router, saved, AliveIn(inst))
  BY <1>3, SoloBefore DEF PlugInv
<1> QED  BY <1>1, <1>2, <1>3

\* An archive is extracted.
LEMMA ExtractKeeps == ASSUME PlugInv, NEW o \in Op, ExtractEnds(o) PROVE PlugInv'
<1>1. /\ ops[o].pc = "extract" /\ isEnable' = isEnable /\ saved' = saved /\ router' = router /\ started' = started
      /\ opsOverlapped' = opsOverlapped
  BY DEF ExtractEnds
<1>2. /\ Fine(entries, inst, ops, started) /\ ops \in [Op -> OpRec] /\ saved \in BOOLEAN /\ table \in 0..MaxStart
      /\ (table # 0 => table \in Id /\ entries[table].status # "unborn") /\ entries \in [Id -> EntryRec] /\ disk \in Places
  BY InvHas DEF PlugInv
<1>3. Makes(ops[o])  BY <1>1 DEF Makes
<1>4. PICK g, sv : g = NewEntry /\ sv = saved'  OBVIOUS
<1>5. g \in Id /\ entries[g] = Unborn  BY <1>2, <1>3, <1>4, NewEntryIs
<1>6. /\ isEnable' = TRUE /\ opsOverlapped' \in BOOLEAN
      /\ ~opsOverlapped' => Alone(ops, o) /\ Solo(ops[o], entries, table, router, saved, AliveIn(inst))
  BY <1>1, InFlightHas
<1>7. ~opsOverlapped' => /\ Alone(ops, o) /\ TableSolo(entries, table, router, saved')
                         /\ AliveIn(inst) = {CtxOf(entries, table)} \ {0}
  BY <1>1, <1>6 DEF Solo, OpSolo
<1>8. ASSUME NEW kind, kind # "none", NEW x \in OpRec, ops' = [ops EXCEPT ![o] = x], disk' \in Places,
             Turns(x, kind, entries, g, table, entries', table', sv, inst, inst')
      PROVE  PlugInv'
  <2>1. Fine(entries, inst, ops, started') /\ Turns(x, kind, entries, g, table, entries', table', saved', inst, inst')
    BY <1>1, <1>2, <1>4, <1>8
  <2>2. saved' \in BOOLEAN  BY <1>1, <1>2
  <2>3. table # 0 => entries[table].status # "unborn"  BY <1>2
  <2>4. Puts(ops', ops, o, x)  BY <1>8 DEF Puts
  <2> QED  BY <2>1, <2>2, <2>3, <2>4, <1>1, <1>5, <1>6, <1>7, <1>8, TurnedEnds
<1>9. sv = saved  BY <1>1, <1>4
<1>10. "reload" \in OpKind /\ "whole" \in Places  BY DEF OpKind, Places
<1>11. CASE table = 0 /\ LoadedById(o, entries, "whole") /\ disk' = "whole" /\ inst' = inst
  <2>1. AfterUnload(o, "import", entries, "whole")  BY <1>11 DEF AfterUnload
  <2>2. PICK x \in OpRec : ops' = [ops EXCEPT ![o] = x] /\ Follows(x, "import", entries, g, table, entries', table', sv)
    BY <2>1, <1>2, <1>4, <1>5, <1>9, <1>10, AfterDoes
  <2>3. Turns(x, "import", entries, g, table, entries', table', sv, inst, inst')  BY <2>2, <1>11 DEF Turns
  <2> QED  BY <2>2, <2>3, <1>8, <1>10, <1>11
<1>12. CASE table # 0 /\ Unloading(o, "reload", table, entries, "whole")
  <2>1. PICK tb : tb = table  OBVIOUS
  <2>2. tb \in Id /\ Unloading(o, "reload", tb, entries, "whole")  BY <2>1, <1>2, <1>12
  <2>3. disk' \in Places  BY <2>1, <2>2, <1>2, <1>4, <1>5, <1>9, <1>10, UnloadingDoes
  <2>4. PICK x \in OpRec : ops' = [ops EXCEPT ![o] = x] /\ Turns(x, "reload", entries, g, table, entries', table', sv, inst, inst')
    BY <2>1, <2>2, <1>2, <1>4, <1>5, <1>9, <1>10, UnloadingDoes
  <2> QED  BY <2>3, <2>4, <1>8
<1>13. CASE OpDone(o) /\ disk' = disk /\ entries' = entries /\ table' = table /\ inst' = inst
  <2>1. PICK x \in OpRec : ops' = [ops EXCEPT ![o] = x] /\ x.pc = "idle"  BY <1>13, DoneDoes
  <2>2. Follows(x, "disable", entries, g, table, entries', table', sv)  BY <2>1, <1>13 DEF Follows
  <2>3. Turns(x, "disable", entries, g, table, entries', table', sv, inst, inst')  BY <2>2, <1>13 DEF Turns
  <2> QED  BY <2>1, <2>3, <1>2, <1>8, <1>13
<1> QED  BY <1>11, <1>12, <1>13 DEF ExtractEnds

\* After a scan the table has the entry of the plugin, or none.
LEMMA ScanKeeps == ASSUME PlugInv, NEW o \in Op, ScanEnds(o) PROVE PlugInv'
<1>1. /\ ops[o].pc = "scan" /\ isEnable' = isEnable /\ saved' = saved /\ router' = router /\ started' = started
      /\ opsOverlapped' = opsOverlapped /\ disk' = disk /\ entries' = entries /\ inst' = inst
  BY DEF ScanEnds
<1>2. /\ Fine(entries, inst, ops, started) /\ ops \in [Op -> OpRec] /\ saved \in BOOLEAN /\ disk \in Places
      /\ router \in 0..MaxStart
      /\ entries \in [Id -> EntryRec] /\ EntriesFine(entries, inst)
  BY InvHas DEF PlugInv
<1>3. Loads(ops[o])  BY <1>1 DEF Loads
<1>4. /\ isEnable' = TRUE /\ opsOverlapped' \in BOOLEAN
      /\ ~opsOverlapped' => Alone(ops, o) /\ Solo(ops[o], entries, table, router, saved, AliveIn(inst))
  BY <1>1, InFlightHas
<1>5. PICK e : e = ops[o].e  OBVIOUS
<1>6. e \in 0..MaxStart /\ (e # 0 => entries[e].status # "unborn" /\ e \in Id)
  <2>1. OpFine(ops[o], entries, inst) /\ ops[o] \in OpRec  BY <1>2 DEF Fine, OpsFine
  <2> QED  BY <2>1, <1>1, <1>5 DEF OpFine, OpRec, Id
<1>7. ASSUME NEW tb \in {0, e}, NEW x \in OpRec, ops' = [ops EXCEPT ![o] = x],
             Follows(x, "scan", entries, 0, tb, entries', table', saved)
      PROVE  PlugInv'
  <2>1. PICK H, tc, Q : H = entries' /\ tc = table' /\ Q = ops'  OBVIOUS
  <2>8. Follows(x, "scan", entries, 0, tb, H, tc, saved)  BY <2>1, <1>7
  <2>9. Q = [ops EXCEPT ![o] = x]  BY <2>1, <1>7
  <2>10. tb \in 0..MaxStart  BY <1>6, PluginAssumption
  <2>2. Follows(x, "scan", entries, 0, tb, H, tc, saved) /\ Q = [ops EXCEPT ![o] = x] /\ tb \in 0..MaxStart
    BY <2>8, <2>9, <2>10
  <2>3. tb # 0 => entries[tb].status # "unborn"  BY <1>6
  <2>4. Outcome(H, inst, Q, started, tc)  BY <2>2, <2>3, <1>2, <1>3, FineAfter
  <2>5. Fine(entries', inst', ops', started') /\ table' \in 0..MaxStart /\ (table' # 0 => entries'[table'].status # "unborn")
    BY <2>1, <2>4, <1>1 DEF Outcome
  <2>6. ASSUME ~opsOverlapped' PROVE Alone(ops, o) /\ Solo(x, entries', table', router', saved', AliveIn(inst'))
    <3>1. /\ Alone(ops, o) /\ table = 0 /\ AliveIn(inst) = {}
          /\ (e # 0 => entries[e].enable = saved /\ ~entries[e].loaded /\ entries[e].ctx = 0)
      BY <2>6, <1>1, <1>4, <1>5 DEF Solo, OpSolo, CtxOf
    <3>2. CtxOf(entries, tb) = 0 /\ TableSolo(entries, tb, router, saved)  BY <3>1 DEF CtxOf, TableSolo
    <3>3. AliveIn(inst) = {CtxOf(entries, tb)} \ {0}  BY <3>1, <3>2
    <3>4. Turns(x, "scan", entries, 1, tb, H, tc, saved, inst, inst)  BY <2>2 DEF Turns, Follows
    <3>5. 1 \in Id  BY PluginAssumption DEF Id
    <3>6. Solo(x, H, tc, router, saved, AliveIn(inst))  BY <3>2, <3>3, <3>4, <3>5, <2>2, <2>3, <1>2, TurnsSolo
    <3> QED  BY <3>1, <3>6, <2>1, <1>1
  <2>7. disk' \in Places /\ router' \in 0..MaxStart /\ saved' \in BOOLEAN  BY <1>1, <1>2
  <2> QED  BY <2>5, <2>6, <2>7, <1>4, <1>7, StepEnds
<1>8. CASE e # 0 /\ table' = e /\ entries[e].enable /\ Loading(o, e, entries[e])
  <2>1. PICK x \in OpRec :
           /\ ops' = [ops EXCEPT ![o] = x]
           /\ (x.pc = "idle" \/ (x.pc = "import" /\ x.e = e /\ ~entries[e].loaded /\ entries[e].status # "error"))
    BY <1>2, <1>6, <1>8, LoadingDoes
  <2>2. Follows(x, "scan", entries, 0, e, entries', table', saved)  BY <2>1, <1>1, <1>8 DEF Follows
  <2> QED  BY <2>1, <2>2, <1>7
<1>9. CASE table' \in {0, e} /\ OpDone(o)
  <2>1. PICK x \in OpRec : ops' = [ops EXCEPT ![o] = x] /\ x.pc = "idle"  BY <1>9, DoneDoes
  <2>2. PICK tb \in {0, e} : tb = table'  BY <1>9
  <2>3. Follows(x, "scan", entries, 0, tb, entries', table', saved)  BY <2>1, <2>2, <1>1 DEF Follows
  <2> QED  BY <2>1, <2>3, <1>7
<1> QED  BY <1>5, <1>8, <1>9 DEF ScanEnds

\* The module is imported and its plugin_init is called, or it cannot be.
LEMMA ImportEndKeeps == ASSUME PlugInv, NEW o \in Op, ImportEnds(o) PROVE PlugInv'
<1>1. /\ ops[o].pc = "import" /\ isEnable' = isEnable /\ saved' = saved /\ started' = started
      /\ opsOverlapped' = opsOverlapped /\ disk' = disk /\ table' = table
  BY DEF ImportEnds
<1>2. /\ Fine(entries, inst, ops, started) /\ ops \in [Op -> OpRec] /\ saved \in BOOLEAN /\ disk \in Places
      /\ router \in 0..MaxStart
      /\ entries \in [Id -> EntryRec] /\ EntriesFine(entries, inst) /\ table \in 0..MaxStart /\ inst \in [Id -> InstState]
      /\ (table # 0 => entries[table].status # "unborn")
  BY InvHas DEF PlugInv
<1>3. Loads(ops[o])  BY <1>1 DEF Loads
<1>4. /\ isEnable' = TRUE /\ opsOverlapped' \in BOOLEAN
      /\ ~opsOverlapped' => Alone(ops, o) /\ Solo(ops[o], entries, table, router, saved, AliveIn(inst))
  BY <1>1, InFlightHas
<1>5. PICK op \in OpRec : op = ops[o]  BY <1>2
<1>6. op.pc = "import" /\ op.e \in Id /\ op.e # 0 /\ entries[op.e].status # "unborn"
  <2>1. OpFine(op, entries, inst)  BY <1>2, <1>5 DEF Fine, OpsFine
  <2> QED  BY <2>1, <1>1, <1>5 DEF OpFine, OpRec, Id
<1>7. table' \in 0..MaxStart /\ disk' \in Places /\ saved' \in BOOLEAN  BY <1>1, <1>2
<1>8. ASSUME ~opsOverlapped'
      PROVE  /\ Alone(ops, o) /\ table = op.e /\ entries[op.e].enable = saved /\ entries[op.e].status = "unloaded"
             /\ entries[op.e].ctx = 0 /\ ~entries[op.e].loaded /\ AliveIn(inst) = {}
  <2>1. Alone(ops, o) /\ TableSolo(entries, table, router, saved) /\ OpSolo(op, entries, table, router, saved, AliveIn(inst))
    BY <1>4, <1>5, <1>8 DEF Solo
  <2>2. table = op.e /\ entries[op.e].status = "unloaded" /\ AliveIn(inst) = {CtxOf(entries, table)} \ {0}
    BY <2>1, <1>6 DEF OpSolo
  <2>3. EntryFine(entries[op.e])  BY <1>2, <1>6 DEF EntriesFine
  <2>4. entries[op.e].ctx = 0  BY <2>2, <2>3 DEF EntryFine
  <2>5. CtxOf(entries, table) = 0  BY <2>2, <2>4, <1>6 DEF CtxOf
  <2> QED  BY <2>1, <2>2, <2>4, <2>5, <1>6 DEF TableSolo
<1>9. CASE /\ inst' = [inst EXCEPT ![NewInst] = "init"] /\ RouterMade(NewInst) /\ entries' = entries
           /\ ops' = [ops EXCEPT ![o].pc = "init", ![o].i = NewInst]
  <2>1. PICK g : g = NewInst  OBVIOUS
  <2>2. g \in Id /\ inst[g] = "none"  BY <2>1, <1>2, <1>3, NewInstIs
  <2>3. g \in 0..MaxStart /\ router' = g /\ inst' = [inst EXCEPT ![g] = "init"]
    BY <2>1, <2>2, <1>9, PluginAssumption DEF RouterMade, Id
  <2>4. PICK x : x = [pc |-> "init", kind |-> op.kind, e |-> op.e, i |-> g]  OBVIOUS
  <2>5. x \in OpRec /\ x.pc = "init" /\ x.e = op.e /\ x.i = g  BY <2>3, <2>4 DEF OpRec
  <2>6. ops' = [ops EXCEPT ![o] = x]
    <3>1. PICK y : y = [op EXCEPT !.pc = "init"]  OBVIOUS
    <3>2. y \in OpRec /\ y = [pc |-> "init", kind |-> op.kind, e |-> op.e, i |-> op.i]  BY <3>1 DEF OpRec
    <3>3. [y EXCEPT !.i = g] = x  BY <3>2, <2>4 DEF OpRec
    <3>4. ops' = [ops EXCEPT ![o] = [y EXCEPT !.i = g]]  BY <3>1, <2>1, <1>2, <1>5, <1>9
    <3> QED  BY <3>3, <3>4
  <2>7. PICK M, Q : M = inst' /\ Q = ops'  OBVIOUS
  <2>8. M = [inst EXCEPT ![g] = "init"] /\ Q = [ops EXCEPT ![o] = x] /\ x.e = ops[o].e  BY <2>3, <2>5, <2>6, <2>7, <1>5
  <2>9. Fine(entries, M, Q, started)  BY <2>2, <2>5, <2>8, <1>1, <1>2, FineImport
  <2>10. Fine(entries', inst', ops', started')  BY <2>7, <2>9, <1>1, <1>9
  <2>11. ASSUME ~opsOverlapped' PROVE Alone(ops, o) /\ Solo(x, entries', table', router', saved', AliveIn(inst'))
    <3>1. AliveIn(inst') = {g}
      <4>1. AliveIn(inst) = {}  BY <2>11, <1>8
      <4>2. inst'[g] = "init" /\ \A j \in Id : j # g => inst'[j] = inst[j]  BY <2>2, <2>3, <1>2
      <4> QED  BY <4>1, <4>2, <2>2 DEF AliveIn
    <3>2. table' = x.e /\ x.i = g /\ entries'[table'].status = "unloaded" /\ entries'[table'].ctx = 0
          /\ ~entries'[table'].loaded /\ entries'[table'].enable = saved'
      BY <2>5, <2>11, <1>1, <1>8, <1>9
    <3>3. TableSolo(entries', table', router', saved')  BY <3>2 DEF TableSolo
    <3>4. OpSolo(x, entries', table', router', saved', AliveIn(inst'))  BY <3>1, <3>2, <2>3, <2>5 DEF OpSolo
    <3> QED  BY <3>3, <3>4, <2>11, <1>8 DEF Solo
  <2>12. table' # 0 => entries'[table'].status # "unborn"  BY <1>1, <1>2, <1>9
  <2>13. router' \in 0..MaxStart  BY <2>3
  <2> QED  BY <2>6, <2>10, <2>11, <2>12, <2>13, <1>4, <1>7, StepEnds
<1>10. CASE /\ entries' = [entries EXCEPT ![ops[o].e].status = "error", ![ops[o].e].ctx = 0] /\ OpDone(o)
            /\ inst' = inst /\ router' = router
  <2>1. PICK e : e = op.e  OBVIOUS
  <2>2. PICK en \in EntryRec : en = entries[e]  BY <2>1, <1>2, <1>6
  <2>3. PICK s : s = [enable |-> en.enable, loaded |-> en.loaded, status |-> "error", ctx |-> 0]  OBVIOUS
  <2>4. s \in EntryRec /\ s.status = "error" /\ s.ctx = 0  BY <2>3, PluginAssumption DEF EntryRec
  <2>5. entries' = [entries EXCEPT ![e] = s]
    <3>1. PICK y : y = [en EXCEPT !.status = "error"]  OBVIOUS
    <3>2. y \in EntryRec /\ y = [enable |-> en.enable, loaded |-> en.loaded, status |-> "error", ctx |-> en.ctx]
      BY <3>1 DEF EntryRec
    <3>3. [y EXCEPT !.ctx = 0] = s  BY <3>2, <2>3 DEF EntryRec
    <3>4. entries' = [entries EXCEPT ![e] = [y EXCEPT !.ctx = 0]]
      <4>1. entries' = [entries EXCEPT ![e].status = "error", ![e].ctx = 0] /\ e \in Id  BY <2>1, <1>5, <1>6, <1>10
      <4> QED  BY <4>1, <3>1, <2>2, <1>2
    <3> QED  BY <3>3, <3>4
  <2>6. EntryFine(s) /\ s.status # "unborn" /\ s.ctx \in {0, entries[e].ctx}  BY <2>4 DEF EntryFine
  <2>7. PICK F, Q : F = entries' /\ Q = ops'  OBVIOUS
  <2>8. F = [entries EXCEPT ![e] = s] /\ e \in Id /\ entries[e].status # "unborn"  BY <2>1, <2>5, <2>7, <1>6
  <2>9. Fine(F, inst, ops, started)  BY <2>4, <2>6, <2>8, <1>2, FineEntries
  <2>10. PICK x \in OpRec : ops' = [ops EXCEPT ![o] = x] /\ x.pc = "idle"  BY <1>10, DoneDoes
  <2>11. Q = [ops EXCEPT ![o] = x] /\ OpFine(x, F, inst) /\ ~Makes(x) /\ ~Loads(x) /\ x.pc # "init"
    BY <2>7, <2>10 DEF OpFine, Makes, Loads
  <2>12. Fine(F, inst, Q, started)  BY <2>9, <2>11, FineOp
  <2>13. Fine(entries', inst', ops', started')  BY <2>7, <2>12, <1>1, <1>10
  <2>14. F[e] = s /\ \A f \in Id : f # e => F[f] = entries[f]  BY <2>8, <1>2
  <2>15. table' # 0 => entries'[table'].status # "unborn"
    <3>1. CASE table = e  BY <3>1, <2>4, <2>7, <2>14, <1>1
    <3>2. CASE table # e /\ table # 0
      <4>1. table \in Id  BY <3>2, <1>2 DEF Id
      <4> QED  BY <4>1, <3>2, <2>7, <2>14, <1>1, <1>2
    <3> QED  BY <3>1, <3>2, <1>1
  <2>16. ASSUME ~opsOverlapped' PROVE Alone(ops, o) /\ Solo(x, entries', table', router', saved', AliveIn(inst'))
    <3>1. Alone(ops, o) /\ table = e /\ en.enable = saved /\ ~en.loaded /\ AliveIn(inst) = {}  BY <2>1, <2>2, <2>16, <1>8
    <3>2. F[e].enable = saved /\ F[e].ctx = 0 /\ F[e].loaded = FALSE  BY <3>1, <2>3, <2>14
    <3>3. TableSolo(F, e, router', saved)  BY <3>2 DEF TableSolo
    <3>4. CtxOf(F, e) = 0  BY <3>2 DEF CtxOf
    <3>5. TableSolo(entries', table', router', saved') /\ AliveIn(inst') = {CtxOf(entries', table')} \ {0}
      BY <3>1, <3>3, <3>4, <2>7, <1>1, <1>10
    <3> QED  BY <3>1, <3>5, <2>10, IdleSolo
  <2>17. router' \in 0..MaxStart  BY <1>2, <1>10
  <2> QED  BY <2>10, <2>13, <2>15, <2>16, <2>17, <1>4, <1>7, StepEnds
<1> QED  BY <1>9, <1>10 DEF ImportEnds

\* plugin_init has succeeded, or failed.
LEMMA InitKeeps == ASSUME PlugInv, NEW o \in Op, InitEnds(o) PROVE PlugInv'
<1>1. /\ ops[o].pc = "init" /\ isEnable' = isEnable /\ saved' = saved /\ started' = started
      /\ opsOverlapped' = opsOverlapped /\ disk' = disk /\ table' = table /\ router' = router
  BY DEF InitEnds
<1>2. /\ Fine(entries, inst, ops, started) /\ ops \in [Op -> OpRec] /\ saved \in BOOLEAN /\ disk \in Places
      /\ router \in 0..MaxStart
      /\ entries \in [Id -> EntryRec] /\ table \in 0..MaxStart /\ inst \in [Id -> InstState]
      /\ (table # 0 => entries[table].status # "unborn")
  BY InvHas DEF PlugInv
<1>3. /\ isEnable' = TRUE /\ opsOverlapped' \in BOOLEAN
      /\ ~opsOverlapped' => Alone(ops, o) /\ Solo(ops[o], entries, table, router, saved, AliveIn(inst))
  BY <1>1, InFlightHas
<1>4. PICK e, i : e = ops[o].e /\ i = ops[o].i  OBVIOUS
<1>5. e \in Id /\ i \in Id /\ i # 0 /\ e # 0 /\ inst[i] = "init"
  <2>1. OpFine(ops[o], entries, inst) /\ ops[o] \in OpRec  BY <1>2 DEF Fine, OpsFine
  <2> QED  BY <2>1, <1>1, <1>4 DEF OpFine, OpRec, Id
<1>6. table' \in 0..MaxStart /\ disk' \in Places /\ saved' \in BOOLEAN /\ router' \in 0..MaxStart  BY <1>1, <1>2
<1>7. PICK x \in OpRec : ops' = [ops EXCEPT ![o] = x] /\ x.pc = "idle"
  <2>1. OpDone(o)  BY DEF InitEnds
  <2> QED  BY <2>1, DoneDoes
<1>8. PICK en \in EntryRec : en = entries[e]  BY <1>2, <1>5
<1>9. ASSUME NEW ok \in BOOLEAN, NEW v \in InstState, v = IF ok THEN "running" ELSE "failed", inst' = [inst EXCEPT ![i] = v],
             NEW s, s = [enable |-> en.enable, loaded |-> ok, status |-> IF ok THEN "loaded" ELSE "error", ctx |-> IF ok THEN i ELSE 0],
             entries' = [entries EXCEPT ![e] = s]
      PROVE  PlugInv'
  <2>1. i \in 0..MaxStart /\ 0 \in 0..MaxStart  BY <1>5, PluginAssumption DEF Id
  <2>2. s \in EntryRec /\ s.status # "unborn"  BY <2>1, <1>9 DEF EntryRec
  <2>3. EntryFine(s) /\ ((v = "running" /\ s.ctx = i) \/ (v = "failed" /\ s.ctx = 0))  BY <1>5, <1>9 DEF EntryFine
  <2>4. PICK F, M, Q : F = entries' /\ M = inst' /\ Q = ops'  OBVIOUS
  <2>5. F = [entries EXCEPT ![e] = s] /\ M = [inst EXCEPT ![i] = v] /\ Q = [ops EXCEPT ![o] = x]  BY <2>4, <1>7, <1>9
  <2>6. Fine(F, M, Q, started)  BY <2>2, <2>3, <2>5, <1>1, <1>2, <1>4, <1>7, FineInit
  <2>7. Fine(entries', inst', ops', started')  BY <2>4, <2>6, <1>1
  <2>8. F[e] = s /\ (\A f \in Id : f # e => F[f] = entries[f]) /\ M[i] = v /\ \A j \in Id : j # i => M[j] = inst[j]
    BY <2>5, <1>2, <1>5
  <2>9. table' # 0 => entries'[table'].status # "unborn"
    <3>1. CASE table = e  BY <3>1, <2>2, <2>4, <2>8, <1>1
    <3>2. CASE table # e /\ table # 0
      <4>1. table \in Id  BY <3>2, <1>2 DEF Id
      <4> QED  BY <4>1, <3>2, <2>4, <2>8, <1>1, <1>2
    <3> QED  BY <3>1, <3>2, <1>1
  <2>10. ASSUME ~opsOverlapped' PROVE Alone(ops, o) /\ Solo(x, entries', table', router', saved', AliveIn(inst'))
    <3>1. /\ Alone(ops, o) /\ table = e /\ router = i /\ en.enable = saved /\ AliveIn(inst) = {i}
      BY <2>10, <1>1, <1>3, <1>4, <1>5, <1>8 DEF Solo, OpSolo, TableSolo
    <3>2. AliveIn(M) = IF v = "running" THEN {i} ELSE {}
      <4>1. \A j \in Id : j # i => inst[j] \notin {"init", "running", "cleaning"}  BY <3>1 DEF AliveIn
      <4> QED  BY <4>1, <2>3, <2>8, <1>5 DEF AliveIn
    <3>3. F[e].enable = saved /\ F[e].ctx = (IF ok THEN i ELSE 0) /\ F[e].loaded = ok  BY <3>1, <2>8, <1>9
    <3>4. CtxOf(F, e) = IF ok THEN i ELSE 0  BY <3>3, <1>5 DEF CtxOf
    <3>5. AliveIn(M) = {CtxOf(F, e)} \ {0}
      <4>1. CASE ok  BY <4>1, <3>2, <3>4, <1>5, <1>9
      <4>2. CASE ~ok  BY <4>2, <3>2, <3>4, <1>9
      <4> QED  BY <4>1, <4>2
    <3>6. TableSolo(F, e, router, saved)
      <4>1. CASE ok  BY <4>1, <3>1, <3>3, <1>5 DEF TableSolo
      <4>2. CASE ~ok  BY <4>2, <3>1, <3>3 DEF TableSolo
      <4> QED  BY <4>1, <4>2
    <3>7. TableSolo(entries', table', router', saved') /\ AliveIn(inst') = {CtxOf(entries', table')} \ {0}
      BY <3>1, <3>5, <3>6, <2>4, <1>1
    <3> QED  BY <3>1, <3>7, <1>7, IdleSolo
  <2> QED  BY <2>7, <2>9, <2>10, <1>3, <1>6, <1>7, StepEnds
<1>10. PICK ok \in BOOLEAN :
          /\ inst' = [inst EXCEPT ![ops[o].i] = IF ok THEN "running" ELSE "failed"]
          /\ entries' = [entries EXCEPT ![ops[o].e] =
               [enable |-> @.enable, loaded |-> ok, status |-> IF ok THEN "loaded" ELSE "error",
                ctx |-> IF ok THEN ops[o].i ELSE 0]]
  BY DEF InitEnds
<1>11. PICK v : v = IF ok THEN "running" ELSE "failed"  OBVIOUS
<1>12. PICK s : s = [enable |-> en.enable, loaded |-> ok, status |-> IF ok THEN "loaded" ELSE "error", ctx |-> IF ok THEN i ELSE 0]
  OBVIOUS
<1>13. v \in InstState /\ inst' = [inst EXCEPT ![i] = v]  BY <1>4, <1>10, <1>11 DEF InstState
<1>14. entries' = [entries EXCEPT ![e] = s]  BY <1>4, <1>8, <1>10, <1>12
<1> QED  BY <1>9, <1>11, <1>12, <1>13, <1>14

\* plugin_cleanup is over.
LEMMA CleanupKeeps == ASSUME PlugInv, NEW o \in Op, CleanupEnds(o) PROVE PlugInv'
<1>1. /\ ops[o].pc = "cleanup" /\ isEnable' = isEnable /\ saved' = saved /\ started' = started
      /\ opsOverlapped' = opsOverlapped /\ router' = 0
  BY DEF CleanupEnds
<1>2. /\ Fine(entries, inst, ops, started) /\ ops \in [Op -> OpRec] /\ saved \in BOOLEAN /\ disk \in Places
      /\ entries \in [Id -> EntryRec] /\ table \in 0..MaxStart /\ inst \in [Id -> InstState]
      /\ (table # 0 => table \in Id /\ entries[table].status # "unborn")
  BY InvHas DEF PlugInv
<1>3. /\ isEnable' = TRUE /\ opsOverlapped' \in BOOLEAN
      /\ ~opsOverlapped' => Alone(ops, o) /\ Solo(ops[o], entries, table, router, saved, AliveIn(inst))
  BY <1>1, InFlightHas
<1>4. PICK e, i, kind : e = ops[o].e /\ i = ops[o].i /\ kind = ops[o].kind  OBVIOUS
<1>5. e \in Id /\ i \in Id /\ i # 0 /\ e # 0 /\ kind # "none" /\ entries[e].status # "unborn"
  <2>1. OpFine(ops[o], entries, inst) /\ ops[o] \in OpRec  BY <1>2 DEF Fine, OpsFine
  <2> QED  BY <2>1, <1>1, <1>4 DEF OpFine, OpRec, Id
<1>6. PICK en \in EntryRec : en = entries[e]  BY <1>2, <1>5
<1>7. PICK s : s = [enable |-> en.enable, loaded |-> FALSE, status |-> "unloaded", ctx |-> 0]  OBVIOUS
<1>8. s \in EntryRec /\ EntryFine(s) /\ s.status = "unloaded" /\ s.ctx = 0 /\ s.loaded = FALSE /\ s.enable = en.enable
  BY <1>7, PluginAssumption DEF EntryRec, EntryFine
<1>9. PICK F : F = [entries EXCEPT ![e] = s]  OBVIOUS
<1>10. Unloaded(e) = F
  <2>1. PICK y : y = [en EXCEPT !.loaded = FALSE]  OBVIOUS
  <2>2. y \in EntryRec /\ y = [enable |-> en.enable, loaded |-> FALSE, status |-> en.status, ctx |-> en.ctx]
    BY <2>1 DEF EntryRec
  <2>3. PICK z : z = [y EXCEPT !.status = "unloaded"]  OBVIOUS
  <2>4. z \in EntryRec /\ z = [enable |-> en.enable, loaded |-> FALSE, status |-> "unloaded", ctx |-> en.ctx]
    BY <2>2, <2>3 DEF EntryRec
  <2>5. [z EXCEPT !.ctx = 0] = s
    <3>1. PICK w : w = [z EXCEPT !.ctx = 0]  OBVIOUS
    <3>2. w \in [enable : BOOLEAN, loaded : BOOLEAN, status : {"unborn", "unloaded", "loaded", "error"}, ctx : {0}]
      <4>1. z \in EntryRec  BY <2>4
      <4> QED  BY <4>1, <3>1 DEF EntryRec
    <3>3. w.enable = z.enable /\ w.loaded = z.loaded /\ w.status = z.status /\ w.ctx = 0  BY <3>1, <2>4 DEF EntryRec
    <3>4. z.enable = en.enable /\ z.loaded = FALSE /\ z.status = "unloaded"  BY <2>4
    <3>5. w = [enable |-> w.enable, loaded |-> w.loaded, status |-> w.status, ctx |-> w.ctx]  BY <3>2
    <3> QED  BY <3>1, <3>3, <3>4, <3>5, <1>7
  <2>6. Unloaded(e) = [entries EXCEPT ![e] = [z EXCEPT !.ctx = 0]]  BY <2>1, <2>3, <1>2, <1>5, <1>6 DEF Unloaded
  <2> QED  BY <2>5, <2>6, <1>9
<1>11. PICK M : M = [inst EXCEPT ![i] = "stopped"]  OBVIOUS
<1>12. inst' = M /\ AfterUnload(o, kind, F, disk)  BY <1>4, <1>10, <1>11 DEF CleanupEnds
<1>13. Fine(F, M, ops, started)
  <2>1. s.status # "unborn"  BY <1>8
  <2> QED  BY <2>1, <1>1, <1>2, <1>4, <1>8, <1>9, <1>11, FineCleaned
<1>14. F[e] = s /\ (\A f \in Id : f # e => F[f] = entries[f]) /\ M[i] = "stopped" /\ \A j \in Id : j # i => M[j] = inst[j]
  BY <1>2, <1>5, <1>9, <1>11
<1>15. PICK g : g = NewEntry  OBVIOUS
<1>16. kind \in {"reload", "import"} => Makes(ops[o]) /\ g \in Id /\ F[g] = Unborn
  <2> SUFFICES ASSUME kind \in {"reload", "import"} PROVE Makes(ops[o]) /\ g \in Id /\ F[g] = Unborn
    OBVIOUS
  <2>1. Makes(ops[o])  BY <1>1, <1>4 DEF Makes
  <2>2. g \in Id /\ entries[g] = Unborn  BY <2>1, <1>2, <1>15, NewEntryIs
  <2>3. g # e  BY <2>2, <1>5 DEF Unborn
  <2> QED  BY <2>1, <2>2, <2>3, <1>14
<1>17. kind \in {"reload", "import"} => g \in Id /\ saved = saved  BY <1>16
<1>18. disk' \in Places  BY <1>2, <1>12, <1>15, <1>17, AfterDoes
<1>19. PICK x \in OpRec : ops' = [ops EXCEPT ![o] = x] /\ Follows(x, kind, F, g, table, entries', table', saved)
  BY <1>2, <1>12, <1>15, <1>17, AfterDoes
<1>20. table # 0 => F[table].status # "unborn"
  <2>1. CASE table = e  BY <2>1, <1>8, <1>14
  <2>2. CASE table # e  BY <2>2, <1>2, <1>14
  <2> QED  BY <2>1, <2>2
<1>21. Loads(ops[o])  BY <1>1 DEF Loads
<1>22. PICK H, tc, Q : H = entries' /\ tc = table' /\ Q = ops'  OBVIOUS
<1>23. Follows(x, kind, F, g, table, H, tc, saved) /\ Q = [ops EXCEPT ![o] = x]  BY <1>19, <1>22
<1>24. Outcome(H, M, Q, started, tc)  BY <1>2, <1>13, <1>16, <1>20, <1>21, <1>23, FineAfter
<1>25. Fine(entries', inst', ops', started') /\ table' \in 0..MaxStart /\ (table' # 0 => entries'[table'].status # "unborn")
  BY <1>1, <1>12, <1>22, <1>24 DEF Outcome
<1>26. ASSUME ~opsOverlapped' PROVE Alone(ops, o) /\ Solo(x, entries', table', router', saved', AliveIn(inst'))
  <2>1. Alone(ops, o) /\ table = e /\ en.ctx = i /\ en.enable = saved /\ AliveIn(inst) = {CtxOf(entries, table)} \ {0}
    BY <1>1, <1>3, <1>4, <1>5, <1>6, <1>26 DEF Solo, OpSolo, TableSolo
  <2>2. AliveIn(inst) = {i}  BY <2>1, <1>5, <1>6 DEF CtxOf
  <2>3. AliveIn(M) = {}
    <3>1. \A j \in Id : j # i => inst[j] \notin {"init", "running", "cleaning"}  BY <2>2 DEF AliveIn
    <3> QED  BY <3>1, <1>14 DEF AliveIn
  <2>4. CtxOf(F, table) = 0 /\ TableSolo(F, table, 0, saved) /\ F[table].status # "loaded"
    BY <2>1, <1>8, <1>14 DEF CtxOf, TableSolo
  <2>5. AliveIn(M) = {CtxOf(F, table)} \ {0}  BY <2>3, <2>4
  <2>6. PICK h \in Id : Turns(x, kind, F, h, table, H, tc, saved, M, M)
    <3>1. CASE g \in Id  BY <3>1, <2>4, <1>23 DEF Turns
    <3>2. CASE g \notin Id
      <4>1. Follows(x, kind, F, e, table, H, tc, saved)  BY <3>2, <1>16, <1>23 DEF Follows
      <4> QED  BY <4>1, <2>4, <1>5 DEF Turns
    <3> QED  BY <3>1, <3>2
  <2>7. F \in [Id -> EntryRec] /\ EntriesFine(F, M)  BY <1>13 DEF Fine, PluginTyped
  <2>8. Solo(x, H, tc, 0, saved, AliveIn(M))  BY <2>4, <2>5, <2>6, <2>7, <1>2, <1>20, TurnsSolo
  <2> QED  BY <2>1, <2>8, <1>1, <1>12, <1>22
<1>27. saved' \in BOOLEAN /\ router' \in 0..MaxStart  BY <1>1, <1>2, PluginAssumption
<1> QED  BY <1>3, <1>18, <1>19, <1>25, <1>26, <1>27, StepEnds

\* Every step keeps the invariant.
LEMMA PlugStep == ASSUME PlugInv, PluginNext PROVE PlugInv'
<1>1. PICK o \in Op :
        \/ Open(o) \/ Enable(o) \/ Disable(o) \/ Reload(o) \/ Uninstall(o) \/ Import(o) \/ Install(o)
        \/ ScanEnds(o) \/ ExtractEnds(o) \/ ImportEnds(o) \/ InitEnds(o) \/ CleanupEnds(o)
  BY DEF PluginNext
<1>2. CASE Open(o)  BY <1>2, OpenKeeps
<1>3. CASE Enable(o)  BY <1>3, EnableKeeps
<1>4. CASE Disable(o)  BY <1>4, DisableKeeps
<1>5. CASE Reload(o)  BY <1>5, ReloadKeeps
<1>6. CASE Uninstall(o)  BY <1>6, UninstallKeeps
<1>7. CASE Import(o)  BY <1>7, ImportKeeps
<1>8. CASE Install(o)  BY <1>8, InstallKeeps
<1>9. CASE ScanEnds(o)  BY <1>9, ScanKeeps
<1>10. CASE ExtractEnds(o)  BY <1>10, ExtractKeeps
<1>11. CASE ImportEnds(o)  BY <1>11, ImportEndKeeps
<1>12. CASE InitEnds(o)  BY <1>12, InitKeeps
<1>13. CASE CleanupEnds(o)  BY <1>13, CleanupKeeps
<1> QED  BY <1>1, <1>2, <1>3, <1>4, <1>5, <1>6, <1>7, <1>8, <1>9, <1>10, <1>11, <1>12, <1>13

\* It holds at first.
LEMMA PlugStarts == ASSUME PluginInit PROVE PlugInv
<1>1. /\ isEnable = FALSE /\ saved \in BOOLEAN /\ disk \in {"none", "whole"} /\ table = 0 /\ router = 0 /\ started = 0
      /\ opsOverlapped = FALSE
  BY DEF PluginInit
<1>2. entries = [e \in Id |-> Unborn] /\ inst = [i \in Id |-> "none"] /\ ops = [o \in Op |-> IdleOp]
  BY DEF PluginInit
<1>3. PluginTyped(entries, inst, ops, started)
  <2>1. Unborn \in EntryRec /\ IdleOp \in OpRec /\ started \in 0..MaxStart
    BY <1>1, PluginAssumption DEF Unborn, EntryRec, IdleOp, OpRec, OpKind
  <2> QED  BY <2>1, <1>2 DEF PluginTyped, InstState
<1>4. (\A e \in Id : entries[e] = Unborn) /\ (\A i \in Id : inst[i] = "none") /\ \A o \in Op : ops[o].pc = "idle"
  BY <1>2 DEF IdleOp
<1>5. EntriesFine(entries, inst)
  <2>1. EntryFine(Unborn) /\ Unborn.ctx = 0  BY DEF EntryFine, Unborn
  <2> QED  BY <2>1, <1>4 DEF EntriesFine
<1>6. OpsFine(ops, entries, inst)
  <2>1. \A o \in Op : OpFine(ops[o], entries, inst)  BY <1>4 DEF OpFine
  <2> QED  BY <2>1, <1>4 DEF OpsFine
<1>7. Born(entries) = {} /\ Used(inst) = {} /\ WillMake(ops) = {} /\ WillLoad(ops) = {}
  BY <1>4 DEF Born, Used, WillMake, WillLoad, Makes, Loads, Unborn
<1>8. Counts({}, {}, started)
  <2>1. IsFiniteSet({}) /\ Cardinality({}) = 0  BY FS_EmptySet
  <2> QED  BY <2>1, <1>1 DEF Counts
<1>9. Fine(entries, inst, ops, started)  BY <1>3, <1>5, <1>6, <1>7, <1>8 DEF Fine
<1>10. InFlight = {}  BY <1>4 DEF InFlight
<1>11. GenInv
  <2>1. table \in 0..MaxStart /\ router \in 0..MaxStart  BY <1>1, PluginAssumption
  <2>2. isEnable \in BOOLEAN /\ opsOverlapped \in BOOLEAN /\ disk \in {"none", "partial", "whole"} /\ ~opsOverlapped
    BY <1>1
  <2> QED  BY <2>1, <2>2, <1>1, <1>9, <1>10 DEF GenInv
<1>12. SoloInv
  <2>1. AliveIn(inst) = {} /\ CtxOf(entries, table) = 0  BY <1>1, <1>4 DEF AliveIn, CtxOf
  <2>2. TableSolo(entries, table, router, saved)  BY <1>1 DEF TableSolo
  <2> QED  BY <2>1, <2>2, <1>4 DEF SoloInv
<1> QED  BY <1>11, <1>12 DEF PlugInv

\* What the invariant says of events, of instances and of routes.
LEMMA PlugSafe == ASSUME PlugInv PROVE PluginSafe
<1>1. /\ isEnable \in BOOLEAN /\ saved \in BOOLEAN /\ opsOverlapped \in BOOLEAN /\ disk \in Places
      /\ table \in 0..MaxStart /\ router \in 0..MaxStart /\ (table # 0 => table \in Id /\ entries[table].status # "unborn")
      /\ entries \in [Id -> EntryRec] /\ inst \in [Id -> InstState] /\ ops \in [Op -> OpRec]
      /\ started \in 0..MaxStart /\ EntriesFine(entries, inst)
  BY InvHas DEF PlugInv
<1>2. \A e \in Id : EntryFine(entries[e]) /\ (entries[e].ctx # 0 => inst[entries[e].ctx] \in {"running", "cleaning"})
  BY <1>1 DEF EntriesFine
<1>3. PluginTypeOK
  <2>1. \A e \in Id : entries[e].status = "loaded" => entries[e].loaded /\ entries[e].ctx # 0  BY <1>2 DEF EntryFine
  <2>2. entries \in [Id -> Entries \cup {Unborn}]
    <3>1. ASSUME NEW e \in Id PROVE entries[e] \in Entries \cup {Unborn}
      <4>1. PICK en \in EntryRec : en = entries[e]  BY <1>1
      <4>2. CASE en.status = "unborn"  BY <4>1, <4>2, <1>2 DEF EntryFine
      <4>3. CASE en.status # "unborn"  BY <4>1, <4>3 DEF EntryRec, Entries
      <4> QED  BY <4>2, <4>3
    <3> QED  BY <3>1, <1>1
  <2>3. table # 0 => entries[table] # Unborn  BY <1>1 DEF Unborn
  <2>4. ops \in [Op -> [pc : {"idle", "scan", "extract", "import", "init", "cleanup"},
                        kind : OpKind, e : 0..MaxStart, i : 0..MaxStart]]
    BY <1>1 DEF OpRec
  <2> QED  BY <2>1, <2>2, <2>3, <2>4, <1>1 DEF PluginTypeOK, Places, InstState
<1>4. OnlyTheInitialisedHear
  <2> SUFFICES ASSUME NEW i \in Receivers PROVE inst[i] \in {"running", "cleaning"}
    BY DEF OnlyTheInitialisedHear
  <2>1. table # 0 /\ entries[table].status = "loaded" /\ entries[table].ctx = i  BY DEF Receivers
  <2> QED  BY <2>1, <1>1, <1>2 DEF EntryFine
<1>5. AliveInst = AliveIn(inst)  BY DEF AliveInst, AliveIn
<1>6. OneInstance
  <2> SUFFICES ASSUME ~opsOverlapped
               PROVE  /\ Cardinality(AliveInst) <= 1
                      /\ InFlight = {} => AliveInst = IF table = 0 THEN {} ELSE {entries[table].ctx} \ {0}
                      /\ InFlight = {} /\ table # 0 => entries[table].enable = saved
    BY DEF OneInstance
  <2>1. \E a : AliveInst \subseteq {a}
    <3>1. CASE \A o \in Op : ops[o].pc = "idle"  BY <3>1, <1>5 DEF PlugInv, SoloInv
    <3>2. ASSUME NEW o \in Op, ops[o].pc # "idle" PROVE \E a : AliveInst \subseteq {a}
      <4>1. OpSolo(ops[o], entries, table, router, saved, AliveIn(inst))  BY <3>2 DEF PlugInv, SoloInv
      <4>2. AliveInst = {ops[o].i} \/ AliveInst = {CtxOf(entries, table)} \ {0}  BY <4>1, <1>5 DEF OpSolo
      <4> QED  BY <4>2
    <3> QED  BY <3>1, <3>2
  <2>2. PICK a : AliveInst \subseteq {a}  BY <2>1
  <2>3. Cardinality(AliveInst) <= 1
    <3>1. IsFiniteSet({a}) /\ Cardinality({a}) = 1  BY FS_Singleton
    <3>2. Cardinality(AliveInst) <= Cardinality({a})  BY <2>2, <3>1, FS_Subset
    <3> QED  BY <3>1, <3>2
  <2>4. ASSUME InFlight = {} PROVE AliveInst = IF table = 0 THEN {} ELSE {entries[table].ctx} \ {0}
    <3>1. \A o \in Op : ops[o].pc = "idle"  BY <2>4 DEF InFlight
    <3>2. AliveInst = {CtxOf(entries, table)} \ {0}  BY <3>1, <1>5 DEF PlugInv, SoloInv
    <3> QED  BY <3>2 DEF CtxOf
  <2>5. table # 0 => entries[table].enable = saved  BY DEF PlugInv, SoloInv, TableSolo
  <2> QED  BY <2>3, <2>4, <2>5
<1>7. RoutesAreItsOwn
  <2> SUFFICES ASSUME ~opsOverlapped, table # 0, entries[table].status = "loaded" PROVE router = entries[table].ctx
    BY DEF RoutesAreItsOwn
  <2>1. entries[table].ctx # 0  BY <1>1, <1>2 DEF EntryFine
  <2> QED  BY <2>1 DEF PlugInv, SoloInv, TableSolo
<1> QED  BY <1>3, <1>4, <1>6, <1>7 DEF PluginSafe

\* However the operations on a plugin interleave, events only go to an instance
\* whose plugin_init has succeeded and whose plugin_cleanup is not over; while
\* they come one at a time it has one instance at most, with routes of its own.
THEOREM PluginsComeAlone == PluginSpec => []PluginSafe
<1>1. PluginInit => PlugInv  BY PlugStarts
<1>2. PlugInv /\ [PluginNext]_pmvars => PlugInv'
  <2> SUFFICES ASSUME PlugInv, [PluginNext]_pmvars PROVE PlugInv'
    OBVIOUS
  <2>1. CASE PluginNext  BY <2>1, PlugStep
  <2>2. CASE UNCHANGED pmvars
    <3>1. /\ isEnable' = isEnable /\ saved' = saved /\ disk' = disk /\ entries' = entries /\ table' = table /\ router' = router
          /\ inst' = inst /\ ops' = ops /\ started' = started /\ opsOverlapped' = opsOverlapped
      BY <2>2 DEF pmvars
    <3>2. GenInv'  BY <3>1 DEF PlugInv, GenInv, InFlight
    <3>3. SoloInv'  BY <3>1 DEF PlugInv, SoloInv
    <3> QED  BY <3>2, <3>3 DEF PlugInv
  <2> QED  BY <2>1, <2>2
<1>3. PlugInv => PluginSafe  BY PlugSafe
<1> QED  BY <1>1, <1>2, <1>3, PTL DEF PluginSpec

----------------------------------------------------------------------------
(* The memory account of the upload streams is exact, every stream has a   *)
(* timer, and a completed file is whole, for any ids, sizes, chunks and    *)
(* requests that wait for the disk.                                        *)

-----------------------------------------------------------------------------
(* Sums *)

\* The sums of the first numbers of v.
Sums(f, v, m) == f = [n \in 0..m |-> IF n = 0 THEN 0 ELSE f[n - 1] + v[n]]

\* Every list of numbers has its sums.
LEMMA SumsExist ==
  ASSUME NEW v
  PROVE  \A n \in 0..MaxStream : \E f : Sums(f, v, n)
<1>1. MaxStream \in Nat  BY UploadAssumption
<1>2. PICK T : T = {n \in 0..MaxStream : ~\E f : Sums(f, v, n)}  OBVIOUS
<1>3. ASSUME T # {} PROVE FALSE
  <2>1. PICK m \in T : \A y \in T : m <= y
    <3>1. T \subseteq Nat  BY <1>1, <1>2
    <3> QED  BY <3>1, <1>3, Least
  <2>2. m \in 0..MaxStream /\ m \in Nat /\ ~\E f : Sums(f, v, m)  BY <1>1, <1>2
  <2>3. CASE m = 0
    <3>1. Sums([n \in 0..0 |-> 0], v, 0)  BY DEF Sums
    <3> QED  BY <3>1, <2>2, <2>3
  <2>4. CASE m > 0
    <3>1. m - 1 \in 0..MaxStream /\ m - 1 \notin T  BY <2>1, <2>2, <2>4, <1>1
    <3>2. PICK f : Sums(f, v, m - 1)  BY <3>1, <1>2
    <3>3. PICK g : g = [n \in 0..m |-> IF n = m THEN f[m - 1] + v[m] ELSE f[n]]  OBVIOUS
    <3>4. ASSUME NEW n \in 0..m PROVE g[n] = IF n = 0 THEN 0 ELSE g[n - 1] + v[n]
      <4>1. CASE n = 0
        <5>1. g[0] = f[0] /\ f[0] = 0  BY <2>2, <2>4, <3>2, <3>3 DEF Sums
        <5> QED  BY <5>1, <4>1
      <4>2. CASE n = m
        <5>1. g[m - 1] = f[m - 1]  BY <2>2, <2>4, <3>3
        <5> QED  BY <5>1, <4>2, <2>2, <2>4, <3>3
      <4>3. CASE n # 0 /\ n # m
        <5>1. n \in 0..(m - 1) /\ n - 1 \in 0..(m - 1) /\ n - 1 # m /\ n - 1 \in 0..m  BY <4>3, <2>2
        <5>2. g[n] = f[n] /\ g[n - 1] = f[n - 1]  BY <5>1, <4>3, <3>3
        <5>3. f[n] = f[n - 1] + v[n]  BY <5>1, <4>3, <3>2 DEF Sums
        <5> QED  BY <5>2, <5>3, <4>3
      <4> QED  BY <4>1, <4>2, <4>3
    <3>5. Sums(g, v, m)  BY <3>3, <3>4 DEF Sums
    <3> QED  BY <3>5, <2>2
  <2> QED  BY <2>2, <2>3, <2>4
<1> QED  BY <1>2, <1>3

\* Two lists of numbers that differ at k have sums that differ by as much.
LEMMA SumsDiffer ==
  ASSUME NEW v \in [Inc -> Nat], NEW w \in [Inc -> Nat], NEW k \in Inc, \A n \in Inc : n # k => w[n] = v[n],
         NEW f, Sums(f, v, MaxStream), NEW g, Sums(g, w, MaxStream)
  PROVE  /\ f[MaxStream] \in Nat /\ g[MaxStream] \in Nat /\ v[k] \in Nat /\ w[k] \in Nat
         /\ v[k] <= f[MaxStream] /\ g[MaxStream] = f[MaxStream] - v[k] + w[k]
<1>1. MaxStream \in Nat /\ k \in Nat /\ k <= MaxStream /\ k > 0 /\ v[k] \in Nat /\ w[k] \in Nat
  BY UploadAssumption DEF Inc
<1> DEFINE Holds(n) == /\ f[n] \in Nat /\ g[n] \in Nat
                       /\ n < k => g[n] = f[n]
                       /\ n >= k => v[k] <= f[n] /\ g[n] = f[n] - v[k] + w[k]
<1>2. PICK T : T = {n \in 0..MaxStream : ~Holds(n)}  OBVIOUS
<1>3. ASSUME T # {} PROVE FALSE
  <2>1. PICK m \in T : \A y \in T : m <= y
    <3>1. T \subseteq Nat  BY <1>1, <1>2
    <3> QED  BY <3>1, <1>3, Least
  <2>2. m \in 0..MaxStream /\ m \in Nat /\ ~Holds(m)  BY <1>1, <1>2
  <2>3. /\ f[m] = IF m = 0 THEN 0 ELSE f[m - 1] + v[m]
        /\ g[m] = IF m = 0 THEN 0 ELSE g[m - 1] + w[m]
    BY <2>2 DEF Sums
  <2>4. CASE m = 0
    <3>1. f[m] = 0 /\ g[m] = 0 /\ m < k /\ ~(m >= k)  BY <2>3, <2>4, <1>1
    <3> QED  BY <3>1, <2>2
  <2>5. CASE m > 0
    <3>1. m - 1 \in 0..MaxStream /\ m - 1 \notin T /\ m \in Inc  BY <2>1, <2>2, <2>5, <1>1 DEF Inc
    <3>2. Holds(m - 1)  BY <3>1, <1>2
    <3>3. v[m] \in Nat /\ w[m] \in Nat /\ (m # k => w[m] = v[m])  BY <3>1
    <3>4. f[m] = f[m - 1] + v[m] /\ g[m] = g[m - 1] + w[m]  BY <2>3, <2>5
    <3>5. CASE m < k  BY <3>2, <3>3, <3>4, <3>5, <2>2, <1>1
    <3>6. CASE m = k  BY <3>2, <3>3, <3>4, <3>6, <2>2, <1>1
    <3>7. CASE m > k  BY <3>2, <3>3, <3>4, <3>7, <2>2, <1>1
    <3> QED  BY <3>5, <3>6, <3>7, <2>2, <1>1
  <2> QED  BY <2>2, <2>4, <2>5
<1>4. Holds(MaxStream)  BY <1>1, <1>2, <1>3
<1> QED  BY <1>1, <1>4

-----------------------------------------------------------------------------
(* The memory account *)

SizeIn(M, S, n) == IF M[n] # Unmade /\ S[M[n].id] = n THEN M[n].size ELSE 0
Weights(M, S) == [n \in Inc |-> SizeIn(M, S, n)]
MemIs(M, S, U) == \E f : Sums(f, Weights(M, S), MaxStream) /\ U = f[MaxStream]

\* The sizes are numbers.
LEMMA WeightsAre ==
  ASSUME NEW M \in [Inc -> Stream \cup {Unmade}], NEW S
  PROVE  Weights(M, S) \in [Inc -> Nat]
<1>1. ASSUME NEW n \in Inc PROVE SizeIn(M, S, n) \in Nat
  <2>1. CASE M[n] = Unmade  BY <2>1 DEF SizeIn
  <2>2. CASE M[n] # Unmade
    <3>1. PICK m \in Stream : m = M[n]  BY <2>2
    <3>2. m.size \in FileSize \cup {0}  BY DEF Stream
    <3>3. M[n].size \in Nat  BY <3>1, <3>2, UploadAssumption
    <3> QED  BY <3>3 DEF SizeIn
  <2> QED  BY <2>1, <2>2
<1> QED  BY <1>1 DEF Weights

\* The size of one object comes or goes.
LEMMA MemStep ==
  ASSUME NEW M \in [Inc -> Stream \cup {Unmade}], NEW S, NEW U, MemIs(M, S, U),
         NEW N \in [Inc -> Stream \cup {Unmade}], NEW R, NEW k \in Inc,
         \A n \in Inc : n # k => SizeIn(N, R, n) = SizeIn(M, S, n)
  PROVE  /\ U \in Nat /\ SizeIn(M, S, k) \in Nat /\ SizeIn(M, S, k) <= U
         /\ MemIs(N, R, U - SizeIn(M, S, k) + SizeIn(N, R, k))
<1>1. PICK v, w : v = Weights(M, S) /\ w = Weights(N, R)  OBVIOUS
<1>2. v \in [Inc -> Nat] /\ w \in [Inc -> Nat]  BY <1>1, WeightsAre
<1>3. \A n \in Inc : n # k => w[n] = v[n]  BY <1>1 DEF Weights
<1>4. PICK f : Sums(f, v, MaxStream) /\ U = f[MaxStream]  BY <1>1 DEF MemIs
<1>5. PICK g : Sums(g, w, MaxStream)
  <2>1. MaxStream \in 0..MaxStream  BY UploadAssumption
  <2> QED  BY <2>1, SumsExist
<1>6. /\ f[MaxStream] \in Nat /\ g[MaxStream] \in Nat /\ v[k] \in Nat /\ w[k] \in Nat
      /\ v[k] <= f[MaxStream] /\ g[MaxStream] = f[MaxStream] - v[k] + w[k]
  BY <1>2, <1>3, <1>4, <1>5, SumsDiffer
<1>7. v[k] = SizeIn(M, S, k) /\ w[k] = SizeIn(N, R, k)  BY <1>1 DEF Weights
<1>8. MemIs(N, R, g[MaxStream])  BY <1>1, <1>5 DEF MemIs
<1> QED  BY <1>4, <1>6, <1>7, <1>8

\* Nothing has a size at first.
LEMMA MemStarts ==
  ASSUME NEW M, M = [n \in Inc |-> Unmade], NEW S
  PROVE  MemIs(M, S, 0)
<1>1. PICK v : v = Weights(M, S)  OBVIOUS
<1>2. \A n \in Inc : v[n] = 0  BY <1>1 DEF Weights, SizeIn
<1>3. PICK f : f = [n \in 0..MaxStream |-> 0]  OBVIOUS
<1>4. ASSUME NEW n \in 0..MaxStream PROVE f[n] = IF n = 0 THEN 0 ELSE f[n - 1] + v[n]
  <2>1. CASE n = 0  BY <2>1, <1>3
  <2>2. CASE n # 0
    <3>1. n \in Inc /\ n - 1 \in 0..MaxStream  BY <2>2, UploadAssumption DEF Inc
    <3> QED  BY <3>1, <2>2, <1>2, <1>3
  <2> QED  BY <2>1, <2>2
<1>5. Sums(f, v, MaxStream)  BY <1>3, <1>4 DEF Sums
<1>6. f[MaxStream] = 0  BY <1>3, UploadAssumption
<1> QED  BY <1>1, <1>5, <1>6 DEF MemIs

\* It is the account that Declared recomputes.
LEMMA DeclaredIs ==
  ASSUME made \in [Inc -> Stream \cup {Unmade}], MemIs(made, streams, memoryUsage)
  PROVE  memoryUsage = Declared[MaxStream] /\ memoryUsage \in Nat
<1>1. PICK v : v = Weights(made, streams)  OBVIOUS
<1>2. v \in [Inc -> Nat]  BY <1>1, WeightsAre
<1>3. PICK f : Sums(f, v, MaxStream) /\ memoryUsage = f[MaxStream]  BY <1>1 DEF MemIs
<1>4. Sums(Declared, v, MaxStream)
  <2>1. \A n \in Inc : v[n] = IF n \in Live THEN made[n].size ELSE 0  BY <1>1 DEF Weights, SizeIn, Live
  <2>2. \A h : [n \in 0..MaxStream |-> IF n = 0 THEN 0 ELSE h[n - 1] + v[n]]
               = [n \in 0..MaxStream |-> IF n = 0 THEN 0 ELSE h[n - 1] + IF n \in Live THEN made[n].size ELSE 0]
    <3> TAKE h
    <3>1. ASSUME NEW n \in 0..MaxStream
          PROVE  (IF n = 0 THEN 0 ELSE h[n - 1] + v[n])
                 = IF n = 0 THEN 0 ELSE h[n - 1] + IF n \in Live THEN made[n].size ELSE 0
      <4>1. n # 0 => n \in Inc  BY UploadAssumption DEF Inc
      <4> QED  BY <4>1, <2>1
    <3> QED  BY <3>1
  <2>3. f = [n \in 0..MaxStream |-> IF n = 0 THEN 0 ELSE f[n - 1] + IF n \in Live THEN made[n].size ELSE 0]
    BY <1>3, <2>2 DEF Sums
  <2>4. Declared = [n \in 0..MaxStream |-> IF n = 0 THEN 0 ELSE Declared[n - 1] + IF n \in Live THEN made[n].size ELSE 0]
    BY <2>3 DEF Declared
  <2> QED  BY <2>2, <2>4 DEF Sums
<1>5. 1 \in Inc  BY UploadAssumption DEF Inc
<1>6. f[MaxStream] \in Nat /\ Declared[MaxStream] = f[MaxStream] - v[1] + v[1] /\ v[1] \in Nat
  BY <1>2, <1>3, <1>4, <1>5, SumsDiffer
<1> QED  BY <1>3, <1>6

-----------------------------------------------------------------------------
(* The streams, their memory, their timers and their directories *)

Dir == [Chunk -> File \cup {NoFile}]
OnDisk(M, S, t) == S[t] # 0 /\ M[S[t]].size = 0

\* The map leads to objects that were made; those on disk, and only they, have
\* a directory; those in the map have a timer; those in memory, and only they,
\* hold chunks and count in the account.
Maps(S, M) ==
  /\ S \in [StreamId -> 0..MaxStream] /\ M \in [Inc -> Stream \cup {Unmade}]
  /\ \A t \in StreamId : S[t] # 0 => M[S[t]] # Unmade /\ M[S[t]].id = t
Timed(S, M, T) ==
  /\ T \subseteq Inc /\ \A n \in T : M[n] # Unmade
  /\ \A t \in StreamId : S[t] # 0 => S[t] \in T
Account(S, M, U) == MemIs(M, S, U) /\ U <= MemoryLimit
Holding(S, M, St) ==
  /\ St \in [Inc -> SUBSET Chunk]
  /\ \A n \in Inc : St[n] # {} => M[n] # Unmade /\ S[M[n].id] = n /\ M[n].size > 0
Dirs(S, M, D) ==
  /\ D \in [StreamId -> Dir \cup {NoDir}]
  /\ \A t \in StreamId : D[t] # NoDir <=> OnDisk(M, S, t)
Store(S, M, T, U, St, D) == Maps(S, M) /\ Timed(S, M, T) /\ Account(S, M, U) /\ Holding(S, M, St) /\ Dirs(S, M, D)

\* A directory is not the lack of one.
LEMMA DirIs == NoFiles \in Dir /\ \A d \in Dir : d # NoDir
<1>1. NoFiles \in Dir  BY DEF NoFiles, Dir
<1>2. ASSUME NEW d \in Dir PROVE d # NoDir
  <2>1. DOMAIN d = Chunk /\ 1 \in Chunk  BY UploadAssumption DEF Dir, Chunk
  <2>2. DOMAIN NoDir = {}  BY DEF NoDir
  <2> QED  BY <2>1, <2>2
<1> QED  BY <1>1, <1>2

\* An object in the map.
LEMMA InMap ==
  ASSUME NEW S, NEW M, Maps(S, M), NEW t \in StreamId, S[t] # 0
  PROVE  /\ S[t] \in Inc /\ M[S[t]] \in Stream /\ M[S[t]].id = t /\ M[S[t]].size \in Nat
         /\ SizeIn(M, S, S[t]) = M[S[t]].size
         /\ \A n \in Inc : M[n] # Unmade /\ M[n].id = t /\ S[M[n].id] = n => n = S[t]
<1>1. S[t] \in Inc /\ M[S[t]] # Unmade /\ M[S[t]].id = t  BY UploadAssumption DEF Maps, Inc
<1>2. PICK m \in Stream : m = M[S[t]]  BY <1>1 DEF Maps
<1>3. m.size \in FileSize \cup {0}  BY DEF Stream
<1>4. M[S[t]].size \in Nat
  <2>1. FileSize \subseteq Nat  BY UploadAssumption
  <2>2. CASE m.size \in FileSize  BY <2>1, <2>2, <1>2
  <2>3. CASE m.size = 0  BY <2>3, <1>2
  <2> QED  BY <2>2, <2>3, <1>3
<1>5. M[S[t]] \in Stream  BY <1>2
<1>6. SizeIn(M, S, S[t]) = M[S[t]].size  BY <1>1 DEF SizeIn
<1> QED  BY <1>1, <1>4, <1>5, <1>6

\* An object that was made.
LEMMA MadeIs ==
  ASSUME NEW S, NEW M, Maps(S, M), NEW n \in Inc, M[n] # Unmade
  PROVE  M[n] \in Stream /\ M[n].id \in StreamId /\ M[n].size \in Nat /\ M[n].sha \in BOOLEAN
<1>1. PICK m \in Stream : m = M[n]  BY DEF Maps
<1>2. m.size \in FileSize \cup {0} /\ m.id \in StreamId /\ m.sha \in BOOLEAN  BY DEF Stream
<1>3. m.size \in Nat
  <2>1. FileSize \subseteq Nat  BY UploadAssumption
  <2>2. CASE m.size \in FileSize  BY <2>1, <2>2
  <2>3. CASE m.size = 0  BY <2>3
  <2> QED  BY <2>2, <2>3, <1>2
<1>4. M[n].id = m.id /\ M[n].size = m.size /\ M[n].sha = m.sha  BY <1>1
<1> QED  BY <1>1, <1>2, <1>3, <1>4

\* The object that has an id is cleaned up.
LEMMA StreamEndKeeps ==
  ASSUME Store(streams, made, timers, memoryUsage, stored, dirs), NEW t \in StreamId,
         NEW tms, tms \subseteq timers, \A n \in timers : n \notin tms => made[n].id = t,
         Cleanup(t, tms), made' = made
  PROVE  /\ Store(streams', made', timers', memoryUsage', stored', dirs')
         /\ streams' = [streams EXCEPT ![t] = 0] /\ dirs' = [dirs EXCEPT ![t] = NoDir] /\ tms \in SUBSET Inc
<1>1. /\ Maps(streams, made) /\ Timed(streams, made, timers) /\ Account(streams, made, memoryUsage)
      /\ Holding(streams, made, stored) /\ Dirs(streams, made, dirs)
  BY DEF Store
<1>2. \A u \in StreamId : u # t /\ streams[u] # 0 => streams[u] \in tms
  <2> SUFFICES ASSUME NEW u \in StreamId, u # t, streams[u] # 0 PROVE streams[u] \in tms
    OBVIOUS
  <2>1. streams[u] \in timers /\ made[streams[u]].id = u  BY <1>1 DEF Timed, Maps
  <2> QED  BY <2>1
<1>3. tms \subseteq Inc /\ \A n \in tms : made[n] # Unmade  BY <1>1 DEF Timed
<1>4. CASE streams[t] = 0
  <2>1. timers' = tms /\ streams' = streams /\ memoryUsage' = memoryUsage /\ stored' = stored /\ dirs' = dirs
    BY <1>4 DEF Cleanup
  <2>2. Timed(streams', made', timers')  BY <1>2, <1>3, <1>4, <2>1 DEF Timed
  <2>3. streams' = [streams EXCEPT ![t] = 0]  BY <1>1, <1>4, <2>1 DEF Maps
  <2>4. dirs' = [dirs EXCEPT ![t] = NoDir]
    <3>1. dirs[t] = NoDir  BY <1>1, <1>4 DEF Dirs, OnDisk
    <3> QED  BY <3>1, <1>1, <2>1 DEF Dirs
  <2>5. /\ Maps(streams', made') /\ Account(streams', made', memoryUsage')
        /\ Holding(streams', made', stored') /\ Dirs(streams', made', dirs')
    BY <1>1, <2>1
  <2> QED  BY <1>3, <2>2, <2>3, <2>4, <2>5 DEF Store
<1>5. CASE streams[t] # 0
  <2>1. PICK n, sz : n = streams[t] /\ sz = made[n].size  OBVIOUS
  <2>2. /\ n \in Inc /\ made[n] \in Stream /\ made[n].id = t /\ sz \in Nat /\ SizeIn(made, streams, n) = sz
        /\ \A k \in Inc : made[k] # Unmade /\ made[k].id = t /\ streams[made[k].id] = k => k = n
    BY <1>1, <1>5, <2>1, InMap
  <2>3. timers' = tms \ {n} /\ streams' = [streams EXCEPT ![t] = 0]  BY <1>5, <2>1 DEF Cleanup
  <2>4. streams'[t] = 0 /\ \A u \in StreamId : u # t => streams'[u] = streams[u]  BY <1>1, <2>3 DEF Maps
  <2>5. \A u \in StreamId : streams[u] # 0 => made[streams[u]].id = u  BY <1>1 DEF Maps
  <2>6. Maps(streams', made')
    <3>1. streams' \in [StreamId -> 0..MaxStream]  BY <1>1, <2>3, UploadAssumption DEF Maps
    <3>2. \A u \in StreamId : streams'[u] # 0 => u # t  BY <2>4
    <3> QED  BY <3>1, <3>2, <1>1, <2>4 DEF Maps
  <2>7. Timed(streams', made', timers')
    <3>1. \A u \in StreamId : streams'[u] # 0 => u # t /\ streams[u] = streams'[u] /\ streams[u] # n
      BY <2>1, <2>2, <2>4, <2>5
    <3> QED  BY <3>1, <1>2, <1>3, <2>3 DEF Timed
  <2>8. \A k \in Inc : k # n => SizeIn(made, streams', k) = SizeIn(made, streams, k)
    <3> SUFFICES ASSUME NEW k \in Inc, k # n, made[k] # Unmade PROVE (streams'[made[k].id] = k) <=> (streams[made[k].id] = k)
      BY DEF SizeIn
    <3>1. made[k].id \in StreamId /\ k # 0  BY <1>1, MadeIs, UploadAssumption DEF Inc
    <3>2. CASE made[k].id = t  BY <3>1, <3>2, <2>1, <2>4
    <3>3. CASE made[k].id # t  BY <3>1, <3>3, <2>4
    <3> QED  BY <3>2, <3>3
  <2>9. SizeIn(made, streams', n) = 0
    <3>1. n # 0  BY <2>2, UploadAssumption DEF Inc
    <3> QED  BY <3>1, <2>2, <2>4 DEF SizeIn
  <2>10. memoryUsage \in Nat /\ sz <= memoryUsage /\ MemIs(made, streams', memoryUsage - sz)
    <3>1. PICK R : R = streams'  OBVIOUS
    <3>2. made \in [Inc -> Stream \cup {Unmade}] /\ MemIs(made, streams, memoryUsage)  BY <1>1 DEF Maps, Account
    <3>3. \A k \in Inc : k # n => SizeIn(made, R, k) = SizeIn(made, streams, k)  BY <3>1, <2>8
    <3>4. memoryUsage \in Nat /\ SizeIn(made, streams, n) <= memoryUsage  BY <3>2, <3>3, <2>2, MemStep
    <3>5. MemIs(made, R, memoryUsage - SizeIn(made, streams, n) + SizeIn(made, R, n))  BY <3>2, <3>3, <2>2, MemStep
    <3>6. memoryUsage - SizeIn(made, streams, n) + SizeIn(made, R, n) = memoryUsage - sz  BY <3>1, <3>4, <2>2, <2>9
    <3> QED  BY <3>1, <3>4, <3>5, <3>6, <2>2
  <2>11. CASE sz > 0
    <3>1. /\ memoryUsage' = IF memoryUsage >= sz THEN memoryUsage - sz ELSE 0
          /\ stored' = [stored EXCEPT ![n] = {}] /\ dirs' = dirs
      BY <1>5, <2>1, <2>11 DEF Cleanup, InMemory, GivenBack, Forgotten
    <3>2. memoryUsage' = memoryUsage - sz /\ memoryUsage - sz <= memoryUsage /\ memoryUsage <= MemoryLimit
      BY <3>1, <2>2, <2>10, <1>1 DEF Account
    <3>3. Account(streams', made', memoryUsage')
      <4>1. memoryUsage' <= MemoryLimit  BY <3>2, <2>2, <2>10, UploadAssumption
      <4> QED  BY <4>1, <3>2, <2>10 DEF Account
    <3>4. stored'[n] = {} /\ \A k \in Inc : k # n => stored'[k] = stored[k]
      <4>1. stored \in [Inc -> SUBSET Chunk]  BY <1>1 DEF Holding
      <4> QED  BY <4>1, <3>1, <2>2
    <3>5. Holding(streams', made', stored')
      <4>1. stored' \in [Inc -> SUBSET Chunk]  BY <1>1, <3>1 DEF Holding
      <4>2. ASSUME NEW k \in Inc, stored'[k] # {} PROVE made'[k] # Unmade /\ streams'[made'[k].id] = k /\ made'[k].size > 0
        <5>1. k # n /\ stored[k] # {}  BY <4>2, <3>4
        <5>2. made[k] # Unmade /\ streams[made[k].id] = k /\ made[k].size > 0  BY <5>1, <1>1 DEF Holding
        <5>3. made[k].id # t /\ made[k].id \in StreamId  BY <5>1, <5>2, <2>1, <1>1, MadeIs
        <5> QED  BY <5>2, <5>3, <2>4
      <4> QED  BY <4>1, <4>2 DEF Holding
    <3>6. dirs[t] = NoDir
      <4>1. ~OnDisk(made, streams, t)  BY <2>1, <2>11 DEF OnDisk
      <4> QED  BY <4>1, <1>1 DEF Dirs
    <3>7. dirs' = [dirs EXCEPT ![t] = NoDir]  BY <3>1, <3>6, <1>1 DEF Dirs
    <3>8. Dirs(streams', made', dirs')
      <4>1. \A u \in StreamId : OnDisk(made', streams', u) <=> dirs'[u] # NoDir
        <5> SUFFICES ASSUME NEW u \in StreamId PROVE OnDisk(made, streams', u) <=> dirs[u] # NoDir
          BY <3>1
        <5>1. CASE u = t  BY <5>1, <3>6, <2>4 DEF OnDisk
        <5>2. CASE u # t  BY <5>2, <1>1, <2>4 DEF OnDisk, Dirs
        <5> QED  BY <5>1, <5>2
      <4> QED  BY <4>1, <3>1, <1>1 DEF Dirs
    <3> QED  BY <3>3, <3>5, <3>7, <3>8, <1>3, <2>3, <2>6, <2>7 DEF Store
  <2>12. CASE ~(sz > 0)
    <3>1. dirs' = [dirs EXCEPT ![t] = NoDir] /\ memoryUsage' = memoryUsage /\ stored' = stored
      BY <1>5, <2>1, <2>12 DEF Cleanup, InMemory, DirRemoved
    <3>2. sz = 0 /\ memoryUsage - sz = memoryUsage  BY <2>2, <2>10, <2>12
    <3>3. Account(streams', made', memoryUsage')  BY <3>1, <3>2, <2>10, <1>1 DEF Account
    <3>4. Holding(streams', made', stored')
      <4>1. ASSUME NEW k \in Inc, stored'[k] # {} PROVE made'[k] # Unmade /\ streams'[made'[k].id] = k /\ made'[k].size > 0
        <5>1. made[k] # Unmade /\ streams[made[k].id] = k /\ made[k].size > 0  BY <4>1, <3>1, <1>1 DEF Holding
        <5>2. k # n  BY <5>1, <3>2, <2>1
        <5>3. made[k].id # t /\ made[k].id \in StreamId  BY <5>1, <5>2, <2>1, <1>1, MadeIs
        <5> QED  BY <5>1, <5>3, <2>4
      <4> QED  BY <4>1, <3>1, <1>1 DEF Holding
    <3>5. dirs'[t] = NoDir /\ \A u \in StreamId : u # t => dirs'[u] = dirs[u]  BY <3>1, <1>1 DEF Dirs
    <3>6. Dirs(streams', made', dirs')
      <4>1. dirs' \in [StreamId -> Dir \cup {NoDir}]  BY <3>1, <1>1 DEF Dirs
      <4>2. ASSUME NEW u \in StreamId PROVE OnDisk(made', streams', u) <=> dirs'[u] # NoDir
        <5>1. CASE u = t  BY <5>1, <3>5, <2>4 DEF OnDisk
        <5>2. CASE u # t  BY <5>2, <3>5, <1>1, <2>4 DEF OnDisk, Dirs
        <5> QED  BY <5>1, <5>2
      <4> QED  BY <4>1, <4>2 DEF Dirs
    <3> QED  BY <3>1, <3>3, <3>4, <3>6, <1>3, <2>3, <2>6, <2>7 DEF Store
  <2> QED  BY <2>11, <2>12
<1> QED  BY <1>4, <1>5

-----------------------------------------------------------------------------
(* The requests that wait, and what they read *)

JobRec == [pc : {"idle", "write", "written", "read", "save"}, n : 0..MaxStream, c : 0..Chunks, got : Dir]

\* A waiting request has an object that was made, and its chunk.
JobsFit(J, M) ==
  \A j \in Job : J[j].pc # "idle" =>
    J[j].n \in Inc /\ M[J[j].n] # Unmade /\ (J[j].pc \in {"write", "written", "read"} => J[j].c \in Chunk)

\* Objects of one id that meet are crowded: two requests of the id, or a
\* request and the object that has the id now.
AloneThere(J, S, M, K) ==
  /\ \A j \in Job : J[j].pc # "idle" =>
       LET t == S[M[J[j].n].id] IN t # 0 /\ t # J[j].n => t \in K /\ J[j].n \in K
  /\ \A j, k \in Job : j # k /\ J[j].pc # "idle" /\ J[k].pc # "idle" /\ M[J[j].n].id = M[J[k].n].id => J[j].n \in K

\* In the directory of an object that is not crowded, a file is its own, and
\* whole or being written by a request of it.
OwnFile(J, n, c, f) ==
  f # NoFile => f.by = n /\ (f.whole \/ \E j \in Job : J[j].pc = "written" /\ J[j].n = n /\ J[j].c = c)
Files(J, S, K, D) ==
  \A t \in StreamId : D[t] # NoDir /\ S[t] \notin K => \A c \in Chunk : OwnFile(J, S[t], c, D[t][c])

\* What a request has read is right, and so is what it saves.
Right(r, M, K) ==
  /\ r.pc = "read" /\ r.n \notin K => \A c \in Chunk : c < r.c => r.got[c] = [by |-> r.n, whole |-> TRUE]
  /\ r.pc = "save" /\ (M[r.n].sha \/ r.n \notin K) => r.got = Whole(r.n)
Reads(J, M, K) == \A j \in Job : Right(J[j], M, K)

ResultsFit(M, K, R) ==
  \A n \in Inc : /\ M[n] = Unmade => R[n] = NoFiles
                 /\ R[n] # NoFiles /\ (M[n].sha \/ n \notin K) => R[n] = Whole(n)

Work(J, S, M, K, D, R) == JobsFit(J, M) /\ AloneThere(J, S, M, K) /\ Files(J, S, K, D) /\ Reads(J, M, K) /\ ResultsFit(M, K, R)
UploadTyped == missing \in [Inc -> SUBSET Chunk] /\ jobs \in [Job -> JobRec] /\ result \in [Inc -> Dir] /\ crowded \subseteq Inc
UpInv == UploadTyped /\ Store(streams, made, timers, memoryUsage, stored, dirs)
         /\ Work(jobs, streams, made, crowded, dirs, result)

\* Requests end or go on with their object, ids are freed, objects are made.
LEMMA FitKeeps ==
  ASSUME NEW J, NEW M, JobsFit(J, M), NEW N, \A n \in Inc : M[n] # Unmade => N[n] = M[n],
         NEW I, \A j \in Job : I[j].pc # "idle" => J[j].pc # "idle" /\ I[j].n = J[j].n,
         \A j \in Job : I[j].pc \in {"write", "written", "read"} => I[j].c \in Chunk
  PROVE  JobsFit(I, N)
<1> SUFFICES ASSUME NEW j \in Job, I[j].pc # "idle"
             PROVE  I[j].n \in Inc /\ N[I[j].n] # Unmade /\ (I[j].pc \in {"write", "written", "read"} => I[j].c \in Chunk)
  BY DEF JobsFit
<1>1. J[j].pc # "idle" /\ I[j].n = J[j].n /\ (I[j].pc \in {"write", "written", "read"} => I[j].c \in Chunk)  OBVIOUS
<1>2. J[j].n \in Inc /\ M[J[j].n] # Unmade  BY <1>1 DEF JobsFit
<1>3. N[J[j].n] = M[J[j].n]  BY <1>2
<1> QED  BY <1>1, <1>2, <1>3

\* Who met before is crowded already.
LEMMA AloneKeeps ==
  ASSUME NEW J, NEW S, NEW M, NEW K, Maps(S, M), JobsFit(J, M), AloneThere(J, S, M, K),
         NEW N, \A n \in Inc : M[n] # Unmade => N[n] = M[n],
         NEW I, \A j \in Job : I[j].pc # "idle" => J[j].pc # "idle" /\ I[j].n = J[j].n,
         NEW R, \A t \in StreamId : R[t] = 0 \/ R[t] = S[t], NEW L, K \subseteq L
  PROVE  AloneThere(I, R, N, L)
<1>1. ASSUME NEW j \in Job, I[j].pc # "idle"
      PROVE  /\ J[j].pc # "idle" /\ I[j].n = J[j].n /\ N[J[j].n] = M[J[j].n] /\ M[J[j].n].id \in StreamId
  <2>1. J[j].pc # "idle" /\ I[j].n = J[j].n  BY <1>1
  <2>2. J[j].n \in Inc /\ M[J[j].n] # Unmade  BY <2>1 DEF JobsFit
  <2>3. M[J[j].n].id \in StreamId  BY <2>2, MadeIs
  <2> QED  BY <2>1, <2>2, <2>3
<1>2. ASSUME NEW j \in Job, I[j].pc # "idle", R[N[I[j].n].id] # 0, R[N[I[j].n].id] # I[j].n
      PROVE  R[N[I[j].n].id] \in L /\ I[j].n \in L
  <2>1. /\ J[j].pc # "idle" /\ I[j].n = J[j].n /\ N[J[j].n] = M[J[j].n] /\ M[J[j].n].id \in StreamId
    BY <1>1, <1>2
  <2>2. R[M[J[j].n].id] = S[M[J[j].n].id]  BY <2>1, <1>2
  <2>3. S[M[J[j].n].id] \in K /\ J[j].n \in K  BY <2>1, <2>2, <1>2 DEF AloneThere
  <2> QED  BY <2>1, <2>2, <2>3
<1>3. ASSUME NEW j \in Job, NEW k \in Job, j # k, I[j].pc # "idle", I[k].pc # "idle", N[I[j].n].id = N[I[k].n].id
      PROVE  I[j].n \in L
  <2>1. J[j].pc # "idle" /\ I[j].n = J[j].n /\ N[J[j].n] = M[J[j].n]  BY <1>1, <1>3
  <2>2. J[k].pc # "idle" /\ I[k].n = J[k].n /\ N[J[k].n] = M[J[k].n]  BY <1>1, <1>3
  <2>3. J[j].n \in K  BY <2>1, <2>2, <1>3 DEF AloneThere
  <2> QED  BY <2>1, <2>3
<1> QED  BY <1>2, <1>3 DEF AloneThere

\* Directories stay as they are, are new or go away.
LEMMA FilesKeep ==
  ASSUME NEW J, NEW S, NEW K, NEW D, Files(J, S, K, D),
         NEW I, \A j \in Job : J[j].pc = "written" => I[j] = J[j],
         NEW R, NEW E, \A t \in StreamId : E[t] = NoDir \/ E[t] = NoFiles \/ (E[t] = D[t] /\ R[t] = S[t]),
         NEW L, K \subseteq L
  PROVE  Files(I, R, L, E)
<1> SUFFICES ASSUME NEW t \in StreamId, E[t] # NoDir, R[t] \notin L, NEW c \in Chunk
             PROVE  OwnFile(I, R[t], c, E[t][c])
  BY DEF Files
<1>1. CASE E[t] = NoFiles  BY <1>1 DEF NoFiles, OwnFile
<1>2. CASE E[t] = D[t] /\ R[t] = S[t]
  <2>1. OwnFile(J, S[t], c, D[t][c])  BY <1>2 DEF Files
  <2> QED  BY <2>1, <1>2 DEF OwnFile
<1> QED  BY <1>1, <1>2

\* What was read stays right.
LEMMA ReadsKeep ==
  ASSUME NEW J, NEW M, NEW K, JobsFit(J, M), Reads(J, M, K), NEW N, \A n \in Inc : M[n] # Unmade => N[n] = M[n],
         NEW L, K \subseteq L,
         NEW I, \A j \in Job : I[j] = J[j] \/ I[j].pc \in {"idle", "write", "written"} \/ Right(I[j], N, L)
  PROVE  Reads(I, N, L)
<1> SUFFICES ASSUME NEW j \in Job PROVE Right(I[j], N, L)
  BY DEF Reads
<1>1. CASE I[j] = J[j]
  <2>1. CASE J[j].pc = "idle"  BY <2>1, <1>1 DEF Right
  <2>2. CASE J[j].pc # "idle"
    <3>1. N[J[j].n] = M[J[j].n]  BY <2>2 DEF JobsFit
    <3>2. Right(J[j], M, K)  BY DEF Reads
    <3> QED  BY <3>1, <3>2, <1>1 DEF Right
  <2> QED  BY <2>1, <2>2
<1>2. CASE I[j].pc \in {"idle", "write", "written"}  BY <1>2 DEF Right
<1> QED  BY <1>1, <1>2

\* What was saved stays whole.
LEMMA ResultsKeep ==
  ASSUME NEW M, NEW K, NEW R, ResultsFit(M, K, R), NEW N, \A n \in Inc : M[n] # Unmade => N[n] = M[n],
         NEW L, K \subseteq L
  PROVE  ResultsFit(N, L, R)
<1> SUFFICES ASSUME NEW n \in Inc
             PROVE  /\ N[n] = Unmade => R[n] = NoFiles
                    /\ R[n] # NoFiles /\ (N[n].sha \/ n \notin L) => R[n] = Whole(n)
  BY DEF ResultsFit
<1>1. /\ M[n] = Unmade => R[n] = NoFiles
      /\ R[n] # NoFiles /\ (M[n].sha \/ n \notin K) => R[n] = Whole(n)
  BY DEF ResultsFit
<1>2. CASE M[n] = Unmade  BY <1>1, <1>2
<1>3. CASE M[n] # Unmade  BY <1>1, <1>3
<1> QED  BY <1>2, <1>3

\* A request starts with the object that has the id.
Begins(I, J, S, M, L, t, j) ==
  /\ S[t] # 0 /\ I[j].n = S[t] /\ (I[j].pc \in {"write", "written", "read"} => I[j].c \in Chunk)
  /\ \A k \in Job : k # j => I[k] = J[k]
  /\ \A k \in Job : J[k].pc # "idle" /\ M[J[k].n].id = t => J[k].n \in L /\ S[t] \in L

\* It goes with its own object, and crowds whoever is there.
LEMMA JobStarts ==
  ASSUME NEW J, NEW S, NEW M, NEW K, Maps(S, M), JobsFit(J, M), AloneThere(J, S, M, K), NEW L, K \subseteq L,
         NEW j \in Job, NEW t \in StreamId, NEW I, Begins(I, J, S, M, L, t, j)
  PROVE  JobsFit(I, M) /\ AloneThere(I, S, M, L)
<1>0. S[t] # 0 /\ \A k \in Job : J[k].pc # "idle" /\ M[J[k].n].id = t => J[k].n \in L /\ S[t] \in L  BY DEF Begins
<1>1. /\ I[j].n = S[t] /\ (I[j].pc \in {"write", "written", "read"} => I[j].c \in Chunk)
      /\ \A k \in Job : k # j => I[k] = J[k]
  BY DEF Begins
<1>2. S[t] \in Inc /\ M[S[t]].id = t /\ M[S[t]] # Unmade
  <2>1. S[t] \in Inc /\ M[S[t]].id = t  BY <1>0, InMap
  <2>2. M[S[t]] # Unmade  BY <1>0 DEF Maps
  <2> QED  BY <2>1, <2>2
<1>3. JobsFit(I, M)
  <2> SUFFICES ASSUME NEW k \in Job, I[k].pc # "idle"
               PROVE  I[k].n \in Inc /\ M[I[k].n] # Unmade /\ (I[k].pc \in {"write", "written", "read"} => I[k].c \in Chunk)
    BY DEF JobsFit
  <2>1. CASE k = j  BY <2>1, <1>1, <1>2
  <2>2. CASE k # j  BY <2>2, <1>1 DEF JobsFit
  <2> QED  BY <2>1, <2>2
<1>4. ASSUME NEW k \in Job, I[k].pc # "idle", S[M[I[k].n].id] # 0, S[M[I[k].n].id] # I[k].n
      PROVE  S[M[I[k].n].id] \in L /\ I[k].n \in L
  <2>1. k # j  BY <1>1, <1>2, <1>4
  <2>2. S[M[J[k].n].id] \in K /\ J[k].n \in K  BY <2>1, <1>1, <1>4 DEF AloneThere
  <2> QED  BY <2>1, <2>2, <1>1
<1>5. ASSUME NEW k \in Job, NEW l \in Job, k # l, I[k].pc # "idle", I[l].pc # "idle", M[I[k].n].id = M[I[l].n].id
      PROVE  I[k].n \in L
  <2>1. CASE k = j
    <3>1. I[l] = J[l] /\ J[l].pc # "idle" /\ M[J[l].n].id = t /\ I[k].n = S[t]  BY <2>1, <1>1, <1>2, <1>5
    <3> QED  BY <3>1, <1>0
  <2>2. CASE l = j
    <3>1. I[k] = J[k] /\ J[k].pc # "idle" /\ M[J[k].n].id = t  BY <2>2, <1>1, <1>2, <1>5
    <3> QED  BY <3>1, <1>0
  <2>3. CASE k # j /\ l # j
    <3>1. I[k] = J[k] /\ I[l] = J[l]  BY <2>3, <1>1
    <3>2. J[k].n \in K  BY <3>1, <1>5 DEF AloneThere
    <3> QED  BY <3>1, <3>2
  <2> QED  BY <2>1, <2>2, <2>3
<1>6. AloneThere(I, S, M, L)  BY <1>4, <1>5 DEF AloneThere
<1> QED  BY <1>3, <1>6

\* What Crowd adds.
LEMMA CrowdIs ==
  ASSUME UploadTyped, JobsFit(jobs, made), NEW s \in StreamId, NEW n \in Inc
  PROVE  /\ crowded \subseteq Crowd(s, n) /\ Crowd(s, n) \subseteq Inc
         /\ \A k \in Job : jobs[k].pc # "idle" /\ made[jobs[k].n].id = s => jobs[k].n \in Crowd(s, n) /\ n \in Crowd(s, n)
<1>1. crowded \subseteq Inc /\ Working(s) \subseteq Inc  BY DEF UploadTyped, Working
<1>2. crowded \subseteq Crowd(s, n) /\ Crowd(s, n) \subseteq Inc  BY <1>1 DEF Crowd
<1>3. ASSUME NEW k \in Job, jobs[k].pc # "idle", made[jobs[k].n].id = s PROVE jobs[k].n \in Crowd(s, n) /\ n \in Crowd(s, n)
  <2>1. jobs[k].n \in Inc  BY <1>3 DEF JobsFit
  <2>2. jobs[k].n \in Working(s)  BY <2>1, <1>3 DEF Working
  <2> QED  BY <2>2 DEF Crowd
<1> QED  BY <1>2, <1>3

\* The parts of the invariant.
LEMMA UpInvIs ==
  ASSUME UpInv
  PROVE  /\ UploadTyped /\ Store(streams, made, timers, memoryUsage, stored, dirs)
         /\ Maps(streams, made) /\ Timed(streams, made, timers) /\ Account(streams, made, memoryUsage)
         /\ Holding(streams, made, stored) /\ Dirs(streams, made, dirs)
         /\ JobsFit(jobs, made) /\ AloneThere(jobs, streams, made, crowded) /\ Files(jobs, streams, crowded, dirs)
         /\ Reads(jobs, made, crowded) /\ ResultsFit(made, crowded, result)
BY DEF UpInv, Store, Work

\* Requests stay or end without having written; ids are freed, and their
\* directories with them.
LEMMA WorkKeeps ==
  ASSUME UpInv, NEW I, \A j \in Job : I[j] = jobs[j] \/ (I[j].pc = "idle" /\ jobs[j].pc # "written"),
         NEW L, crowded \subseteq L,
         NEW R, NEW E, \A t \in StreamId : (R[t] = 0 /\ E[t] = NoDir) \/ (R[t] = streams[t] /\ E[t] = dirs[t])
  PROVE  /\ JobsFit(I, made) /\ AloneThere(I, R, made, L) /\ Files(I, R, L, E)
         /\ Reads(I, made, L) /\ ResultsFit(made, L, result)
<1>1. JobsFit(I, made)
  <2>1. JobsFit(jobs, made)  BY UpInvIs
  <2>2. \A j \in Job : I[j].pc # "idle" => jobs[j].pc # "idle" /\ I[j].n = jobs[j].n  OBVIOUS
  <2>3. \A j \in Job : I[j].pc \in {"write", "written", "read"} => I[j].c \in Chunk
    <3> SUFFICES ASSUME NEW j \in Job, I[j].pc \in {"write", "written", "read"} PROVE I[j].c \in Chunk
      OBVIOUS
    <3>1. I[j] = jobs[j] /\ jobs[j].pc # "idle"  OBVIOUS
    <3> QED  BY <3>1, <2>1 DEF JobsFit
  <2> QED  BY <2>1, <2>2, <2>3, FitKeeps
<1>2. AloneThere(I, R, made, L)
  <2>1. JobsFit(jobs, made) /\ Maps(streams, made) /\ AloneThere(jobs, streams, made, crowded)  BY UpInvIs
  <2>2. \A j \in Job : I[j].pc # "idle" => jobs[j].pc # "idle" /\ I[j].n = jobs[j].n  OBVIOUS
  <2>3. \A t \in StreamId : R[t] = 0 \/ R[t] = streams[t]  OBVIOUS
  <2> QED  BY <2>1, <2>2, <2>3, AloneKeeps
<1>3. Files(I, R, L, E)
  <2>1. Files(jobs, streams, crowded, dirs)  BY UpInvIs
  <2>2. \A j \in Job : jobs[j].pc = "written" => I[j] = jobs[j]  OBVIOUS
  <2>3. \A t \in StreamId : E[t] = NoDir \/ E[t] = NoFiles \/ (E[t] = dirs[t] /\ R[t] = streams[t])  OBVIOUS
  <2> QED  BY <2>1, <2>2, <2>3, FilesKeep
<1>4. Reads(I, made, L)
  <2>1. JobsFit(jobs, made) /\ Reads(jobs, made, crowded)  BY UpInvIs
  <2>2. \A j \in Job : I[j] = jobs[j] \/ I[j].pc \in {"idle", "write", "written"} \/ Right(I[j], made, L)  OBVIOUS
  <2> QED  BY <2>1, <2>2, ReadsKeep
<1>5. ResultsFit(made, L, result)
  <2>1. ResultsFit(made, crowded, result)  BY UpInvIs
  <2> QED  BY <2>1, ResultsKeep
<1> QED  BY <1>1, <1>2, <1>3, <1>4, <1>5

\* UploadFileStream: a reset.
LEMMA ResetKeeps ==
  ASSUME UpInv, NEW s \in StreamId, Reset(s)
  PROVE  UpInv'
<1>1. /\ Cleanup(s, timers) /\ streams[s] # 0 /\ crowded' = Crowd(s, streams[s])
      /\ made' = made /\ missing' = missing /\ jobs' = jobs /\ result' = result
  BY DEF Reset, Found
<1>2. /\ Store(streams', made', timers', memoryUsage', stored', dirs')
      /\ streams' = [streams EXCEPT ![s] = 0] /\ dirs' = [dirs EXCEPT ![s] = NoDir]
  BY <1>1, UpInvIs, StreamEndKeeps
<1>3. streams[s] \in Inc  BY <1>1, UpInvIs, InMap
<1>4. crowded \subseteq crowded' /\ crowded' \subseteq Inc  BY <1>1, <1>3, UpInvIs, CrowdIs
<1>5. UploadTyped'  BY <1>1, <1>4, UpInvIs DEF UploadTyped
<1>6. \A t \in StreamId : (streams'[t] = 0 /\ dirs'[t] = NoDir) \/ (streams'[t] = streams[t] /\ dirs'[t] = dirs[t])
  <2>1. streams \in [StreamId -> 0..MaxStream] /\ dirs \in [StreamId -> Dir \cup {NoDir}]  BY UpInvIs DEF Maps, Dirs
  <2> QED  BY <2>1, <1>2
<1>7. Work(jobs', streams', made', crowded', dirs', result')
  <2>1. \A j \in Job : jobs'[j] = jobs[j] \/ (jobs'[j].pc = "idle" /\ jobs[j].pc # "written")  BY <1>1
  <2>2. /\ JobsFit(jobs', made) /\ AloneThere(jobs', streams', made, crowded') /\ Files(jobs', streams', crowded', dirs')
        /\ Reads(jobs', made, crowded') /\ ResultsFit(made, crowded', result)
    BY <2>1, <1>4, <1>6, WorkKeeps
  <2> QED  BY <2>2, <1>1 DEF Work
<1> QED  BY <1>2, <1>5, <1>7 DEF UpInv

\* UploadFileStream: a timer fires.
LEMMA TimerKeeps ==
  ASSUME UpInv, NEW n \in Inc, TimerFires(n)
  PROVE  UpInv'
<1>1. /\ n \in timers /\ Cleanup(made[n].id, timers \ {n})
      /\ made' = made /\ missing' = missing /\ jobs' = jobs /\ result' = result /\ crowded' = crowded
  BY DEF TimerFires
<1>2. made[n].id \in StreamId
  <2>1. made[n] # Unmade  BY <1>1, UpInvIs DEF Timed
  <2> QED  BY <2>1, UpInvIs, MadeIs
<1>3. /\ Store(streams', made', timers', memoryUsage', stored', dirs')
      /\ streams' = [streams EXCEPT ![made[n].id] = 0] /\ dirs' = [dirs EXCEPT ![made[n].id] = NoDir]
  <2>1. timers \ {n} \subseteq timers /\ \A m \in timers : m \notin timers \ {n} => made[m].id = made[n].id  OBVIOUS
  <2> QED  BY <1>1, <1>2, <2>1, UpInvIs, StreamEndKeeps
<1>4. UploadTyped'  BY <1>1, UpInvIs DEF UploadTyped
<1>5. \A t \in StreamId : (streams'[t] = 0 /\ dirs'[t] = NoDir) \/ (streams'[t] = streams[t] /\ dirs'[t] = dirs[t])
  <2>1. streams \in [StreamId -> 0..MaxStream] /\ dirs \in [StreamId -> Dir \cup {NoDir}]  BY UpInvIs DEF Maps, Dirs
  <2> QED  BY <2>1, <1>3
<1>6. Work(jobs', streams', made', crowded', dirs', result')
  <2>1. \A j \in Job : jobs'[j] = jobs[j] \/ (jobs'[j].pc = "idle" /\ jobs[j].pc # "written")  BY <1>1
  <2>2. crowded \subseteq crowded'  BY <1>1
  <2>3. /\ JobsFit(jobs', made) /\ AloneThere(jobs', streams', made, crowded') /\ Files(jobs', streams', crowded', dirs')
        /\ Reads(jobs', made, crowded') /\ ResultsFit(made, crowded', result)
    BY <2>1, <2>2, <1>5, WorkKeeps
  <2> QED  BY <2>3, <1>1 DEF Work
<1> QED  BY <1>3, <1>4, <1>6 DEF UpInv

\* A timer is started for an object that was made.
LEMMA Retimed ==
  ASSUME NEW S, NEW M, NEW T, Timed(S, M, T), NEW n \in Inc, M[n] # Unmade
  PROVE  Timed(S, M, T \cup {n})
BY DEF Timed

\* processChunk in memory.
LEMMA MemoryChunkKeeps ==
  ASSUME UpInv, NEW s \in StreamId, NEW c \in Chunk, MemoryChunk(s, c)
  PROVE  UpInv'
<1>1. PICK n : n = streams[s]  OBVIOUS
<1>2. /\ streams[s] # 0 /\ crowded' = Crowd(s, n) /\ made[n].size > 0
      /\ stored' = [stored EXCEPT ![n] = @ \cup {c}]
      /\ missing' = [missing EXCEPT ![n] = @ \ {c}] /\ timers' = timers \cup {n}
      /\ streams' = streams /\ made' = made /\ memoryUsage' = memoryUsage /\ dirs' = dirs /\ jobs' = jobs /\ result' = result
  BY <1>1 DEF MemoryChunk, Found, InMemory, Counted, Refreshed
<1>3. n \in Inc /\ made[n].id = s /\ made[n] # Unmade
  <2>1. n \in Inc /\ made[n].id = s  BY <1>1, <1>2, UpInvIs, InMap
  <2>2. made[n] # Unmade  BY <1>1, <1>2, UpInvIs DEF Maps
  <2> QED  BY <2>1, <2>2
<1>4. crowded \subseteq crowded' /\ crowded' \subseteq Inc  BY <1>2, <1>3, UpInvIs, CrowdIs
<1>5. UploadTyped'
  <2>1. missing' \in [Inc -> SUBSET Chunk]  BY <1>2, <1>3, UpInvIs DEF UploadTyped
  <2> QED  BY <1>2, <1>4, <2>1, UpInvIs DEF UploadTyped
<1>6. Holding(streams', made', stored')
  <2>1. /\ stored \in [Inc -> SUBSET Chunk]
        /\ \A k \in Inc : stored[k] # {} => made[k] # Unmade /\ streams[made[k].id] = k /\ made[k].size > 0
    BY UpInvIs DEF Holding
  <2>2. stored' \in [Inc -> SUBSET Chunk]  BY <1>2, <1>3, <2>1
  <2>3. \A k \in Inc : k # n => stored'[k] = stored[k]  BY <1>2, <2>1
  <2>4. made[n] # Unmade /\ streams[made[n].id] = n /\ made[n].size > 0  BY <1>1, <1>2, <1>3
  <2> QED  BY <1>2, <2>1, <2>2, <2>3, <2>4 DEF Holding
<1>7. Timed(streams', made', timers')  BY <1>2, <1>3, UpInvIs, Retimed
<1>8. Store(streams', made', timers', memoryUsage', stored', dirs')
  <2>1. Maps(streams', made') /\ Account(streams', made', memoryUsage') /\ Dirs(streams', made', dirs')  BY <1>2, UpInvIs
  <2> QED  BY <2>1, <1>6, <1>7 DEF Store
<1>9. Work(jobs', streams', made', crowded', dirs', result')
  <2>1. \A j \in Job : jobs'[j] = jobs[j] \/ (jobs'[j].pc = "idle" /\ jobs[j].pc # "written")  BY <1>2
  <2>2. \A t \in StreamId : (streams'[t] = 0 /\ dirs'[t] = NoDir) \/ (streams'[t] = streams[t] /\ dirs'[t] = dirs[t])  BY <1>2
  <2>3. /\ JobsFit(jobs', made) /\ AloneThere(jobs', streams', made, crowded') /\ Files(jobs', streams', crowded', dirs')
        /\ Reads(jobs', made, crowded') /\ ResultsFit(made, crowded', result)
    BY <2>1, <2>2, <1>4, WorkKeeps
  <2> QED  BY <2>3, <1>2 DEF Work
<1> QED  BY <1>5, <1>8, <1>9 DEF UpInv

\* A request that finds the object and waits for the disk, or saves.
LEMMA StartKeeps ==
  ASSUME UpInv, NEW s \in StreamId, Found(s), NEW j \in Job, jobs[j].pc = "idle",
         NEW r \in JobRec, r.n = streams[s], r.pc \in {"write", "written", "read"} => r.c \in Chunk,
         Right(r, made, crowded'), jobs' \in [Job -> JobRec], jobs'[j] = r, \A k \in Job : k # j => jobs'[k] = jobs[k],
         UNCHANGED <<streams, made, missing, timers, memoryUsage, stored, dirs, result>>
  PROVE  UpInv'
<1>1. /\ streams[s] # 0 /\ crowded' = Crowd(s, streams[s]) /\ streams' = streams /\ made' = made /\ missing' = missing
      /\ timers' = timers /\ memoryUsage' = memoryUsage /\ stored' = stored /\ dirs' = dirs /\ result' = result
  BY DEF Found
<1>2. jobs \in [Job -> JobRec] /\ jobs[j].pc = "idle"  BY UpInvIs DEF UploadTyped
<1>3. streams[s] \in Inc  BY <1>1, UpInvIs, InMap
<1>4. /\ crowded \subseteq crowded' /\ crowded' \subseteq Inc
      /\ \A k \in Job : jobs[k].pc # "idle" /\ made[jobs[k].n].id = s => jobs[k].n \in crowded' /\ streams[s] \in crowded'
  BY <1>1, <1>3, UpInvIs, CrowdIs
<1>5. jobs' \in [Job -> JobRec] /\ jobs'[j] = r /\ \A k \in Job : k # j => jobs'[k] = jobs[k]  OBVIOUS
<1>6. UploadTyped'  BY <1>1, <1>4, <1>5, UpInvIs DEF UploadTyped
<1>7. JobsFit(jobs', made) /\ AloneThere(jobs', streams, made, crowded')
  <2>1. Maps(streams, made) /\ JobsFit(jobs, made) /\ AloneThere(jobs, streams, made, crowded)  BY UpInvIs
  <2>2. PICK I, L : I = jobs' /\ L = crowded'  OBVIOUS
  <2>3. crowded \subseteq L  BY <2>2, <1>4
  <2>6. \A k \in Job : k # j => I[k] = jobs[k]  BY <2>2
  <2>7. I[j].n = streams[s] /\ (I[j].pc \in {"write", "written", "read"} => I[j].c \in Chunk)  BY <2>2
  <2>4. \A k \in Job : jobs[k].pc # "idle" /\ made[jobs[k].n].id = s => jobs[k].n \in L /\ streams[s] \in L  BY <2>2, <1>4
  <2>5. Begins(I, jobs, streams, made, L, s, j)  BY <2>4, <2>6, <2>7, <1>1 DEF Begins
  <2>8. JobsFit(I, made) /\ AloneThere(I, streams, made, L)  BY <2>1, <2>3, <2>5, JobStarts
  <2> QED  BY <2>2, <2>8
<1>8. Files(jobs', streams, crowded', dirs)
  <2>1. Files(jobs, streams, crowded, dirs)  BY UpInvIs
  <2>2. \A k \in Job : jobs[k].pc = "written" => jobs'[k] = jobs[k]  BY <1>2, <1>5
  <2>3. PICK I, L, R, E : I = jobs' /\ L = crowded' /\ R = streams /\ E = dirs  OBVIOUS
  <2>4. \A t \in StreamId : E[t] = NoDir \/ E[t] = NoFiles \/ (E[t] = dirs[t] /\ R[t] = streams[t])  BY <2>3
  <2>5. \A k \in Job : jobs[k].pc = "written" => I[k] = jobs[k]  BY <2>2, <2>3
  <2>7. crowded \subseteq L  BY <2>3, <1>4
  <2>6. Files(I, R, L, E)  BY SMTT(60), <2>1, <2>4, <2>5, <2>7, FilesKeep
  <2> QED  BY <2>3, <2>6
<1>9. Reads(jobs', made, crowded')
  <2>1. JobsFit(jobs, made) /\ Reads(jobs, made, crowded)  BY UpInvIs
  <2>2. \A k \in Job : jobs'[k] = jobs[k] \/ jobs'[k].pc \in {"idle", "write", "written"} \/ Right(jobs'[k], made, crowded')
    BY <1>5
  <2> QED  BY <1>4, <2>1, <2>2, ReadsKeep
<1>10. ResultsFit(made, crowded', result)
  <2>1. ResultsFit(made, crowded, result)  BY UpInvIs
  <2> QED  BY <1>4, <2>1, ResultsKeep
<1>11. Store(streams', made', timers', memoryUsage', stored', dirs')  BY <1>1, UpInvIs
<1>12. Work(jobs', streams', made', crowded', dirs', result')  BY <1>1, <1>7, <1>8, <1>9, <1>10 DEF Work
<1> QED  BY <1>6, <1>11, <1>12 DEF UpInv

\* processChunk on disk.
LEMMA DiskChunkKeeps ==
  ASSUME UpInv, NEW s \in StreamId, NEW c \in Chunk, NEW j \in Job, DiskChunk(s, c, j)
  PROVE  UpInv'
<1>1. Found(s) /\ jobs[j].pc = "idle" /\ streams[s] # 0  BY DEF DiskChunk, Found, IdleJob
<1>2. PICK r : r = [pc |-> "write", n |-> streams[s], c |-> c, got |-> NoFiles]  OBVIOUS
<1>3. jobs' = [jobs EXCEPT ![j] = r]  BY <1>2 DEF DiskChunk
<1>4. r \in JobRec
  <2>1. streams[s] \in 0..MaxStream /\ c \in 0..Chunks /\ NoFiles \in Dir
    BY UpInvIs, DirIs, UploadAssumption DEF Maps, Chunk
  <2> QED  BY <2>1, <1>2 DEF JobRec
<1>5. Right(r, made, crowded')  BY <1>2 DEF Right
<1>6. UNCHANGED <<streams, made, missing, timers, memoryUsage, stored, dirs, result>>  BY DEF DiskChunk
<1>7. r.n = streams[s] /\ (r.pc \in {"write", "written", "read"} => r.c \in Chunk)  BY <1>2
<1>8. jobs' \in [Job -> JobRec] /\ jobs'[j] = r /\ \A k \in Job : k # j => jobs'[k] = jobs[k]
  BY <1>3, <1>4, UpInvIs DEF UploadTyped
<1> QED  BY <1>1, <1>4, <1>5, <1>6, <1>7, <1>8, StartKeeps

\* completeStream from memory.
LEMMA CompleteMemoryKeeps ==
  ASSUME UpInv, NEW s \in StreamId, NEW j \in Job, CompleteMemory(s, j)
  PROVE  UpInv'
<1>1. Found(s) /\ jobs[j].pc = "idle" /\ streams[s] # 0 /\ stored[streams[s]] = Chunk
  BY DEF CompleteMemory, Found, AllStored, IdleJob
<1>2. PICK r : r = [pc |-> "save", n |-> streams[s], c |-> 0, got |-> Whole(streams[s])]  OBVIOUS
<1>3. jobs' = [jobs EXCEPT ![j] = r]
  <2>1. jobs' = [jobs EXCEPT ![j] = [pc |-> "save", n |-> streams[s], c |-> 0,
                   got |-> [c \in Chunk |-> IF c \in stored[streams[s]] THEN [by |-> streams[s], whole |-> TRUE] ELSE NoFile]]]
    BY DEF CompleteMemory
  <2>2. [c \in Chunk |-> IF c \in stored[streams[s]] THEN [by |-> streams[s], whole |-> TRUE] ELSE NoFile] = Whole(streams[s])
    BY <1>1 DEF Whole
  <2> QED  BY <2>1, <2>2, <1>2
<1>4. r \in JobRec
  <2>1. streams[s] \in 0..MaxStream /\ 0 \in 0..Chunks  BY UpInvIs, UploadAssumption DEF Maps
  <2>2. streams[s] \in Inc  BY <1>1, UpInvIs, InMap
  <2>3. Whole(streams[s]) \in Dir  BY <2>2 DEF Whole, Dir, File
  <2> QED  BY <2>1, <2>3, <1>2 DEF JobRec
<1>5. Right(r, made, crowded')  BY <1>2 DEF Right
<1>6. UNCHANGED <<streams, made, missing, timers, memoryUsage, stored, dirs, result>>  BY DEF CompleteMemory
<1>7. r.n = streams[s] /\ (r.pc \in {"write", "written", "read"} => r.c \in Chunk)  BY <1>2
<1>8. jobs' \in [Job -> JobRec] /\ jobs'[j] = r /\ \A k \in Job : k # j => jobs'[k] = jobs[k]
  BY <1>3, <1>4, UpInvIs DEF UploadTyped
<1> QED  BY <1>1, <1>4, <1>5, <1>6, <1>7, <1>8, StartKeeps

\* completeStream from disk.
LEMMA CompleteDiskKeeps ==
  ASSUME UpInv, NEW s \in StreamId, NEW j \in Job, CompleteDisk(s, j)
  PROVE  UpInv'
<1>1. Found(s) /\ jobs[j].pc = "idle" /\ streams[s] # 0  BY DEF CompleteDisk, Found, IdleJob
<1>2. PICK r : r = [pc |-> "read", n |-> streams[s], c |-> 1, got |-> NoFiles]  OBVIOUS
<1>3. jobs' = [jobs EXCEPT ![j] = r]  BY <1>2 DEF CompleteDisk
<1>4. 1 \in Chunk /\ 1 \in 0..Chunks /\ \A c \in Chunk : ~(c < 1)  BY UploadAssumption DEF Chunk
<1>5. r \in JobRec
  <2>1. streams[s] \in 0..MaxStream /\ NoFiles \in Dir  BY UpInvIs, DirIs DEF Maps
  <2> QED  BY <2>1, <1>2, <1>4 DEF JobRec
<1>6. Right(r, made, crowded')  BY <1>2, <1>4 DEF Right
<1>7. UNCHANGED <<streams, made, missing, timers, memoryUsage, stored, dirs, result>>  BY DEF CompleteDisk
<1>8. r.n = streams[s] /\ (r.pc \in {"write", "written", "read"} => r.c \in Chunk)  BY <1>2, <1>4
<1>9. jobs' \in [Job -> JobRec] /\ jobs'[j] = r /\ \A k \in Job : k # j => jobs'[k] = jobs[k]
  BY <1>3, <1>5, UpInvIs DEF UploadTyped
<1> QED  BY <1>1, <1>5, <1>6, <1>7, <1>8, <1>9, StartKeeps

\* A request goes on with its object: it reads another file, or saves.
LEMMA MoveKeeps ==
  ASSUME UpInv, NEW j \in Job, jobs[j].pc # "idle", jobs[j].pc # "written",
         NEW r \in JobRec, r.pc = "idle" \/ r.n = jobs[j].n, r.pc \in {"write", "written", "read"} => r.c \in Chunk,
         r.pc \in {"idle", "written"} \/ Right(r, made, crowded),
         NEW I \in [Job -> JobRec], I[j] = r, \A k \in Job : k # j => I[k] = jobs[k]
  PROVE  /\ I \in [Job -> JobRec] /\ JobsFit(I, made) /\ AloneThere(I, streams, made, crowded)
         /\ Files(I, streams, crowded, dirs) /\ Reads(I, made, crowded)
<1>1. jobs \in [Job -> JobRec]  BY UpInvIs DEF UploadTyped
<1>2. I \in [Job -> JobRec] /\ I[j] = r /\ \A k \in Job : k # j => I[k] = jobs[k]  BY <1>1
<1>3. \A k \in Job : I[k].pc # "idle" => jobs[k].pc # "idle" /\ I[k].n = jobs[k].n  BY <1>2
<1>4. JobsFit(I, made)
  <2>1. JobsFit(jobs, made)  BY UpInvIs
  <2>2. \A k \in Job : I[k].pc \in {"write", "written", "read"} => I[k].c \in Chunk
    <3> SUFFICES ASSUME NEW k \in Job, I[k].pc \in {"write", "written", "read"} PROVE I[k].c \in Chunk
      OBVIOUS
    <3>1. CASE k = j  BY <3>1, <1>2
    <3>2. CASE k # j
      <4>1. I[k] = jobs[k] /\ jobs[k].pc # "idle"  BY <3>2, <1>2
      <4> QED  BY <4>1, <2>1 DEF JobsFit
    <3> QED  BY <3>1, <3>2
  <2> QED  BY <2>1, <2>2, <1>3, FitKeeps
<1>5. AloneThere(I, streams, made, crowded)
  <2>1. JobsFit(jobs, made) /\ Maps(streams, made) /\ AloneThere(jobs, streams, made, crowded)  BY UpInvIs
  <2>2. PICK N, R, L : N = made /\ R = streams /\ L = crowded  OBVIOUS
  <2>3. \A t \in StreamId : R[t] = 0 \/ R[t] = streams[t]  BY <2>2
  <2>4. \A n \in Inc : made[n] # Unmade => N[n] = made[n]  BY <2>2
  <2>5. crowded \subseteq L  BY <2>2
  <2>6. AloneThere(I, R, N, L)  BY <2>1, <2>3, <2>4, <2>5, <1>3, AloneKeeps
  <2> QED  BY <2>2, <2>6
<1>6. Files(I, streams, crowded, dirs)
  <2>1. Files(jobs, streams, crowded, dirs)  BY UpInvIs
  <2>2. \A k \in Job : jobs[k].pc = "written" => I[k] = jobs[k]  BY <1>2
  <2> QED  BY <2>1, <2>2, FilesKeep
<1>7. Reads(I, made, crowded)
  <2>1. JobsFit(jobs, made) /\ Reads(jobs, made, crowded)  BY UpInvIs
  <2>2. \A k \in Job : I[k] = jobs[k] \/ I[k].pc \in {"idle", "write", "written"} \/ Right(I[k], made, crowded)
    BY <1>2
  <2> QED  BY <2>1, <2>2, ReadsKeep
<1> QED  BY <1>2, <1>4, <1>5, <1>6, <1>7

\* A file appears in a directory.
Appears(E, D, t, c, f) == E = [D EXCEPT ![t][c] = f]

\* The directories stay in order, and the other files stay.
LEMMA FileSet ==
  ASSUME NEW S, NEW M, NEW D, Dirs(S, M, D), NEW t \in StreamId, D[t] # NoDir, NEW c \in Chunk, NEW f \in File,
         NEW E, Appears(E, D, t, c, f)
  PROVE  /\ Dirs(S, M, E) /\ E[t][c] = f /\ \A d \in Chunk : d # c => E[t][d] = D[t][d]
         /\ \A u \in StreamId : u # t => E[u] = D[u]
<1>1. D \in [StreamId -> Dir \cup {NoDir}]  BY DEF Dirs
<1>2. PICK d \in Dir : d = D[t]  BY <1>1
<1>3. PICK e : e = [d EXCEPT ![c] = f]  OBVIOUS
<1>4. e \in Dir /\ e[c] = f /\ \A x \in Chunk : x # c => e[x] = d[x]  BY <1>3 DEF Dir
<1>5. E = [D EXCEPT ![t] = e]  BY <1>2, <1>3 DEF Appears
<1>6. E[t] = e /\ \A u \in StreamId : u # t => E[u] = D[u]  BY <1>1, <1>5
<1>7. E \in [StreamId -> Dir \cup {NoDir}]  BY <1>1, <1>4, <1>5
<1>8. \A u \in StreamId : E[u] # NoDir <=> D[u] # NoDir
  <2>1. E[t] # NoDir  BY <1>4, <1>6, DirIs
  <2> QED  BY <2>1, <1>6
<1>9. Dirs(S, M, E)  BY <1>7, <1>8 DEF Dirs
<1> QED  BY <1>2, <1>4, <1>6, <1>9

\* The files by a request that waits and the object that has its id.
LEMMA JobIs ==
  ASSUME UpInv, NEW j \in Job, jobs[j].pc # "idle"
  PROVE  /\ jobs[j] \in JobRec /\ jobs[j].n \in Inc /\ made[jobs[j].n] # Unmade /\ made[jobs[j].n].id \in StreamId
         /\ jobs[j].pc \in {"write", "written", "read"} => jobs[j].c \in Chunk
         /\ dirs[made[jobs[j].n].id] # NoDir /\ streams[made[jobs[j].n].id] \notin crowded
              => streams[made[jobs[j].n].id] = jobs[j].n
         /\ dirs[made[jobs[j].n].id] # NoDir /\ jobs[j].n \notin crowded
              => streams[made[jobs[j].n].id] = jobs[j].n
<1>1. jobs[j] \in JobRec  BY UpInvIs DEF UploadTyped
<1>2. /\ jobs[j].n \in Inc /\ made[jobs[j].n] # Unmade
      /\ jobs[j].pc \in {"write", "written", "read"} => jobs[j].c \in Chunk
  BY UpInvIs DEF JobsFit
<1>3. made[jobs[j].n].id \in StreamId  BY <1>2, UpInvIs, MadeIs
<1>4. dirs[made[jobs[j].n].id] # NoDir => streams[made[jobs[j].n].id] # 0  BY <1>3, UpInvIs DEF Dirs, OnDisk
<1>5. streams[made[jobs[j].n].id] # 0 /\ streams[made[jobs[j].n].id] # jobs[j].n
      => streams[made[jobs[j].n].id] \in crowded /\ jobs[j].n \in crowded
  BY UpInvIs DEF AloneThere
<1> QED  BY <1>1, <1>2, <1>3, <1>4, <1>5

\* A chunk file is opened.
LEMMA OpenedKeeps ==
  ASSUME UpInv, NEW j \in Job, Opened(j)
  PROVE  UpInv'
<1>1. PICK n, c, s : n = jobs[j].n /\ c = jobs[j].c /\ s = made[n].id  OBVIOUS
<1>2. /\ jobs[j].pc = "write"
      /\ streams' = streams /\ made' = made /\ missing' = missing /\ timers' = timers /\ memoryUsage' = memoryUsage
      /\ stored' = stored /\ result' = result /\ crowded' = crowded
  BY DEF Opened
<1>3. /\ jobs[j] \in JobRec /\ n \in Inc /\ s \in StreamId /\ c \in Chunk
      /\ dirs[s] # NoDir /\ streams[s] \notin crowded => streams[s] = n
  BY <1>1, <1>2, JobIs
<1>4. jobs \in [Job -> JobRec]  BY UpInvIs DEF UploadTyped
<1>5. CASE dirs[s] = NoDir
  <2>1. jobs' = [jobs EXCEPT ![j] = IdleJob] /\ dirs' = dirs  BY <1>1, <1>5 DEF Opened
  <2>2. PICK I : I = jobs'  OBVIOUS
  <2>3. \A k \in Job : I[k] = jobs[k] \/ (I[k].pc = "idle" /\ jobs[k].pc # "written")
    BY <2>1, <2>2, <1>2, <1>4 DEF IdleJob
  <2>4. PICK L, R, E : L = crowded /\ R = streams /\ E = dirs  OBVIOUS
  <2>5. (\A t \in StreamId : (R[t] = 0 /\ E[t] = NoDir) \/ (R[t] = streams[t] /\ E[t] = dirs[t])) /\ crowded \subseteq L
    BY <2>4
  <2>6. /\ JobsFit(I, made) /\ AloneThere(I, R, made, L) /\ Files(I, R, L, E)
        /\ Reads(I, made, L) /\ ResultsFit(made, L, result)
    BY <2>3, <2>5, WorkKeeps
  <2>7. Work(jobs', streams', made', crowded', dirs', result')  BY <2>1, <2>2, <2>4, <2>6, <1>2 DEF Work
  <2>8. jobs' \in [Job -> JobRec]
    <3>1. IdleJob \in JobRec
      <4>1. 0 \in 0..MaxStream /\ 0 \in 0..Chunks /\ NoFiles \in Dir  BY UploadAssumption, DirIs
      <4> QED  BY <4>1 DEF IdleJob, JobRec
    <3> QED  BY <3>1, <2>1, <1>4
  <2>9. UploadTyped'  BY <2>8, <1>2, UpInvIs DEF UploadTyped
  <2>10. Store(streams', made', timers', memoryUsage', stored', dirs')  BY <2>1, <1>2, UpInvIs
  <2> QED  BY <2>7, <2>9, <2>10 DEF UpInv
<1>6. CASE dirs[s] # NoDir
  <2>1. PICK f : f = [by |-> n, whole |-> FALSE]  OBVIOUS
  <2>2. jobs' = [jobs EXCEPT ![j].pc = "written"] /\ dirs' = [dirs EXCEPT ![s][c] = f]  BY <1>1, <1>6, <2>1 DEF Opened
  <2>3. PICK r \in JobRec : r = [jobs[j] EXCEPT !.pc = "written"]
    <3>1. PICK q \in JobRec : q = jobs[j]  BY <1>3
    <3>2. [q EXCEPT !.pc = "written"] \in JobRec  BY DEF JobRec
    <3> QED  BY <3>1, <3>2
  <2>4. r.pc = "written" /\ r.n = n /\ r.c = c
    <3>1. PICK q \in JobRec : q = jobs[j]  BY <1>3
    <3> QED  BY <3>1, <2>3, <1>1 DEF JobRec
  <2>5. jobs' \in [Job -> JobRec] /\ jobs'[j] = r /\ \A k \in Job : k # j => jobs'[k] = jobs[k]  BY <2>2, <2>3, <1>4
  <2>6. PICK I \in [Job -> JobRec] : I = jobs'  BY <2>5
  <2>7. /\ JobsFit(I, made) /\ AloneThere(I, streams, made, crowded)
        /\ Files(I, streams, crowded, dirs) /\ Reads(I, made, crowded)
    <3>1. I[j] = r /\ \A k \in Job : k # j => I[k] = jobs[k]  BY <2>5, <2>6
    <3>2. r.pc = "idle" \/ r.n = jobs[j].n  BY <2>4, <1>1
    <3>3. r.pc \in {"write", "written", "read"} => r.c \in Chunk  BY <2>4, <1>3
    <3>4. r.pc \in {"idle", "written"} \/ Right(r, made, crowded)  BY <2>4
    <3>5. jobs[j].pc # "idle" /\ jobs[j].pc # "written"  BY <1>2
    <3> QED  BY <3>1, <3>2, <3>3, <3>4, <3>5, MoveKeeps
  <2>8. PICK E : E = dirs'  OBVIOUS
  <2>9. f \in File /\ f.by = n  BY <2>1, <1>3 DEF File
  <2>10. /\ Dirs(streams, made, E) /\ E[s][c] = f /\ \A d \in Chunk : d # c => E[s][d] = dirs[s][d]
         /\ \A u \in StreamId : u # s => E[u] = dirs[u]
    <3>1. Dirs(streams, made, dirs)  BY UpInvIs
    <3>2. Appears(E, dirs, s, c, f)  BY <2>2, <2>8 DEF Appears
    <3> QED  BY <3>1, <3>2, <2>9, <1>3, <1>6, FileSet
  <2>11. Files(I, streams, crowded, E)
    <3> SUFFICES ASSUME NEW t \in StreamId, E[t] # NoDir, streams[t] \notin crowded, NEW d \in Chunk
                 PROVE  OwnFile(I, streams[t], d, E[t][d])
      BY DEF Files
    <3>1. CASE t = s /\ d = c
      <4>1. streams[t] = n /\ E[t][d] = f  BY <3>1, <2>10, <1>3, <1>6
      <4>2. I[j].pc = "written" /\ I[j].n = n /\ I[j].c = c  BY <2>4, <2>5, <2>6
      <4> QED  BY <3>1, <4>1, <4>2, <2>9 DEF OwnFile
    <3>2. CASE ~(t = s /\ d = c)
      <4>1. E[t][d] = dirs[t][d] /\ dirs[t] # NoDir  BY <3>2, <2>10, <1>6
      <4> QED  BY <4>1, <2>7 DEF Files
    <3> QED  BY <3>1, <3>2
  <2>12. UploadTyped'  BY <2>5, <1>2, UpInvIs DEF UploadTyped
  <2>13. Store(streams', made', timers', memoryUsage', stored', dirs')  BY <2>8, <2>10, <1>2, UpInvIs DEF Store
  <2>14. Work(jobs', streams', made', crowded', dirs', result')  BY SMTT(60), <2>6, <2>7, <2>8, <2>11, <1>2, UpInvIs DEF Work
  <2> QED  BY <2>12, <2>13, <2>14 DEF UpInv
<1> QED  BY <1>5, <1>6

\* A chunk file is written to the end.
LEMMA WrittenKeeps ==
  ASSUME UpInv, NEW j \in Job, Written(j)
  PROVE  UpInv'
<1>1. PICK n, c, s : n = jobs[j].n /\ c = jobs[j].c /\ s = made[n].id  OBVIOUS
<1>2. /\ jobs[j].pc = "written"
      /\ dirs' = IF dirs[s] # NoDir /\ dirs[s][c].by = n THEN [dirs EXCEPT ![s][c] = [by |-> n, whole |-> TRUE]] ELSE dirs
      /\ missing' = [missing EXCEPT ![n] = @ \ {c}] /\ timers' = timers \cup {n} /\ jobs' = [jobs EXCEPT ![j] = IdleJob]
      /\ streams' = streams /\ made' = made /\ memoryUsage' = memoryUsage
      /\ stored' = stored /\ result' = result /\ crowded' = crowded
  BY SMTT(60), <1>1 DEF Written, Counted, Refreshed
<1>3. /\ n \in Inc /\ made[n] # Unmade /\ s \in StreamId /\ c \in Chunk
      /\ dirs[s] # NoDir /\ streams[s] \notin crowded => streams[s] = n
  BY <1>1, <1>2, JobIs
<1>4. jobs \in [Job -> JobRec]  BY UpInvIs DEF UploadTyped
<1>5. jobs' \in [Job -> JobRec] /\ jobs'[j] = IdleJob /\ \A k \in Job : k # j => jobs'[k] = jobs[k]
  <2>1. IdleJob \in JobRec
    <3>1. 0 \in 0..MaxStream /\ 0 \in 0..Chunks /\ NoFiles \in Dir  BY UploadAssumption, DirIs
    <3> QED  BY <3>1 DEF IdleJob, JobRec
  <2> QED  BY <2>1, <1>2, <1>4
<1>6. PICK I, E, T : I = jobs' /\ E = dirs' /\ T = timers'  OBVIOUS
<1>7. I[j].pc = "idle" /\ \A k \in Job : k # j => I[k] = jobs[k]  BY <1>5, <1>6 DEF IdleJob
<1>8. /\ Dirs(streams, made, E) /\ \A u \in StreamId, d \in Chunk : E[u] # NoDir => dirs[u] # NoDir
      /\ \A u \in StreamId, d \in Chunk : E[u] # NoDir =>
           \/ E[u][d] = dirs[u][d] /\ ~(u = s /\ d = c /\ dirs[u][d].by = n)
           \/ u = s /\ d = c /\ E[u][d] = [by |-> n, whole |-> TRUE]
  <2>1. CASE dirs[s] # NoDir /\ dirs[s][c].by = n
    <3>1. PICK f : f = [by |-> n, whole |-> TRUE]  OBVIOUS
    <3>2. f \in File  BY <3>1, <1>3 DEF File
    <3>3. Dirs(streams, made, dirs)  BY UpInvIs
    <3>5. Appears(E, dirs, s, c, f)  BY <2>1, <3>1, <1>2, <1>6 DEF Appears
    <3>4. /\ Dirs(streams, made, E) /\ E[s][c] = f /\ \A d \in Chunk : d # c => E[s][d] = dirs[s][d]
          /\ \A u \in StreamId : u # s => E[u] = dirs[u]
      BY <3>2, <3>3, <3>5, <2>1, <1>3, FileSet
    <3> QED  BY <3>1, <3>4, <2>1
  <2>2. CASE ~(dirs[s] # NoDir /\ dirs[s][c].by = n)
    <3>1. E = dirs /\ Dirs(streams, made, dirs)  BY <2>2, <1>2, <1>6, UpInvIs
    <3> QED  BY <3>1, <2>2
  <2> QED  BY <2>1, <2>2
<1>9. JobsFit(I, made)
  <2>1. JobsFit(jobs, made)  BY UpInvIs
  <2>2. \A k \in Job : I[k].pc # "idle" => k # j  BY <1>7
  <2> QED  BY <2>1, <2>2, <1>7 DEF JobsFit
<1>10. AloneThere(I, streams, made, crowded)
  <2>1. JobsFit(jobs, made) /\ Maps(streams, made) /\ AloneThere(jobs, streams, made, crowded)  BY UpInvIs
  <2>2. PICK N, R, L : N = made /\ R = streams /\ L = crowded  OBVIOUS
  <2>3. \A t \in StreamId : R[t] = 0 \/ R[t] = streams[t]  BY <2>2
  <2>4. \A m \in Inc : made[m] # Unmade => N[m] = made[m]  BY <2>2
  <2>5. crowded \subseteq L  BY <2>2
  <2>6. \A k \in Job : I[k].pc # "idle" => jobs[k].pc # "idle" /\ I[k].n = jobs[k].n  BY <1>7
  <2>7. AloneThere(I, R, N, L)  BY <2>1, <2>3, <2>4, <2>5, <2>6, AloneKeeps
  <2> QED  BY <2>2, <2>7
<1>11. Files(I, streams, crowded, E)
  <2> SUFFICES ASSUME NEW t \in StreamId, E[t] # NoDir, streams[t] \notin crowded, NEW d \in Chunk
               PROVE  OwnFile(I, streams[t], d, E[t][d])
    BY DEF Files
  <2>1. dirs[t] # NoDir  BY <1>8
  <2>2. CASE t = s /\ d = c /\ E[t][d] = [by |-> n, whole |-> TRUE]
    <3>1. streams[t] = n  BY <2>1, <2>2, <1>3
    <3> QED  BY <2>2, <3>1 DEF OwnFile
  <2>3. CASE E[t][d] = dirs[t][d] /\ ~(t = s /\ d = c /\ dirs[t][d].by = n)
    <3>1. OwnFile(jobs, streams[t], d, dirs[t][d])  BY <2>1, UpInvIs DEF Files
    <3>2. CASE dirs[t][d] = NoFile  BY <3>2, <2>3 DEF OwnFile
    <3>3. CASE dirs[t][d] # NoFile
      <4>1. dirs[t][d].by = streams[t]  BY <3>1, <3>3 DEF OwnFile
      <4>2. CASE dirs[t][d].whole  BY <4>1, <4>2, <2>3 DEF OwnFile
      <4>3. CASE ~dirs[t][d].whole
        <5>1. PICK k \in Job : jobs[k].pc = "written" /\ jobs[k].n = streams[t] /\ jobs[k].c = d
          BY <3>1, <3>3, <4>3 DEF OwnFile
        <5>2. k # j
          <6>1. ASSUME k = j PROVE FALSE
            <7>1. streams[t] = n /\ d = c  BY <5>1, <6>1, <1>1
            <7>2. streams[t] # 0  BY <7>1, <1>3, UploadAssumption DEF Inc
            <7>3. made[streams[t]].id = t  BY <7>2, UpInvIs DEF Maps
            <7>4. t = s  BY <7>1, <7>3, <1>1
            <7> QED  BY <7>1, <7>4, <4>1, <2>3
          <6> QED  BY <6>1
        <5>3. I[k] = jobs[k]  BY <5>2, <1>7
        <5> QED  BY <5>1, <5>3, <4>1, <2>3 DEF OwnFile
      <4> QED  BY <4>2, <4>3
    <3> QED  BY <3>2, <3>3
  <2> QED  BY <2>2, <2>3, <1>8
<1>12. Reads(I, made, crowded)
  <2>1. Reads(jobs, made, crowded)  BY UpInvIs
  <2>2. Right(I[j], made, crowded)  BY <1>7 DEF Right
  <2> QED  BY <2>1, <2>2, <1>7 DEF Reads
<1>13. Timed(streams, made, T)
  <2>1. Timed(streams, made, timers)  BY UpInvIs
  <2>2. Timed(streams, made, timers \cup {n})  BY <2>1, <1>3, Retimed
  <2> QED  BY <2>2, <1>2, <1>6
<1>14. UploadTyped'
  <2>1. missing' \in [Inc -> SUBSET Chunk]  BY <1>2, <1>3, UpInvIs DEF UploadTyped
  <2> QED  BY <2>1, <1>2, <1>5, UpInvIs DEF UploadTyped
<1>15. Store(streams', made', timers', memoryUsage', stored', dirs')  BY <1>2, <1>6, <1>8, <1>13, UpInvIs DEF Store
<1>16. Work(jobs', streams', made', crowded', dirs', result')  BY <1>2, <1>6, <1>9, <1>10, <1>11, <1>12, UpInvIs DEF Work
<1> QED  BY <1>14, <1>15, <1>16 DEF UpInv

\* A file that the request of an object that is not crowded finds is its own and whole.
LEMMA FileIsOwn ==
  ASSUME UpInv, NEW j \in Job, jobs[j].pc = "read", jobs[j].n \notin crowded,
         dirs[made[jobs[j].n].id] # NoDir, NEW c \in Chunk, dirs[made[jobs[j].n].id][c] # NoFile
  PROVE  dirs[made[jobs[j].n].id][c] = [by |-> jobs[j].n, whole |-> TRUE]
<1>1. PICK n, s : n = jobs[j].n /\ s = made[n].id  OBVIOUS
<1>2. n \in Inc /\ s \in StreamId /\ streams[s] = n  BY <1>1, JobIs
<1>3. OwnFile(jobs, n, c, dirs[s][c])  BY <1>1, <1>2, UpInvIs DEF Files
<1>4. ASSUME NEW k \in Job, jobs[k].pc = "written", jobs[k].n = n PROVE FALSE
  <2>1. k # j /\ jobs[k].pc # "idle" /\ jobs[j].pc # "idle"  BY <1>4
  <2> QED  BY <2>1, <1>1, <1>4, UpInvIs DEF AloneThere
<1>5. dirs[s][c].by = n /\ dirs[s][c].whole  BY <1>1, <1>3, <1>4 DEF OwnFile
<1>6. dirs[s][c] \in File
  <2>1. dirs[s] \in Dir  BY <1>1, <1>2, UpInvIs DEF Dirs
  <2> QED  BY <2>1, <1>1 DEF Dir
<1>7. dirs[s][c] = [by |-> n, whole |-> TRUE]
  <2>1. PICK f \in File : f = dirs[s][c]  BY <1>6
  <2>2. f.by = n /\ f.whole = TRUE
    <3>1. f.whole \in BOOLEAN  BY DEF File
    <3> QED  BY <3>1, <2>1, <1>5
  <2>3. f = [by |-> f.by, whole |-> f.whole]  BY DEF File
  <2> QED  BY <2>1, <2>2, <2>3
<1> QED  BY <1>1, <1>7

\* A chunk file is read.
LEMMA ReadKeeps ==
  ASSUME UpInv, NEW j \in Job, ReadEnds(j)
  PROVE  UpInv'
<1>1. PICK n, c, s, q : n = jobs[j].n /\ c = jobs[j].c /\ s = made[n].id /\ q = jobs[j]  OBVIOUS
<1>2. PICK file : file = IF dirs[s] = NoDir THEN NoFile ELSE dirs[s][c]  BY SMTT(60)
<1>3. PICK got : got = [q.got EXCEPT ![c] = file]  OBVIOUS
<1>4. PICK r : r = IF file = NoFile \/ (c < Chunks /\ dirs[s][c + 1] = NoFile) THEN IdleJob
                   ELSE IF c < Chunks THEN [q EXCEPT !.c = c + 1, !.got = got]
                   ELSE IF made[n].sha /\ got # Whole(n) THEN IdleJob
                   ELSE [q EXCEPT !.pc = "save", !.got = got]
  BY SMTT(60)
<1>5. /\ jobs[j].pc = "read" /\ jobs' = [jobs EXCEPT ![j] = r]
      /\ streams' = streams /\ made' = made /\ missing' = missing /\ timers' = timers /\ memoryUsage' = memoryUsage
      /\ stored' = stored /\ dirs' = dirs /\ result' = result /\ crowded' = crowded
  BY <1>1, <1>2, <1>3, <1>4 DEF ReadEnds
<1>6. q \in JobRec /\ n \in Inc /\ made[n] # Unmade /\ s \in StreamId /\ c \in Chunk /\ q.pc = "read" /\ q.n = n /\ q.c = c
  BY <1>1, <1>5, JobIs
<1>7. c \in Nat /\ c >= 1 /\ c <= Chunks /\ Chunks \in Nat /\ (c < Chunks => c + 1 \in Chunk /\ c + 1 \in 0..Chunks)
  BY <1>6, UploadAssumption DEF Chunk
<1>8. file \in File \cup {NoFile}
  <2>1. dirs[s] # NoDir => dirs[s] \in Dir  BY <1>6, UpInvIs DEF Dirs
  <2> QED  BY <2>1, <1>2, <1>6 DEF Dir
<1>9. got \in Dir /\ got[c] = file /\ \A d \in Chunk : d # c => got[d] = q.got[d]
  <2>1. q.got \in Dir  BY <1>6 DEF JobRec
  <2> QED  BY <2>1, <1>3, <1>6, <1>8 DEF Dir
<1>10. n \notin crowded /\ file # NoFile => \A d \in Chunk : d <= c => got[d] = [by |-> n, whole |-> TRUE]
  <2> SUFFICES ASSUME n \notin crowded, file # NoFile, NEW d \in Chunk, d <= c PROVE got[d] = [by |-> n, whole |-> TRUE]
    OBVIOUS
  <2>1. CASE d = c
    <3>1. dirs[s] # NoDir /\ dirs[s][c] # NoFile /\ file = dirs[s][c]  BY SMTT(60), <1>2
    <3>2. dirs[s][c] = [by |-> n, whole |-> TRUE]  BY <3>1, <1>1, <1>5, <1>6, FileIsOwn
    <3> QED  BY <3>1, <3>2, <2>1, <1>9
  <2>2. CASE d # c
    <3>1. Right(q, made, crowded)  BY <1>1, UpInvIs DEF Reads
    <3>2. d < c
      <4>1. d \in Nat  BY DEF Chunk
      <4> QED  BY <4>1, <2>2, <1>7
    <3>3. q.got[d] = [by |-> n, whole |-> TRUE]  BY <3>1, <3>2, <1>6 DEF Right
    <3> QED  BY <3>3, <2>2, <1>9
  <2> QED  BY <2>1, <2>2
<1>11. /\ r \in JobRec /\ (r.pc = "idle" \/ r.n = n) /\ (r.pc \in {"write", "written", "read"} => r.c \in Chunk)
       /\ (r.pc \in {"idle", "written"} \/ Right(r, made, crowded))
  <2>1. CASE r = IdleJob
    <3>1. 0 \in 0..MaxStream /\ 0 \in 0..Chunks /\ NoFiles \in Dir  BY UploadAssumption, DirIs
    <3>2. IdleJob \in JobRec  BY <3>1 DEF IdleJob, JobRec
    <3>3. IdleJob.pc = "idle"  BY DEF IdleJob
    <3> QED  BY <2>1, <3>2, <3>3
  <2>2. CASE file # NoFile /\ c < Chunks /\ r = [q EXCEPT !.c = c + 1, !.got = got]
    <3>1. PICK a \in JobRec : a = [q EXCEPT !.c = c + 1]
      <4>1. [q EXCEPT !.c = c + 1] \in JobRec  BY <1>6, <1>7, <2>2 DEF JobRec
      <4> QED  BY <4>1
    <3>2. a.pc = "read" /\ a.n = n /\ a.c = c + 1  BY <3>1, <1>6 DEF JobRec
    <3>3. r = [a EXCEPT !.got = got]  BY <3>1, <2>2
    <3>4. r \in JobRec  BY <3>3, <1>9 DEF JobRec
    <3>5. r.pc = "read" /\ r.n = n /\ r.c = c + 1 /\ r.got = got  BY <3>2, <3>3, <1>9 DEF JobRec
    <3>6. Right(r, made, crowded)
      <4>1. \A d \in Chunk : d < c + 1 => d <= c  BY <1>7 DEF Chunk
      <4>2. r.n \notin crowded => \A d \in Chunk : d < r.c => r.got[d] = [by |-> r.n, whole |-> TRUE]
        BY <4>1, <3>5, <2>2, <1>10
      <4>3. r.pc # "save"  BY <3>5
      <4> QED  BY <4>2, <4>3 DEF Right
    <3>7. r.c \in Chunk  BY <3>5, <2>2, <1>7
    <3> QED  BY <3>4, <3>5, <3>6, <3>7
  <2>3. CASE /\ file # NoFile /\ ~(c < Chunks) /\ (made[n].sha => got = Whole(n))
             /\ r = [q EXCEPT !.pc = "save", !.got = got]
    <3>1. PICK a \in JobRec : a = [q EXCEPT !.pc = "save"]
      <4>1. [q EXCEPT !.pc = "save"] \in JobRec  BY <1>6 DEF JobRec
      <4> QED  BY <4>1
    <3>2. a.pc = "save" /\ a.n = n  BY <3>1, <1>6 DEF JobRec
    <3>3. r = [a EXCEPT !.got = got]  BY <3>1, <2>3
    <3>4. r \in JobRec  BY <3>3, <1>9 DEF JobRec
    <3>5. r.pc = "save" /\ r.n = n /\ r.got = got  BY <3>2, <3>3, <1>9 DEF JobRec
    <3>6. n \notin crowded => got = Whole(n)
      <4> SUFFICES ASSUME n \notin crowded PROVE got = Whole(n)
        OBVIOUS
      <4>1. \A d \in Chunk : d <= c
        <5>1. c = Chunks  BY <2>3, <1>7
        <5> QED  BY <5>1 DEF Chunk
      <4>2. \A d \in Chunk : got[d] = [by |-> n, whole |-> TRUE]  BY <4>1, <2>3, <1>10
      <4>3. PICK z : z = [by |-> n, whole |-> TRUE]  OBVIOUS
      <4>4. got = [d \in Chunk |-> z]  BY <4>2, <4>3, <1>9 DEF Dir
      <4> QED  BY <4>3, <4>4 DEF Whole
    <3>7. Right(r, made, crowded)
      <4>1. r.pc # "read"  BY <3>5
      <4>2. (made[r.n].sha \/ r.n \notin crowded) => r.got = Whole(r.n)  BY <3>5, <3>6, <2>3
      <4> QED  BY <4>1, <4>2 DEF Right
    <3> QED  BY <3>4, <3>5, <3>7
  <2> QED  BY <2>1, <2>2, <2>3, <1>4
<1>12. jobs \in [Job -> JobRec]  BY UpInvIs DEF UploadTyped
<1>13. PICK I \in [Job -> JobRec] : I = jobs'  BY <1>5, <1>11, <1>12
<1>14. /\ JobsFit(I, made) /\ AloneThere(I, streams, made, crowded)
       /\ Files(I, streams, crowded, dirs) /\ Reads(I, made, crowded)
  <2>1. I[j] = r /\ \A k \in Job : k # j => I[k] = jobs[k]  BY <1>5, <1>12, <1>13
  <2>2. r \in JobRec  BY <1>11
  <2>3. r.pc = "idle" \/ r.n = jobs[j].n  BY <1>1, <1>11
  <2>4. r.pc \in {"write", "written", "read"} => r.c \in Chunk  BY <1>11
  <2>5. r.pc \in {"idle", "written"} \/ Right(r, made, crowded)  BY <1>11
  <2>6. jobs[j].pc # "idle" /\ jobs[j].pc # "written"  BY <1>5
  <2> QED  BY <2>1, <2>2, <2>3, <2>4, <2>5, <2>6, MoveKeeps
<1>15. UploadTyped'
  <2>1. jobs' \in [Job -> JobRec]  BY <1>13
  <2> QED  BY <2>1, <1>5, UpInvIs DEF UploadTyped
<1>16. Store(streams', made', timers', memoryUsage', stored', dirs')  BY <1>5, UpInvIs
<1>17. Work(jobs', streams', made', crowded', dirs', result')  BY <1>5, <1>13, <1>14, UpInvIs DEF Work
<1> QED  BY <1>15, <1>16, <1>17 DEF UpInv

\* A completed file is saved.
LEMMA SavedKeeps ==
  ASSUME UpInv, NEW j \in Job, Saved(j)
  PROVE  UpInv'
<1>1. PICK n, s, q : n = jobs[j].n /\ s = made[n].id /\ q = jobs[j]  OBVIOUS
<1>2. /\ q.pc = "save" /\ result' = [result EXCEPT ![n] = q.got] /\ Cleanup(s, timers)
      /\ jobs' = [jobs EXCEPT ![j] = IdleJob] /\ made' = made /\ missing' = missing /\ crowded' = crowded
  BY <1>1 DEF Saved
<1>3. q \in JobRec /\ q.n = n /\ n \in Inc /\ made[n] # Unmade /\ s \in StreamId  BY <1>1, <1>2, JobIs
<1>4. /\ Store(streams', made', timers', memoryUsage', stored', dirs')
      /\ streams' = [streams EXCEPT ![s] = 0] /\ dirs' = [dirs EXCEPT ![s] = NoDir]
  <2>1. timers \subseteq timers /\ \A m \in timers : m \notin timers => made[m].id = s  OBVIOUS
  <2> QED  BY <1>2, <1>3, <2>1, UpInvIs, StreamEndKeeps
<1>5. \A t \in StreamId : (streams'[t] = 0 /\ dirs'[t] = NoDir) \/ (streams'[t] = streams[t] /\ dirs'[t] = dirs[t])
  <2>1. streams \in [StreamId -> 0..MaxStream] /\ dirs \in [StreamId -> Dir \cup {NoDir}]  BY UpInvIs DEF Maps, Dirs
  <2> QED  BY <2>1, <1>4
<1>6. jobs \in [Job -> JobRec] /\ result \in [Inc -> Dir]  BY UpInvIs DEF UploadTyped
<1>7. jobs' \in [Job -> JobRec] /\ jobs'[j] = IdleJob /\ \A k \in Job : k # j => jobs'[k] = jobs[k]
  <2>1. IdleJob \in JobRec
    <3>1. 0 \in 0..MaxStream /\ 0 \in 0..Chunks /\ NoFiles \in Dir  BY UploadAssumption, DirIs
    <3> QED  BY <3>1 DEF IdleJob, JobRec
  <2> QED  BY <2>1, <1>2, <1>6
<1>8. q.got \in Dir  BY <1>3 DEF JobRec
<1>9. result' \in [Inc -> Dir] /\ result'[n] = q.got /\ \A m \in Inc : m # n => result'[m] = result[m]
  BY <1>2, <1>3, <1>6, <1>8
<1>10. UploadTyped'  BY <1>2, <1>7, <1>9, UpInvIs DEF UploadTyped
<1>11. /\ JobsFit(jobs', made) /\ AloneThere(jobs', streams', made, crowded) /\ Files(jobs', streams', crowded, dirs')
       /\ Reads(jobs', made, crowded)
  <2>1. PICK I, R, E : I = jobs' /\ R = streams' /\ E = dirs'  OBVIOUS
  <2>2. \A k \in Job : I[k] = jobs[k] \/ (I[k].pc = "idle" /\ jobs[k].pc # "written")
    <3>1. IdleJob.pc = "idle" /\ jobs[j].pc # "written"  BY <1>1, <1>2 DEF IdleJob
    <3> QED  BY <3>1, <2>1, <1>7
  <2>3. \A t \in StreamId : (R[t] = 0 /\ E[t] = NoDir) \/ (R[t] = streams[t] /\ E[t] = dirs[t])  BY <2>1, <1>5
  <2>4. crowded \subseteq crowded  OBVIOUS
  <2>5. /\ JobsFit(I, made) /\ AloneThere(I, R, made, crowded) /\ Files(I, R, crowded, E) /\ Reads(I, made, crowded)
    BY <2>2, <2>3, <2>4, WorkKeeps
  <2> QED  BY <2>1, <2>5
<1>12. ResultsFit(made, crowded, result')
  <2>1. Right(q, made, crowded)  BY <1>1, UpInvIs DEF Reads
  <2>2. made[n].sha \/ n \notin crowded => q.got = Whole(n)  BY <2>1, <1>2, <1>3 DEF Right
  <2>3. ResultsFit(made, crowded, result)  BY UpInvIs
  <2> SUFFICES ASSUME NEW m \in Inc
               PROVE  /\ made[m] = Unmade => result'[m] = NoFiles
                      /\ result'[m] # NoFiles /\ (made[m].sha \/ m \notin crowded) => result'[m] = Whole(m)
    BY DEF ResultsFit
  <2>4. CASE m = n  BY <2>2, <2>4, <1>3, <1>9
  <2>5. CASE m # n  BY <2>3, <2>5, <1>9 DEF ResultsFit
  <2> QED  BY <2>4, <2>5
<1>13. Work(jobs', streams', made', crowded', dirs', result')  BY <1>2, <1>11, <1>12 DEF Work
<1> QED  BY <1>4, <1>10, <1>13 DEF UpInv

\* createStream.
LEMMA CreateKeeps ==
  ASSUME UpInv, NEW s \in StreamId, Create(s)
  PROVE  UpInv'
<1>1. PICK n \in Inc, z \in FileSize \cup {0}, sha \in BOOLEAN :
        /\ streams[s] = 0 /\ made[n] = Unmade /\ (z > 0 => Fits(z))
        /\ made' = [made EXCEPT ![n] = [id |-> s, size |-> z, sha |-> sha]]
        /\ streams' = [streams EXCEPT ![s] = n] /\ timers' = timers \cup {n}
        /\ memoryUsage' = memoryUsage + z
        /\ dirs' = (IF z > 0 THEN dirs ELSE [dirs EXCEPT ![s] = NoFiles])
        /\ crowded' = Crowd(s, n)
        /\ missing' = missing /\ stored' = stored /\ jobs' = jobs /\ result' = result
  BY DEF Create
<1>2. PICK m : m = [id |-> s, size |-> z, sha |-> sha]  OBVIOUS
<1>3. m \in Stream /\ m.id = s /\ m.size = z /\ m # Unmade
  <2>1. m \in Stream /\ m.id = s /\ m.size = z  BY <1>2 DEF Stream
  <2>2. Unmade.id = "none"  BY DEF Unmade
  <2> QED  BY <2>1, <2>2, UploadAssumption
<1>4. z \in Nat
  <2>1. FileSize \subseteq Nat  BY UploadAssumption
  <2>2. CASE z \in FileSize  BY <2>1, <2>2
  <2>3. CASE z = 0  BY <2>3
  <2> QED  BY <2>2, <2>3
<1>5. n # 0 /\ n \in 0..MaxStream  BY UploadAssumption DEF Inc
<1>6. PICK S, M, D, T, L : S = streams' /\ M = made' /\ D = dirs' /\ T = timers' /\ L = crowded'  OBVIOUS
<1>7. /\ streams \in [StreamId -> 0..MaxStream] /\ made \in [Inc -> Stream \cup {Unmade}]
      /\ \A t \in StreamId : streams[t] # 0 => made[streams[t]] # Unmade /\ made[streams[t]].id = t
  BY UpInvIs DEF Maps
<1>8. /\ S \in [StreamId -> 0..MaxStream] /\ S[s] = n /\ \A t \in StreamId : t # s => S[t] = streams[t]
      /\ M \in [Inc -> Stream \cup {Unmade}] /\ M[n] = m /\ \A k \in Inc : k # n => M[k] = made[k]
  BY <1>1, <1>2, <1>3, <1>5, <1>6, <1>7
<1>9. \A t \in StreamId : streams[t] # 0 => streams[t] \in Inc /\ streams[t] # n  BY <1>1, <1>7, UploadAssumption DEF Inc
<1>10. \A k \in Inc : made[k] # Unmade => M[k] = made[k]  BY <1>1, <1>8
<1>11. Maps(S, M)
  <2>1. ASSUME NEW t \in StreamId, S[t] # 0 PROVE M[S[t]] # Unmade /\ M[S[t]].id = t
    <3>1. CASE t = s  BY <3>1, <1>3, <1>8
    <3>2. CASE t # s  BY <2>1, <3>2, <1>7, <1>8, <1>9
    <3> QED  BY <3>1, <3>2
  <2> QED  BY <2>1, <1>8 DEF Maps
<1>12. Timed(S, M, T)
  <2>1. /\ timers \subseteq Inc /\ \A k \in timers : made[k] # Unmade
        /\ \A t \in StreamId : streams[t] # 0 => streams[t] \in timers
    BY UpInvIs DEF Timed
  <2>2. T = timers \cup {n}  BY <1>1, <1>6
  <2>3. \A k \in T : M[k] # Unmade
    <3> SUFFICES ASSUME NEW k \in T PROVE M[k] # Unmade
      OBVIOUS
    <3>1. CASE k = n  BY <3>1, <1>3, <1>8
    <3>2. CASE k # n  BY <3>2, <2>1, <2>2, <1>8
    <3> QED  BY <3>1, <3>2
  <2>4. \A t \in StreamId : S[t] # 0 => S[t] \in T
    <3> SUFFICES ASSUME NEW t \in StreamId, S[t] # 0 PROVE S[t] \in T
      OBVIOUS
    <3>1. CASE t = s  BY <3>1, <2>2, <1>8
    <3>2. CASE t # s  BY <3>2, <2>1, <2>2, <1>8
    <3> QED  BY <3>1, <3>2
  <2> QED  BY <2>1, <2>2, <2>3, <2>4 DEF Timed
<1>13. Account(S, M, memoryUsage')
  <2>1. MemIs(made, streams, memoryUsage) /\ memoryUsage <= MemoryLimit  BY UpInvIs DEF Account
  <2>2. SizeIn(made, streams, n) = 0 /\ SizeIn(M, S, n) = z  BY <1>1, <1>3, <1>8 DEF SizeIn
  <2>3. \A k \in Inc : k # n => SizeIn(M, S, k) = SizeIn(made, streams, k)
    <3> SUFFICES ASSUME NEW k \in Inc, k # n PROVE SizeIn(M, S, k) = SizeIn(made, streams, k)
      OBVIOUS
    <3>1. CASE made[k] = Unmade  BY <3>1, <1>8 DEF SizeIn
    <3>2. CASE made[k] # Unmade
      <4>1. made[k].id \in StreamId /\ M[k] = made[k]  BY <3>2, <1>8, UpInvIs, MadeIs
      <4>2. S[made[k].id] = k <=> streams[made[k].id] = k
        <5>1. CASE made[k].id = s
          <6>1. k # 0  BY UploadAssumption DEF Inc
          <6> QED  BY <6>1, <5>1, <1>1, <1>8
        <5>2. CASE made[k].id # s  BY <5>2, <4>1, <1>8
        <5> QED  BY <5>1, <5>2
      <4> QED  BY <4>1, <4>2 DEF SizeIn
    <3> QED  BY <3>1, <3>2
  <2>4. memoryUsage \in Nat  BY <2>1, <2>3, <1>7, <1>8, MemStep
  <2>5. MemIs(M, S, memoryUsage - SizeIn(made, streams, n) + SizeIn(M, S, n))  BY <2>1, <2>3, <1>7, <1>8, MemStep
  <2>6. memoryUsage - SizeIn(made, streams, n) + SizeIn(M, S, n) = memoryUsage + z  BY <2>2, <2>4, <1>4
  <2>7. memoryUsage + z <= MemoryLimit
    <3>1. CASE z > 0  BY <3>1, <1>1 DEF Fits
    <3>2. CASE ~(z > 0)
      <4>1. memoryUsage + z = memoryUsage  BY <3>2, <2>4, <1>4
      <4> QED  BY <4>1, <2>1
    <3> QED  BY <3>1, <3>2
  <2> QED  BY <2>5, <2>6, <2>7, <1>1 DEF Account
<1>14. Holding(S, M, stored')
  <2>1. /\ stored \in [Inc -> SUBSET Chunk]
        /\ \A k \in Inc : stored[k] # {} => made[k] # Unmade /\ streams[made[k].id] = k /\ made[k].size > 0
    BY UpInvIs DEF Holding
  <2>2. ASSUME NEW k \in Inc, stored[k] # {} PROVE M[k] # Unmade /\ S[M[k].id] = k /\ M[k].size > 0
    <3>1. made[k] # Unmade /\ streams[made[k].id] = k /\ made[k].size > 0  BY <2>1, <2>2
    <3>2. made[k].id \in StreamId /\ M[k] = made[k]  BY <3>1, <1>10, UpInvIs, MadeIs
    <3>3. made[k].id # s
      <4>1. k # 0  BY UploadAssumption DEF Inc
      <4> QED  BY <4>1, <3>1, <1>1
    <3> QED  BY <3>1, <3>2, <3>3, <1>8
  <2> QED  BY <2>1, <2>2, <1>1 DEF Holding
<1>15. /\ dirs \in [StreamId -> Dir \cup {NoDir}] /\ dirs[s] = NoDir
       /\ \A t \in StreamId : dirs[t] # NoDir <=> OnDisk(made, streams, t)
  <2>1. dirs \in [StreamId -> Dir \cup {NoDir}] /\ \A t \in StreamId : dirs[t] # NoDir <=> OnDisk(made, streams, t)
    BY UpInvIs DEF Dirs
  <2>2. ~OnDisk(made, streams, s)  BY <1>1 DEF OnDisk
  <2> QED  BY <2>1, <2>2
<1>16. /\ D \in [StreamId -> Dir \cup {NoDir}] /\ D[s] = (IF z > 0 THEN NoDir ELSE NoFiles)
       /\ \A t \in StreamId : t # s => D[t] = dirs[t]
  <2>1. CASE z > 0  BY <2>1, <1>1, <1>6, <1>15
  <2>2. CASE ~(z > 0)
    <3>1. D = [dirs EXCEPT ![s] = NoFiles]  BY <2>2, <1>1, <1>6
    <3>2. NoFiles \in Dir  BY DirIs
    <3> QED  BY <3>1, <3>2, <2>2, <1>15
  <2> QED  BY <2>1, <2>2
<1>17. Dirs(S, M, D)
  <2> SUFFICES ASSUME NEW t \in StreamId PROVE D[t] # NoDir <=> OnDisk(M, S, t)
    BY <1>16 DEF Dirs
  <2>1. CASE t = s
    <3>1. NoFiles # NoDir  BY DirIs
    <3>2. OnDisk(M, S, s) <=> z = 0  BY <1>3, <1>5, <1>8 DEF OnDisk
    <3>3. z > 0 <=> z # 0  BY <1>4
    <3> QED  BY <2>1, <3>1, <3>2, <3>3, <1>16
  <2>2. CASE t # s
    <3>1. S[t] = streams[t] /\ D[t] = dirs[t]  BY <2>2, <1>8, <1>16
    <3>2. streams[t] # 0 => M[streams[t]] = made[streams[t]]  BY <1>8, <1>9
    <3>3. OnDisk(M, S, t) <=> OnDisk(made, streams, t)  BY <3>1, <3>2 DEF OnDisk
    <3> QED  BY <3>1, <3>3, <1>15
  <2> QED  BY <2>1, <2>2
<1>18. Store(streams', made', timers', memoryUsage', stored', dirs')
  BY <1>6, <1>11, <1>12, <1>13, <1>14, <1>17 DEF Store
<1>19. /\ crowded \subseteq L /\ L \subseteq Inc
       /\ \A k \in Job : jobs[k].pc # "idle" /\ made[jobs[k].n].id = s => jobs[k].n \in L /\ n \in L
  BY <1>1, <1>6, UpInvIs, CrowdIs
<1>20. UploadTyped'  BY <1>1, <1>6, <1>19, UpInvIs DEF UploadTyped
<1>21. PICK I : I = jobs  OBVIOUS
<1>22. JobsFit(I, M)
  <2>1. JobsFit(jobs, made)  BY UpInvIs
  <2>2. \A j \in Job : I[j].pc # "idle" => jobs[j].pc # "idle" /\ I[j].n = jobs[j].n  BY <1>21
  <2>3. \A j \in Job : I[j].pc \in {"write", "written", "read"} => I[j].c \in Chunk
    <3> SUFFICES ASSUME NEW j \in Job, jobs[j].pc \in {"write", "written", "read"} PROVE jobs[j].c \in Chunk
      BY <1>21
    <3>1. jobs[j].pc # "idle"  OBVIOUS
    <3> QED  BY <3>1, <2>1 DEF JobsFit
  <2> QED  BY <2>1, <2>2, <2>3, <1>10, FitKeeps
<1>23. \A j \in Job : jobs[j].pc # "idle" => made[jobs[j].n] # Unmade /\ jobs[j].n \in Inc /\ M[jobs[j].n] = made[jobs[j].n]
  BY <1>10, JobIs
<1>24. AloneThere(jobs, S, M, L)
  <2>1. AloneThere(jobs, streams, made, crowded)  BY UpInvIs
  <2>2. ASSUME NEW j \in Job, jobs[j].pc # "idle", S[M[jobs[j].n].id] # 0, S[M[jobs[j].n].id] # jobs[j].n
        PROVE  S[M[jobs[j].n].id] \in L /\ jobs[j].n \in L
    <3>1. M[jobs[j].n] = made[jobs[j].n] /\ made[jobs[j].n].id \in StreamId  BY <2>2, <1>23, JobIs
    <3>2. CASE made[jobs[j].n].id = s  BY <2>2, <3>1, <3>2, <1>8, <1>19
    <3>3. CASE made[jobs[j].n].id # s
      <4>1. S[made[jobs[j].n].id] = streams[made[jobs[j].n].id]  BY <3>1, <3>3, <1>8
      <4>2. streams[made[jobs[j].n].id] \in crowded /\ jobs[j].n \in crowded  BY <2>1, <2>2, <3>1, <4>1 DEF AloneThere
      <4> QED  BY <3>1, <4>1, <4>2, <1>19
    <3> QED  BY <3>2, <3>3
  <2>3. ASSUME NEW j \in Job, NEW k \in Job, j # k, jobs[j].pc # "idle", jobs[k].pc # "idle", M[jobs[j].n].id = M[jobs[k].n].id
        PROVE  jobs[j].n \in L
    <3>1. made[jobs[j].n].id = made[jobs[k].n].id  BY <2>3, <1>23
    <3>2. jobs[j].n \in crowded  BY <2>1, <2>3, <3>1 DEF AloneThere
    <3> QED  BY <3>2, <1>19
  <2> QED  BY <2>2, <2>3 DEF AloneThere
<1>25. Files(I, S, L, D)
  <2>1. Files(jobs, streams, crowded, dirs)  BY UpInvIs
  <2>2. \A j \in Job : jobs[j].pc = "written" => I[j] = jobs[j]  BY <1>21
  <2>3. \A t \in StreamId : D[t] = NoDir \/ D[t] = NoFiles \/ (D[t] = dirs[t] /\ S[t] = streams[t])
    BY <1>8, <1>16
  <2>4. crowded \subseteq L  BY <1>19
  <2> QED  BY <2>1, <2>2, <2>3, <2>4, FilesKeep
<1>26. Reads(I, M, L)
  <2>1. JobsFit(jobs, made) /\ Reads(jobs, made, crowded)  BY UpInvIs
  <2>2. \A j \in Job : I[j] = jobs[j] \/ I[j].pc \in {"idle", "write", "written"} \/ Right(I[j], M, L)  BY <1>21
  <2>3. crowded \subseteq L  BY <1>19
  <2> QED  BY <2>1, <2>2, <2>3, <1>10, ReadsKeep
<1>27. ResultsFit(M, L, result)
  <2>1. ResultsFit(made, crowded, result)  BY UpInvIs
  <2>2. crowded \subseteq L  BY <1>19
  <2> QED  BY <2>1, <2>2, <1>10, ResultsKeep
<1>28. Work(jobs', streams', made', crowded', dirs', result')
  BY <1>1, <1>6, <1>21, <1>22, <1>24, <1>25, <1>26, <1>27 DEF Work
<1> QED  BY <1>18, <1>20, <1>28 DEF UpInv

\* The invariant at first.
LEMMA UploadStarts ==
  ASSUME UploadInit
  PROVE  UpInv
<1>1. /\ streams = [s \in StreamId |-> 0] /\ made = [n \in Inc |-> Unmade] /\ missing = [n \in Inc |-> Chunk]
      /\ timers = {} /\ memoryUsage = 0 /\ stored = [n \in Inc |-> {}] /\ dirs = [s \in StreamId |-> NoDir]
      /\ jobs = [j \in Job |-> IdleJob] /\ result = [n \in Inc |-> NoFiles] /\ crowded = {}
  BY DEF UploadInit
<1>2. 0 \in 0..MaxStream /\ 0 \in 0..Chunks /\ NoFiles \in Dir  BY UploadAssumption, DirIs
<1>3. IdleJob \in JobRec /\ IdleJob.pc = "idle"  BY <1>2 DEF IdleJob, JobRec
<1>4. UploadTyped  BY <1>1, <1>2, <1>3 DEF UploadTyped
<1>5. Maps(streams, made)  BY <1>1, <1>2 DEF Maps
<1>6. Timed(streams, made, timers)  BY <1>1 DEF Timed
<1>7. Account(streams, made, memoryUsage)
  <2>1. MemIs(made, streams, 0)  BY <1>1, MemStarts
  <2>2. 0 <= MemoryLimit  BY UploadAssumption
  <2> QED  BY <2>1, <2>2, <1>1 DEF Account
<1>8. Holding(streams, made, stored)  BY <1>1 DEF Holding
<1>9. Dirs(streams, made, dirs)  BY <1>1 DEF Dirs, OnDisk
<1>10. \A j \in Job : jobs[j].pc = "idle"  BY <1>1, <1>3
<1>11. JobsFit(jobs, made)  BY <1>10 DEF JobsFit
<1>12. AloneThere(jobs, streams, made, crowded)  BY <1>10 DEF AloneThere
<1>13. Files(jobs, streams, crowded, dirs)  BY <1>1 DEF Files
<1>14. Reads(jobs, made, crowded)  BY <1>10 DEF Reads, Right
<1>15. ResultsFit(made, crowded, result)  BY <1>1 DEF ResultsFit
<1>16. Store(streams, made, timers, memoryUsage, stored, dirs)  BY <1>5, <1>6, <1>7, <1>8, <1>9 DEF Store
<1>17. Work(jobs, streams, made, crowded, dirs, result)  BY <1>11, <1>12, <1>13, <1>14, <1>15 DEF Work
<1> QED  BY <1>4, <1>16, <1>17 DEF UpInv

\* Every step keeps it.
LEMMA UploadStep ==
  ASSUME UpInv, [UploadNext]_usvars
  PROVE  UpInv'
<1>1. CASE UNCHANGED usvars  BY <1>1 DEF usvars, UpInv, UploadTyped
<1>2. CASE \E s \in StreamId : Create(s) \/ Reset(s)  BY <1>2, CreateKeeps, ResetKeeps
<1>3. CASE \E s \in StreamId, c \in Chunk : MemoryChunk(s, c) \/ \E j \in Job : DiskChunk(s, c, j)
  BY <1>3, MemoryChunkKeeps, DiskChunkKeeps
<1>4. CASE \E s \in StreamId, j \in Job : CompleteMemory(s, j) \/ CompleteDisk(s, j)
  BY <1>4, CompleteMemoryKeeps, CompleteDiskKeeps
<1>5. CASE \E j \in Job : Opened(j) \/ Written(j) \/ ReadEnds(j) \/ Saved(j)
  BY <1>5, OpenedKeeps, WrittenKeeps, ReadKeeps, SavedKeeps
<1>6. CASE \E n \in Inc : TimerFires(n)  BY <1>6, TimerKeeps
<1> QED  BY <1>1, <1>2, <1>3, <1>4, <1>5, <1>6 DEF UploadNext

\* The invariant says what the properties do.
LEMMA UpInvHolds ==
  ASSUME UpInv
  PROVE  UploadSafe
<1>1. /\ streams \in [StreamId -> 0..MaxStream] /\ made \in [Inc -> Stream \cup {Unmade}]
      /\ \A s \in StreamId : streams[s] # 0 => made[streams[s]] # Unmade /\ made[streams[s]].id = s
  BY UpInvIs DEF Maps
<1>2. timers \subseteq Inc /\ \A s \in StreamId : streams[s] # 0 => streams[s] \in timers  BY UpInvIs DEF Timed
<1>3. MemIs(made, streams, memoryUsage) /\ memoryUsage <= MemoryLimit  BY UpInvIs DEF Account
<1>4. memoryUsage = Declared[MaxStream] /\ memoryUsage \in Nat  BY <1>1, <1>3, DeclaredIs
<1>5. dirs \in [StreamId -> Dir \cup {NoDir}] /\ \A s \in StreamId : dirs[s] # NoDir <=> OnDisk(made, streams, s)
  BY UpInvIs DEF Dirs
<1>6. UploadTypeOK
  <2>1. \A n \in Inc : stored[n] # {} => n \in Live /\ InMemory(n)
    <3>1. \A n \in Inc : stored[n] # {} => made[n] # Unmade /\ streams[made[n].id] = n /\ made[n].size > 0
      BY UpInvIs DEF Holding
    <3> QED  BY <3>1 DEF Live, InMemory
  <2>2. stored \in [Inc -> SUBSET Chunk]  BY UpInvIs DEF Holding
  <2>3. \A s \in StreamId : dirs[s] = NoDir \/ dirs[s] \in [Chunk -> File \cup {NoFile}]  BY <1>5 DEF Dir
  <2>4. missing \in [Inc -> SUBSET Chunk] /\ crowded \subseteq Inc  BY UpInvIs DEF UploadTyped
  <2>5. jobs \in [Job -> [pc : {"idle", "write", "written", "read", "save"}, n : 0..MaxStream,
                          c : 0..Chunks, got : [Chunk -> File \cup {NoFile}]]]
    BY UpInvIs DEF UploadTyped, JobRec, Dir
  <2>6. result \in [Inc -> [Chunk -> File \cup {NoFile}]]  BY UpInvIs DEF UploadTyped, Dir
  <2> QED  BY <1>1, <1>2, <1>4, <2>1, <2>2, <2>3, <2>4, <2>5, <2>6 DEF UploadTypeOK
<1>7. MemoryIsAccounted  BY <1>3, <1>4 DEF MemoryIsAccounted
<1>8. LiveIsTimed
  <2> SUFFICES ASSUME NEW n \in Live PROVE n \in timers
    BY DEF LiveIsTimed
  <2>1. n \in Inc /\ made[n] # Unmade /\ streams[made[n].id] = n  BY DEF Live
  <2>2. made[n].id \in StreamId /\ n # 0  BY <2>1, UpInvIs, MadeIs, UploadAssumption DEF Inc
  <2> QED  BY <2>1, <2>2, <1>2
<1>9. DirsAreOwned
  <2> SUFFICES ASSUME NEW s \in StreamId PROVE dirs[s] # NoDir <=> streams[s] # 0 /\ ~InMemory(streams[s])
    BY DEF DirsAreOwned
  <2>1. CASE streams[s] = 0  BY <2>1, <1>5 DEF OnDisk
  <2>2. CASE streams[s] # 0
    <3>1. made[streams[s]].size \in Nat  BY <2>2, UpInvIs, InMap
    <3>2. OnDisk(made, streams, s) <=> ~(made[streams[s]].size > 0)  BY <2>2, <3>1 DEF OnDisk
    <3> QED  BY <2>2, <3>2, <1>5 DEF InMemory
  <2> QED  BY <2>1, <2>2
<1>10. CompletedIsWhole  BY UpInvIs DEF CompletedIsWhole, ResultsFit
<1> QED  BY <1>6, <1>7, <1>8, <1>9, <1>10 DEF UploadSafe

\* The memory account is exact and within the limit, every stream in the map has a
\* timer, directories exist exactly for the streams on disk, and a completed file
\* is whole (UploadFileStream), for any ids, sizes, chunks and waiting requests.
THEOREM UploadsComeWhole == UploadSpec => []UploadSafe
<1>1. UploadInit => UpInv  BY UploadStarts
<1>2. UpInv /\ [UploadNext]_usvars => UpInv'  BY UploadStep
<1>3. UpInv => UploadSafe  BY UpInvHolds
<1> QED  BY <1>1, <1>2, <1>3, PTL DEF UploadSpec
============================================================================

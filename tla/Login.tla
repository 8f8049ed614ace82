------------------------------- MODULE Login -------------------------------
(***************************************************************************)
(* Logging in to QQ (napcat-shell/base.ts, with the WebUI's handlers       *)
(* napcat-webui-backend/src/api/QQLogin.ts, its quick function in          *)
(* index.ts and the flags they share in helper/Data.ts).  The start, the   *)
(* owner in the WebUI and the QR code try at the same time; each kernel    *)
(* call is awaited, so their answers interleave, and the kernel tells of   *)
(* the success by a callback of its own.                                   *)
(***************************************************************************)
EXTENDS Naturals, FiniteSets

CONSTANTS
  Attempt,     \* slots for logins under way
  MaxConnect,  \* how often the kernel says it is connected
  MaxLogin     \* how often it logs in

ASSUME LoginAssumption == MaxConnect \in Nat /\ MaxLogin \in Nat

VARIABLES
  start,      \* -q given and known, the quick account of the WebUI, a fallback password
  waiting,    \* onLoginConnected handlers waiting for the network
  connects,   \* how often the kernel connected
  ready,      \* handleLoginInner ran: the WebUI's callbacks are registered
  attempt,    \* the logins under way: their kind and who began them
  kernel,     \* what the kernel knows: "out", "in", "kicked"
  owed,       \* a success the kernel has not told of yet
  logins,     \* successes so far
  qr,         \* the QR code: "none", asked of the kernel, "shown"
  isLogined, QQLoginStatus, QQLoginError,
  main        \* the start-up: "login", "session", "adapters", "listening", "failed"

loginvars == <<start, waiting, connects, ready, attempt, kernel, owed, logins, qr,
               isLogined, QQLoginStatus, QQLoginError, main>>

Free == [kind |-> "none", by |-> "none"]
By(k, b) == [kind |-> k, by |-> b]
Kind == {"quick", "password", "captcha", "device"}

(* Shapes; the start-up is past the login only when somebody is logged in, *)
(* and a saved password is only tried where there is one.                  *)
LoginTypeOK ==
  /\ start \in [quick : {"none", "known", "unknown"}, account : BOOLEAN, password : BOOLEAN]
  /\ waiting \in 0..MaxConnect /\ connects \in 0..MaxConnect /\ logins \in 0..MaxLogin
  /\ attempt \in [Attempt -> {Free} \cup [kind : Kind, by : {"start", "quickFunction", "web"}]]
  /\ kernel \in {"out", "in", "kicked"} /\ qr \in {"none", "asked", "shown"}
  /\ {owed, ready, isLogined, QQLoginStatus, QQLoginError} \subseteq BOOLEAN
  /\ main \in {"login", "session", "adapters", "listening", "failed"}
  /\ main # "login" => isLogined
  /\ \A a \in Attempt :
       /\ attempt[a].kind = "password" /\ attempt[a].by # "web" => start.password
       /\ attempt[a].by = "quickFunction" => start.quick = "none"

LoginInit ==
  /\ start \in [quick : {"none", "known", "unknown"}, account : BOOLEAN, password : BOOLEAN]
  /\ waiting = 0 /\ connects = 0 /\ ready = FALSE /\ logins = 0
  /\ attempt = [a \in Attempt |-> Free]
  /\ kernel = "out" /\ owed = FALSE /\ qr = "none"
  /\ isLogined = FALSE /\ QQLoginStatus = FALSE /\ QQLoginError = FALSE
  /\ main = "login"

OnLoginConnected ==
  /\ ~ready /\ connects < MaxConnect
  /\ connects' = connects + 1 /\ waiting' = waiting + 1
  /\ UNCHANGED <<start, ready, attempt, kernel, owed, logins, qr, isLogined, QQLoginStatus, QQLoginError, main>>

(* The QR code is asked for once more unless the login succeeded.          *)
KeptQr == qr                                \* defect: a refused fallback asks for nothing
QrUnlessLogined == IF isLogined THEN qr ELSE "asked"

HasFallback == start.password

(* tryPasswordFallbackLogin at the start: with a password another attempt, *)
(* else the QR code.                                                       *)
Fallback(a) ==
  IF HasFallback THEN attempt' = [attempt EXCEPT ![a] = By("password", "start")] /\ qr' = qr
  ELSE attempt' = [attempt EXCEPT ![a] = Free] /\ qr' = QrUnlessLogined

(* handleLoginInner, after the half seconds of waiting for the network.    *)
HandleLoginInner(a) ==
  /\ waiting > 0 /\ attempt[a] = Free
  /\ waiting' = waiting - 1 /\ ready' = TRUE
  /\ \/ /\ start.quick = "known"
        /\ attempt' = [attempt EXCEPT ![a] = By("quick", "start")] /\ qr' = qr
     \/ start.quick = "unknown" /\ Fallback(a)
     \/ /\ start.quick = "none" /\ qr' = "asked"
        /\ attempt' = IF start.account THEN [attempt EXCEPT ![a] = By("quick", "quickFunction")] ELSE attempt
  /\ UNCHANGED <<start, connects, kernel, owed, logins, isLogined, QQLoginStatus, QQLoginError, main>>

(* A handler of the WebUI: none while the status says logged in.           *)
WebUiLogin(a, k) ==
  /\ ready /\ ~QQLoginStatus /\ attempt[a] = Free
  /\ attempt' = [attempt EXCEPT ![a] = By(k, "web")]
  /\ UNCHANGED <<start, waiting, connects, ready, kernel, owed, logins, qr, isLogined, QQLoginStatus, QQLoginError, main>>

RefreshQRCode ==
  /\ ready /\ ~QQLoginStatus
  /\ QQLoginError' = FALSE /\ qr' = "asked"
  /\ UNCHANGED <<start, waiting, connects, ready, attempt, kernel, owed, logins, isLogined, QQLoginStatus, main>>

(* The kernel lets the attempt in; the call at the start leaves it to the  *)
(* callback to say so, the registered ones set the flags.                  *)
LetIn(a) ==
  /\ kernel # "in" /\ logins < MaxLogin
  /\ kernel' = "in" /\ owed' = TRUE /\ logins' = logins + 1
  /\ attempt' = [attempt EXCEPT ![a] = Free] /\ qr' = qr
  /\ IF attempt[a] = By("quick", "start") THEN UNCHANGED <<QQLoginStatus, QQLoginError>>
     ELSE QQLoginStatus' = TRUE /\ QQLoginError' = FALSE

Failed(a) ==
  /\ QQLoginError' = TRUE /\ qr' = "asked"
  /\ attempt' = [attempt EXCEPT ![a] = Free]
  /\ UNCHANGED <<kernel, owed, logins, QQLoginStatus>>

(* Defect: an answer that wants a verification counts as a success.        *)
TakenAsSuccess(a) ==
  /\ QQLoginStatus' = TRUE /\ QQLoginError' = FALSE
  /\ attempt' = [attempt EXCEPT ![a] = Free] /\ UNCHANGED <<kernel, owed, logins, qr>>
(* A captcha or a device has to be verified: the WebUI gets the address,   *)
(* the start leaves a note that it has to be gone on with there.           *)
WantsVerification(a) ==
  /\ QQLoginError' = (QQLoginError \/ attempt[a].by = "start")
  /\ attempt' = [attempt EXCEPT ![a] = Free]
  /\ UNCHANGED <<kernel, owed, logins, qr, QQLoginStatus>>

QuickAnswered(a) ==
  /\ attempt[a].kind = "quick"
  /\ \/ LetIn(a)
     \/ /\ attempt[a].by = "start"
        /\ QQLoginError' = TRUE /\ Fallback(a)
        /\ UNCHANGED <<kernel, owed, logins, QQLoginStatus>>
     \/ /\ attempt[a].by = "quickFunction" /\ HasFallback
        /\ QQLoginError' = TRUE /\ qr' = "asked"
        /\ attempt' = [attempt EXCEPT ![a] = By("password", "quickFunction")]
        /\ UNCHANGED <<kernel, owed, logins, QQLoginStatus>>
     \/ /\ attempt[a].by # "start" /\ ~(attempt[a].by = "quickFunction" /\ HasFallback)
        /\ Failed(a)

(* The first step of a password login, and the two that may follow it.     *)
PasswordAnswered(a) == attempt[a].kind = "password" /\ (LetIn(a) \/ WantsVerification(a) \/ Failed(a))
CaptchaAnswered(a) == attempt[a].kind = "captcha" /\ (LetIn(a) \/ WantsVerification(a) \/ Failed(a))
DeviceAnswered(a) == attempt[a].kind = "device" /\ (LetIn(a) \/ WantsVerification(a) \/ Failed(a))

Answered(a) ==
  /\ QuickAnswered(a) \/ PasswordAnswered(a) \/ CaptchaAnswered(a) \/ DeviceAnswered(a)
  /\ UNCHANGED <<start, waiting, connects, ready, isLogined, main>>

OnQRCodeGetPicture ==
  /\ qr = "asked" /\ qr' = "shown"
  /\ UNCHANGED <<start, waiting, connects, ready, attempt, kernel, owed, logins, isLogined, QQLoginStatus, QQLoginError, main>>

(* The code expired or its session broke: a new one, until logged in.      *)
OnQRCodeSessionFailed ==
  /\ qr # "none"
  /\ IF isLogined THEN qr' = "none" /\ QQLoginError' = QQLoginError
     ELSE qr' = "asked" /\ QQLoginError' \in {QQLoginError, TRUE}
  /\ UNCHANGED <<start, waiting, connects, ready, attempt, kernel, owed, logins, isLogined, QQLoginStatus, main>>

Scanned ==
  /\ qr = "shown" /\ kernel # "in" /\ logins < MaxLogin
  /\ kernel' = "in" /\ owed' = TRUE /\ logins' = logins + 1 /\ qr' = "none"
  /\ UNCHANGED <<start, waiting, connects, ready, attempt, isLogined, QQLoginStatus, QQLoginError, main>>

(* onLoginFailed and onUserLoggedIn leave a message only.                  *)
OnLoginFailed ==
  /\ connects > 0 /\ main = "login" /\ QQLoginError' = TRUE
  /\ UNCHANGED <<start, waiting, connects, ready, attempt, kernel, owed, logins, qr, isLogined, QQLoginStatus, main>>

Resolved == IF main = "login" THEN "session" ELSE main

OnQRCodeLoginSucceed ==
  /\ owed /\ owed' = FALSE
  /\ isLogined' = TRUE /\ QQLoginStatus' = TRUE /\ main' = Resolved
  /\ UNCHANGED <<start, waiting, connects, ready, attempt, kernel, logins, qr, QQLoginError>>

(* initializeSession: open telemetry comes up, or the start is over.       *)
InitializeSession ==
  /\ main = "session" /\ main' \in {"adapters", "failed"}
  /\ UNCHANGED <<start, waiting, connects, ready, attempt, kernel, owed, logins, qr, isLogined, QQLoginStatus, QQLoginError>>
InitNapCat ==
  /\ main = "adapters" /\ main' = "listening"
  /\ UNCHANGED <<start, waiting, connects, ready, attempt, kernel, owed, logins, qr, isLogined, QQLoginStatus, QQLoginError>>

(* Kicked off line: told to the WebUI only once the listeners are there.   *)
OnKickedOffLine ==
  /\ kernel = "in" /\ ~owed /\ kernel' = "kicked"
  /\ IF main = "listening" THEN QQLoginStatus' = FALSE /\ QQLoginError' = TRUE
     ELSE UNCHANGED <<QQLoginStatus, QQLoginError>>
  /\ UNCHANGED <<start, waiting, connects, ready, attempt, owed, logins, qr, isLogined, main>>

LoginNext ==
  \/ OnLoginConnected \/ RefreshQRCode \/ OnQRCodeGetPicture \/ OnQRCodeSessionFailed \/ Scanned \/ OnLoginFailed
  \/ OnQRCodeLoginSucceed \/ InitializeSession \/ InitNapCat \/ OnKickedOffLine
  \/ \E a \in Attempt : HandleLoginInner(a) \/ Answered(a) \/ \E k \in Kind : WebUiLogin(a, k)

LoginFair ==
  /\ WF_loginvars(\E a \in Attempt : HandleLoginInner(a)) /\ \A a \in Attempt : SF_loginvars(Answered(a))
  /\ WF_loginvars(OnQRCodeGetPicture) /\ WF_loginvars(OnQRCodeLoginSucceed)
  /\ WF_loginvars(InitializeSession) /\ WF_loginvars(InitNapCat)
LoginSpec == LoginInit /\ [][LoginNext]_loginvars
LoginFairSpec == LoginSpec /\ LoginFair

----------------------------------------------------------------------------
(* While the account is out and no login is under way the owner has a way  *)
(* in: a QR code, or a message that says what to do.                       *)
NeverWithoutWay ==
  ready /\ kernel = "out" /\ (\A a \in Attempt : attempt[a] = Free) => qr # "none" \/ QQLoginError

(* The status closes every handler of the WebUI, so it is never set before *)
(* the kernel let somebody in.                                             *)
NeverLockedOut == QQLoginStatus => kernel # "out"

(* A login the kernel granted, by whichever of the ways, always ends in a  *)
(* session that is up or a start that failed.                              *)
LoginLeadsOn == owed ~> main \in {"listening", "failed"}

(* Once the network is there a QR code, a message or a login follows.      *)
WayAppears == waiting > 0 ~> (qr = "shown" \/ QQLoginError \/ kernel # "out")

(* While nobody is logged in the owner has a way in, and the WebUI's       *)
(* handlers are never closed before the kernel let somebody in.            *)
LoginSafe == LoginTypeOK /\ NeverWithoutWay /\ NeverLockedOut
============================================================================

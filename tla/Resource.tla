------------------------------ MODULE Resource ------------------------------
(***************************************************************************)
(* The guard NapCat puts before unreliable services, such as the addresses *)
(* of files, videos and voices (napcat-common/src/health.ts): a resource   *)
(* that fails several times in a row is disabled for a while.  Calls of    *)
(* several messages are under way at once.                                 *)
(***************************************************************************)
EXTENDS Integers, FiniteSets

CONSTANTS
  Caller,          \* calls that may be under way at once
  MaxRetries,      \* failures in a row that disable the resource
  DisableTime,     \* how long
  HealthInterval,  \* between two health checks
  MaxHealthFailures,
  MaxTime          \* bound on the clock

ASSUME ResourceAssumption ==
  MaxRetries \in Nat \ {0} /\ DisableTime \in Nat /\ MaxHealthFailures \in Nat /\ MaxTime \in Nat

VARIABLES
  now,
  state,     \* isEnabled, disableUntil, currentRetries, healthCheckFailureCount,
             \* isPermanentlyDisabled, lastHealthCheckTime
  call,      \* "idle", "checked" (past the health check), "running", "refused", "ended" per caller
  streak,    \* failures since the last success, up to MaxRetries
  checked    \* whether a health check succeeded since the resource was disabled

resourcevars == <<now, state, call, streak, checked>>

(* Shapes; the count of failures stays below the number that disables.     *)
ResourceTypeOK ==
  /\ now \in 0..MaxTime
  /\ state \in [isEnabled : BOOLEAN, disableUntil : 0..(MaxTime + DisableTime), currentRetries : 0..(MaxRetries - 1),
                failures : 0..MaxHealthFailures, permanent : BOOLEAN, lastCheck : 0..MaxTime]
  /\ call \in [Caller -> {"idle", "checked", "running", "refused", "ended"}]
  /\ streak \in 0..MaxRetries /\ checked \in BOOLEAN

ResourceInit ==
  /\ now = 0 /\ streak = 0 /\ checked = TRUE
  /\ state = [isEnabled |-> TRUE, disableUntil |-> 0, currentRetries |-> 0, failures |-> 0, permanent |-> FALSE, lastCheck |-> 0]
  /\ call = [c \in Caller |-> "idle"]

Available == ~state.permanent /\ state.isEnabled /\ now >= state.disableUntil

(* checkAndPerformHealthCheck: only for a resource that is not enabled and *)
(* whose time is up.                                                       *)
NeedsCheck ==
  /\ ~(state.isEnabled /\ now >= state.disableUntil)
  /\ ~state.permanent /\ now >= state.disableUntil /\ now - state.lastCheck >= HealthInterval

(* performHealthCheck, well or badly.                                      *)
Healthy == [state EXCEPT !.isEnabled = TRUE, !.disableUntil = 0, !.currentRetries = 0, !.failures = 0, !.lastCheck = now]
Unhealthy ==
  [state EXCEPT !.failures = @ + 1, !.lastCheck = now,
                !.permanent = state.failures + 1 >= MaxHealthFailures,
                !.disableUntil = IF state.failures + 1 >= MaxHealthFailures THEN 0 ELSE now + DisableTime]

callResource(c) ==
  /\ call[c] = "idle" /\ call' = [call EXCEPT ![c] = "checked"]
  /\ IF NeedsCheck THEN state' \in {Healthy, Unhealthy} ELSE state' = state
  /\ checked' = (checked \/ (NeedsCheck /\ state' = Healthy))
  /\ UNCHANGED <<now, streak>>

(* After the wait: refused while it is disabled, else the call.            *)
Proceed(c) ==
  /\ call[c] = "checked"
  /\ call' = [call EXCEPT ![c] = IF Available THEN "running" ELSE "refused"]
  /\ UNCHANGED <<now, state, streak, checked>>

onResourceSuccess(c) ==
  /\ call[c] = "running" /\ call' = [call EXCEPT ![c] = "ended"]
  /\ state' = [state EXCEPT !.currentRetries = 0, !.disableUntil = 0, !.failures = 0]
  /\ streak' = 0 /\ checked' = TRUE
  /\ UNCHANGED now

TooSoon(n) == n + 1 >= MaxRetries           \* defect: one failure too few
LastTry(n) == n >= MaxRetries

(* The last failure in a row disables the resource for a while.            *)
onResourceFailure(c) ==
  /\ call[c] = "running" /\ call' = [call EXCEPT ![c] = "ended"]
  /\ IF LastTry(state.currentRetries + 1)
     THEN /\ state' = [state EXCEPT !.disableUntil = now + DisableTime, !.currentRetries = 0]
          /\ checked' = FALSE
     ELSE state' = [state EXCEPT !.currentRetries = @ + 1] /\ checked' = checked
  /\ streak' = IF streak < MaxRetries THEN streak + 1 ELSE streak
  /\ UNCHANGED now

Leaves(c) ==
  /\ call[c] \in {"refused", "ended"} /\ call' = [call EXCEPT ![c] = "idle"]
  /\ UNCHANGED <<now, state, streak, checked>>

ResourceTick == now < MaxTime /\ now' = now + 1 /\ UNCHANGED <<state, call, streak, checked>>

ResourceNext ==
  \/ ResourceTick
  \/ \E c \in Caller : callResource(c) \/ Proceed(c) \/ onResourceSuccess(c) \/ onResourceFailure(c) \/ Leaves(c)
ResourceSpec == ResourceInit /\ [][ResourceNext]_resourcevars

----------------------------------------------------------------------------
(* It is disabled only for failures in a row, whichever callers they are   *)
(* of: a success in between starts anew.                                   *)
DisabledForCause == now < state.disableUntil => streak = MaxRetries

(* A resource that was disabled is used again only after a health check    *)
(* (or another call) found that it works.                                  *)
UsedAgainWhenHealthy ==
  [][\A c \in Caller : call[c] # "running" /\ call'[c] = "running" => checked]_resourcevars

(* A resource is disabled only after MaxRetries failures in a row,         *)
(* whichever callers they are of and however their calls interleave.       *)
ResourceSafe == ResourceTypeOK /\ DisabledForCause
============================================================================

------------------------------- MODULE MCBots -------------------------------
(***************************************************************************)
(* Parts of the bots that share no state, taken one at a time: the gateway  *)
(* session of the official bot (GatewaySession), how its extraction handlers*)
(* end (ResourceExtraction), its ledger on disk (LedgerStorage), and the    *)
(* group lottery of the NapCat bot (Lottery).                               *)
(***************************************************************************)
EXTENDS GatewaySession, Lottery, LedgerStorage, TLC

CONSTANTS m1, m2, w1, g1, u1, u2, s1, q1, t1, t2, c1, c2

VARIABLE part   \* which of them this behaviour is about
VARIABLES task, line, busy, account, points, rate, lastUse, extract_now

MCLimits == {{}, {u2}}
Cost == [f \in {"4399"} |-> 1]
MCUnionOf == [s \in {s1} |-> u1]
MCMember == {<<s1, g1>>}

X == INSTANCE ResourceExtraction WITH Task <- {t1, t2}, Chat <- {c1, c2}, Feature <-
  {"4399"}, Funds <- 2, RateLimit <- 2, RateWindow <- 1, Kept <- 1, Cooldown <- 2, Slots
  <- 1, MaxRetries <- 2, MaxTime <- 1, now <- extract_now

extractvars == <<task, line, busy, account, points, rate, lastUse, extract_now>>

(* Every part but the chosen one keeps one initial state.                  *)
BotsInit ==
  /\ part \in {"gateway", "lottery", "extract", "storage"}
  /\ GatewayInit
  /\ LotteryInit
  /\ X!Init
  /\ StorageInit

BotsNext ==
  \/ part = "gateway" /\ GatewayNext /\ UNCHANGED part
     /\ UNCHANGED <<lotteryvars, extractvars, storagevars>>
  \/ part = "lottery" /\ LotteryNext /\ UNCHANGED part
     /\ UNCHANGED <<gatewayvars, extractvars, storagevars>>
  \/ part = "extract" /\ X!Next /\ UNCHANGED part
     /\ UNCHANGED <<gatewayvars, lotteryvars, storagevars>>
  \/ part = "storage" /\ StorageNext /\ UNCHANGED part
     /\ UNCHANGED <<gatewayvars, lotteryvars, extractvars>>

botsvars == <<part, gatewayvars, lotteryvars, extractvars, storagevars>>
BotsSpec == BotsInit /\ [][BotsNext]_botsvars

(* What each module says is fair.                                          *)
GatewayFair ==
  /\ WF_gatewayvars(Connect)
  /\ WF_gatewayvars(Hello)
  /\ WF_gatewayvars(Dispatch)
  /\ WF_gatewayvars(Handlers)
  /\ WF_gatewayvars(Answers)
LotteryFair ==
  /\ WF_lotteryvars(LoopStep)
  /\ WF_lotteryvars(Teardown)
  /\ WF_lotteryvars(Reconnect)
ExtractFair ==
  /\ \A t \in {t1, t2} : WF_extractvars(X!Step(t))

(* Where the loops run and the network answers: every event reaches a       *)
(* handler or is counted as lost, the session comes back, a lottery that is *)
(* due is drawn, and every extraction handler ends.                         *)
BotsGoOn ==
  /\ part = "gateway" /\ GatewayFair => EventsArrive
  /\ part = "gateway" /\ GatewayFair => ComesBack
  /\ part = "lottery" /\ LotteryFair => DueIsDrawn
  /\ part = "extract" /\ ExtractFair => X!HandlersEnd
=============================================================================

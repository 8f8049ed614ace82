------------------------------- MODULE MCHost -------------------------------
(***************************************************************************)
(* The processes around the protocol client: the master and its worker      *)
(* (Supervisor), the login (Login), the plugins (PluginManager), uploads in *)
(* chunks (UploadStream) and the mirrors (Mirror). They share no state and  *)
(* are taken one at a time.                                                 *)
(***************************************************************************)
EXTENDS Mirror, Supervisor, Login, PluginManager, UploadStream,
  Integers, Sequences, FiniteSets, TLC

CONSTANTS r1, r2, c1, c2, o1, o2, s1, j1, j2, x, y, gh

VARIABLE part   \* which of them this behaviour is about

(* Every part but the chosen one keeps one initial state.                  *)
Init ==
  /\ part \in {"master", "login", "plugin", "stream", "mirror"}
  /\ SupervisorInit
  /\ LoginInit /\ (part # "login" => start = [quick |-> "none", account |-> FALSE, password |-> FALSE])
  /\ PluginInit /\ (part # "plugin" => ~saved /\ disk = "none")
  /\ UploadInit
  /\ MirrorInit

Next ==
  \/ part = "master" /\ SupervisorNext /\ UNCHANGED part
     /\ UNCHANGED <<loginvars, pmvars, usvars, mirrorvars>>
  \/ part = "login" /\ LoginNext /\ UNCHANGED part
     /\ UNCHANGED <<supvars, pmvars, usvars, mirrorvars>>
  \/ part = "plugin" /\ PluginNext /\ UNCHANGED part
     /\ UNCHANGED <<supvars, loginvars, usvars, mirrorvars>>
  \/ part = "stream" /\ UploadNext /\ UNCHANGED part
     /\ UNCHANGED <<supvars, loginvars, pmvars, mirrorvars>>
  \/ part = "mirror" /\ MirrorNext /\ UNCHANGED part
     /\ UNCHANGED <<supvars, loginvars, pmvars, usvars>>

vars == <<part, supvars, loginvars, pmvars, usvars, mirrorvars>>
Spec == Init /\ [][Next]_vars

(* What each module says is fair.                                          *)
MasterFair ==
  /\ WF_supvars(Timers)
  /\ \A w \in 1..4 : WF_supvars(Spawned(w) \/ SpawnError(w))
  /\ \A w \in 1..4 : WF_supvars(worker[w] \in {"exiting", "killed"} /\ Exit(w))
MirrorFair ==
  /\ WF_mirrorvars(performMirrorTest)
  /\ \A c \in {c1, c2} : WF_mirrorvars(Answers(c))

(* The worker comes back, a login leads to the session, the owner gets a way*)
(* in, upload streams end and nobody waits for the mirrors for ever.        *)
HostComesUp ==
  /\ part = "master" /\ MasterFair => ComesBack
  /\ part = "login" /\ LoginFair => LoginLeadsOn
  /\ part = "login" /\ LoginFair => WayAppears
  /\ part = "stream" /\ UploadFair => EveryStreamEnds
  /\ part = "mirror" /\ MirrorFair => LookupsEnd
=============================================================================

---------------------------- MODULE OneBotConfig ----------------------------
(***************************************************************************)
(* Which network adapters run: the adapters NapCatOneBot11Adapter makes at *)
(* the start and the change of configuration it carries out while running  *)
(* (napcat-onebot/index.ts), over OB11NetworkManager's table               *)
(* (napcat-onebot/network/index.ts).  The table is by name only, the       *)
(* configuration has a list per class, and a change goes class by class.   *)
(* No step of a change waits for anything outside the process: it is one   *)
(* action.                                                                 *)
(***************************************************************************)
EXTENDS Integers, FiniteSets

CONSTANTS
  Name,      \* names of adapters
  Classes,   \* the classes are 1..Classes, in the order reloadNetwork goes through them
  Setting    \* what else an entry says: a url, a port

ASSUME OneBotConfigAssumption == Classes \in Nat \ {0}

VARIABLES
  configData,    \* configData: for each class, the entries by name
  adapters,  \* the manager's table
  tangled    \* history: names that were in two classes at once, or moved to an earlier one

ocvars == <<configData, adapters, tangled>>

Class == 1..Classes
NoEntry == [enable |-> FALSE, setting |-> "none"]
Entry == [enable : BOOLEAN, setting : Setting]
NoAdapter == [class |-> 0, config |-> NoEntry]
Adapter == [class : Class, config : Entry]
Configuration == [Class -> [Name -> Entry \cup {NoEntry}]]

(* Shapes; an adapter in the table has an entry that is enabled.           *)
OneBotConfigTypeOK ==
  /\ configData \in Configuration
  /\ adapters \in [Name -> Adapter \cup {NoAdapter}]
  /\ \A n \in Name : adapters[n] # NoAdapter => adapters[n].config.enable
  /\ tangled \subseteq Name

Has(conf, k, n) == conf[k][n] # NoEntry
ClassesOf(conf, n) == {k \in Class : Has(conf, k, n)}

(* InitOneBot registers the enabled entries, class after class: the last   *)
(* of a name stays.                                                        *)
LastEnabled(conf, n) == {k \in ClassesOf(conf, n) : conf[k][n].enable
                          /\ \A j \in ClassesOf(conf, n) : conf[j][n].enable => j <= k}
Registered(conf, n) ==
  IF LastEnabled(conf, n) = {} THEN NoAdapter
  ELSE LET k == CHOOSE k \in LastEnabled(conf, n) : TRUE IN [class |-> k, config |-> conf[k][n]]

OneBotConfigInit ==
  /\ configData \in Configuration
  /\ adapters = [n \in Name |-> Registered(configData, n)]
  /\ tangled = {n \in Name : Cardinality(ClassesOf(configData, n)) > 1}

----------------------------------------------------------------------------
(* handleConfigChange for one class and one name.  What is no longer in    *)
(* the list is closed, whatever class it is of; what is in it is reloaded, *)
(* again whatever class it is of, or made if enabled.                      *)
Recycled(prev, now, k, n, a) == IF Has(prev, k, n) /\ ~Has(now, k, n) THEN NoAdapter ELSE a

(* reload takes the entry; one that is now off answers NetWorkClose and is *)
(* dropped.                                                                *)
Reloaded(a, e) == IF e.enable THEN [a EXCEPT !.config = e] ELSE NoAdapter

KeptOld(now, k, n, a) ==      \* defect: a running adapter keeps its configuration
  IF ~Has(now, k, n) \/ a # NoAdapter THEN a
  ELSE IF now[k][n].enable THEN [class |-> k, config |-> now[k][n]] ELSE NoAdapter
Applied(now, k, n, a) ==
  IF ~Has(now, k, n) THEN a
  ELSE IF a # NoAdapter THEN Reloaded(a, now[k][n])
  ELSE IF now[k][n].enable THEN [class |-> k, config |-> now[k][n]] ELSE NoAdapter

(* reloadNetwork: every class in turn.                                     *)
After(prev, now, n) ==
  LET upTo[k \in 0..Classes] ==
        IF k = 0 THEN adapters[n]
        ELSE Applied(now, k, n, Recycled(prev, now, k, n, upTo[k - 1]))
  IN  upTo[Classes]

(* A name changes hands badly when it is in two lists, or when its new     *)
(* list comes before its old one: the old one's turn closes what the new   *)
(* one's turn made.                                                        *)
Tangles(prev, now, n) ==
  \/ Cardinality(ClassesOf(now, n)) > 1
  \/ \E j \in ClassesOf(now, n), k \in ClassesOf(prev, n) : j < k

ConfigChanged ==
  \E now \in Configuration :
    /\ configData' = now
    /\ adapters' = [n \in Name |-> After(configData, now, n)]
    /\ tangled' = tangled \cup {n \in Name : Tangles(configData, now, n)}

OneBotConfigNext == ConfigChanged
OneBotConfigSpec == OneBotConfigInit /\ [][OneBotConfigNext]_ocvars

----------------------------------------------------------------------------
(* After every change exactly the enabled entries run, each in its own     *)
(* class and with its newest settings, for every name that kept to one     *)
(* class or moved to a later one.                                          *)
RunningIsConfigured == \A n \in Name \ tangled : adapters[n] = Registered(configData, n)

(* After every change exactly the enabled entries run, each in its class   *)
(* and with its newest settings, for the names that did not move to an     *)
(* earlier class.                                                          *)
OneBotConfigSafe == OneBotConfigTypeOK /\ RunningIsConfigured
============================================================================

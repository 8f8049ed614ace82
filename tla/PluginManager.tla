--------------------------- MODULE PluginManager ---------------------------
(***************************************************************************)
(* The life of one plugin of NapCat: OB11PluginMangerAdapter               *)
(* (napcat-onebot/network/plugin-manger.ts) over PluginLoader, under the   *)
(* WebUI handlers that drive it (napcat-webui-backend/src/api/Plugin.ts    *)
(* and PluginStore.ts).  Plugins share nothing but plugins.json, which     *)
(* every operation reads or rewrites in one go, so one plugin is enough.   *)
(*                                                                         *)
(* Nothing serialises the handlers: an operation holds an entry object     *)
(* across import(), plugin_init, plugin_cleanup and the unpacking of an    *)
(* archive, while others change or replace it.                             *)
(***************************************************************************)
EXTENDS Integers, FiniteSets

CONSTANTS
  Op,        \* operations that can be in flight at once
  MaxStart   \* bound: operations started; each makes at most one entry and one instance

ASSUME PluginAssumption == MaxStart \in Nat \ {0}

VARIABLES
  isEnable,    \* of the manager
  saved,       \* plugins.json: is the plugin enabled
  disk,        \* the plugin's directory: none, partial, whole
  entries,     \* entry objects, the ones no longer in the table too
  table,       \* the entry this.plugins holds, 0 for none
  router,      \* the instance whose routes this.pluginRouters holds, 0 for none
  inst,        \* what became of each module instance
  ops,         \* operations in flight
  started,
  opsOverlapped   \* history: an operation began while another was in flight

pmvars == <<isEnable, saved, disk, entries, table, router, inst, ops, started, opsOverlapped>>

Id == 1..MaxStart
Unborn == [enable |-> FALSE, loaded |-> FALSE, status |-> "unborn", ctx |-> 0]
Entries == [enable : BOOLEAN, loaded : BOOLEAN, status : {"unloaded", "loaded", "error"}, ctx : 0..MaxStart]
OpKind == {"none", "disable", "reload", "uninstall", "import"}   \* what follows an unload
IdleOp == [pc |-> "idle", kind |-> "none", e |-> 0, i |-> 0]
AliveInst == {i \in Id : inst[i] \in {"init", "running", "cleaning"}}
InFlight == {o \in Op : ops[o].pc # "idle"}

(* Shapes; an entry whose status is loaded is flagged loaded and has its   *)
(* instance, and the table holds an entry that was made.                   *)
PluginTypeOK ==
  /\ isEnable \in BOOLEAN /\ saved \in BOOLEAN /\ opsOverlapped \in BOOLEAN
  /\ disk \in {"none", "partial", "whole"}
  /\ entries \in [Id -> Entries \cup {Unborn}]
  /\ \A e \in Id : entries[e].status = "loaded" => entries[e].loaded /\ entries[e].ctx # 0
  /\ table \in 0..MaxStart /\ (table # 0 => entries[table] # Unborn)
  /\ router \in 0..MaxStart
  /\ inst \in [Id -> {"none", "init", "running", "cleaning", "stopped", "failed"}]
  /\ ops \in [Op -> [pc : {"idle", "scan", "extract", "import", "init", "cleanup"},
                     kind : OpKind, e : 0..MaxStart, i : 0..MaxStart]]
  /\ started \in 0..MaxStart

PluginInit ==
  /\ isEnable = FALSE /\ saved \in BOOLEAN /\ disk \in {"none", "whole"}
  /\ entries = [e \in Id |-> Unborn] /\ table = 0 /\ router = 0
  /\ inst = [i \in Id |-> "none"]
  /\ ops = [o \in Op |-> IdleOp]
  /\ started = 0 /\ opsOverlapped = FALSE

----------------------------------------------------------------------------
(* scanDirectoryPlugin over a directory d: the flag is what plugins.json   *)
(* says now, and a directory without an entry file is an error.            *)
ScannedEntry(d) == [enable |-> saved, loaded |-> FALSE,
               status |-> IF d = "whole" THEN "unloaded" ELSE "error", ctx |-> 0]

NewEntry == CHOOSE e \in Id : entries[e] = Unborn
NewInst == CHOOSE i \in Id : inst[i] = "none"

(* An operation goes on to loadPlugin(e), which does nothing for an entry  *)
(* that is loaded or in error, or it is done.                              *)
OpDone(o) == ops' = [ops EXCEPT ![o] = IdleOp]
Loading(o, e, en) ==
  IF en.loaded \/ en.status = "error" THEN OpDone(o)
  ELSE ops' = [ops EXCEPT ![o].pc = "import", ![o].e = e]

(* A new entry takes its place in the table, and is loaded if enabled.     *)
Replaced(o, ents, d) ==
  /\ entries' = [ents EXCEPT ![NewEntry] = ScannedEntry(d)]
  /\ table' = NewEntry
  /\ IF saved THEN Loading(o, NewEntry, ScannedEntry(d)) ELSE OpDone(o)

(* loadPluginById: an entry that is there is taken as it is.               *)
LoadedById(o, ents, d) ==
  IF table = 0 THEN Replaced(o, ents, d)
  ELSE /\ entries' = ents /\ UNCHANGED table
       /\ IF ents[table].enable THEN Loading(o, table, ents[table]) ELSE OpDone(o)

(* What each operation does once the plugin is unloaded: nothing more; the *)
(* entry and the directory are removed; another entry takes the place; or  *)
(* the directory is replaced and the plugin loaded by its name.            *)
AfterUnload(o, kind, ents, d) ==
  \/ kind = "disable" /\ entries' = ents /\ UNCHANGED table /\ disk' = d /\ OpDone(o)
  \/ kind = "uninstall" /\ entries' = ents /\ table' = 0 /\ disk' = "none" /\ OpDone(o)
  \/ kind = "reload" /\ Replaced(o, ents, d) /\ disk' = d
  \/ kind = "import" /\ LoadedById(o, ents, "whole") /\ disk' = "whole"

(* unloadPlugin: plugin_cleanup is called and awaited; an entry that is    *)
(* not loaded, or whose status is not, is passed over.                     *)
NotUnloading(o, kind, e, ents, d) ==           \* defect: straight to what comes after
  AfterUnload(o, kind, ents, d) /\ UNCHANGED inst
Unloading(o, kind, e, ents, d) ==
  IF ents[e].status = "loaded"
  THEN /\ ops' = [ops EXCEPT ![o] = [pc |-> "cleanup", kind |-> kind, e |-> e, i |-> ents[e].ctx]]
       /\ inst' = [inst EXCEPT ![ents[e].ctx] = IF @ = "running" THEN "cleaning" ELSE @]
       /\ entries' = ents /\ disk' = d /\ UNCHANGED table
  ELSE AfterUnload(o, kind, ents, d) /\ UNCHANGED inst

----------------------------------------------------------------------------
(* The manager is opened where it is registered: operations come after.    *)
Begin(o) ==
  /\ isEnable /\ ops[o].pc = "idle" /\ started < MaxStart /\ started' = started + 1
  /\ opsOverlapped' = (opsOverlapped \/ InFlight # {})

(* open: the directories are read, then the enabled ones' modules tried.   *)
Open(o) ==
  /\ ~isEnable /\ isEnable' = TRUE /\ started' = started + 1
  /\ LET e == IF disk = "whole" THEN NewEntry ELSE 0 IN
     /\ entries' = IF e = 0 THEN entries ELSE [entries EXCEPT ![e] = ScannedEntry(disk)]
     /\ ops' = [ops EXCEPT ![o] = [IdleOp EXCEPT !.pc = "scan", !.e = e]]
  /\ UNCHANGED <<saved, disk, table, router, inst, opsOverlapped>>

(* Once they are tried the table is cleared and filled anew; an enabled    *)
(* plugin that cannot be imported, or has no plugin_init, is left out.     *)
ScanEnds(o) ==
  /\ ops[o].pc = "scan"
  /\ LET e == ops[o].e IN
     \/ /\ e # 0 /\ table' = e
        /\ IF entries[e].enable THEN Loading(o, e, entries[e]) ELSE OpDone(o)
     \/ /\ e # 0 => entries[e].enable
        /\ table' = 0 /\ OpDone(o)
  /\ UNCHANGED <<isEnable, saved, disk, entries, router, inst, started, opsOverlapped>>

(* setPluginStatus: saved first, then the entry follows.                   *)
Enable(o) ==
  /\ Begin(o) /\ saved' = TRUE
  /\ IF table = 0 THEN UNCHANGED <<entries, ops>>
     ELSE /\ entries' = [entries EXCEPT ![table].enable = TRUE]
          /\ Loading(o, table, entries[table])
  /\ UNCHANGED <<isEnable, disk, table, router, inst>>

SavedOff == saved' = FALSE

Disable(o) ==
  /\ Begin(o) /\ SavedOff
  /\ IF table = 0 THEN UNCHANGED <<entries, ops, table, disk, inst>>
     ELSE Unloading(o, "disable", table, [entries EXCEPT ![table].enable = FALSE], disk)
  /\ UNCHANGED <<isEnable, router>>

(* SetPluginConfigHandler: a loaded plugin is reloaded over its new        *)
(* configuration file.                                                     *)
Reload(o) ==
  /\ Begin(o) /\ table # 0 /\ entries[table].status = "loaded"
  /\ Unloading(o, "reload", table, entries, disk)
  /\ UNCHANGED <<isEnable, saved, router>>

Uninstall(o) ==
  /\ Begin(o) /\ table # 0
  /\ Unloading(o, "uninstall", table, entries, disk)
  /\ UNCHANGED <<isEnable, saved, router>>

(* ImportLocalPluginHandler, its archive unpacked aside: a plugin that is  *)
(* there is unloaded, the directory replaced, the plugin loaded.           *)
Import(o) ==
  /\ Begin(o)
  /\ IF disk # "none" /\ table # 0 /\ entries[table].loaded
     THEN Unloading(o, "import", table, entries, disk)
     ELSE AfterUnload(o, "import", entries, disk) /\ UNCHANGED inst
  /\ UNCHANGED <<isEnable, saved, router>>

(* The store's install: the archive is unpacked in the directory, under a  *)
(* plugin that goes on running, which is then reloaded.  A failure leaves  *)
(* the directory as it is by then.                                         *)
Install(o) ==
  /\ Begin(o) /\ disk' = "partial"
  /\ ops' = [ops EXCEPT ![o] = [IdleOp EXCEPT !.pc = "extract"]]
  /\ UNCHANGED <<isEnable, saved, entries, table, router, inst>>

ExtractEnds(o) ==
  /\ ops[o].pc = "extract"
  /\ \/ table = 0 /\ LoadedById(o, entries, "whole") /\ disk' = "whole" /\ UNCHANGED inst
     \/ table # 0 /\ Unloading(o, "reload", table, entries, "whole")
     \/ OpDone(o) /\ UNCHANGED <<disk, entries, table, inst>>
  /\ UNCHANGED <<isEnable, saved, router, started, opsOverlapped>>

----------------------------------------------------------------------------
RouterKept(i) == router' = IF router = 0 THEN i ELSE router   \* defect: an old registry is used again
RouterMade(i) == router' = i

(* import() answers: with a module whose plugin_init is called, after      *)
(* createPluginContext made its router; or with an error, kept in entry.   *)
ImportEnds(o) ==
  /\ ops[o].pc = "import"
  /\ \/ /\ disk = "whole"
        /\ inst' = [inst EXCEPT ![NewInst] = "init"]
        /\ RouterMade(NewInst)
        /\ ops' = [ops EXCEPT ![o].pc = "init", ![o].i = NewInst]
        /\ UNCHANGED entries
     \/ /\ entries' = [entries EXCEPT ![ops[o].e].status = "error", ![ops[o].e].ctx = 0]
        /\ OpDone(o) /\ UNCHANGED <<inst, router>>
  /\ UNCHANGED <<isEnable, saved, disk, table, started, opsOverlapped>>

InitEnds(o) ==
  /\ ops[o].pc = "init"
  /\ \E ok \in BOOLEAN :
       /\ inst' = [inst EXCEPT ![ops[o].i] = IF ok THEN "running" ELSE "failed"]
       /\ entries' = [entries EXCEPT ![ops[o].e] =
            [enable |-> @.enable, loaded |-> ok, status |-> IF ok THEN "loaded" ELSE "error",
             ctx |-> IF ok THEN ops[o].i ELSE 0]]
  /\ OpDone(o)
  /\ UNCHANGED <<isEnable, saved, disk, table, router, started, opsOverlapped>>

Unloaded(e) == [entries EXCEPT ![e].loaded = FALSE, ![e].status = "unloaded", ![e].ctx = 0]

CleanupEnds(o) ==
  /\ ops[o].pc = "cleanup"
  /\ inst' = [inst EXCEPT ![ops[o].i] = "stopped"]
  /\ router' = 0
  /\ AfterUnload(o, ops[o].kind, Unloaded(ops[o].e), disk)
  /\ UNCHANGED <<isEnable, saved, started, opsOverlapped>>

PluginNext == \E o \in Op :
  \/ Open(o) \/ Enable(o) \/ Disable(o) \/ Reload(o) \/ Uninstall(o) \/ Import(o) \/ Install(o)
  \/ ScanEnds(o) \/ ExtractEnds(o) \/ ImportEnds(o) \/ InitEnds(o) \/ CleanupEnds(o)

PluginSpec == PluginInit /\ [][PluginNext]_pmvars

----------------------------------------------------------------------------
(* Who onEvent calls: the entry's instance, if the entry is loaded.        *)
Receivers == {i \in Id : isEnable /\ table # 0 /\ entries[table].loaded
                         /\ entries[table].status = "loaded" /\ entries[table].ctx = i}

(* However the operations interleave, events only go to an instance whose  *)
(* plugin_init has succeeded and whose plugin_cleanup is not over.         *)
OnlyTheInitialisedHear == \A i \in Receivers : inst[i] \in {"running", "cleaning"}

(* While operations come one at a time, the plugin never has two instances *)
(* alive, and between them it is alive exactly if its entry says loaded,   *)
(* and its entry is enabled exactly if plugins.json says so.               *)
OneInstance == ~opsOverlapped =>
  /\ Cardinality(AliveInst) <= 1
  /\ InFlight = {} => AliveInst = IF table = 0 THEN {} ELSE {entries[table].ctx} \ {0}
  /\ InFlight = {} /\ table # 0 => entries[table].enable = saved

(* One at a time, a loaded plugin serves its own routes, not those of an   *)
(* instance that is gone.                                                  *)
RoutesAreItsOwn == ~opsOverlapped =>
  (table # 0 /\ entries[table].status = "loaded" => router = entries[table].ctx)

(* Events only go to an instance that is initialised and not cleaned up;   *)
(* while operations come one at a time there is one instance at most, with *)
(* routes of its own.                                                      *)
PluginSafe == PluginTypeOK /\ OnlyTheInitialisedHear /\ OneInstance /\ RoutesAreItsOwn
============================================================================

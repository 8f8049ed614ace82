----------------------------- MODULE GroupCache -----------------------------
(***************************************************************************)
(* The cached member list of a group (napcat-core/apis/group.ts): who      *)
(* reads it, who refreshes it, and the notices that make NapCat do so      *)
(* (napcat-onebot/api/msg.ts and group.ts).  The kernel reads its own list *)
(* some time after it is asked and answers in the order it read.           *)
(***************************************************************************)
EXTENDS Naturals, Sequences, FiniteSets

CONSTANTS
  Member, Self,   \* users; the account itself is one
  Task,           \* handlers that may be under way at once
  None,
  MaxChange,      \* bound on the times somebody joins or leaves
  MaxFailure      \* bound on failing calls of the kernel

ASSUME GroupCacheAssumption ==
  /\ Self \in Member /\ IsFiniteSet(Task) /\ (\A S \in SUBSET Member : S # None)
  /\ MaxChange \in Nat /\ MaxFailure \in Nat

VARIABLES
  real,      \* who is in the group
  cache,     \* groupMemberCache.get(group), or None
  task,      \* per handler: what it does, for whom, how far it is, the list it returned,
             \* who was in the group all the time since it began
  answers,   \* lists the kernel has read and not yet delivered
  notices,   \* notices not yet handled
  timers,    \* five-second timers that will drop the cache
  changes, failures,
  ignored    \* whether a tip was ignored because nothing was cached yet

groupvars == <<real, cache, task, answers, notices, timers, changes, failures, ignored>>

FreeTask == [kind |-> "idle", who |-> None, seen |-> {}, phase |-> "idle", list |-> {}]
Caches == {None} \cup SUBSET Member
Notices == [kind : {"increase", "tip", "decrease"}, who : Member]

(* Shapes; the kernel owes each handler one list at most.                  *)
GroupCacheTypeOK ==
  /\ real \in SUBSET Member /\ cache \in Caches
  /\ task \in [Task -> [kind : {"idle", "increase", "tip", "decrease", "list", "find"}, who : Member \cup {None},
                        seen : SUBSET Member, phase : {"idle", "asked", "returned", "answered", "missing", "failed"}, list : SUBSET Member]]
  /\ answers \in Seq([task : Task, members : SUBSET Member]) /\ Len(answers) <= Cardinality(Task)
  /\ notices \in Seq(Notices) /\ timers \in 0..MaxChange
  /\ changes \in 0..MaxChange /\ failures \in 0..MaxFailure /\ ignored \in BOOLEAN

GroupCacheInit ==
  /\ real = {Self} /\ cache \in {None, {Self}}
  /\ task = [t \in Task |-> FreeTask]
  /\ answers = <<>> /\ notices = <<>> /\ timers = 0 /\ changes = 0 /\ failures = 0 /\ ignored = FALSE

Requests == {"list", "find"}

(* Somebody joins, reported by a system message or by a grey tip, or       *)
(* leaves.                                                                 *)
Change(next, notice) ==
  /\ changes < MaxChange /\ changes' = changes + 1
  /\ real' = next /\ notices' = Append(notices, notice)
  /\ task' = [t \in Task |-> IF task[t].kind \in Requests THEN [task[t] EXCEPT !.seen = @ \cap next] ELSE task[t]]
  /\ UNCHANGED <<cache, answers, timers, failures, ignored>>
JoinsGroup(m) ==
  /\ m \notin real /\ (Self \in real \/ m = Self)
  /\ \E k \in {"increase", "tip"} : (m = Self => k = "increase") /\ Change(real \cup {m}, [kind |-> k, who |-> m])
LeavesGroup(m) ==
  /\ m \in real /\ Self \in real
  /\ Change(real \ {m}, [kind |-> "decrease", who |-> m])

Begins(t, kind, who) ==
  [task EXCEPT ![t] = [kind |-> kind, who |-> who, seen |-> IF kind \in Requests THEN real ELSE {}, phase |-> "asked", list |-> {}]]

(* parseSysMessage and the grey tips: most refresh the cache.  When the    *)
(* account itself was removed, the cache is dropped five seconds later.    *)
Handle(t) ==
  LET n == Head(notices) IN
  /\ notices # <<>> /\ task[t].kind = "idle" /\ notices' = Tail(notices)
  /\ \/ /\ n.kind = "decrease" /\ n.who = Self /\ timers' = timers + 1 /\ UNCHANGED task
     \/ /\ n.kind = "increase" \/ (n.kind = "decrease" /\ n.who # Self)
        /\ task' = Begins(t, n.kind, n.who) /\ UNCHANGED timers
     \/ /\ n.kind = "tip" /\ cache # None /\ task' = Begins(t, "tip", n.who) /\ UNCHANGED timers
     \/ /\ n.kind = "tip" /\ cache = None /\ UNCHANGED <<task, timers>>
  /\ ignored' = (ignored \/ (n.kind = "tip" /\ cache = None))
  /\ UNCHANGED <<real, cache, answers, changes, failures>>

(* get_group_member_list with no_cache: the refresh is started, but what   *)
(* is cached is returned at once.                                          *)
getGroupMembers(t) ==
  /\ task[t].kind = "idle"
  /\ task' = IF cache = None THEN Begins(t, "list", None)
             ELSE [Begins(t, "list", None) EXCEPT ![t].phase = "returned", ![t].list = cache]
  /\ UNCHANGED <<real, cache, answers, notices, timers, changes, failures, ignored>>

Known(m) == cache # None /\ m \in cache

(* getGroupMember: from the cache, else after one refresh.                 *)
getGroupMember(t, m) ==
  /\ task[t].kind = "idle"
  /\ task' = [Begins(t, "find", m) EXCEPT ![t].phase = IF Known(m) THEN "answered" ELSE "asked"]
  /\ UNCHANGED <<real, cache, answers, notices, timers, changes, failures, ignored>>

Outstanding(t) ==
  /\ task[t].phase \in {"asked", "returned"}
  /\ \A i \in DOMAIN answers : answers[i].task # t

(* The kernel reads its list; it has none of a group it is not in.         *)
KernelReads(t) ==
  /\ Outstanding(t) /\ Self \in real
  /\ answers' = Append(answers, [task |-> t, members |-> real])
  /\ UNCHANGED <<real, cache, task, notices, timers, changes, failures, ignored>>

Stale(r, members) == r.who \in members /\ cache # None /\ r.who \in cache   \* defect: looks in the list it read first
Found(r, members) == r.who \in members

(* What the refreshed list is used for.  A failed refresh is logged and    *)
(* leaves the old list.                                                    *)
Finished(t, members) ==
  LET r == task[t] IN
  [task EXCEPT ![t] = CASE r.kind = "find" -> [r EXCEPT !.phase = IF Found(r, members) THEN "answered" ELSE "missing"]
                        [] r.kind = "list" /\ r.phase = "asked" -> [r EXCEPT !.phase = "answered", !.list = members]
                        [] OTHER -> FreeTask]

KernelFails(t) ==
  /\ Outstanding(t)
  /\ Self \in real => failures < MaxFailure
  /\ failures' = IF Self \in real THEN failures + 1 ELSE failures
  /\ task' = [task EXCEPT ![t] = IF @.phase = "asked" /\ @.kind \in Requests THEN [@ EXCEPT !.phase = "failed"] ELSE FreeTask]
  /\ UNCHANGED <<real, cache, answers, notices, timers, changes, ignored>>

KeepOld(members) == IF cache = None THEN members ELSE cache     \* defect: a list that is there is kept
Stored(members) == members

(* refreshGroupMemberCache: the list is stored and the caller goes on.     *)
Delivered ==
  /\ answers # <<>> /\ answers' = Tail(answers)
  /\ cache' = Stored(Head(answers).members)
  /\ task' = Finished(Head(answers).task, Head(answers).members)
  /\ UNCHANGED <<real, notices, timers, changes, failures, ignored>>

(* The timer of a removal; five seconds are longer than a delivery.        *)
DropCache ==
  /\ timers > 0 /\ answers = <<>> /\ timers' = timers - 1 /\ cache' = None
  /\ UNCHANGED <<real, task, answers, notices, changes, failures, ignored>>

TaskEnds(t) ==
  /\ task[t].phase \in {"answered", "missing", "failed"} /\ task' = [task EXCEPT ![t] = FreeTask]
  /\ UNCHANGED <<real, cache, answers, notices, timers, changes, failures, ignored>>

GroupCacheNext ==
  \/ \E m \in Member : JoinsGroup(m) \/ LeavesGroup(m)
  \/ \E t \in Task : Handle(t) \/ getGroupMembers(t) \/ KernelReads(t) \/ KernelFails(t) \/ TaskEnds(t)
  \/ \E t \in Task, m \in Member : getGroupMember(t, m)
  \/ Delivered \/ DropCache
GroupCacheSpec == GroupCacheInit /\ [][GroupCacheNext]_groupvars

----------------------------------------------------------------------------
Refreshes == \E t \in Task : task[t].kind \in {"increase", "decrease", "tip"}

(* Once all notices are handled and no refresh is under way or failed, the *)
(* cache is the group as it is, or there is none, whatever interleaved: in *)
(* particular a group the account was removed from is not remembered.      *)
CacheSettles ==
  notices = <<>> /\ ~Refreshes /\ answers = <<>> /\ timers = 0 /\ failures = 0 /\ ~ignored =>
    cache = None \/ cache = real

(* Who was in the group all the time somebody looked for him is found,     *)
(* unless the kernel failed.                                               *)
MembersAreFound ==
  \A t \in Task : task[t].phase = "missing" => task[t].who \notin task[t].seen

(* no_cache asks for a list that does not come from the cache              *)
(* (GetGroupMemberList.ts:10): whoever was in the group ever since before  *)
(* the request is in the list that is returned.                            *)
NoCacheIsCurrent ==
  \A t \in Task : task[t].kind = "list" /\ task[t].phase \in {"returned", "answered"} => task[t].seen \subseteq task[t].list

(* Once everything is handled the cache is the group as it is, or there is *)
(* none, and who was in the group all along is found, unless the kernel    *)
(* failed.                                                                 *)
GroupCacheSafe == GroupCacheTypeOK /\ CacheSettles /\ MembersAreFound
============================================================================

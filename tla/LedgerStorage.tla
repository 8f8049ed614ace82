---------------------------- MODULE LedgerStorage ----------------------------
(***************************************************************************)
(* The points ledger on disk (official_qqbot/bot.py): three JSON files,    *)
(* each rewritten in place by the handlers that change what it holds, and  *)
(* read when the bot starts.  A handler changes the memory in one go, as   *)
(* in PointsLedger, and its saves follow one after the other; the bot may  *)
(* be killed between any two of them, or while a file is being written.    *)
(***************************************************************************)
EXTENDS PointsLedger

CONSTANTS
  Torn,      \* a file that is missing or cut short
  MaxCrash   \* bound: how often the bot is killed

VARIABLES
  disk,      \* the files: _sign_data, _identity_map (with _pending), _qq_binds
  writes,    \* saves the running handler has still to make: which file, with what
  cut,       \* whether the first of them has truncated its file
  crashes,
  before     \* history: accounts and what was owed before the running handler, or now

storagevars == <<vars, disk, writes, cut, crashes, before>>

File == {"sign", "identity", "binds"}
Accounts == [Account -> Record]
IdentityFile == [map : [Scenario -> Union \cup {NoOne}], pending : SUBSET (Group \X Scenario)]
BindsFile == [Id -> QQ \cup {NoOne}]
ASSUME StorageAssumption ==
  /\ Torn \notin Accounts /\ Torn \notin IdentityFile /\ Torn \notin BindsFile
  /\ MaxCrash \in Nat

(* Shapes; nothing is cut while there is nothing to write.                 *)
StorageTypeOK ==
  /\ TypeOK
  /\ DOMAIN disk = File /\ disk.sign \in Accounts \cup {Torn}
  /\ disk.identity \in IdentityFile \cup {Torn} /\ disk.binds \in BindsFile \cup {Torn}
  /\ \A n \in DOMAIN writes : writes[n].file \in File
  /\ cut \in BOOLEAN /\ (cut => writes # <<>> /\ disk[Head(writes).file] = Torn)
  /\ crashes \in 0..MaxCrash /\ before \in [sign : Accounts, pending : SUBSET (Group \X Scenario)]

(* _load_sign, _load_identity, _load_qq_binds: a file that is missing or   *)
(* cannot be parsed reads like an empty one.                               *)
LoadSign(d) == IF d.sign = Torn THEN [a \in Account |-> Blank] ELSE d.sign
LoadIdentity(d) ==
  IF d.identity = Torn THEN [map |-> [s \in Scenario |-> NoOne], pending |-> {}] ELSE d.identity
LoadBinds(d) == IF d.binds = Torn THEN [i \in Id |-> NoOne] ELSE d.binds

Now == [sign |-> sign, pending |-> pending]

StorageInit ==
  /\ Init
  /\ disk = [f \in File |-> Torn]
  /\ writes = <<>> /\ cut = FALSE /\ crashes = 0
  /\ before = Now

(* _save_sign, _save_identity, _save_qq_binds, with what they write.       *)
SaveSign(accounts) == <<[file |-> "sign", content |-> accounts]>>
SaveIdentity(map, owed) == <<[file |-> "identity", content |-> [map |-> map, pending |-> owed]]>>
SaveBinds(b) == <<[file |-> "binds", content |-> b]>>
If(condition, saves) == IF condition THEN saves ELSE <<>>

\* Defect: the emptied account is saved before the one that takes its points.
SavedByHalves(i, q) ==
  LET from == AccountKey(i)
  IN  SaveBinds(binds') \o If(Mergeable(sign[from]), SaveSign([sign EXCEPT ![from] = Drained(@, q)]))
      \o SaveSign(sign')
\* bind_qq_account: the bindings, then all accounts at once.
SavedBind(i, q) == SaveBinds(binds') \o SaveSign(sign')

(* _flush_pending_rewards: the accounts if one is paid, then the list.     *)
PaysOwed(s, g, i) ==
  LET account == AccountKeyIn(identity', binds', i)
  IN  <<g, s>> \in pending /\ AwardReason(SignAfter(s, i)[account], g) = "ok"
\* Defect: the list goes first.
ListFirst(s, g, i) ==
  If(<<g, s>> \in pending, SaveIdentity(identity', pending')) \o If(PaysOwed(s, g, i), SaveSign(sign'))
SavedFlush(s, g, i) ==
  If(PaysOwed(s, g, i), SaveSign(sign')) \o If(<<g, s>> \in pending, SaveIdentity(identity', pending'))

(* _learn_identity, then _merge_legacy_points, which saves only if there   *)
(* were points to move.                                                    *)
SavedLearning(s, i) ==
  If(binds' # binds, SaveBinds(binds')) \o If(Learns(s, i), SaveIdentity(identity', pending))
  \o If(Learns(s, i) /\ Mergeable(sign[s]) /\ sign[s].points > 0, SaveSign(SignAfter(s, i)))

-----------------------------------------------------------------------------
(* A handler of the ledger with its saves; none starts while another is    *)
(* at work.                                                                *)
Saves(saves) ==
  /\ writes = <<>> /\ writes' = saves /\ before' = IF saves = <<>> THEN Now' ELSE Now
  /\ UNCHANGED <<disk, cut, crashes>>

PrivateMessage(s, i) == C2CMessage(s, i) /\ Saves(SavedLearning(s, i))
MessageInGroup(s, g, i) == GroupMessage(s, g, i) /\ Saves(SavedLearning(s, i) \o SavedFlush(s, g, i))
Invited(s, g) ==
  /\ GroupAdd(s, g)
  /\ Saves(IF AccountKey(s) = s THEN If(pending' # pending, SaveIdentity(identity, pending'))
           ELSE If(AwardReason(sign[AccountKey(s)], g) = "ok", SaveSign(sign')))
SignsIn(i) == SignIn(i) /\ Saves(SaveSign(sign'))
Pays(a, cost) == Spend(a, cost) /\ Saves(SaveSign(sign'))
Binds(i, q) == BindQQ(i, q) /\ Saves(SavedBind(i, q))
Unbinds(i) == UnbindQQ(i) /\ Saves(SaveBinds(binds'))

(* open(..., "w") truncates the file.                                      *)
Truncate ==
  /\ writes # <<>> /\ ~cut /\ cut' = TRUE
  /\ disk' = [disk EXCEPT ![Head(writes).file] = Torn]
  /\ UNCHANGED <<vars, writes, crashes, before>>

(* json.dump is through and the file closed.                               *)
Written ==
  /\ cut /\ cut' = FALSE
  /\ disk' = [disk EXCEPT ![Head(writes).file] = Head(writes).content]
  /\ writes' = Tail(writes) /\ before' = IF writes' = <<>> THEN Now ELSE before
  /\ UNCHANGED <<vars, crashes>>

(* The bot is killed and started again.                                    *)
Crash ==
  /\ crashes < MaxCrash /\ crashes' = crashes + 1
  /\ sign' = LoadSign(disk) /\ binds' = LoadBinds(disk)
  /\ identity' = LoadIdentity(disk).map /\ pending' = LoadIdentity(disk).pending
  /\ writes' = <<>> /\ cut' = FALSE /\ before' = Now'
  /\ UNCHANGED <<today, disk>>

StorageNext ==
  \/ \E s \in Scenario, i \in Id : PrivateMessage(s, i)
  \/ \E s \in Scenario, g \in Group, i \in Id : MessageInGroup(s, g, i)
  \/ \E s \in Scenario, g \in Group : Invited(s, g)
  \/ \E i \in Id : SignsIn(i)
  \/ \E a \in Account, cost \in Costs : Pays(a, cost)
  \/ \E i \in Id, q \in QQ : Binds(i, q)
  \/ \E i \in Id : Unbinds(i)
  \/ Truncate \/ Written \/ Crash
StorageSpec == StorageInit /\ [][StorageNext]_storagevars

-----------------------------------------------------------------------------
(* What a restart would find of an account is what there is of it now;     *)
(* only marks that move no points may differ (_merge_legacy_points saves   *)
(* nothing for an empty account).                                          *)
Lasting(u) == <<u.points, u.streak, u.last, u.rewarded, CountToday(u)>>
AccountsKept == \A a \in Account : Lasting(LoadSign(disk)[a]) = Lasting(sign[a])

(* Once a handler is through, and its user has been answered, a restart    *)
(* finds the points, streaks, rewards, bindings, learned openids and what  *)
(* is owed as the handler left them.                                       *)
HandledIsKept ==
  writes = <<>> =>
    /\ AccountsKept
    /\ LoadIdentity(disk) = [map |-> identity, pending |-> pending]
    /\ LoadBinds(disk) = binds

(* A kill in the middle of a handler leaves as many points as there were   *)
(* before it or as there are after it, never some in between and none      *)
(* twice, unless the accounts themselves were being written.               *)
BeforeOrAfter == disk.sign # Torn => PointsIn(disk.sign) \in {PointsIn(before.sign), PointsIn(sign)}

(* What was owed leaves its file only after the accounts it was paid to    *)
(* are on the disk: a kill in between does not lose a reward.              *)
OwedUntilPaid ==
  disk.identity # Torn /\ before.pending \ disk.identity.pending # {} => AccountsKept

(* Once a handler is through a restart finds all it did, and a kill in the *)
(* middle of one makes no points, takes none and loses no reward, as long  *)
(* as it does not hit a file that is being written.                        *)
StorageSafe == StorageTypeOK /\ HandledIsKept /\ BeforeOrAfter /\ OwedUntilPaid
=============================================================================

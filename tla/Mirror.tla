------------------------------- MODULE Mirror -------------------------------
(***************************************************************************)
(* The mirrors of GitHub (napcat-common/src/mirror.ts): a speed test whose *)
(* result is kept and shared, the lookup of a repository's tags, which     *)
(* asks all fast mirrors at once, and the search for an address a file     *)
(* can be downloaded from, which tries them one after the other.  The      *)
(* callers name no mirror of their own and none is configured; one         *)
(* repository is asked for.                                                *)
(***************************************************************************)
EXTENDS Integers, Sequences, FiniteSets

CONSTANTS
  Mirror,    \* the mirrors of the configuration
  Original,  \* github.com itself, the empty string of the code
  Lookup,    \* callers of getAllGitHubTags that may be under way at once
  Download,  \* callers of findAvailableDownloadUrl
  TTL,       \* how long a speed test is good for (MIRROR_CACHE_TTL)
  TagsTTL,   \* how long the tags of a repository are kept (TAGS_CACHE_TTL)
  TestTime,  \* the longest a speed test takes
  None,
  MaxTime    \* bound on the clock

ASSUME MirrorAssumption ==
  /\ TTL \in Nat /\ TagsTTL \in Nat /\ TestTime \in 0..(TTL - 1) /\ MaxTime \in Nat
  /\ Original \notin Mirror /\ None \notin 0..MaxTime

Call == Lookup \cup Download

VARIABLES
  now,
  fast,     \* cachedFastMirrors with cacheTimestamp, or None
  testing,  \* mirrorTestingPromise: when the test under way began, or None
  tags,     \* when the entry of tagsCache was made, or None
  call      \* per caller: what it wants, how far it is, whom it asks, who failed it

mirrorvars == <<now, fast, testing, tags, call>>

Orders(S) == {s \in UNION {[1..n -> S] : n \in 1..Cardinality(S)} : \A i, j \in DOMAIN s : s[i] = s[j] => i = j}
Lists == Orders(Mirror) \cup {<<Original>>}
Members(s) == {s[i] : i \in DOMAIN s}
Idle == [kind |-> None, phase |-> "idle", from |-> <<>>, failed |-> {}, measured |-> 0, began |-> 0]
Done(kind) == [Idle EXCEPT !.kind = kind, !.phase = "done"]

(* Shapes; a list of fast mirrors is never empty.                          *)
MirrorTypeOK ==
  /\ now \in 0..MaxTime
  /\ fast \in {None} \cup [mirrors : Lists, at : 0..MaxTime, measured : 0..MaxTime]
  /\ testing \in {None} \cup 0..MaxTime
  /\ tags \in {None} \cup 0..MaxTime
  /\ call \in [Call -> [kind : {None, "tags", "download"}, phase : {"idle", "testing", "asking", "done", "failed"},
                        from : Lists \cup {<<>>}, failed : SUBSET (Mirror \cup {Original}),
                        measured : 0..MaxTime, began : 0..MaxTime]]

MirrorInit ==
  /\ now = 0 /\ fast = None /\ testing = None /\ tags = None
  /\ call = [c \in Call |-> Idle]

Fresh == fast # None /\ now - fast.at < TTL

Asking(r, mirrors, measured) == [r EXCEPT !.phase = "asking", !.from = mirrors, !.measured = measured]

(* getFastMirrors(forceRefresh): what is kept, the test under way, or a    *)
(* new test.                                                               *)
getFastMirrors(c, kind, force) ==
  LET r == [Idle EXCEPT !.kind = kind, !.began = now] IN
  IF ~force /\ Fresh
  THEN call' = [call EXCEPT ![c] = Asking(r, fast.mirrors, fast.measured)] /\ UNCHANGED testing
  ELSE /\ call' = [call EXCEPT ![c] = [r EXCEPT !.phase = "testing"]]
       /\ testing' = IF testing = None THEN now ELSE testing

getAllGitHubTags(c) ==
  /\ c \in Lookup /\ call[c].phase = "idle"
  /\ IF tags # None /\ now - tags < TagsTTL
     THEN call' = [call EXCEPT ![c] = Done("tags")] /\ UNCHANGED testing
     ELSE getFastMirrors(c, "tags", FALSE)
  /\ UNCHANGED <<now, fast, tags>>

findAvailableDownloadUrl(c) ==
  /\ c \in Download /\ call[c].phase = "idle" /\ getFastMirrors(c, "download", FALSE)
  /\ UNCHANGED <<now, fast, tags>>

StampedAtEnd == now                   \* defect: the age of the list counts from the end of the test
Stamp == testing

NobodyServed(c) == call[c].phase = "testing" /\ call[c].kind = "download"   \* defect: the tags' callers are forgotten
Served(c) == call[c].phase = "testing"

Results == Orders(Mirror) \cup {<<Original>>}

(* performMirrorTest ends, all its HEAD requests answered or timed out:    *)
(* the mirrors that answered, fastest first, or only the original.         *)
performMirrorTest ==
  /\ testing # None
  /\ \E mirrors \in Results :
       /\ fast' = [mirrors |-> mirrors, at |-> Stamp, measured |-> testing]
       /\ call' = [c \in Call |-> IF Served(c) THEN Asking(call[c], mirrors, testing) ELSE call[c]]
  /\ testing' = None
  /\ UNCHANGED <<now, tags>>

(* A mirror answers the request for the tags.  A failed request resolves   *)
(* with null, and Promise.any takes the first promise that resolves.       *)
TagsAnswered(c, m) ==
  /\ call[c].phase = "asking" /\ call[c].kind = "tags" /\ m \in Members(call[c].from) \ call[c].failed
  /\ \/ call' = [call EXCEPT ![c] = Done("tags")] /\ tags' = now
     \/ /\ call' = [call EXCEPT ![c].failed = call[c].failed \cup {m}, ![c].phase = "failed"]
        /\ UNCHANGED tags
  /\ UNCHANGED <<now, fast, testing>>

NoneLeft(r, failed) == {Original} \cup Members(r.from) \subseteq failed

Turn(r, m) ==
  IF m = Original THEN TRUE
  ELSE Original \in r.failed /\ \E i \in DOMAIN r.from : r.from[i] = m /\ \A j \in 1..(i - 1) : r.from[j] \in r.failed

(* The original address is tested first, then the mirrors, fastest first.  *)
AddressTested(c, m) ==
  /\ call[c].phase = "asking" /\ call[c].kind = "download"
  /\ m \in ({Original} \cup Members(call[c].from)) \ call[c].failed
  /\ Turn(call[c], m)
  /\ \/ call' = [call EXCEPT ![c] = Done(call[c].kind)]
     \/ LET failed == call[c].failed \cup {m} IN
        call' = [call EXCEPT ![c].failed = failed, ![c].phase = IF NoneLeft(call[c], failed) THEN "failed" ELSE "asking"]
  /\ UNCHANGED <<now, fast, testing, tags>>

Over(c) ==
  /\ call[c].phase \in {"done", "failed"} /\ call' = [call EXCEPT ![c] = Idle]
  /\ UNCHANGED <<now, fast, testing, tags>>

(* The dashboard changes the mirror: the list is dropped, not the test.    *)
clearMirrorCache == fast' = None /\ UNCHANGED <<now, testing, tags, call>>

MirrorTick ==
  /\ now < MaxTime /\ (testing # None => now < testing + TestTime)
  /\ now' = now + 1 /\ UNCHANGED <<fast, testing, tags, call>>

Step(c) == getAllGitHubTags(c) \/ findAvailableDownloadUrl(c) \/ Over(c)
Answers(c) == \E m \in Mirror \cup {Original} : TagsAnswered(c, m) \/ AddressTested(c, m)
MirrorNext == MirrorTick \/ performMirrorTest \/ clearMirrorCache \/ \E c \in Call : Step(c) \/ Answers(c)
MirrorSpec == MirrorInit /\ [][MirrorNext]_mirrorvars
(* Every request has a time limit, and so has the test.                    *)
MirrorFairSpec == MirrorSpec /\ WF_mirrorvars(performMirrorTest) /\ \A c \in Call : WF_mirrorvars(Answers(c))

----------------------------------------------------------------------------
(* Whoever waits for a speed test waits for one that is under way, even    *)
(* when the list was cleared meanwhile.                                    *)
WaitersHaveATest == \A c \in Call : call[c].phase = "testing" => testing # None

(* The speeds a call goes by were measured less than the TTL before it     *)
(* began, whoever started the test and however long it took.               *)
SpeedsAreRecent ==
  \A c \in Call : call[c].phase = "asking" => call[c].measured > call[c].began - TTL

(* A download is given up only after the original and every fast mirror    *)
(* was tried, and a mirror is tried only after all faster ones failed.     *)
DownloadTriesAll ==
  \A c \in Call : call[c].kind = "download" =>
    /\ call[c].phase = "failed" => call[c].failed = {Original} \cup Members(call[c].from)
    /\ \A i \in DOMAIN call[c].from : call[c].from[i] \in call[c].failed => \A j \in 1..i : call[c].from[j] \in call[c].failed

(* Every lookup and every search ends.                                     *)
LookupsEnd == \A c \in Call : call[c].phase \in {"testing", "asking"} ~> call[c].phase \in {"done", "failed", "idle"}

(* The first successful answer is used (comment above getAllGitHubTags):   *)
(* a lookup fails only when every mirror it asked failed.                  *)
FailsOnlyWhenAllFail ==
  \A c \in Call : call[c].kind = "tags" /\ call[c].phase = "failed" => call[c].failed = Members(call[c].from)

(* Whoever waits has a speed test under way, nobody goes by speeds older   *)
(* than the TTL, and a download is given up only after every address was   *)
(* tried in order.                                                         *)
MirrorSafe == MirrorTypeOK /\ WaitersHaveATest /\ SpeedsAreRecent /\ DownloadTriesAll
============================================================================

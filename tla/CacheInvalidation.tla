------------------------- MODULE CacheInvalidation -------------------------
(***************************************************************************)
(* cache/invalidator.go: invalidation by key, by pattern and by tag, at    *)
(* once or scheduled.  The map of tags is only locked for single reads and *)
(* writes of it, so entries are stored and tagged while an invalidation    *)
(* runs; a tag may cover many keys, which are deleted concurrently, each   *)
(* at both levels of the cache.  Work is a running call: of a client, or   *)
(* of the goroutine of a scheduled job.                                    *)
(***************************************************************************)
EXTENDS Integers, FiniteSets

CONSTANTS CachedKeys, Tags,
          Matching,      \* the keys the pattern in use matches
          Work,          \* calls in flight
          ScheduledJobs  \* identifiers of scheduled jobs

ASSUME InvalidationAssumption == Matching \subseteq CachedKeys

VARIABLES level,       \* level -> keys it holds
          taggedKeys,  \* tag -> keys
          scheduled,   \* job -> what it will invalidate, or NoJob
          work,        \* Work -> the call
          processor    \* the goroutine of the ticker: "running" or "stopped"

invalidationVars == <<level, taggedKeys, scheduled, work, processor>>

CacheLevels == {"L1", "L2"}

NoTarget == [op |-> "none", keys |-> {}, tags |-> {}]

\* todo: keys not yet dealt with; dels: those not yet deleted; failed: keys with a
\* deletion that failed; during: keys stored or tagged since the call began (history).
NoWork == [op |-> "none", tags |-> {}, todo |-> {}, dels |-> {}, failed |-> {}, during |-> {}, job |-> {}]

InvalidationInit ==
    /\ level = [l \in CacheLevels |-> {}]
    /\ taggedKeys = [t \in Tags |-> {}]
    /\ scheduled = [j \in ScheduledJobs |-> NoTarget]
    /\ work = [w \in Work |-> NoWork]
    /\ processor = "running"

\* The calls that may still take tags from the key.
Concerned(k) == {w \in Work : work[w].op = "tags" \/ k \in work[w].todo}

Touched(k) == work' = [w \in Work |-> IF w \in Concerned(k) THEN [work[w] EXCEPT !.during = @ \cup {k}]
                                      ELSE work[w]]

-----------------------------------------------------------------------------
(* The application.                                                        *)

\* Only what is held where matters: storing or tagging again changes nothing.
StoreEntry(k) ==
    /\ \E l \in CacheLevels : k \notin level[l]
    /\ level' = [l \in CacheLevels |-> level[l] \cup {k}]
    /\ Touched(k)
    /\ UNCHANGED <<taggedKeys, scheduled, processor>>

TagKey(k, tags) ==
    /\ \E t \in tags : k \notin taggedKeys[t]
    /\ taggedKeys' = [t \in Tags |-> IF t \in tags THEN taggedKeys[t] \cup {k} ELSE taggedKeys[t]]
    /\ Touched(k)
    /\ UNCHANGED <<level, scheduled, processor>>

-----------------------------------------------------------------------------
(* Invalidation.                                                           *)

\* keys: what the call is to delete at both levels.  A call by tags that maps them to no
\* key returns without dropping them.
BeginWork(w, op, tags, keys, job) ==
    /\ work[w].op = "none"
    /\ work' = [work EXCEPT ![w] = [NoWork EXCEPT !.op = op, !.tags = tags, !.todo = keys,
                                                  !.dels = keys, !.job = job]]

Mapped(tags) == UNION {taggedKeys[t] : t \in tags}

StartInvalidation(w, target, job) ==
    CASE target.op = "key" -> BeginWork(w, "key", {}, target.keys, job)
      [] target.op = "pattern" -> BeginWork(w, "pattern", {}, {}, job)
      [] target.op = "tags" /\ Mapped(target.tags) # {} ->
             BeginWork(w, "tags", target.tags, Mapped(target.tags), job)
      [] OTHER -> BeginWork(w, "key", {}, {}, job)

Targets == {[NoTarget EXCEPT !.op = "key", !.keys = {k}] : k \in CachedKeys}
           \cup {[NoTarget EXCEPT !.op = "pattern"]}
           \cup {[NoTarget EXCEPT !.op = "tags", !.tags = ts] : ts \in SUBSET Tags \ {{}}}

InvalidateKey(w) == \E x \in Targets : x.op = "key" /\ StartInvalidation(w, x, {}) /\ UNCHANGED <<level, taggedKeys, scheduled, processor>>
InvalidateByPattern(w) == \E x \in Targets : x.op = "pattern" /\ StartInvalidation(w, x, {}) /\ UNCHANGED <<level, taggedKeys, scheduled, processor>>
InvalidateByTags(w) == \E x \in Targets : x.op = "tags" /\ StartInvalidation(w, x, {}) /\ UNCHANGED <<level, taggedKeys, scheduled, processor>>

\* The two goroutines of a key, in one step: nothing here depends on what happens between
\* them.  A missing key is no error, and only Redis fails.
DeleteFromLevels(w) == \E k \in work[w].dels, ok \in BOOLEAN :
    /\ level' = [l \in CacheLevels |-> IF l = "L1" \/ ok THEN level[l] \ {k} ELSE level[l]]
    /\ work' = [work EXCEPT ![w].dels = @ \ {k}, ![w].failed = IF ok THEN @ ELSE @ \cup {k}]
    /\ UNCHANGED <<taggedKeys, scheduled, processor>>

\* A key whose deletions all succeeded loses its tags; one that failed keeps them.
removeKeyFromTags(w) == \E k \in work[w].todo \ work[w].dels :
    /\ taggedKeys' = IF k \in work[w].failed THEN taggedKeys ELSE [t \in Tags |-> taggedKeys[t] \ {k}]
    /\ LET done == IF work[w].op = "key" THEN {k} ELSE {} IN
       work' = [work EXCEPT ![w].todo = @ \ {k}, ![w].failed = @ \ done, ![w].during = @ \ done]
    /\ UNCHANGED <<level, scheduled, processor>>

\* The pattern is matched in Redis only.
DeleteMatching(w) == \E ok \in BOOLEAN :
    /\ work[w].op = "pattern"
    /\ level' = IF ok THEN [level EXCEPT !["L2"] = @ \ Matching] ELSE level
    /\ work' = [work EXCEPT ![w].op = "key"]
    /\ UNCHANGED <<taggedKeys, scheduled, processor>>

\* Faulty variant: the tags are dropped before their keys are deleted.
CleanUpTagsEarly(w) ==
    /\ work[w].op = "tags"
    /\ taggedKeys' = [t \in Tags |-> IF t \in work[w].tags THEN {} ELSE taggedKeys[t]]
    /\ work' = [work EXCEPT ![w].op = "key"]
    /\ UNCHANGED <<level, scheduled, processor>>

\* All goroutines are done: the tags are dropped, with whatever they map to by now.
CleanUpTags(w) ==
    /\ work[w].op = "tags" /\ work[w].todo = {}
    /\ taggedKeys' = [t \in Tags |-> IF t \in work[w].tags THEN {} ELSE taggedKeys[t]]
    /\ work' = [work EXCEPT ![w] = [NoWork EXCEPT !.op = "key", !.job = work[w].job]]
    /\ UNCHANGED <<level, scheduled, processor>>

\* The call returns; a scheduled job is removed whether or not it succeeded.
EndWork(w) ==
    /\ work[w].op = "key" /\ work[w].todo = {}
    /\ work' = [work EXCEPT ![w] = NoWork]
    /\ scheduled' = [j \in ScheduledJobs |-> IF j \in work[w].job THEN NoTarget ELSE scheduled[j]]
    /\ UNCHANGED <<level, taggedKeys, processor>>

-----------------------------------------------------------------------------
(* Scheduled invalidation.                                                 *)

Schedule(j, op) ==
    /\ processor = "running"
    /\ scheduled[j] = NoTarget /\ \A w \in Work : j \notin work[w].job   \* identifiers are new
    /\ \E x \in Targets : x.op = op /\ scheduled' = [scheduled EXCEPT ![j] = x]
    /\ UNCHANGED <<level, taggedKeys, work, processor>>

ScheduleInvalidation(j) == Schedule(j, "key")
SchedulePatternInvalidation(j) == Schedule(j, "pattern")
ScheduleTagInvalidation(j) == Schedule(j, "tags")

\* A tick starts every job whose delay is over, however long that is, also one an earlier
\* tick has started and whose goroutine has not ended.
processScheduledInvalidations(w, j) ==
    /\ processor = "running" /\ scheduled[j] # NoTarget
    /\ StartInvalidation(w, scheduled[j], {j})
    /\ UNCHANGED <<level, taggedKeys, scheduled, processor>>

ClearScheduledInvalidations ==
    /\ \E j \in ScheduledJobs : scheduled[j] # NoTarget
    /\ scheduled' = [j \in ScheduledJobs |-> NoTarget]
    /\ UNCHANGED <<level, taggedKeys, work, processor>>

\* Nothing starts what is scheduled at or after the stop, so it is left out; the
\* goroutines that run go on.
StopInvalidator ==
    /\ processor' = "stopped"
    /\ scheduled' = [j \in ScheduledJobs |-> NoTarget]
    /\ UNCHANGED <<level, taggedKeys, work>>

InvalidationNext ==
    \/ \E k \in CachedKeys : StoreEntry(k) \/ \E ts \in SUBSET Tags : TagKey(k, ts)
    \/ \E w \in Work :
         \/ InvalidateKey(w) \/ InvalidateByPattern(w) \/ InvalidateByTags(w)
         \/ DeleteFromLevels(w) \/ removeKeyFromTags(w) \/ DeleteMatching(w) \/ CleanUpTags(w) \/ EndWork(w)
         \/ \E j \in ScheduledJobs : processScheduledInvalidations(w, j)
    \/ \E j \in ScheduledJobs :
         \/ ScheduleInvalidation(j) \/ SchedulePatternInvalidation(j) \/ ScheduleTagInvalidation(j)
    \/ ClearScheduledInvalidations \/ StopInvalidator

InvalidationSpec == InvalidationInit /\ [][InvalidationNext]_invalidationVars

-----------------------------------------------------------------------------
(* Properties.                                                             *)

Cached(k) == \E l \in CacheLevels : k \in level[l]

\* UntaggedOnlyByOverlap: an entry that is in the cache loses a tag, and with it every
\* later invalidation by that tag, only to a call during which it was stored or tagged,
\* or one of whose deletions failed; calls for other keys, for other tags, and jobs
\* that are started twice leave it alone (InvalidateByTags, removeKeyFromTags).
UntaggedOnlyByOverlap == [][\A k \in CachedKeys, t \in Tags :
    k \in taggedKeys[t] \ taggedKeys'[t] /\ Cached(k) =>
        \E w \in Work : work'[w] # work[w] /\ k \in work[w].during \cup work[w].failed]_invalidationVars
=============================================================================

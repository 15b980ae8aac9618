---------------------------- MODULE CacheManager ----------------------------
(***************************************************************************)
(* The two-level cache: CacheManagerImpl (manager.go) over BigCache (L1)   *)
(* and Redis (L2), or the SimpleCacheManager of server.go on Redis alone   *)
(* when the first cannot be built.  Keys do not interact, so the model has *)
(* one.  A Get of either level stores the entry again to update its        *)
(* statistics, in a step of its own; a hit in L2 starts a goroutine that   *)
(* fills L1; Set and Delete write both levels in parallel.  Only the       *)
(* write-through strategy is modelled, the only one the service selects.   *)
(***************************************************************************)
EXTENDS Integers, FiniteSets, SequencesExt

CONSTANTS Values, Clients, None,
          TTL,          \* lifetime of a Set, in ticks
          DefaultTTL,   \* lifetime of a fill of L1
          Latency,      \* may time pass inside a Get of Redis?
          RedisErrors,  \* may Redis fail?
          MaxFills      \* bound on fills in flight

\* age: since CreatedAt; px: what Redis has left; born: since the Set it comes from.
Entries == [value : Values, age : Nat, ttl : Nat, px : Int, born : Nat]

ASSUME CacheAssumption ==
    /\ TTL \in Nat \ {0} /\ DefaultTTL \in Nat \ {0} /\ MaxFills \in Nat
    /\ Latency \in BOOLEAN /\ RedisErrors \in BOOLEAN
    /\ None \notin Entries

VARIABLES mode,    \* "multi" or "simple"
          l1, l2,  \* None or an entry
          fills,   \* what goroutines are about to store in L1
          torn,    \* the last write overlapped another operation or failed
          op       \* Clients -> the operation under way

cacheVars == <<mode, l1, l2, fills, torn, op>>

Never == -1

NewEntry(v, ttl) == [value |-> v, age |-> 0, ttl |-> ttl, px |-> ttl, born |-> 0]

NoOp == [kind |-> "none", value |-> None, todo |-> {}, got |-> None, alone |-> TRUE, ok |-> TRUE]

Busy(c) == op[c].kind # "none"

Filling == fills # <<>>

CacheInit ==
    /\ mode \in {"multi", "simple"}
    /\ l1 = None /\ l2 = None
    /\ fills = <<>>
    /\ torn = FALSE
    /\ op = [c \in Clients |-> NoOp]

-----------------------------------------------------------------------------
(* Operations begin and end.                                               *)

Begin(c, kind, value, todo) ==
    /\ ~Busy(c)
    /\ LET others == {d \in Clients \ {c} : Busy(d)}
       IN op' = [d \in Clients |->
               IF d = c THEN [NoOp EXCEPT !.kind = kind, !.value = value, !.todo = todo,
                                          !.alone = (others = {} /\ ~Filling)]
               ELSE IF d \in others THEN [op[d] EXCEPT !.alone = FALSE] ELSE op[d]]
    /\ UNCHANGED <<mode, l1, l2, fills, torn>>

Levels == IF mode = "multi" THEN {"l1", "l2"} ELSE {"l2"}

Get(c) == mode = "multi" /\ Begin(c, "get", None, {"l1"})
SimpleGet(c) == mode = "simple" /\ Begin(c, "get", None, {"l2"})
Set(c) == \E v \in Values : mode = "multi" /\ Begin(c, "set", v, Levels)
SimpleSet(c) == \E v \in Values : mode = "simple" /\ Begin(c, "set", v, Levels)
Delete(c) == mode = "multi" /\ Begin(c, "delete", None, Levels)
SimpleDelete(c) == mode = "simple" /\ Begin(c, "delete", None, Levels)
Clear(c) == mode = "multi" /\ Begin(c, "clear", None, Levels)
SimpleClear(c) == mode = "simple" /\ Begin(c, "flush", None, Levels)
InvalidatePattern(c) == Begin(c, "pattern", None, {"l2"})
WarmKey(c) == mode = "multi" /\ Begin(c, "warm", None, {"l1"})

\* SCAN finds the key only while Redis holds it.
WarmPattern(c) == l2 # None /\ WarmKey(c)

\* The goroutine of level l is done.
DoneWith(c, l) == op' = [op EXCEPT ![c].todo = @ \ {l}]

\* All goroutines have reported.  A write alone on the key and without error
\* makes the levels agree; any other leaves them as they may be.
Return(c) ==
    /\ Busy(c) /\ op[c].todo = {} /\ op[c].got = None
    /\ op' = [op EXCEPT ![c] = NoOp]
    /\ torn' = IF op[c].kind \in {"set", "delete", "clear", "flush"} THEN ~(op[c].alone /\ op[c].ok) ELSE torn
    /\ UNCHANGED <<mode, l1, l2, fills>>

-----------------------------------------------------------------------------
(* BigCache.                                                               *)

L1Live == l1 # None /\ l1.age <= l1.ttl

\* Faulty variant: a read would restart the lifetime of the entry.
L1RestoreRenews(c) ==
    /\ op[c].kind = "get" /\ op[c].got # None /\ op[c].todo = {"l1"}
    /\ l1' = [op[c].got EXCEPT !.age = 0]
    /\ op' = [op EXCEPT ![c].got = None, ![c].todo = {}]
    /\ UNCHANGED <<mode, l2, fills, torn>>

\* Faulty variant: Set would not replace a live entry.
L1SetIfAbsent(c) ==
    /\ op[c].kind = "set" /\ "l1" \in op[c].todo
    /\ l1' = IF L1Live THEN l1 ELSE NewEntry(op[c].value, TTL)
    /\ DoneWith(c, "l1")
    /\ UNCHANGED <<mode, l2, fills, torn>>

\* Faulty variant: Delete would leave L1 alone.
L1DeleteNothing(c) ==
    /\ op[c].kind \in {"delete", "clear"} /\ "l1" \in op[c].todo
    /\ DoneWith(c, "l1")
    /\ UNCHANGED <<mode, l1, l2, fills, torn>>

\* Get finds a live entry and keeps a copy, or removes an expired one and
\* turns to L2.
L1Get(c) ==
    /\ op[c].kind = "get" /\ op[c].todo = {"l1"} /\ op[c].got = None
    /\ IF L1Live THEN op' = [op EXCEPT ![c].got = l1] /\ UNCHANGED l1
       ELSE op' = [op EXCEPT ![c].todo = {"l2"}] /\ l1' = None
    /\ UNCHANGED <<mode, l2, fills, torn>>

\* ... and stores the copy again.
L1Restore(c) ==
    /\ op[c].kind = "get" /\ op[c].got # None /\ op[c].todo = {"l1"}
    /\ l1' = op[c].got
    /\ op' = [op EXCEPT ![c].got = None, ![c].todo = {}]
    /\ UNCHANGED <<mode, l2, fills, torn>>

L1Set(c) ==
    /\ op[c].kind = "set" /\ "l1" \in op[c].todo
    /\ l1' = NewEntry(op[c].value, TTL)
    /\ DoneWith(c, "l1")
    /\ UNCHANGED <<mode, l2, fills, torn>>

L1Delete(c) ==
    /\ op[c].kind \in {"delete", "clear"} /\ "l1" \in op[c].todo
    /\ l1' = None
    /\ DoneWith(c, "l1")
    /\ UNCHANGED <<mode, l2, fills, torn>>

\* warmSingleKey looks at L1, expired entries included, and then at L2.
L1Exists(c) ==
    /\ op[c].kind = "warm" /\ op[c].todo = {"l1"}
    /\ op' = [op EXCEPT ![c].todo = IF l1 # None THEN {} ELSE {"l2"}]
    /\ UNCHANGED <<mode, l1, l2, fills, torn>>

L1Evicts == l1 # None /\ l1' = None /\ UNCHANGED <<mode, l2, fills, torn, op>>

-----------------------------------------------------------------------------
(* Redis.                                                                  *)

L2Get(c) ==
    /\ op[c].kind \in {"get", "warm"} /\ op[c].todo = {"l2"} /\ op[c].got = None
    /\ op' = [op EXCEPT ![c] = IF l2 = None \/ mode = "simple" THEN [@ EXCEPT !.todo = {}]
                               ELSE [@ EXCEPT !.got = l2]]
    /\ UNCHANGED <<mode, l1, l2, fills, torn>>

\* Get stores the entry again with the time it has left; a duration that is
\* not positive sets no expiry.
Left(e) == IF e.age < e.ttl THEN e.ttl - e.age ELSE Never

\* ... and the hit starts the fill of L1; the warmer fills it itself.
L2Restore(c) ==
    /\ op[c].got # None /\ op[c].todo = {"l2"}
    /\ l2' = [op[c].got EXCEPT !.px = Left(op[c].got)]
    /\ IF op[c].kind = "get"
       THEN /\ Len(fills) < MaxFills
            /\ fills' = Append(fills, op[c].got)
            /\ op' = [op EXCEPT ![c].got = None, ![c].todo = {}]
       ELSE fills' = fills /\ op' = [op EXCEPT ![c].todo = {"fill"}]
    /\ UNCHANGED <<mode, l1, torn>>

FillOf(e) == [NewEntry(e.value, DefaultTTL) EXCEPT !.born = e.born]

WarmFill(c) ==
    /\ op[c].kind = "warm" /\ op[c].todo = {"fill"}
    /\ l1' = FillOf(op[c].got)
    /\ op' = [op EXCEPT ![c].todo = {}, ![c].got = None]
    /\ UNCHANGED <<mode, l2, fills, torn>>

\* The goroutine started by a Get stores what that Get returned, however old
\* it is by now.
Fill(i) ==
    /\ l1' = FillOf(fills[i])
    /\ fills' = RemoveAt(fills, i)
    /\ UNCHANGED <<mode, l2, torn, op>>

L2Set(c) ==
    /\ op[c].kind = "set" /\ "l2" \in op[c].todo
    /\ l2' = NewEntry(op[c].value, TTL)
    /\ DoneWith(c, "l2")
    /\ UNCHANGED <<mode, l1, fills, torn>>

L2Delete(c) ==
    /\ op[c].kind \in {"delete", "flush"} /\ "l2" \in op[c].todo
    /\ l2' = None
    /\ DoneWith(c, "l2")
    /\ UNCHANGED <<mode, l1, fills, torn>>

\* Clear and DeletePattern: SCAN collects the keys ...
L2Scan(c) ==
    /\ op[c].kind \in {"clear", "pattern"} /\ "l2" \in op[c].todo
    /\ op' = [op EXCEPT ![c].todo = (@ \ {"l2"}) \cup IF l2 # None THEN {"del"} ELSE {}]
    /\ UNCHANGED <<mode, l1, l2, fills, torn>>

\* ... and DEL removes them.
L2DeleteScanned(c) ==
    /\ "del" \in op[c].todo
    /\ l2' = None
    /\ DoneWith(c, "del")
    /\ UNCHANGED <<mode, l1, fills, torn>>

\* An error of Redis: that part of the operation has no effect.
L2Fails(c) ==
    /\ RedisErrors
    /\ op[c].todo \cap {"l2", "del"} # {}
    /\ op' = [op EXCEPT ![c].todo = @ \ {"l2", "del"}, ![c].ok = FALSE, ![c].got = None]
    /\ UNCHANGED <<mode, l1, l2, fills, torn>>

-----------------------------------------------------------------------------

Older(e) == IF e = None THEN None ELSE [e EXCEPT !.age = IF @ > TTL + DefaultTTL THEN @ ELSE @ + 1,
                                                 !.born = IF @ > TTL + DefaultTTL THEN @ ELSE @ + 1]

\* Redis drops an entry whose expiry has come.
RedisOlder(e) ==
    IF e = None \/ e.px = 1 THEN None
    ELSE [Older(e) EXCEPT !.px = IF @ = Never THEN Never ELSE @ - 1]

CacheTick ==
    /\ Latency \/ (~Filling /\ \A c \in Clients : op[c].got = None)
    /\ l1' = Older(l1) /\ l2' = RedisOlder(l2)
    /\ op' = [c \in Clients |-> [op[c] EXCEPT !.got = Older(@)]]
    /\ fills' = [i \in DOMAIN fills |-> Older(fills[i])]
    /\ UNCHANGED <<mode, torn>>

CacheNext ==
    \/ \E c \in Clients :
          \/ Get(c) \/ SimpleGet(c) \/ Set(c) \/ SimpleSet(c) \/ Delete(c) \/ SimpleDelete(c)
          \/ Clear(c) \/ SimpleClear(c) \/ InvalidatePattern(c) \/ WarmKey(c) \/ WarmPattern(c) \/ Return(c)
          \/ L1Get(c) \/ L1Restore(c) \/ L1Set(c) \/ L1Delete(c) \/ L1Exists(c)
          \/ L2Get(c) \/ L2Restore(c) \/ WarmFill(c) \/ L2Set(c) \/ L2Delete(c)
          \/ L2Scan(c) \/ L2DeleteScanned(c) \/ L2Fails(c)
    \/ \E i \in DOMAIN fills : Fill(i)
    \/ L1Evicts
    \/ CacheTick

CacheSpec == CacheInit /\ [][CacheNext]_cacheVars

-----------------------------------------------------------------------------
(* Properties.                                                             *)

Quiet == ~Filling /\ \A c \in Clients : ~Busy(c)

\* When nothing is under way, and no operation overlapped another or failed
\* since the last write, the two levels hold the same value: only an overlap
\* of a Get's second store, of a fill or of a second writer, or an error, can
\* leave an old value in L1 or L2 after a Set or a Delete has returned.
LevelsAgree ==
    Quiet /\ ~torn /\ L1Live /\ l2 # None => l1.value = l2.value

\* A Delete or a Clear that nothing overlaps and that answers success leaves
\* the key in neither level.
DeleteIsFinal ==
    [][\A c \in Clients :
         op[c].kind \in {"delete", "clear", "flush"} /\ op[c].todo = {} /\ op[c].alone /\ op[c].ok
         /\ op'[c].kind = "none" => l1' = None /\ l2' = None]_cacheVars

\* No value is served later than the lifetime it was stored with plus the
\* lifetime of a fill of L1: the copy in L1 gets a lifetime of its own, and a
\* read may not prolong either.
ServedAgeBounded ==
    /\ L1Live => l1.born <= TTL + DefaultTTL
    /\ l2 # None => l2.born <= TTL

=============================================================================

---------------------------- MODULE RedisProofs ----------------------------
(***************************************************************************)
(* Proofs about what the service keeps in Redis and beside it: the levels  *)
(* of the cache agree and serve nothing that is too old (CacheManager),    *)
(* tags are only lost to overlapping calls (CacheInvalidation), and the    *)
(* lock of an account bounds the passwords that can be tried               *)
(* (Authentication).                                                       *)
(***************************************************************************)
EXTENDS Authentication, CacheManager, CacheInvalidation, FiniteSetTheorems, SequenceTheorems, TLAPS

-----------------------------------------------------------------------------
(* The two levels of the cache.                                            *)

Writers == {"set", "delete", "clear", "flush"}
Places  == {"l1", "l2", "del", "fill"}
OpStates ==
    [kind : Writers \cup {"none", "get", "pattern", "warm"}, value : Values \cup {None}, todo : SUBSET Places,
     got : Entries \cup {None}, alone : BOOLEAN, ok : BOOLEAN]

Nothing(o) == o.todo = {} /\ o.got = None

\* An operation that is not under way holds nothing; only a Get or the warmer keeps a copy.
OpShape(o) ==
    /\ o \in OpStates
    /\ o.kind = "none" => Nothing(o)
    /\ o.kind = "set" => o.value \in Values
    /\ o.got # None => /\ o.kind \in {"get", "warm"}
                       /\ o.kind = "get" => o.todo \in {{"l1"}, {"l2"}}
                       /\ o.kind = "warm" => o.todo \in {{"l2"}, {"fill"}}
    /\ "fill" \in o.todo => o.kind = "warm" /\ o.got # None /\ o.todo = {"fill"}

\* Nothing reaches L1 (a) through the SimpleCacheManager.  A write that nothing overlaps
\* finds no fill pending, and the levels a and b it is done with hold what it wrote.
OpInv(o, a, b, fs, m) ==
    /\ OpShape(o)
    /\ m = "simple" => o.got = None /\ o.todo \subseteq {"l2", "del"}
    /\ o.alone /\ o.kind \in Writers =>
          /\ fs = << >>
          /\ "l1" \notin o.todo => a = None \/ (o.kind = "set" /\ a.value = o.value)
          /\ o.todo \cap {"l2", "del"} = {} /\ o.ok => b = None \/ (o.kind = "set" /\ b.value = o.value)

Is(e, v) == e = None \/ e.value = v

\* All copies of the entry have the value v.
Same(v) ==
    /\ Is(l1, v) /\ Is(l2, v)
    /\ \A i \in DOMAIN fills : fills[i].value = v
    /\ \A c \in Clients : Is(op[c].got, v)

CacheShape ==
    /\ mode \in {"multi", "simple"} /\ torn \in BOOLEAN
    /\ l1 \in Entries \cup {None} /\ l2 \in Entries \cup {None}
    /\ fills \in Seq(Entries)
    /\ mode = "simple" => l1 = None /\ fills = << >>
    /\ op \in [Clients -> OpStates]

CacheInv ==
    /\ CacheShape
    /\ \A c \in Clients : OpInv(op[c], l1, l2, fills, mode)
    /\ \A c, d \in Clients : c # d /\ Busy(c) /\ Busy(d) => ~op[c].alone
    /\ ~torn /\ (\A c \in Clients : op[c].kind \notin Writers) => \E v \in Values \cup {None} : Same(v)

-----------------------------------------------------------------------------
\* A new entry (createEntry), and a fill of L1 from one of L2.
LEMMA EntryFacts ==
    /\ \A v \in Values, t \in Nat : /\ NewEntry(v, t) \in Entries /\ NewEntry(v, t).value = v /\ NewEntry(v, t).age = 0
                                    /\ NewEntry(v, t).born = 0 /\ NewEntry(v, t).ttl = t /\ NewEntry(v, t).px = t
    /\ \A e \in Entries : /\ FillOf(e) \in Entries /\ FillOf(e).value = e.value /\ FillOf(e).age = 0
                          /\ FillOf(e).ttl = DefaultTTL /\ FillOf(e).born = e.born
<1>1. ASSUME NEW v \in Values, NEW t \in Nat
      PROVE  /\ NewEntry(v, t) \in Entries /\ NewEntry(v, t).value = v /\ NewEntry(v, t).age = 0
             /\ NewEntry(v, t).born = 0 /\ NewEntry(v, t).ttl = t /\ NewEntry(v, t).px = t
  BY DEF NewEntry, Entries
<1>2. ASSUME NEW e \in Entries
      PROVE  /\ FillOf(e) \in Entries /\ FillOf(e).value = e.value /\ FillOf(e).age = 0
             /\ FillOf(e).ttl = DefaultTTL /\ FillOf(e).born = e.born
  <2> DEFINE n == NewEntry(e.value, DefaultTTL)
  <2>1. e.value \in Values /\ e.born \in Nat /\ DefaultTTL \in Nat
    BY CacheAssumption DEF Entries
  <2>2. n \in Entries /\ n.value = e.value /\ n.age = 0 /\ n.ttl = DefaultTTL
    BY <1>1, <2>1
  <2>3. FillOf(e) = [n EXCEPT !.born = e.born]
    BY DEF FillOf
  <2> HIDE DEF n
  <2> QED BY <2>1, <2>2, <2>3 DEF Entries
<1> QED BY <1>1, <1>2

\* Time makes an entry older, or ends it in Redis; its value stays.
LEMMA OlderFacts ==
    /\ \A e \in Entries : Older(e) \in Entries /\ Older(e).value = e.value /\ Older(e) # None
    /\ Older(None) = None
    /\ \A e \in Entries \cup {None} : /\ RedisOlder(e) \in Entries \cup {None}
                                      /\ RedisOlder(e) # None => e # None /\ RedisOlder(e).value = e.value
<1> DEFINE up(n) == IF n > TTL + DefaultTTL THEN n ELSE n + 1
<1>0. \A n \in Nat : up(n) \in Nat
  BY CacheAssumption
<1>1. ASSUME NEW e \in Entries, e # None
      PROVE  Older(e) \in Entries /\ Older(e).value = e.value
  <2> DEFINE f == [e EXCEPT !.age = up(e.age)]
             g == [f EXCEPT !.born = up(e.born)]
  <2>1. e.age \in Nat /\ e.born \in Nat
    BY DEF Entries
  <2>2. up(e.age) \in Nat /\ up(e.born) \in Nat
    BY <1>0, <2>1
  <2>3. Older(e) = g
    BY <1>1 DEF Older
  <2> HIDE DEF up
  <2>4. f \in Entries /\ f.value = e.value
    BY <2>2 DEF Entries
  <2> HIDE DEF f
  <2>5. g \in Entries /\ g.value = e.value
    BY <2>2, <2>4 DEF Entries
  <2> QED BY <2>3, <2>5
<1>2. Older(None) = None
  BY DEF Older
<1>3. ASSUME NEW e \in Entries, RedisOlder(e) # None
      PROVE  e # None /\ RedisOlder(e) \in Entries /\ RedisOlder(e).value = e.value
  <2> DEFINE f == Older(e)
             x == IF f.px = Never THEN Never ELSE f.px - 1
  <2>1. e # None /\ RedisOlder(e) = [f EXCEPT !.px = x]
    BY <1>3 DEF RedisOlder
  <2>2. f \in Entries /\ f.value = e.value
    BY <1>1, <2>1
  <2> HIDE DEF f
  <2>3. x \in Int
    BY <2>2 DEF Entries, Never
  <2> HIDE DEF x
  <2> QED BY <2>1, <2>2, <2>3 DEF Entries
<1>4. RedisOlder(None) = None
  BY DEF RedisOlder
<1> QED BY <1>1, <1>2, <1>3, <1>4, CacheAssumption

-----------------------------------------------------------------------------
\* A step of the operation of client c, whose record becomes n: what it must respect for
\* the invariant to hold.  The other operations are then not alone, and no claim is made
\* of them.
LEMMA ActorStep ==
    ASSUME CacheInv, NEW c \in Clients, NEW n, Busy(c), op' = [op EXCEPT ![c] = n],
           n.kind = op[c].kind, n.alone = op[c].alone, UNCHANGED <<mode, torn>>,
           l1' \in Entries \cup {None}, l2' \in Entries \cup {None}, fills' \in Seq(Entries),
           mode = "simple" => l1' = None /\ fills' = << >>,
           OpInv(n, l1', l2', fills', mode),
           op[c].kind \notin Writers =>
               \A v \in Values \cup {None} : Same(v) =>
                   Is(l1', v) /\ Is(l2', v) /\ Is(n.got, v) /\ \A i \in DOMAIN fills' : fills'[i].value = v
    PROVE  CacheInv'
<1>1. n \in OpStates
  BY DEF OpInv, OpShape
<1>2. op \in [Clients -> OpStates]
  BY DEF CacheInv, CacheShape
<1>3. op' \in [Clients -> OpStates] /\ op'[c] = n /\ \A d \in Clients \ {c} : op'[d] = op[d]
  BY <1>1, <1>2
<1>4. CacheShape'
  BY <1>3 DEF CacheInv, CacheShape
<1>5. ASSUME NEW d \in Clients
      PROVE  OpInv(op'[d], l1', l2', fills', mode')
  <2>1. CASE d = c
    BY <1>3, <2>1
  <2>2. CASE d # c
    <3>1. op'[d] = op[d] /\ OpInv(op[d], l1, l2, fills, mode)
      BY <1>3, <2>2 DEF CacheInv
    <3>2. ~(op[d].alone /\ op[d].kind \in Writers)
      BY <2>2 DEF CacheInv, Busy, Writers
    <3> QED BY <3>1, <3>2 DEF OpInv
  <2> QED BY <2>1, <2>2
<1>6. ASSUME NEW d \in Clients, NEW e \in Clients, d # e, Busy(d)', Busy(e)'
      PROVE  ~op'[d].alone
  <2>1. op'[d].alone = op[d].alone /\ (Busy(d)' => Busy(d)) /\ (Busy(e)' => Busy(e))
    BY <1>3 DEF Busy
  <2> QED BY <1>6, <2>1 DEF CacheInv
<1>7. ASSUME ~torn', \A d \in Clients : op'[d].kind \notin Writers
      PROVE  \E v \in Values \cup {None} : Same(v)'
  <2>1. ~torn /\ \A d \in Clients : op[d].kind \notin Writers
    BY <1>3, <1>7
  <2>2. PICK v \in Values \cup {None} : Same(v)
    BY <2>1 DEF CacheInv
  <2>3. Is(l1', v) /\ Is(l2', v) /\ Is(n.got, v) /\ \A i \in DOMAIN fills' : fills'[i].value = v
    BY <2>1, <2>2
  <2>4. \A d \in Clients : Is(op'[d].got, v)
    BY <1>3, <2>2, <2>3 DEF Same
  <2> QED BY <2>3, <2>4 DEF Same
<1> QED BY <1>4, <1>5, <1>6, <1>7 DEF CacheInv

\* What the invariant says of the client of a step.
LEMMA OpFacts ==
    ASSUME CacheInv, NEW c \in Clients
    PROVE  /\ OpInv(op[c], l1, l2, fills, mode) /\ op[c] \in OpStates
           /\ l1 \in Entries \cup {None} /\ l2 \in Entries \cup {None} /\ fills \in Seq(Entries)
           /\ op[c].todo # {} \/ op[c].got # None => Busy(c)
           /\ mode = "simple" => l1 = None /\ fills = << >>
BY DEF CacheInv, CacheShape, OpInv, OpShape, Busy, Nothing

\* Get of L1.
LEMMA L1GetKeeps ==
    ASSUME CacheInv, NEW c \in Clients, L1Get(c) PROVE CacheInv'
<1> DEFINE n == IF L1Live THEN [op[c] EXCEPT !.got = l1] ELSE [op[c] EXCEPT !.todo = {"l2"}]
<1>1. Busy(c) /\ op[c].kind = "get" /\ op[c].todo = {"l1"} /\ op[c].got = None
  BY OpFacts DEF L1Get
<1>2. op' = [op EXCEPT ![c] = n]
  BY DEF L1Get
<1>3. n \in OpStates /\ n.kind = "get" /\ n.alone = op[c].alone /\ (n.got # None => n.todo \in {{"l1"}, {"l2"}})
      /\ n.got \in {None, l1} /\ n.todo \in {{"l1"}, {"l2"}}
  BY <1>1, OpFacts DEF OpStates, Places
<1>4. mode # "simple"
  BY <1>1, OpFacts DEF OpInv
<1>5. (l1' = l1 \/ l1' = None) /\ UNCHANGED <<mode, l2, fills, torn>>
  BY DEF L1Get
<1> HIDE DEF n
<1>6. OpInv(n, l1', l2', fills', mode)
  BY <1>3, <1>4 DEF OpInv, OpShape, Writers
<1>7. \A v \in Values \cup {None} : Same(v) =>
          Is(l1', v) /\ Is(l2', v) /\ Is(n.got, v) /\ \A i \in DOMAIN fills' : fills'[i].value = v
  BY <1>3, <1>5 DEF Same, Is
<1> QED BY <1>1, <1>2, <1>3, <1>4, <1>5, <1>6, <1>7, OpFacts, ActorStep

\* The second store of L1's Get.
LEMMA L1RestoreKeeps ==
    ASSUME CacheInv, NEW c \in Clients, L1Restore(c) PROVE CacheInv'
<1> DEFINE m == [op[c] EXCEPT !.got = None]
           n == [m EXCEPT !.todo = {}]
<1>1. Busy(c) /\ op[c].kind = "get" /\ op[c].todo = {"l1"} /\ op[c].got # None /\ op[c] \in OpStates
  BY OpFacts DEF L1Restore
<1>2. op' = [op EXCEPT ![c] = n]
  BY DEF L1Restore
<1>3. m \in OpStates /\ m.kind = "get" /\ m.alone = op[c].alone /\ m.got = None
  BY <1>1 DEF OpStates
<1> HIDE DEF m
<1>4. n \in OpStates /\ n.kind = "get" /\ n.alone = op[c].alone /\ n.got = None /\ n.todo = {}
  BY <1>3 DEF OpStates
<1>5. mode # "simple"
  BY <1>1, OpFacts DEF OpInv
<1>6. l1' = op[c].got /\ op[c].got \in Entries /\ UNCHANGED <<mode, l2, fills, torn>>
  BY <1>1 DEF L1Restore, OpStates
<1> HIDE DEF n
<1>7. OpInv(n, l1', l2', fills', mode)
  BY <1>4, <1>5 DEF OpInv, OpShape, Writers
<1>8. \A v \in Values \cup {None} : Same(v) =>
          Is(l1', v) /\ Is(l2', v) /\ Is(n.got, v) /\ \A i \in DOMAIN fills' : fills'[i].value = v
  BY <1>4, <1>6 DEF Same, Is
<1> QED BY <1>1, <1>2, <1>4, <1>5, <1>6, <1>7, <1>8, OpFacts, ActorStep

\* An operation done with a level.
LEMMA Done ==
    ASSUME CacheInv, NEW c \in Clients, NEW l \in Places, l \in op[c].todo, DoneWith(c, l), op[c].got = None
    PROVE  \E n \in OpStates :
              /\ op' = [op EXCEPT ![c] = n] /\ n.todo = op[c].todo \ {l}
              /\ n.kind = op[c].kind /\ n.value = op[c].value /\ n.got = None
              /\ n.alone = op[c].alone /\ n.ok = op[c].ok
<1> DEFINE n == [op[c] EXCEPT !.todo = @ \ {l}]
<1>1. op' = [op EXCEPT ![c] = n]
  BY DEF DoneWith
<1>2. /\ n \in OpStates /\ n.todo = op[c].todo \ {l}
      /\ n.kind = op[c].kind /\ n.value = op[c].value /\ n.got = None
      /\ n.alone = op[c].alone /\ n.ok = op[c].ok
  BY OpFacts DEF OpStates
<1> QED BY <1>1, <1>2

\* A write of L1: Set, or Delete.
LEMMA L1WriteKeeps ==
    ASSUME CacheInv, NEW c \in Clients, L1Set(c) \/ L1Delete(c) PROVE CacheInv'
<1>1. /\ op[c].kind \in Writers /\ op[c].kind # "flush" /\ "l1" \in op[c].todo /\ DoneWith(c, "l1")
      /\ UNCHANGED <<mode, l2, fills, torn>>
  BY DEF L1Set, L1Delete, Writers
<1>2. op[c].got = None /\ Busy(c) /\ mode # "simple" /\ OpShape(op[c])
  BY <1>1, OpFacts DEF OpInv, OpShape, Writers
<1>3. PICK n \in OpStates :
              /\ op' = [op EXCEPT ![c] = n] /\ n.todo = op[c].todo \ {"l1"}
              /\ n.kind = op[c].kind /\ n.value = op[c].value /\ n.got = None
              /\ n.alone = op[c].alone /\ n.ok = op[c].ok
  BY <1>1, <1>2, Done DEF Places
<1>4. \/ op[c].kind = "set" /\ l1' \in Entries /\ l1'.value = op[c].value
      \/ l1' = None
  <2>1. CASE L1Set(c)
    BY <2>1, <1>2, EntryFacts, CacheAssumption DEF L1Set, OpShape
  <2>2. CASE L1Delete(c)
    BY <2>2 DEF L1Delete
  <2> QED BY <2>1, <2>2
<1>6. "fill" \notin op[c].todo
  BY <1>1, <1>2 DEF OpShape
<1>7. OpShape(n)
  BY <1>2, <1>3, <1>6 DEF OpShape, Writers, Nothing
<1>8. OpInv(n, l1', l2', fills', mode)
  BY <1>1, <1>2, <1>3, <1>4, <1>7, OpFacts DEF OpInv
<1> QED BY <1>1, <1>2, <1>3, <1>4, <1>8, OpFacts, ActorStep

\* warmSingleKey looks at L1.
LEMMA L1ExistsKeeps ==
    ASSUME CacheInv, NEW c \in Clients, L1Exists(c) PROVE CacheInv'
<1> DEFINE n == [op[c] EXCEPT !.todo = IF l1 # None THEN {} ELSE {"l2"}]
<1>1. Busy(c) /\ op[c].kind = "warm" /\ op[c].todo = {"l1"} /\ op[c] \in OpStates /\ op' = [op EXCEPT ![c] = n]
      /\ UNCHANGED <<mode, l1, l2, fills, torn>>
  BY OpFacts DEF L1Exists
<1>2. op[c].got = None /\ mode # "simple"
  BY <1>1, OpFacts DEF OpInv, OpShape
<1>3. n \in OpStates /\ n.kind = "warm" /\ n.alone = op[c].alone /\ n.got = None /\ n.todo \in {{}, {"l2"}}
  BY <1>1, <1>2 DEF OpStates, Places
<1> HIDE DEF n
<1>4. OpInv(n, l1', l2', fills', mode)
  BY <1>2, <1>3 DEF OpInv, OpShape, Writers
<1>5. \A v \in Values \cup {None} : Same(v) =>
          Is(l1', v) /\ Is(l2', v) /\ Is(n.got, v) /\ \A i \in DOMAIN fills' : fills'[i].value = v
  BY <1>1, <1>3 DEF Same, Is
<1> QED BY <1>1, <1>2, <1>3, <1>4, <1>5, OpFacts, ActorStep

\* Get of Redis.
LEMMA L2GetKeeps ==
    ASSUME CacheInv, NEW c \in Clients, L2Get(c) PROVE CacheInv'
<1> DEFINE n == IF l2 = None \/ mode = "simple" THEN [op[c] EXCEPT !.todo = {}] ELSE [op[c] EXCEPT !.got = l2]
<1>1. /\ Busy(c) /\ op[c].kind \in {"get", "warm"} /\ op[c].todo = {"l2"} /\ op[c].got = None
      /\ op[c] \in OpStates /\ op' = [op EXCEPT ![c] = n] /\ UNCHANGED <<mode, l1, l2, fills, torn>>
  BY OpFacts DEF L2Get
<1>2. /\ n \in OpStates /\ n.kind = op[c].kind /\ n.alone = op[c].alone /\ n.got \in {None, l2}
      /\ n.todo \in {{}, {"l2"}} /\ (n.got # None => n.todo = {"l2"}) /\ (mode = "simple" => n.got = None)
  BY <1>1, OpFacts DEF OpStates, Places
<1> HIDE DEF n
<1>3. OpShape(n)
  BY <1>1, <1>2 DEF OpShape
<1>4. OpInv(n, l1', l2', fills', mode)
  BY <1>1, <1>2, <1>3 DEF OpInv, Writers
<1>5. \A v \in Values \cup {None} : Same(v) =>
          Is(l1', v) /\ Is(l2', v) /\ Is(n.got, v) /\ \A i \in DOMAIN fills' : fills'[i].value = v
  BY <1>1, <1>2 DEF Same, Is
<1> QED BY <1>1, <1>2, <1>4, <1>5, OpFacts, ActorStep

\* An entry stored again with the time it has left.
LEMMA RestoredFacts ==
    ASSUME NEW e \in Entries
    PROVE  /\ [e EXCEPT !.px = Left(e)] \in Entries /\ [e EXCEPT !.px = Left(e)].value = e.value
           /\ [e EXCEPT !.px = Left(e)].age = e.age /\ [e EXCEPT !.px = Left(e)].born = e.born
           /\ [e EXCEPT !.px = Left(e)].ttl = e.ttl /\ [e EXCEPT !.px = Left(e)].px = Left(e)
<1>1. Left(e) \in Int
  BY DEF Left, Never, Entries
<1> QED BY <1>1 DEF Entries

\* The second store of Redis's Get, and the fill it starts.
LEMMA L2RestoreKeeps ==
    ASSUME CacheInv, NEW c \in Clients, L2Restore(c) PROVE CacheInv'
<1> DEFINE m == [op[c] EXCEPT !.got = None]
           n == IF op[c].kind = "get" THEN [m EXCEPT !.todo = {}] ELSE [op[c] EXCEPT !.todo = {"fill"}]
           e == [op[c].got EXCEPT !.px = Left(op[c].got)]
<1>1. /\ Busy(c) /\ op[c].todo = {"l2"} /\ op[c].got # None
      /\ op[c] \in OpStates /\ UNCHANGED <<mode, l1, torn>> /\ l2' = e
      /\ fills' = IF op[c].kind = "get" THEN Append(fills, op[c].got) ELSE fills
  BY OpFacts DEF L2Restore
<1>2. op' = [op EXCEPT ![c] = n]
  BY DEF L2Restore
<1>3. op[c].kind \in {"get", "warm"} /\ mode # "simple"
  BY <1>1, OpFacts DEF OpInv, OpShape
<1>4. m \in OpStates /\ m.kind = op[c].kind /\ m.alone = op[c].alone /\ m.got = None
  BY <1>1 DEF OpStates
<1> HIDE DEF m
<1>5. /\ n \in OpStates /\ n.kind = op[c].kind /\ n.alone = op[c].alone /\ n.got \in {None, op[c].got}
      /\ \/ n.kind = "get" /\ n.todo = {} /\ n.got = None
         \/ n.kind = "warm" /\ n.todo = {"fill"} /\ n.got = op[c].got
  BY <1>1, <1>3, <1>4 DEF OpStates, Places
<1>6. op[c].got \in Entries /\ e \in Entries /\ e.value = op[c].got.value
  BY <1>1, RestoredFacts DEF OpStates
<1> HIDE DEF n, e
<1>7. OpInv(n, l1', l2', fills', mode)
  BY <1>1, <1>3, <1>5 DEF OpInv, OpShape, Writers
<1>8. fills' \in Seq(Entries) /\ \A i \in DOMAIN fills' : fills'[i] = op[c].got \/ (i \in DOMAIN fills /\ fills'[i] = fills[i])
  BY <1>1, <1>6, OpFacts
<1>9. \A v \in Values \cup {None} : Same(v) =>
          Is(l1', v) /\ Is(l2', v) /\ Is(n.got, v) /\ \A i \in DOMAIN fills' : fills'[i].value = v
  BY <1>1, <1>5, <1>6, <1>8 DEF Same, Is
<1> QED BY <1>1, <1>2, <1>3, <1>5, <1>6, <1>7, <1>8, <1>9, OpFacts, ActorStep

\* The warmer stores in L1 what it found in Redis.
LEMMA WarmFillKeeps ==
    ASSUME CacheInv, NEW c \in Clients, WarmFill(c) PROVE CacheInv'
<1> DEFINE m == [op[c] EXCEPT !.todo = {}]
           n == [m EXCEPT !.got = None]
<1>1. /\ Busy(c) /\ op[c].kind = "warm" /\ op[c].todo = {"fill"} /\ op[c] \in OpStates
      /\ UNCHANGED <<mode, l2, fills, torn>> /\ l1' = FillOf(op[c].got)
  BY OpFacts DEF WarmFill
<1>2. op' = [op EXCEPT ![c] = n]
  BY DEF WarmFill
<1>3. op[c].got # None /\ mode # "simple"
  BY <1>1, OpFacts DEF OpInv, OpShape
<1>4. m \in OpStates /\ m.kind = "warm" /\ m.alone = op[c].alone /\ m.todo = {}
  BY <1>1 DEF OpStates
<1> HIDE DEF m
<1>5. n \in OpStates /\ n.kind = "warm" /\ n.alone = op[c].alone /\ n.got = None /\ n.todo = {}
  BY <1>1, <1>4 DEF OpStates
<1>6. op[c].got \in Entries /\ l1' \in Entries /\ l1'.value = op[c].got.value
  BY <1>1, <1>3, EntryFacts DEF OpStates
<1> HIDE DEF n
<1>7. OpInv(n, l1', l2', fills', mode)
  BY <1>1, <1>3, <1>5 DEF OpInv, OpShape, Writers
<1>8. \A v \in Values \cup {None} : Same(v) =>
          Is(l1', v) /\ Is(l2', v) /\ Is(n.got, v) /\ \A i \in DOMAIN fills' : fills'[i].value = v
  BY <1>1, <1>3, <1>5, <1>6 DEF Same, Is
<1> QED BY <1>1, <1>2, <1>3, <1>5, <1>6, <1>7, <1>8, OpFacts, ActorStep

\* A write of Redis: Set, Delete or the DEL of what a SCAN found.
LEMMA L2WriteKeeps ==
    ASSUME CacheInv, NEW c \in Clients, L2Set(c) \/ L2Delete(c) \/ L2DeleteScanned(c) PROVE CacheInv'
<1>1. PICK l \in {"l2", "del"} :
         /\ l \in op[c].todo /\ DoneWith(c, l) /\ UNCHANGED <<mode, l1, fills, torn>>
         /\ l = "del" => l2' = None
         /\ l = "l2" => op[c].kind \in {"set", "delete", "flush"}
  <2>1. CASE L2Set(c) \/ L2Delete(c)
    BY <2>1 DEF L2Set, L2Delete
  <2>2. CASE L2DeleteScanned(c)
    BY <2>2 DEF L2DeleteScanned
  <2> QED BY <2>1, <2>2
<1>2. op[c].got = None /\ Busy(c) /\ OpShape(op[c])
  BY <1>1, OpFacts DEF OpInv, OpShape, Writers
<1>3. PICK n \in OpStates :
              /\ op' = [op EXCEPT ![c] = n] /\ n.todo = op[c].todo \ {l}
              /\ n.kind = op[c].kind /\ n.value = op[c].value /\ n.got = None
              /\ n.alone = op[c].alone /\ n.ok = op[c].ok
  BY <1>1, <1>2, Done DEF Places
<1>4. \/ op[c].kind = "set" /\ l2' \in Entries /\ l2'.value = op[c].value
      \/ l2' = None
  <2>1. CASE L2Set(c)
    BY <2>1, <1>2, EntryFacts, CacheAssumption DEF L2Set, OpShape
  <2>2. CASE L2Delete(c) \/ L2DeleteScanned(c)
    BY <2>2 DEF L2Delete, L2DeleteScanned
  <2> QED BY <2>1, <2>2
<1>5. "fill" \notin op[c].todo
  BY <1>1, <1>2 DEF OpShape
<1>6. OpShape(n)
  BY <1>2, <1>3, <1>5 DEF OpShape, Writers, Nothing
<1>7. OpInv(n, l1', l2', fills', mode)
  <2>1. OpInv(op[c], l1, l2, fills, mode)
    BY OpFacts
  <2>2. "l1" \notin n.todo <=> "l1" \notin op[c].todo
    BY <1>3
  <2> QED BY <1>1, <1>3, <1>4, <1>6, <2>1, <2>2 DEF OpInv
<1>8. op[c].kind \notin Writers => \A v \in Values \cup {None} : Same(v) =>
          Is(l1', v) /\ Is(l2', v) /\ Is(n.got, v) /\ \A i \in DOMAIN fills' : fills'[i].value = v
  BY <1>1, <1>3, <1>4 DEF Same, Is, Writers
<1> QED BY <1>1, <1>2, <1>3, <1>4, <1>7, <1>8, OpFacts, ActorStep

\* SCAN.
LEMMA L2ScanKeeps ==
    ASSUME CacheInv, NEW c \in Clients, L2Scan(c) PROVE CacheInv'
<1> DEFINE t == (op[c].todo \ {"l2"}) \cup IF l2 # None THEN {"del"} ELSE {}
           n == [op[c] EXCEPT !.todo = t]
<1>1. /\ op[c].kind \in {"clear", "pattern"} /\ "l2" \in op[c].todo /\ op[c] \in OpStates
      /\ op' = [op EXCEPT ![c] = n] /\ UNCHANGED <<mode, l1, l2, fills, torn>>
  BY OpFacts DEF L2Scan
<1>2. op[c].got = None /\ Busy(c) /\ OpShape(op[c]) /\ "fill" \notin op[c].todo
  BY <1>1, OpFacts DEF OpInv, OpShape, Writers
<1>3. t \in SUBSET Places /\ "fill" \notin t /\ ("l1" \in t <=> "l1" \in op[c].todo) /\ (l2 # None => "del" \in t)
      /\ (op[c].todo \subseteq {"l2", "del"} => t \subseteq {"l2", "del"})
  BY <1>1, <1>2 DEF OpStates, Places
<1> HIDE DEF t
<1>4. /\ n \in OpStates /\ n.todo = t /\ n.kind = op[c].kind /\ n.value = op[c].value /\ n.got = None
      /\ n.alone = op[c].alone /\ n.ok = op[c].ok
  BY <1>1, <1>2, <1>3 DEF OpStates
<1> HIDE DEF n
<1>5. OpShape(n)
  BY <1>1, <1>3, <1>4 DEF OpShape
<1>6. OpInv(n, l1', l2', fills', mode)
  BY <1>1, <1>3, <1>4, <1>5, OpFacts DEF OpInv
<1>7. \A v \in Values \cup {None} : Same(v) =>
          Is(l1', v) /\ Is(l2', v) /\ Is(n.got, v) /\ \A i \in DOMAIN fills' : fills'[i].value = v
  BY <1>1, <1>4 DEF Same, Is
<1> QED BY <1>1, <1>2, <1>4, <1>6, <1>7, OpFacts, ActorStep

\* An error of Redis.
LEMMA L2FailsKeeps ==
    ASSUME CacheInv, NEW c \in Clients, L2Fails(c) PROVE CacheInv'
<1> DEFINE t == op[c].todo \ {"l2", "del"}
           m == [op[c] EXCEPT !.todo = t]
           k == [m EXCEPT !.ok = FALSE]
           n == [k EXCEPT !.got = None]
<1>1. op[c].todo \cap {"l2", "del"} # {} /\ op[c] \in OpStates /\ UNCHANGED <<mode, l1, l2, fills, torn>>
  BY OpFacts DEF L2Fails
<1>2. op' = [op EXCEPT ![c] = n]
  BY DEF L2Fails
<1>3. Busy(c) /\ OpShape(op[c]) /\ "fill" \notin op[c].todo
  BY <1>1, OpFacts DEF OpInv, OpShape
<1>4. t \in SUBSET Places /\ "fill" \notin t /\ ("l1" \in t <=> "l1" \in op[c].todo)
      /\ (op[c].todo \subseteq {"l2", "del"} => t \subseteq {"l2", "del"})
  BY <1>1, <1>3 DEF OpStates, Places
<1> HIDE DEF t
<1>5. m \in OpStates /\ m.todo = t /\ m.kind = op[c].kind /\ m.value = op[c].value /\ m.alone = op[c].alone
  BY <1>1, <1>4 DEF OpStates
<1> HIDE DEF m
<1>6. k \in OpStates /\ k.todo = t /\ k.kind = op[c].kind /\ k.value = op[c].value /\ k.alone = op[c].alone /\ k.ok = FALSE
  BY <1>5 DEF OpStates
<1> HIDE DEF k
<1>7. /\ n \in OpStates /\ n.todo = t /\ n.kind = op[c].kind /\ n.value = op[c].value /\ n.alone = op[c].alone /\ n.ok = FALSE
      /\ n.got = None
  BY <1>6 DEF OpStates
<1> HIDE DEF n
<1>8. OpShape(n)
  BY <1>3, <1>4, <1>7 DEF OpShape, Busy
<1>9. OpInv(n, l1', l2', fills', mode)
  BY <1>1, <1>4, <1>7, <1>8, OpFacts DEF OpInv
<1>10. \A v \in Values \cup {None} : Same(v) =>
          Is(l1', v) /\ Is(l2', v) /\ Is(n.got, v) /\ \A i \in DOMAIN fills' : fills'[i].value = v
  BY <1>1, <1>7 DEF Same, Is
<1> QED BY <1>1, <1>2, <1>3, <1>7, <1>9, <1>10, OpFacts, ActorStep

\* An operation begins: every other one is no longer alone.
LEMMA BeginKeeps ==
    ASSUME CacheInv, NEW c \in Clients, NEW kind, NEW value, NEW todo, Begin(c, kind, value, todo),
           kind \in Writers \cup {"get", "pattern", "warm"}, value \in Values \cup {None},
           kind = "set" => value \in Values,
           kind \in Writers => todo = Levels,
           kind \notin Writers => todo \in {{"l1"}, {"l2"}},
           "l1" \in todo => mode = "multi"
    PROVE  CacheInv'
<1> DEFINE others == {d \in Clients \ {c} : Busy(d)}
           al == (others = {} /\ ~Filling)
           m1 == [NoOp EXCEPT !.kind = kind]
           m2 == [m1 EXCEPT !.value = value]
           m3 == [m2 EXCEPT !.todo = todo]
           n == [m3 EXCEPT !.alone = al]
<1>1. ~Busy(c) /\ UNCHANGED <<mode, l1, l2, fills, torn>>
  BY DEF Begin
<1>2. op' = [d \in Clients |-> IF d = c THEN n ELSE IF d \in others THEN [op[d] EXCEPT !.alone = FALSE] ELSE op[d]]
  BY DEF Begin
<1>3. al \in BOOLEAN /\ (al => others = {} /\ fills = << >>)
  BY DEF Filling
<1>4. todo \in SUBSET Places /\ "fill" \notin todo /\ todo # {} /\ (kind \in Writers => "l2" \in todo)
      /\ (kind \in Writers /\ "l1" \notin todo => mode = "simple") /\ (mode = "simple" => todo = {"l2"})
      /\ mode \in {"multi", "simple"}
  BY DEF Levels, Places, CacheInv, CacheShape
<1> HIDE DEF al
<1>5. m1 \in OpStates /\ m1.kind = kind /\ m1.got = None
  BY DEF NoOp, OpStates, Writers
<1> HIDE DEF m1
<1>6. m2 \in OpStates /\ m2.kind = kind /\ m2.got = None /\ m2.value = value
  BY <1>5 DEF OpStates
<1> HIDE DEF m2
<1>7. m3 \in OpStates /\ m3.kind = kind /\ m3.got = None /\ m3.value = value /\ m3.todo = todo
  BY <1>4, <1>6 DEF OpStates
<1> HIDE DEF m3
<1>8. n \in OpStates /\ n.kind = kind /\ n.got = None /\ n.value = value /\ n.todo = todo /\ n.alone = al
  BY <1>3, <1>7 DEF OpStates
<1> HIDE DEF n
<1>9. ASSUME NEW d \in Clients, d # c
      PROVE  /\ op'[d] \in OpStates /\ op'[d].kind = op[d].kind /\ op'[d].value = op[d].value /\ op'[d].todo = op[d].todo
             /\ op'[d].got = op[d].got /\ op'[d].ok = op[d].ok
             /\ Busy(d) => op'[d].alone = FALSE
  <2>1. op[d] \in OpStates
    BY OpFacts
  <2>2. CASE Busy(d)
    <3>1. op'[d] = [op[d] EXCEPT !.alone = FALSE]
      BY <1>2, <1>9, <2>2
    <3> QED BY <2>1, <3>1 DEF OpStates
  <2>3. CASE ~Busy(d)
    BY <1>2, <1>9, <2>1, <2>3
  <2> QED BY <2>2, <2>3
<1>10. op'[c] = n
  BY <1>2
<1>11. op' \in [Clients -> OpStates]
  <2>1. \A d \in Clients : op'[d] \in OpStates
    BY <1>8, <1>9, <1>10
  <2> QED BY <1>2, <2>1
<1>12. CacheShape'
  BY <1>1, <1>11 DEF CacheInv, CacheShape
<1>13. ASSUME NEW d \in Clients PROVE OpInv(op'[d], l1', l2', fills', mode')
  <2>1. CASE d = c
    <3>1. OpShape(n)
      BY <1>4, <1>8 DEF OpShape, Writers
    <3>2. mode = "simple" => l1 = None
      BY OpFacts
    <3> QED BY <1>1, <1>3, <1>4, <1>8, <1>10, <2>1, <3>1, <3>2 DEF OpInv
  <2>2. CASE d # c
    <3>1. OpShape(op'[d])
      BY <1>9, <2>2, OpFacts DEF OpInv, OpShape, Nothing
    <3>2. ~(op'[d].alone /\ op'[d].kind \in Writers)
      BY <1>9, <2>2 DEF Busy, Writers
    <3> QED BY <1>1, <1>9, <2>2, <3>1, <3>2, OpFacts DEF OpInv
  <2> QED BY <2>1, <2>2
<1>14. ASSUME NEW d \in Clients, NEW e \in Clients, d # e, Busy(d)', Busy(e)'
       PROVE  ~op'[d].alone
  <2>1. CASE d = c
    <3>1. e \in others
      BY <1>9, <1>14, <2>1 DEF Busy
    <3> QED BY <1>3, <1>8, <1>10, <2>1, <3>1
  <2>2. CASE d # c
    BY <1>9, <1>14, <2>2 DEF Busy
  <2> QED BY <2>1, <2>2
<1>15. ASSUME ~torn', \A d \in Clients : op'[d].kind \notin Writers
       PROVE  \E v \in Values \cup {None} : Same(v)'
  <2>1. \A d \in Clients : op[d].kind \notin Writers
    BY <1>1, <1>9, <1>15 DEF Busy, Writers
  <2>2. PICK v \in Values \cup {None} : Same(v)
    BY <1>1, <1>15, <2>1 DEF CacheInv
  <2>3. \A d \in Clients : Is(op'[d].got, v)
    BY <1>8, <1>9, <1>10, <2>2 DEF Same, Is
  <2> QED BY <1>1, <2>2, <2>3 DEF Same
<1> QED BY <1>12, <1>13, <1>14, <1>15 DEF CacheInv

\* An operation returns.  A write that was alone has put its value, or nothing, in both
\* levels, and no other copy exists.
LEMMA ReturnKeeps ==
    ASSUME CacheInv, NEW c \in Clients, Return(c) PROVE CacheInv'
<1>1. Busy(c) /\ op[c].todo = {} /\ op[c].got = None /\ UNCHANGED <<mode, l1, l2, fills>>
      /\ op' = [op EXCEPT ![c] = NoOp]
  BY DEF Return
<1>0. /\ op[c].kind \in Writers => torn' = ~(op[c].alone /\ op[c].ok)
      /\ op[c].kind \notin Writers => torn' = torn
  BY Zenon DEF Return, Writers
<1>9. torn \in BOOLEAN /\ mode \in {"multi", "simple"} /\ op \in [Clients -> OpStates]
  BY DEF CacheInv, CacheShape
<1>10. torn' \in BOOLEAN
  BY <1>0, <1>9
<1>2. /\ NoOp \in OpStates /\ NoOp.kind = "none" /\ NoOp.got = None /\ NoOp.todo = {}
  BY DEF NoOp, OpStates
<1>3. op' \in [Clients -> OpStates] /\ op'[c] = NoOp /\ \A d \in Clients \ {c} : op'[d] = op[d]
  BY <1>1, <1>2, <1>9
<1>4. CacheShape'
  BY <1>1, <1>3, <1>10 DEF CacheInv, CacheShape
<1>5. ASSUME NEW d \in Clients PROVE OpInv(op'[d], l1', l2', fills', mode')
  <2>1. CASE d = c
    BY <1>2, <1>3, <2>1 DEF OpInv, OpShape, Nothing, Writers
  <2>2. CASE d # c
    BY <1>1, <1>3, <2>2 DEF CacheInv
  <2> QED BY <2>1, <2>2
<1>6. ASSUME NEW d \in Clients, NEW e \in Clients, d # e, Busy(d)', Busy(e)'
      PROVE  ~op'[d].alone
  BY <1>2, <1>3, <1>6 DEF CacheInv, Busy
<1>7. ASSUME ~torn', \A d \in Clients : op'[d].kind \notin Writers
      PROVE  \E v \in Values \cup {None} : Same(v)'
  <2>1. CASE op[c].kind \in Writers
    <3> DEFINE v == IF op[c].kind = "set" THEN op[c].value ELSE None
    <3>1. op[c].alone /\ op[c].ok
      BY <1>0, <1>7, <2>1
    <3>2. \A d \in Clients : op[d].got = None
      BY <1>1, <3>1, OpFacts DEF CacheInv, Busy
    <3>3. fills = << >> /\ Is(l1, v) /\ Is(l2, v)
      BY <1>1, <2>1, <3>1, OpFacts DEF OpInv, Is
    <3>4. v \in Values \cup {None}
      BY OpFacts DEF OpInv, OpShape
    <3> HIDE DEF v
    <3>5. \A d \in Clients : Is(op'[d].got, v)
      BY <1>2, <1>3, <3>2 DEF Is
    <3> QED BY <1>1, <3>3, <3>4, <3>5 DEF Same
  <2>2. CASE op[c].kind \notin Writers
    <3>1. \A d \in Clients : op[d].kind \notin Writers
      BY <1>3, <1>7, <2>2
    <3>2. PICK v \in Values \cup {None} : Same(v)
      BY <1>0, <1>7, <2>2, <3>1 DEF CacheInv
    <3>3. \A d \in Clients : Is(op'[d].got, v)
      BY <1>2, <1>3, <3>2 DEF Same, Is
    <3> QED BY <1>1, <3>2, <3>3 DEF Same
  <2> QED BY <2>1, <2>2
<1> QED BY <1>4, <1>5, <1>6, <1>7 DEF CacheInv

\* A sequence without one of its elements.
LEMMA RemoveAtFacts ==
    ASSUME NEW S, NEW s \in Seq(S), NEW i \in DOMAIN s
    PROVE  /\ RemoveAt(s, i) \in Seq(S)
           /\ \A j \in DOMAIN RemoveAt(s, i) : \E k \in DOMAIN s : RemoveAt(s, i)[j] = s[k]
<1> DEFINE a == SubSeq(s, 1, i - 1)
           b == SubSeq(s, i + 1, Len(s))
<1>1. i \in 1 .. Len(s) /\ Len(s) \in Nat
  OBVIOUS
<1>2. a \in Seq(S) /\ Len(a) = i - 1 /\ \A j \in 1 .. Len(a) : a[j] = s[j]
  BY <1>1
<1>3. b \in Seq(S) /\ Len(b) = Len(s) - i /\ \A j \in 1 .. Len(b) : b[j] = s[i + j]
  BY <1>1
<1>4. RemoveAt(s, i) = a \o b
  BY DEF RemoveAt
<1> HIDE DEF a, b
<1>5. /\ a \o b \in Seq(S) /\ Len(a \o b) = Len(a) + Len(b)
      /\ \A j \in 1 .. Len(a) + Len(b) : (a \o b)[j] = IF j <= Len(a) THEN a[j] ELSE b[j - Len(a)]
  BY <1>2, <1>3, ConcatProperties
<1>6. ASSUME NEW j \in 1 .. Len(a \o b)
      PROVE  \E k \in DOMAIN s : (a \o b)[j] = s[k]
  <2>0. Len(a) \in Nat /\ Len(b) \in Nat /\ j \in 1 .. Len(a) + Len(b)
    BY <1>2, <1>3, <1>5
  <2>1. CASE j <= Len(a)
    <3>1. (a \o b)[j] = s[j] /\ j \in DOMAIN s
      BY <1>1, <1>2, <1>5, <2>0, <2>1
    <3> QED BY <3>1
  <2>2. CASE ~(j <= Len(a))
    <3>1. (a \o b)[j] = b[j - Len(a)] /\ j - Len(a) \in 1 .. Len(b)
      BY <1>5, <2>0, <2>2
    <3>2. b[j - Len(a)] = s[i + (j - Len(a))]
      BY <1>3, <3>1
    <3>3. i + (j - Len(a)) = j + 1 /\ j + 1 \in 1 .. Len(s)
      <4> DEFINE la == Len(a)
                 lb == Len(b)
                 ls == Len(s)
      <4>1. la = i - 1 /\ lb = ls - i /\ i \in 1 .. ls /\ ls \in Nat /\ j \in 1 .. la + lb /\ ~(j <= la)
        BY <1>1, <1>2, <1>3, <2>0, <2>2
      <4> HIDE DEF la, lb, ls
      <4>2. i + (j - la) = j + 1 /\ j + 1 \in 1 .. ls
        BY <4>1
      <4> QED BY <4>2 DEF la, ls
    <3> QED BY <3>1, <3>2, <3>3
  <2> QED BY <2>1, <2>2
<1>7. DOMAIN (a \o b) = 1 .. Len(a \o b)
  BY <1>5
<1> QED BY <1>4, <1>5, <1>6, <1>7

\* A step that no client takes.
LEMMA FreeStep ==
    ASSUME CacheInv, UNCHANGED <<mode, torn>>, op' \in [Clients -> OpStates],
           l1' \in Entries \cup {None}, l2' \in Entries \cup {None}, fills' \in Seq(Entries),
           mode = "simple" => l1' = None /\ fills' = << >>,
           \A c \in Clients : OpInv(op'[c], l1', l2', fills', mode),
           \A c \in Clients : op'[c].kind = op[c].kind /\ op'[c].alone = op[c].alone,
           \A v \in Values \cup {None} : Same(v) => Same(v)'
    PROVE  CacheInv'
<1>1. CacheShape'
  BY DEF CacheInv, CacheShape
<1>2. \A c, d \in Clients : c # d /\ Busy(c)' /\ Busy(d)' => ~op'[c].alone
  BY DEF CacheInv, Busy
<1>3. ~torn' /\ (\A c \in Clients : op'[c].kind \notin Writers) => \E v \in Values \cup {None} : Same(v)'
  BY DEF CacheInv
<1> QED BY <1>1, <1>2, <1>3 DEF CacheInv

\* The goroutine of a hit in Redis fills L1.
LEMMA FillKeeps ==
    ASSUME CacheInv, NEW i \in DOMAIN fills, Fill(i) PROVE CacheInv'
<1>1. l1' = FillOf(fills[i]) /\ fills' = RemoveAt(fills, i) /\ UNCHANGED <<mode, l2, torn, op>>
  BY DEF Fill
<1>2. fills \in Seq(Entries) /\ fills # << >> /\ mode # "simple" /\ op \in [Clients -> OpStates]
      /\ l2 \in Entries \cup {None}
  BY DEF CacheInv, CacheShape
<1>3. fills[i] \in Entries
  BY <1>2
<1>4. l1' \in Entries /\ l1'.value = fills[i].value
  BY <1>1, <1>3, EntryFacts
<1>5. fills' \in Seq(Entries) /\ \A j \in DOMAIN fills' : \E k \in DOMAIN fills : fills'[j] = fills[k]
  BY <1>1, <1>2, RemoveAtFacts
<1>6. \A c \in Clients : OpInv(op'[c], l1', l2', fills', mode)
  BY <1>1, <1>2 DEF CacheInv, OpInv
<1>7. ASSUME NEW v \in Values \cup {None}, Same(v) PROVE Same(v)'
  <2>1. fills[i].value = v
    BY <1>7 DEF Same
  <2>2. Is(l1', v)
    BY <1>4, <2>1 DEF Is
  <2> QED BY <1>1, <1>5, <1>7, <2>2 DEF Same
<1> QED BY <1>1, <1>2, <1>4, <1>5, <1>6, <1>7, FreeStep

\* BigCache evicts.
LEMMA EvictKeeps ==
    ASSUME CacheInv, L1Evicts PROVE CacheInv'
<1>1. l1' = None /\ UNCHANGED <<mode, l2, torn, op, fills>>
  BY DEF L1Evicts
<1>2. \A c \in Clients : OpInv(op'[c], l1', l2', fills', mode)
  BY <1>1 DEF CacheInv, OpInv
<1>3. \A v \in Values \cup {None} : Same(v) => Same(v)'
  BY <1>1 DEF Same, Is
<1> QED BY <1>1, <1>2, <1>3, FreeStep DEF CacheInv, CacheShape

\* Time passes.
LEMMA CacheTickKeeps ==
    ASSUME CacheInv, CacheTick PROVE CacheInv'
<1>1. /\ l1' = Older(l1) /\ l2' = RedisOlder(l2) /\ UNCHANGED <<mode, torn>>
      /\ op' = [c \in Clients |-> [op[c] EXCEPT !.got = Older(op[c].got)]]
      /\ fills' = [i \in DOMAIN fills |-> Older(fills[i])]
  BY DEF CacheTick
<1>2. /\ l1 \in Entries \cup {None} /\ l2 \in Entries \cup {None} /\ fills \in Seq(Entries)
      /\ mode = "simple" => l1 = None /\ fills = << >>
  BY DEF CacheInv, CacheShape
<1>3. ASSUME NEW c \in Clients
      PROVE  /\ op'[c] \in OpStates /\ op'[c].kind = op[c].kind /\ op'[c].value = op[c].value
             /\ op'[c].todo = op[c].todo /\ op'[c].alone = op[c].alone /\ op'[c].ok = op[c].ok
             /\ op'[c].got = Older(op[c].got)
  <2>1. op[c] \in OpStates
    BY OpFacts
  <2>2. Older(op[c].got) \in Entries \cup {None}
    BY <2>1, OlderFacts DEF OpStates
  <2>3. op'[c] = [op[c] EXCEPT !.got = Older(op[c].got)]
    BY <1>1
  <2> QED BY <2>1, <2>2, <2>3 DEF OpStates
<1>4. op' \in [Clients -> OpStates]
  BY <1>1, <1>3
<1>5. fills' \in Seq(Entries) /\ DOMAIN fills' = DOMAIN fills /\ \A i \in DOMAIN fills : fills'[i].value = fills[i].value
  <2>1. \A i \in DOMAIN fills : Older(fills[i]) \in Entries /\ Older(fills[i]).value = fills[i].value
    BY <1>2, OlderFacts, CacheAssumption
  <2>2. DOMAIN fills = 1 .. Len(fills) /\ Len(fills) \in Nat
    BY <1>2
  <2>3. fills' \in [1 .. Len(fills) -> Entries]
    BY <1>1, <2>1, <2>2
  <2> QED BY <1>1, <2>1, <2>2, <2>3
<1>6. l1' \in Entries \cup {None} /\ (l1' # None => l1 # None /\ l1'.value = l1.value)
  BY <1>1, <1>2, OlderFacts
<1>7. l2' \in Entries \cup {None} /\ (l2' # None => l2 # None /\ l2'.value = l2.value)
  BY <1>1, <1>2, OlderFacts
<1>8. ASSUME NEW c \in Clients PROVE OpInv(op'[c], l1', l2', fills', mode)
  <2>1. OpInv(op[c], l1, l2, fills, mode) /\ op[c] \in OpStates
    BY OpFacts
  <2>2. (op'[c].got # None <=> op[c].got # None)
    BY <1>3, <2>1, OlderFacts DEF OpStates
  <2>3. OpShape(op'[c])
    BY <1>3, <2>1, <2>2 DEF OpInv, OpShape, Nothing
  <2>4. fills = << >> => fills' = << >>
    BY <1>2, <1>5
  <2> QED BY <1>3, <1>6, <1>7, <2>1, <2>2, <2>3, <2>4 DEF OpInv
<1>9. ASSUME NEW v \in Values \cup {None}, Same(v) PROVE Same(v)'
  <2>1. Is(l1', v) /\ Is(l2', v)
    BY <1>6, <1>7, <1>9 DEF Same, Is
  <2>2. \A i \in DOMAIN fills' : fills'[i].value = v
    BY <1>5, <1>9 DEF Same
  <2>3. ASSUME NEW c \in Clients PROVE Is(op'[c].got, v)
    <3>1. Is(op[c].got, v) /\ op[c].got \in Entries \cup {None}
      BY <1>9, OpFacts DEF Same, OpStates
    <3> QED BY <1>3, <3>1, OlderFacts DEF Is
  <2> QED BY <2>1, <2>2, <2>3 DEF Same
<1>10. mode = "simple" => l1' = None /\ fills' = << >>
  BY <1>1, <1>2, <1>5, OlderFacts
<1> QED BY <1>1, <1>3, <1>4, <1>5, <1>6, <1>7, <1>8, <1>9, <1>10, FreeStep

\* The operations that begin.
LEMMA BeginsKeep ==
    ASSUME CacheInv, NEW c \in Clients,
           \/ Get(c) \/ SimpleGet(c) \/ Set(c) \/ SimpleSet(c) \/ Delete(c) \/ SimpleDelete(c) \/ Clear(c)
           \/ SimpleClear(c) \/ InvalidatePattern(c) \/ WarmKey(c) \/ WarmPattern(c)
    PROVE  CacheInv'
<1>1. CASE Get(c) \/ WarmKey(c) \/ WarmPattern(c)
  <2>1. PICK kind \in {"get", "warm"} : mode = "multi" /\ Begin(c, kind, None, {"l1"})
    BY <1>1 DEF Get, WarmKey, WarmPattern
  <2> QED BY <2>1, BeginKeeps DEF Writers
<1>2. CASE SimpleGet(c) \/ InvalidatePattern(c)
  <2>1. PICK kind \in {"get", "pattern"} : Begin(c, kind, None, {"l2"})
    BY <1>2 DEF SimpleGet, InvalidatePattern
  <2> QED BY <2>1, BeginKeeps DEF Writers
<1>3. "l1" \in Levels => mode = "multi"
  BY DEF Levels
<1>4. CASE Set(c) \/ SimpleSet(c)
  <2>1. PICK v \in Values : Begin(c, "set", v, Levels)
    BY <1>4 DEF Set, SimpleSet
  <2> QED BY <1>3, <2>1, BeginKeeps DEF Writers
<1>5. CASE Delete(c) \/ SimpleDelete(c) \/ Clear(c) \/ SimpleClear(c)
  <2>1. PICK kind \in {"delete", "clear", "flush"} : Begin(c, kind, None, Levels)
    BY <1>5 DEF Delete, SimpleDelete, Clear, SimpleClear
  <2> QED BY <1>3, <2>1, BeginKeeps DEF Writers
<1> QED BY <1>1, <1>2, <1>4, <1>5

\* The invariant is inductive.
LEMMA CacheInductive == CacheInit => CacheInv
<1> SUFFICES ASSUME CacheInit PROVE CacheInv
  OBVIOUS
<1>1. NoOp \in OpStates /\ NoOp.kind = "none" /\ NoOp.got = None /\ NoOp.todo = {}
  BY DEF NoOp, OpStates
<1>2. /\ mode \in {"multi", "simple"} /\ l1 = None /\ l2 = None /\ fills = << >> /\ torn = FALSE
      /\ op = [c \in Clients |-> NoOp]
  BY DEF CacheInit
<1>3. << >> \in Seq(Entries)
  OBVIOUS
<1>4. CacheShape
  BY <1>1, <1>2, <1>3 DEF CacheShape
<1>5. \A c \in Clients : OpInv(op[c], l1, l2, fills, mode)
  BY <1>1, <1>2 DEF OpInv, OpShape, Nothing, Writers
<1>6. Same(None)
  BY <1>1, <1>2 DEF Same, Is
<1> QED BY <1>1, <1>2, <1>4, <1>5, <1>6 DEF CacheInv, Busy

\* ... and every step keeps it.
LEMMA CacheStep == CacheInv /\ [CacheNext]_cacheVars => CacheInv'
<1> SUFFICES ASSUME CacheInv, [CacheNext]_cacheVars PROVE CacheInv'
  OBVIOUS
<1>1. ASSUME NEW c \in Clients,
             \/ Get(c) \/ SimpleGet(c) \/ Set(c) \/ SimpleSet(c) \/ Delete(c) \/ SimpleDelete(c) \/ Clear(c)
             \/ SimpleClear(c) \/ InvalidatePattern(c) \/ WarmKey(c) \/ WarmPattern(c)
      PROVE  CacheInv'
  BY <1>1, BeginsKeep
<1>2. ASSUME NEW c \in Clients, Return(c) \/ L1Get(c) \/ L1Restore(c) \/ L1Set(c) \/ L1Delete(c) \/ L1Exists(c)
      PROVE  CacheInv'
  BY <1>2, ReturnKeeps, L1GetKeeps, L1RestoreKeeps, L1WriteKeeps, L1ExistsKeeps
<1>3. ASSUME NEW c \in Clients,
             \/ L2Get(c) \/ L2Restore(c) \/ WarmFill(c) \/ L2Set(c) \/ L2Delete(c)
             \/ L2Scan(c) \/ L2DeleteScanned(c) \/ L2Fails(c)
      PROVE  CacheInv'
  BY <1>3, L2GetKeeps, L2RestoreKeeps, WarmFillKeeps, L2WriteKeeps, L2ScanKeeps, L2FailsKeeps
<1>4. ASSUME NEW i \in DOMAIN fills, Fill(i) PROVE CacheInv'
  BY <1>4, FillKeeps
<1>5. CASE L1Evicts
  BY <1>5, EvictKeeps
<1>6. CASE CacheTick
  BY <1>6, CacheTickKeeps
<1>7. CASE UNCHANGED cacheVars
  <2>1. UNCHANGED <<mode, l1, l2, fills, torn, op>>
    BY <1>7 DEF cacheVars
  <2>2. CacheShape' = CacheShape /\ \A v : Same(v)' = Same(v)
    BY <2>1 DEF CacheShape, Same
  <2> QED BY <2>1, <2>2 DEF CacheInv, Busy
<1> QED BY <1>1, <1>2, <1>3, <1>4, <1>5, <1>6, <1>7 DEF CacheNext

\* ... so it always holds.
LEMMA CacheAlways == CacheSpec => []CacheInv
BY CacheInductive, CacheStep, PTL DEF CacheSpec

\* LevelsAgree, for any number of clients, values and fills, whatever Redis fails and
\* however time passes: without an overlap or an error since the last write, Get answers
\* the same from either level.
THEOREM LevelsAlwaysAgree == CacheSpec => []LevelsAgree
<1>1. CacheInv => LevelsAgree
  <2> SUFFICES ASSUME CacheInv, Quiet, ~torn, L1Live, l2 # None PROVE l1.value = l2.value
    BY DEF LevelsAgree
  <2>1. \A c \in Clients : op[c].kind \notin Writers
    BY DEF Quiet, Busy, Writers
  <2>2. PICK v \in Values \cup {None} : Same(v)
    BY <2>1 DEF CacheInv
  <2> QED BY <2>2 DEF Same, Is, L1Live
<1> QED BY <1>1, CacheAlways, PTL

\* Only Return ends an operation.
LEMMA OnlyReturnEnds ==
    ASSUME CacheInv, [CacheNext]_cacheVars, NEW c \in Clients, Busy(c), ~Busy(c)'
    PROVE  Return(c)
<1>0. \A d \in Clients : op[d] \in OpStates
  BY OpFacts
<1>00. op \in [Clients -> OpStates]
  BY DEF CacheInv, CacheShape
<1>1. ASSUME NEW d \in Clients,
             \/ Get(d) \/ SimpleGet(d) \/ Set(d) \/ SimpleSet(d) \/ Delete(d) \/ SimpleDelete(d) \/ Clear(d)
             \/ SimpleClear(d) \/ InvalidatePattern(d) \/ WarmKey(d) \/ WarmPattern(d)
      PROVE  Return(c)
  <2>1. PICK kind, value, todo : Begin(d, kind, value, todo)
    BY <1>1 DEF Get, SimpleGet, Set, SimpleSet, Delete, SimpleDelete, Clear, SimpleClear, InvalidatePattern, WarmKey, WarmPattern
  <2>2. c # d /\ op'[c] = [op[c] EXCEPT !.alone = FALSE]
    BY <2>1 DEF Begin, Busy
  <2> QED BY <1>0, <2>2 DEF Busy, OpStates
<1>2. ASSUME NEW d \in Clients, Return(d) PROVE Return(c)
  BY <1>2, <1>00 DEF Return, Busy
<1>3. ASSUME NEW d \in Clients, NEW n, op' = [op EXCEPT ![d] = n], n.kind = op[d].kind PROVE Return(c)
  BY <1>3, <1>00 DEF Busy
<1>4. ASSUME NEW d \in Clients, L1Get(d) PROVE Return(c)
  <2> DEFINE n == IF L1Live THEN [op[d] EXCEPT !.got = l1] ELSE [op[d] EXCEPT !.todo = {"l2"}]
  <2>1. op' = [op EXCEPT ![d] = n] /\ n.kind = op[d].kind
    BY <1>4, <1>0 DEF L1Get, OpStates
  <2> QED BY <1>3, <2>1
<1>5. ASSUME NEW d \in Clients, L1Restore(d) \/ L2Restore(d) \/ WarmFill(d) PROVE Return(c)
  <2> DEFINE m == [op[d] EXCEPT !.got = None]
             n == [m EXCEPT !.todo = {}]
             k == [op[d] EXCEPT !.todo = {"fill"}]
             x == [op[d] EXCEPT !.todo = {}]
             y == [x EXCEPT !.got = None]
  <2>1. op' = [op EXCEPT ![d] = n] \/ op' = [op EXCEPT ![d] = k] \/ op' = [op EXCEPT ![d] = y]
    BY <1>5 DEF L1Restore, L2Restore, WarmFill
  <2>2. n.kind = op[d].kind /\ k.kind = op[d].kind /\ y.kind = op[d].kind
    BY <1>0 DEF OpStates
  <2> QED BY <1>3, <2>1, <2>2
<1>6. ASSUME NEW d \in Clients, NEW l, DoneWith(d, l) PROVE Return(c)
  <2> DEFINE n == [op[d] EXCEPT !.todo = @ \ {l}]
  <2>1. op' = [op EXCEPT ![d] = n] /\ n.kind = op[d].kind
    BY <1>6, <1>0 DEF DoneWith, OpStates
  <2> QED BY <1>3, <2>1
<1>7. ASSUME NEW d \in Clients, L1Set(d) \/ L1Delete(d) \/ L2Set(d) \/ L2Delete(d) \/ L2DeleteScanned(d) PROVE Return(c)
  BY <1>6, <1>7 DEF L1Set, L1Delete, L2Set, L2Delete, L2DeleteScanned
<1>8. ASSUME NEW d \in Clients, NEW t, op' = [op EXCEPT ![d].todo = t] PROVE Return(c)
  <2> DEFINE n == [op[d] EXCEPT !.todo = t]
  <2>1. op' = [op EXCEPT ![d] = n] /\ n.kind = op[d].kind
    BY <1>8, <1>0 DEF OpStates
  <2> QED BY <1>3, <2>1
<1>9. ASSUME NEW d \in Clients, L1Exists(d) \/ L2Scan(d) PROVE Return(c)
  BY <1>8, <1>9 DEF L1Exists, L2Scan
<1>10. ASSUME NEW d \in Clients, L2Get(d) PROVE Return(c)
  <2> DEFINE n == IF l2 = None \/ mode = "simple" THEN [op[d] EXCEPT !.todo = {}] ELSE [op[d] EXCEPT !.got = l2]
  <2>1. op' = [op EXCEPT ![d] = n] /\ n.kind = op[d].kind
    BY <1>10, <1>0 DEF L2Get, OpStates
  <2> QED BY <1>3, <2>1
<1>11. ASSUME NEW d \in Clients, L2Fails(d) PROVE Return(c)
  <2> DEFINE m == [op[d] EXCEPT !.todo = @ \ {"l2", "del"}]
             k == [m EXCEPT !.ok = FALSE]
             n == [k EXCEPT !.got = None]
  <2>1. op' = [op EXCEPT ![d] = n]
    BY <1>11 DEF L2Fails
  <2>2. n.kind = op[d].kind
    BY <1>0 DEF OpStates
  <2> QED BY <1>3, <2>1, <2>2
<1>12. CASE CacheTick
  <2>1. op'[c] = [op[c] EXCEPT !.got = Older(op[c].got)]
    BY <1>12 DEF CacheTick
  <2> QED BY <1>0, <2>1 DEF Busy, OpStates
<1>13. ASSUME UNCHANGED op PROVE Return(c)
  BY <1>13 DEF Busy
<1>14. CASE L1Evicts \/ (\E i \in DOMAIN fills : Fill(i)) \/ UNCHANGED cacheVars
  BY <1>13, <1>14 DEF L1Evicts, Fill, cacheVars
<1> QED BY <1>1, <1>2, <1>4, <1>5, <1>7, <1>9, <1>10, <1>11, <1>12, <1>14 DEF CacheNext

\* DeleteIsFinal: when Delete or Clear, alone on the key and without error, returns, both
\* levels are empty, for any number of clients and any order of their goroutines.
THEOREM DeleteAlwaysFinal == CacheSpec => DeleteIsFinal
<1> DEFINE Final == \A c \in Clients :
         op[c].kind \in {"delete", "clear", "flush"} /\ op[c].todo = {} /\ op[c].alone /\ op[c].ok
         /\ op'[c].kind = "none" => l1' = None /\ l2' = None
<1>1. CacheInv /\ [CacheNext]_cacheVars => [Final]_cacheVars
  <2> SUFFICES ASSUME CacheInv, [CacheNext]_cacheVars, NEW c \in Clients,
                      op[c].kind \in {"delete", "clear", "flush"}, op[c].todo = {}, op[c].alone, op[c].ok,
                      op'[c].kind = "none"
               PROVE  l1' = None /\ l2' = None
    OBVIOUS
  <2>1. Return(c)
    BY OnlyReturnEnds DEF Busy
  <2>2. UNCHANGED <<l1, l2>>
    BY <2>1 DEF Return
  <2>3. l1 = None /\ l2 = None
    BY OpFacts DEF OpInv, Writers
  <2> QED BY <2>2, <2>3
<1> QED BY <1>1, CacheAlways, PTL DEF CacheSpec, DeleteIsFinal

-----------------------------------------------------------------------------
(* How old the copies of an entry are.                                     *)

\* In Redis, and in a copy of it, the age is that of the value, and the expiry its rest.
L2Young(e) == e.ttl = TTL /\ e.age = e.born /\ e.px = TTL - e.age /\ e.age < TTL

\* In L1 the entry is a Set's own, or a fill that was younger than TTL.
L1Young(e) == e.born <= e.age + TTL /\ (e.ttl = DefaultTTL \/ (e.ttl = TTL /\ e.born = e.age))

GotYoung(o) == o.got # None => IF o.todo = {"l1"} THEN L1Young(o.got) ELSE L2Young(o.got)

AgeInv ==
    /\ l1 # None => L1Young(l1)
    /\ l2 # None => L2Young(l2)
    /\ \A i \in DOMAIN fills : L2Young(fills[i])
    /\ \A c \in Clients : GotYoung(op[c])

\* A new entry is young at both levels, and so is a fill from a young entry of Redis.
LEMMA YoungFacts ==
    /\ \A v \in Values : L1Young(NewEntry(v, TTL)) /\ L2Young(NewEntry(v, TTL))
    /\ \A e \in Entries : L2Young(e) => L1Young(FillOf(e)) /\ L2Young([e EXCEPT !.px = Left(e)])
<1>1. TTL \in Nat /\ TTL > 0 /\ DefaultTTL \in Nat
  BY CacheAssumption
<1>2. ASSUME NEW v \in Values PROVE L1Young(NewEntry(v, TTL)) /\ L2Young(NewEntry(v, TTL))
  BY <1>1, EntryFacts DEF L1Young, L2Young
<1>3. ASSUME NEW e \in Entries, L2Young(e) PROVE L1Young(FillOf(e)) /\ L2Young([e EXCEPT !.px = Left(e)])
  <2>1. e.age \in Nat /\ e.born \in Nat
    BY DEF Entries
  <2>2. L1Young(FillOf(e))
    BY <1>1, <1>3, <2>1, EntryFacts DEF L1Young, L2Young
  <2> DEFINE r == [e EXCEPT !.px = Left(e)]
  <2>3. r.age = e.age /\ r.born = e.born /\ r.ttl = e.ttl /\ r.px = Left(e)
    BY RestoredFacts
  <2>4. Left(e) = TTL - e.age
    BY <1>3 DEF Left, L2Young
  <2> HIDE DEF r
  <2>5. L2Young(r)
    BY <1>3, <2>3, <2>4 DEF L2Young
  <2> QED BY <2>2, <2>5 DEF r
<1> QED BY <1>2, <1>3

\* A tick keeps an entry young, or Redis drops it.
LEMMA YoungTick ==
    /\ \A e \in Entries : L1Young(e) => L1Young(Older(e))
    /\ \A e \in Entries : L2Young(e) /\ RedisOlder(e) # None => L2Young(RedisOlder(e))
<1> DEFINE up(n) == IF n > TTL + DefaultTTL THEN n ELSE n + 1
<1>1. TTL \in Nat /\ TTL > 0 /\ DefaultTTL \in Nat
  BY CacheAssumption
<1>2. ASSUME NEW e \in Entries
      PROVE  /\ Older(e).age = up(e.age) /\ Older(e).born = up(e.born) /\ Older(e).ttl = e.ttl /\ Older(e).px = e.px
             /\ Older(e) \in Entries
  <2> DEFINE f == [e EXCEPT !.age = up(e.age)]
             g == [f EXCEPT !.born = up(e.born)]
  <2>1. Older(e) = g
    BY CacheAssumption DEF Older
  <2> HIDE DEF up
  <2>2. f.age = up(e.age) /\ f.born = e.born /\ f.ttl = e.ttl /\ f.px = e.px /\ DOMAIN f = DOMAIN e
    BY DEF Entries
  <2>3. DOMAIN f = {"value", "age", "ttl", "px", "born"}
    BY <2>2 DEF Entries
  <2> HIDE DEF f
  <2>4. g.age = f.age /\ g.born = up(e.born) /\ g.ttl = f.ttl /\ g.px = f.px
    BY <2>3
  <2> QED BY <2>1, <2>2, <2>4, OlderFacts
<1>3. ASSUME NEW e \in Entries, L1Young(e) PROVE L1Young(Older(e))
  <2>1. e.age \in Nat /\ e.born \in Nat
    BY DEF Entries
  <2>2. up(e.born) <= up(e.age) + TTL /\ (e.born = e.age => up(e.born) = up(e.age))
    BY <1>1, <1>3, <2>1 DEF L1Young
  <2> HIDE DEF up
  <2> QED BY <1>2, <1>3, <2>2 DEF L1Young
<1>4. ASSUME NEW e \in Entries, L2Young(e), RedisOlder(e) # None PROVE L2Young(RedisOlder(e))
  <2>1. e.age \in Nat /\ e.born \in Nat /\ e.age < TTL /\ e.px = TTL - e.age /\ e.born = e.age /\ e.ttl = TTL
    BY <1>4 DEF Entries, L2Young
  <2>2. e.px # 1 /\ e.px # Never /\ e.age + 1 < TTL
    BY <1>1, <1>4, <2>1 DEF RedisOlder, Never
  <2>3. up(e.age) = e.age + 1 /\ up(e.born) = e.age + 1
    BY <1>1, <2>1, <2>2
  <2> DEFINE f == Older(e)
             g == [f EXCEPT !.px = e.px - 1]
  <2>4. f \in Entries /\ f.age = e.age + 1 /\ f.born = e.age + 1 /\ f.ttl = TTL /\ f.px = e.px
    BY <1>2, <2>1, <2>3
  <2>5. RedisOlder(e) = g
    BY <1>4, <2>2, <2>4 DEF RedisOlder
  <2> HIDE DEF f
  <2>6. g.age = e.age + 1 /\ g.born = e.age + 1 /\ g.ttl = TTL /\ g.px = e.px - 1
    BY <2>4 DEF Entries
  <2> HIDE DEF g
  <2> QED BY <1>1, <2>1, <2>2, <2>5, <2>6 DEF L2Young
<1> QED BY <1>3, <1>4

\* A step of one client keeps the ages when what it writes is young.
LEMMA AgeActor ==
    ASSUME CacheInv, AgeInv, NEW c \in Clients, NEW n, op' = [op EXCEPT ![c] = n], GotYoung(n),
           l1' \in {l1, None} \/ L1Young(l1'), l2' \in {l2, None} \/ L2Young(l2'),
           \A i \in DOMAIN fills' : L2Young(fills'[i])
    PROVE  AgeInv'
<1>1. op \in [Clients -> OpStates]
  BY DEF CacheInv, CacheShape
<1>2. op'[c] = n /\ \A d \in Clients \ {c} : op'[d] = op[d]
  BY <1>1
<1>3. \A d \in Clients : GotYoung(op'[d])
  BY <1>2 DEF AgeInv
<1> QED BY <1>3 DEF AgeInv

\* What the steps of a client store and keep is young.
LEMMA AgeOfReads ==
    ASSUME CacheInv, AgeInv, NEW c \in Clients,
           L1Get(c) \/ L1Restore(c) \/ L1Exists(c) \/ L2Get(c) \/ L2Restore(c) \/ WarmFill(c)
    PROVE  AgeInv'
<1>0. op[c] \in OpStates /\ OpShape(op[c]) /\ GotYoung(op[c])
  BY OpFacts DEF OpInv, AgeInv
<1>1. CASE L1Get(c)
  <2> DEFINE n == IF L1Live THEN [op[c] EXCEPT !.got = l1] ELSE [op[c] EXCEPT !.todo = {"l2"}]
  <2>1. op' = [op EXCEPT ![c] = n] /\ l1' \in {l1, None} /\ UNCHANGED <<l2, fills>>
    BY <1>1 DEF L1Get
  <2>2. n.got = None \/ (n.got = l1 /\ l1 # None /\ n.todo = {"l1"})
    BY <1>0, <1>1 DEF L1Get, L1Live, OpStates
  <2> HIDE DEF n
  <2>3. GotYoung(n)
    BY <2>2 DEF GotYoung, AgeInv
  <2> QED BY <2>1, <2>3, AgeActor DEF AgeInv
<1>2. CASE L1Restore(c)
  <2> DEFINE m == [op[c] EXCEPT !.got = None]
             n == [m EXCEPT !.todo = {}]
  <2>1. op' = [op EXCEPT ![c] = n] /\ l1' = op[c].got /\ UNCHANGED <<l2, fills>>
    BY <1>2 DEF L1Restore
  <2>2. n.got = None
    BY <1>0 DEF OpStates
  <2> HIDE DEF n
  <2>3. GotYoung(n) /\ L1Young(l1')
    BY <1>0, <1>2, <2>1, <2>2 DEF GotYoung, L1Restore
  <2> QED BY <2>1, <2>3, AgeActor DEF AgeInv
<1>3. CASE L1Exists(c)
  <2> DEFINE n == [op[c] EXCEPT !.todo = IF l1 # None THEN {} ELSE {"l2"}]
  <2>1. op' = [op EXCEPT ![c] = n] /\ UNCHANGED <<l1, l2, fills>>
    BY <1>3 DEF L1Exists
  <2>2. op[c].got = None
    BY <1>0, <1>3 DEF L1Exists, OpShape
  <2>3. n.got = None
    BY <1>0, <2>2 DEF OpStates
  <2> HIDE DEF n
  <2>4. GotYoung(n)
    BY <2>3 DEF GotYoung
  <2> QED BY <2>1, <2>4, AgeActor DEF AgeInv
<1>4. CASE L2Get(c)
  <2> DEFINE n == IF l2 = None \/ mode = "simple" THEN [op[c] EXCEPT !.todo = {}] ELSE [op[c] EXCEPT !.got = l2]
  <2>1. op' = [op EXCEPT ![c] = n] /\ UNCHANGED <<l1, l2, fills>>
    BY <1>4 DEF L2Get
  <2>2. n.got = None \/ (n.got = l2 /\ l2 # None /\ n.todo = {"l2"})
    BY <1>0, <1>4 DEF L2Get, OpStates
  <2> HIDE DEF n
  <2>3. GotYoung(n)
    BY <2>2 DEF GotYoung, AgeInv
  <2> QED BY <2>1, <2>3, AgeActor DEF AgeInv
<1>5. CASE L2Restore(c)
  <2> DEFINE m == [op[c] EXCEPT !.got = None]
             n == IF op[c].kind = "get" THEN [m EXCEPT !.todo = {}] ELSE [op[c] EXCEPT !.todo = {"fill"}]
             e == op[c].got
  <2>1. /\ op' = [op EXCEPT ![c] = n] /\ l2' = [e EXCEPT !.px = Left(e)] /\ UNCHANGED l1
        /\ fills' \in {fills, Append(fills, e)} /\ op[c].todo = {"l2"} /\ e # None
    BY <1>5 DEF L2Restore
  <2>2. n.got = None \/ (n.got = e /\ n.todo = {"fill"})
    BY <1>0 DEF OpStates
  <2>3. e \in Entries /\ L2Young(e)
    BY <1>0, <2>1 DEF OpStates, GotYoung
  <2> HIDE DEF n, e
  <2>4. GotYoung(n) /\ L2Young(l2')
    BY <2>1, <2>2, <2>3, YoungFacts DEF GotYoung
  <2>5. \A i \in DOMAIN fills' : L2Young(fills'[i])
    <3>1. fills \in Seq(Entries)
      BY OpFacts
    <3>2. \A i \in DOMAIN fills' : fills'[i] = e \/ (i \in DOMAIN fills /\ fills'[i] = fills[i])
      BY <2>1, <2>3, <3>1
    <3> QED BY <2>3, <3>2 DEF AgeInv
  <2> QED BY <2>1, <2>4, <2>5, AgeActor
<1>6. CASE WarmFill(c)
  <2> DEFINE m == [op[c] EXCEPT !.todo = {}]
             n == [m EXCEPT !.got = None]
             e == op[c].got
  <2>1. op' = [op EXCEPT ![c] = n] /\ l1' = FillOf(e) /\ UNCHANGED <<l2, fills>> /\ op[c].todo = {"fill"}
    BY <1>6 DEF WarmFill
  <2>2. n.got = None
    BY <1>0 DEF OpStates
  <2>3. e \in Entries /\ L2Young(e)
    BY <1>0, <2>1 DEF OpStates, OpShape, GotYoung
  <2> HIDE DEF n, e
  <2>4. GotYoung(n) /\ L1Young(l1')
    BY <2>1, <2>2, <2>3, YoungFacts DEF GotYoung
  <2> QED BY <2>1, <2>4, AgeActor DEF AgeInv
<1> QED BY <1>1, <1>2, <1>3, <1>4, <1>5, <1>6

\* The writes: Set starts a new lifetime, and the other steps end one.
LEMMA AgeOfWrites ==
    ASSUME CacheInv, AgeInv, NEW c \in Clients,
           \/ L1Set(c) \/ L1Delete(c) \/ L2Set(c) \/ L2Delete(c) \/ L2Scan(c) \/ L2DeleteScanned(c)
           \/ L2Fails(c) \/ Return(c)
    PROVE  AgeInv'
<1>0. op[c] \in OpStates /\ OpShape(op[c]) /\ GotYoung(op[c])
  BY OpFacts DEF OpInv, AgeInv
<1>1. CASE L1Set(c) \/ L1Delete(c) \/ L2Set(c) \/ L2Delete(c) \/ L2DeleteScanned(c)
  <2>1. PICK l \in {"l1", "l2", "del"} : l \in op[c].todo /\ DoneWith(c, l) /\ UNCHANGED fills
           /\ (l \in {"l1", "l2"} => op[c].kind \in Writers)
    BY <1>1 DEF L1Set, L1Delete, L2Set, L2Delete, L2DeleteScanned, Writers
  <2>2. op[c].got = None
    BY <1>0, <2>1 DEF OpShape, Writers
  <2>3. PICK n \in OpStates : op' = [op EXCEPT ![c] = n] /\ n.got = None
    BY <2>1, <2>2, Done DEF Places
  <2>4. (l1' \in {l1, None} \/ L1Young(l1')) /\ (l2' \in {l2, None} \/ L2Young(l2'))
    BY <1>0, <1>1, YoungFacts DEF L1Set, L1Delete, L2Set, L2Delete, L2DeleteScanned, OpShape
  <2> QED BY <2>1, <2>3, <2>4, AgeActor DEF GotYoung, AgeInv
<1>2. CASE L2Scan(c)
  <2> DEFINE n == [op[c] EXCEPT !.todo = (@ \ {"l2"}) \cup IF l2 # None THEN {"del"} ELSE {}]
  <2>1. op' = [op EXCEPT ![c] = n] /\ UNCHANGED <<l1, l2, fills>>
    BY <1>2 DEF L2Scan
  <2>2. op[c].got = None
    BY <1>0, <1>2 DEF L2Scan, OpShape
  <2>3. n.got = None
    BY <1>0, <2>2 DEF OpStates
  <2> HIDE DEF n
  <2> QED BY <2>1, <2>3, AgeActor DEF GotYoung, AgeInv
<1>3. CASE L2Fails(c)
  <2> DEFINE m == [op[c] EXCEPT !.todo = @ \ {"l2", "del"}]
             k == [m EXCEPT !.ok = FALSE]
             n == [k EXCEPT !.got = None]
  <2>1. op' = [op EXCEPT ![c] = n] /\ UNCHANGED <<l1, l2, fills>>
    BY <1>3 DEF L2Fails
  <2>2. n.got = None
    BY <1>0 DEF OpStates
  <2> HIDE DEF n
  <2> QED BY <2>1, <2>2, AgeActor DEF GotYoung, AgeInv
<1>4. CASE Return(c)
  <2>1. op' = [op EXCEPT ![c] = NoOp] /\ UNCHANGED <<l1, l2, fills>> /\ NoOp.got = None
    BY <1>4 DEF Return, NoOp
  <2> QED BY <2>1, AgeActor DEF GotYoung, AgeInv
<1> QED BY <1>1, <1>2, <1>3, <1>4

\* Time passes, but not inside a Get of Redis (~Latency).
LEMMA AgeOfTick ==
    ASSUME CacheInv, AgeInv, ~Latency, CacheTick PROVE AgeInv'
<1>1. /\ l1' = Older(l1) /\ l2' = RedisOlder(l2) /\ fills = << >> /\ \A c \in Clients : op[c].got = None
      /\ op' = [c \in Clients |-> [op[c] EXCEPT !.got = Older(op[c].got)]]
      /\ fills' = [i \in DOMAIN fills |-> Older(fills[i])]
  BY DEF CacheTick, Filling
<1>2. \A c \in Clients : GotYoung(op'[c])
  <2> SUFFICES ASSUME NEW c \in Clients PROVE op'[c].got = None
    BY DEF GotYoung
  <2>1. op[c] \in OpStates
    BY OpFacts
  <2>2. op'[c] = [op[c] EXCEPT !.got = None]
    BY <1>1, OlderFacts
  <2> QED BY <2>1, <2>2 DEF OpStates
<1>3. l1' # None => L1Young(l1')
  BY <1>1, OlderFacts, YoungTick DEF CacheInv, CacheShape, AgeInv
<1>4. l2' # None => L2Young(l2')
  BY <1>1, OlderFacts, YoungTick DEF CacheInv, CacheShape, AgeInv
<1>5. \A i \in DOMAIN fills' : L2Young(fills'[i])
  BY <1>1
<1> QED BY <1>2, <1>3, <1>4, <1>5 DEF AgeInv

\* Every step keeps the ages.
LEMMA AgeStep ==
    ASSUME CacheInv, AgeInv, ~Latency, [CacheNext]_cacheVars PROVE AgeInv'
<1>1. ASSUME NEW d \in Clients,
             \/ Get(d) \/ SimpleGet(d) \/ Set(d) \/ SimpleSet(d) \/ Delete(d) \/ SimpleDelete(d) \/ Clear(d)
             \/ SimpleClear(d) \/ InvalidatePattern(d) \/ WarmKey(d) \/ WarmPattern(d)
      PROVE  AgeInv'
  <2>1. PICK kind, value, todo : Begin(d, kind, value, todo)
    BY <1>1 DEF Get, SimpleGet, Set, SimpleSet, Delete, SimpleDelete, Clear, SimpleClear, InvalidatePattern, WarmKey, WarmPattern
  <2> DEFINE m1 == [NoOp EXCEPT !.kind = kind]
             m2 == [m1 EXCEPT !.value = value]
             m3 == [m2 EXCEPT !.todo = todo]
             n == [m3 EXCEPT !.alone = ({e \in Clients \ {d} : Busy(e)} = {} /\ ~Filling)]
  <2>2. n.got = None
    BY DEF NoOp
  <2>3. op'[d] = n /\ UNCHANGED <<l1, l2, fills>>
    BY <2>1 DEF Begin
  <2>4. ASSUME NEW c \in Clients, c # d PROVE op'[c].got = op[c].got /\ op'[c].todo = op[c].todo
    <3>1. op'[c] = [op[c] EXCEPT !.alone = FALSE] \/ op'[c] = op[c]
      BY <2>1, <2>4 DEF Begin
    <3>2. op[c] \in OpStates
      BY OpFacts
    <3> QED BY <3>1, <3>2 DEF OpStates
  <2> HIDE DEF n
  <2>5. \A c \in Clients : GotYoung(op'[c])
    BY <2>2, <2>3, <2>4 DEF GotYoung, AgeInv
  <2> QED BY <2>3, <2>5 DEF AgeInv
<1>2. ASSUME NEW c \in Clients, L1Get(c) \/ L1Restore(c) \/ L1Exists(c) \/ L2Get(c) \/ L2Restore(c) \/ WarmFill(c)
      PROVE  AgeInv'
  BY <1>2, AgeOfReads
<1>3. ASSUME NEW c \in Clients,
             \/ L1Set(c) \/ L1Delete(c) \/ L2Set(c) \/ L2Delete(c) \/ L2Scan(c) \/ L2DeleteScanned(c)
             \/ L2Fails(c) \/ Return(c)
      PROVE  AgeInv'
  BY <1>3, AgeOfWrites
<1>4. ASSUME NEW i \in DOMAIN fills, Fill(i) PROVE AgeInv'
  <2>1. l1' = FillOf(fills[i]) /\ fills' = RemoveAt(fills, i) /\ UNCHANGED <<l2, op>> /\ fills \in Seq(Entries)
    BY <1>4 DEF Fill, CacheInv, CacheShape
  <2>2. fills[i] \in Entries /\ L2Young(fills[i])
    BY <2>1 DEF AgeInv
  <2>3. \A j \in DOMAIN fills' : \E k \in DOMAIN fills : fills'[j] = fills[k]
    BY <2>1, RemoveAtFacts
  <2>4. L1Young(l1')
    BY <2>1, <2>2, YoungFacts
  <2> QED BY <2>1, <2>3, <2>4 DEF AgeInv
<1>5. CASE L1Evicts
  BY <1>5 DEF L1Evicts, AgeInv
<1>6. CASE CacheTick
  BY <1>6, AgeOfTick
<1>7. CASE UNCHANGED cacheVars
  BY <1>7 DEF cacheVars, AgeInv
<1> QED BY <1>1, <1>2, <1>3, <1>4, <1>5, <1>6, <1>7 DEF CacheNext

\* ServedAgeBounded, for every lifetime, when no time passes between the two calls of a
\* Get of Redis: neither the second store of a Get nor the fill of L1 lets a value live
\* longer than TTL + DefaultTTL.
THEOREM ServedAgeAlwaysBounded ==
    ASSUME ~Latency PROVE CacheSpec => []ServedAgeBounded
<1>1. CacheInit => AgeInv
  BY DEF CacheInit, AgeInv, GotYoung, NoOp
<1>2. CacheInv /\ AgeInv /\ [CacheNext]_cacheVars => AgeInv'
  BY AgeStep
<1>3. CacheInv /\ AgeInv => ServedAgeBounded
  <2> SUFFICES ASSUME CacheInv, AgeInv PROVE ServedAgeBounded
    OBVIOUS
  <2>1. TTL \in Nat /\ DefaultTTL \in Nat
    BY CacheAssumption
  <2>2. ASSUME L1Live PROVE l1.born <= TTL + DefaultTTL
    <3>1. l1 # None /\ l1.age <= l1.ttl /\ L1Young(l1)
      BY <2>2 DEF L1Live, AgeInv
    <3>2. l1.age \in Nat /\ l1.born \in Nat
      BY <3>1 DEF CacheInv, CacheShape, Entries
    <3> QED BY <2>1, <3>1, <3>2 DEF L1Young
  <2>3. ASSUME l2 # None PROVE l2.born <= TTL
    <3>1. l2.age \in Nat /\ L2Young(l2)
      BY <2>3 DEF CacheInv, CacheShape, Entries, AgeInv
    <3> QED BY <2>1, <3>1 DEF L2Young
  <2> QED BY <2>2, <2>3 DEF ServedAgeBounded
<1> QED BY <1>1, <1>2, <1>3, CacheAlways, PTL DEF CacheSpec

-----------------------------------------------------------------------------
(* The invalidator.                                                        *)

WorkStates ==
    [op : {"none", "key", "pattern", "tags"}, tags : SUBSET Tags, todo : SUBSET CachedKeys, dels : SUBSET CachedKeys,
     failed : SUBSET CachedKeys, during : SUBSET CachedKeys, job : SUBSET ScheduledJobs]

TargetStates == [op : {"none", "key", "pattern", "tags"}, keys : SUBSET CachedKeys, tags : SUBSET Tags]

\* The entry k is no concern of the call r any more: it has left the cache, or the call
\* knows that it may be there.
Settled(r, k) == k \in r.failed \cup r.during \/ ~Cached(k)

\* A key that a call has deleted is settled, and one that a tag of a call by tags maps to
\* is settled or still to be deleted.
CallInv(r) ==
    /\ r.dels \subseteq r.todo
    /\ \A k \in r.todo \ r.dels : Settled(r, k)
    /\ r.op = "tags" => \A t \in r.tags : \A k \in taggedKeys[t] : k \in r.dels \/ Settled(r, k)

InvalidationShape ==
    /\ level \in [CacheLevels -> SUBSET CachedKeys]
    /\ taggedKeys \in [Tags -> SUBSET CachedKeys]
    /\ scheduled \in [ScheduledJobs -> TargetStates]
    /\ work \in [Work -> WorkStates]

InvalidationInv == InvalidationShape /\ \A w \in Work : CallInv(work[w])

-----------------------------------------------------------------------------
\* Entries only leave the cache, tags only lose keys, and one call moves on.
LEMMA CallStep ==
    ASSUME InvalidationInv, NEW w \in Work, NEW n \in WorkStates, work' = [work EXCEPT ![w] = n],
           level' \in [CacheLevels -> SUBSET CachedKeys], \A l \in CacheLevels : level'[l] \subseteq level[l],
           taggedKeys' \in [Tags -> SUBSET CachedKeys], \A t \in Tags : taggedKeys'[t] \subseteq taggedKeys[t],
           scheduled' \in [ScheduledJobs -> TargetStates],
           n.dels \subseteq n.todo,
           \A k \in n.todo \ n.dels : k \in n.failed \cup n.during \/ ~Cached(k)',
           n.op = "tags" => \A t \in n.tags : \A k \in taggedKeys'[t] :
                               k \in n.dels \/ k \in n.failed \cup n.during \/ ~Cached(k)'
    PROVE  InvalidationInv'
<1>1. work \in [Work -> WorkStates]
  BY DEF InvalidationInv, InvalidationShape
<1>2. work' \in [Work -> WorkStates] /\ work'[w] = n /\ \A v \in Work \ {w} : work'[v] = work[v]
  BY <1>1
<1>3. InvalidationShape'
  BY <1>2 DEF InvalidationShape
<1>4. \A k : Cached(k)' => Cached(k)
  BY DEF Cached
<1>5. ASSUME NEW v \in Work PROVE CallInv(work[v])'
  <2>1. CASE v = w
    BY <1>2, <2>1 DEF CallInv, Settled
  <2>2. CASE v # w
    <3>1. work'[v] = work[v] /\ CallInv(work[v]) /\ work[v].tags \subseteq Tags
      BY <1>1, <1>2, <2>2 DEF InvalidationInv, WorkStates
    <3>2. \A k : Settled(work[v], k) => Settled(work[v], k)'
      BY <1>4, <3>1 DEF Settled
    <3> QED BY <3>1, <3>2 DEF CallInv
  <2> QED BY <2>1, <2>2
<1> QED BY <1>3, <1>5 DEF InvalidationInv

\* An entry is stored or tagged: every call that may still take tags from it is told.
LEMMA TouchStep ==
    ASSUME InvalidationInv, NEW k \in CachedKeys, Touched(k),
           level' \in [CacheLevels -> SUBSET CachedKeys], \A l \in CacheLevels : level'[l] \subseteq level[l] \cup {k},
           taggedKeys' \in [Tags -> SUBSET CachedKeys], \A t \in Tags : taggedKeys'[t] \subseteq taggedKeys[t] \cup {k},
           UNCHANGED scheduled
    PROVE  InvalidationInv'
<1>0. work \in [Work -> WorkStates]
  BY DEF InvalidationInv, InvalidationShape
<1>1. ASSUME NEW w \in Work
      PROVE  /\ work'[w] \in WorkStates /\ work'[w].op = work[w].op /\ work'[w].tags = work[w].tags
             /\ work'[w].todo = work[w].todo /\ work'[w].dels = work[w].dels /\ work'[w].failed = work[w].failed
             /\ work[w].during \subseteq work'[w].during
             /\ work[w].op = "tags" \/ k \in work[w].todo => k \in work'[w].during
  <2>0. work[w] \in WorkStates
    BY <1>0
  <2>1. CASE w \in Concerned(k)
    <3>1. work'[w] = [work[w] EXCEPT !.during = work[w].during \cup {k}]
      BY <2>1 DEF Touched
    <3> QED BY <2>0, <3>1 DEF WorkStates
  <2>2. CASE w \notin Concerned(k)
    <3>1. work'[w] = work[w]
      BY <2>2 DEF Touched
    <3> QED BY <2>0, <2>2, <3>1 DEF Concerned
  <2> QED BY <2>1, <2>2
<1>2. work' \in [Work -> WorkStates]
  <2>1. work' = [w \in Work |-> work'[w]]
    BY DEF Touched
  <2> QED BY <1>1, <2>1
<1>3. InvalidationShape'
  BY <1>2 DEF InvalidationInv, InvalidationShape
<1>4. \A j : Cached(j)' => Cached(j) \/ j = k
  BY DEF Cached
<1>5. ASSUME NEW w \in Work PROVE CallInv(work[w])'
  <2>1. CallInv(work[w]) /\ work[w].tags \subseteq Tags
    BY <1>0 DEF InvalidationInv, WorkStates
  <2>2. \A j : Settled(work[w], j) /\ (work[w].op = "tags" \/ j \in work[w].todo) => Settled(work[w], j)'
    BY <1>1, <1>4 DEF Settled
  <2>3. work[w].op = "tags" => Settled(work[w], k)'
    BY <1>1 DEF Settled
  <2>4. \A j \in work[w].todo \ work[w].dels : Settled(work[w], j)'
    BY <2>1, <2>2 DEF CallInv
  <2>5. ASSUME work[w].op = "tags", NEW t \in work[w].tags, NEW j \in taggedKeys'[t]
        PROVE  j \in work[w].dels \/ Settled(work[w], j)'
    BY <2>1, <2>2, <2>3, <2>5 DEF CallInv
  <2> QED BY <1>1, <2>1, <2>4, <2>5 DEF CallInv
<1> QED BY <1>3, <1>5 DEF InvalidationInv

\* The application stores or tags an entry.
LEMMA ApplicationKeeps ==
    ASSUME InvalidationInv, NEW k \in CachedKeys, StoreEntry(k) \/ \E ts \in SUBSET Tags : TagKey(k, ts)
    PROVE  InvalidationInv'
<1>1. level \in [CacheLevels -> SUBSET CachedKeys] /\ taggedKeys \in [Tags -> SUBSET CachedKeys]
  BY DEF InvalidationInv, InvalidationShape
<1>2. CASE StoreEntry(k)
  <2>1. level' = [l \in CacheLevels |-> level[l] \cup {k}] /\ Touched(k) /\ UNCHANGED <<taggedKeys, scheduled>>
    BY <1>2 DEF StoreEntry
  <2> QED BY <1>1, <2>1, TouchStep
<1>3. ASSUME NEW ts \in SUBSET Tags, TagKey(k, ts) PROVE InvalidationInv'
  <2>1. taggedKeys' = [t \in Tags |-> IF t \in ts THEN taggedKeys[t] \cup {k} ELSE taggedKeys[t]] /\ Touched(k)
        /\ UNCHANGED <<level, scheduled>>
    BY <1>3 DEF TagKey
  <2>2. taggedKeys' \in [Tags -> SUBSET CachedKeys] /\ \A t \in Tags : taggedKeys'[t] \subseteq taggedKeys[t] \cup {k}
    BY <1>1, <2>1
  <2> QED BY <1>1, <2>1, <2>2, TouchStep
<1> QED BY <1>2, <1>3

\* A call begins with every key it is to delete still to be deleted.
LEMMA StartKeeps ==
    ASSUME InvalidationInv, NEW w \in Work, NEW target \in TargetStates, NEW job \in SUBSET ScheduledJobs,
           StartInvalidation(w, target, job), UNCHANGED <<level, taggedKeys, scheduled, processor>>
    PROVE  InvalidationInv'
<1>0. taggedKeys \in [Tags -> SUBSET CachedKeys] /\ scheduled \in [ScheduledJobs -> TargetStates]
      /\ level \in [CacheLevels -> SUBSET CachedKeys]
  BY DEF InvalidationInv, InvalidationShape
<1>1. PICK o \in {"key", "pattern", "tags"}, ts \in SUBSET Tags, ks \in SUBSET CachedKeys :
         BeginWork(w, o, ts, ks, job) /\ (o = "tags" => ks = Mapped(ts))
  <2>1. target.keys \in SUBSET CachedKeys /\ target.tags \in SUBSET Tags
    BY DEF TargetStates
  <2>2. Mapped(target.tags) \in SUBSET CachedKeys
    BY <1>0, <2>1 DEF Mapped
  <2>3. CASE target.op = "key"
    BY <2>1, <2>3 DEF StartInvalidation
  <2>4. CASE target.op = "pattern"
    BY <2>4 DEF StartInvalidation
  <2>5. CASE target.op = "tags" /\ Mapped(target.tags) # {}
    BY <2>1, <2>2, <2>5 DEF StartInvalidation
  <2>6. CASE target.op \notin {"key", "pattern"} /\ ~(target.op = "tags" /\ Mapped(target.tags) # {})
    BY <2>6 DEF StartInvalidation
  <2> QED BY <2>3, <2>4, <2>5, <2>6
<1> DEFINE m1 == [NoWork EXCEPT !.op = o]
           m2 == [m1 EXCEPT !.tags = ts]
           m3 == [m2 EXCEPT !.todo = ks]
           m4 == [m3 EXCEPT !.dels = ks]
           n == [m4 EXCEPT !.job = job]
<1>2. work' = [work EXCEPT ![w] = n]
  BY <1>1 DEF BeginWork
<1>3. m1 \in WorkStates /\ m1.op = o
  BY DEF NoWork, WorkStates
<1> HIDE DEF m1
<1>4. m2 \in WorkStates /\ m2.op = o /\ m2.tags = ts
  BY <1>3 DEF WorkStates
<1> HIDE DEF m2
<1>5. m3 \in WorkStates /\ m3.op = o /\ m3.tags = ts /\ m3.todo = ks
  BY <1>4 DEF WorkStates
<1> HIDE DEF m3
<1>6. m4 \in WorkStates /\ m4.op = o /\ m4.tags = ts /\ m4.todo = ks /\ m4.dels = ks
  BY <1>5 DEF WorkStates
<1> HIDE DEF m4
<1>7. n \in WorkStates /\ n.op = o /\ n.tags = ts /\ n.todo = ks /\ n.dels = ks
  BY <1>6 DEF WorkStates
<1> HIDE DEF n
<1>8. n.op = "tags" => \A t \in n.tags : \A k \in taggedKeys'[t] : k \in n.dels
  BY <1>1, <1>7 DEF Mapped
<1> QED BY <1>0, <1>2, <1>7, <1>8, CallStep

\* The keys a call deletes are settled for it.
LEMMA DeleteKeeps ==
    ASSUME InvalidationInv, NEW w \in Work, DeleteFromLevels(w) PROVE InvalidationInv'
<1>1. PICK k \in work[w].dels, ok \in BOOLEAN :
         /\ level' = [l \in CacheLevels |-> IF l = "L1" \/ ok THEN level[l] \ {k} ELSE level[l]]
         /\ work' = [work EXCEPT ![w].dels = @ \ {k}, ![w].failed = IF ok THEN @ ELSE @ \cup {k}]
         /\ UNCHANGED <<taggedKeys, scheduled, processor>>
  BY DEF DeleteFromLevels
<1> DEFINE r == work[w]
           f == IF ok THEN r.failed ELSE r.failed \cup {k}
           m == [r EXCEPT !.dels = r.dels \ {k}]
           n == [m EXCEPT !.failed = f]
<1>2. work' = [work EXCEPT ![w] = n]
  BY <1>1
<1>3. /\ taggedKeys \in [Tags -> SUBSET CachedKeys] /\ scheduled \in [ScheduledJobs -> TargetStates]
      /\ level \in [CacheLevels -> SUBSET CachedKeys] /\ r \in WorkStates /\ CallInv(r)
  BY DEF InvalidationInv, InvalidationShape
<1>4. f \in SUBSET CachedKeys /\ r.failed \subseteq f /\ (~ok => k \in f)
  BY <1>1, <1>3 DEF WorkStates
<1> HIDE DEF f
<1>5. m \in WorkStates /\ m.dels = r.dels \ {k} /\ m.todo = r.todo /\ m.op = r.op /\ m.tags = r.tags /\ m.during = r.during
  BY <1>3 DEF WorkStates
<1> HIDE DEF m
<1>6. n \in WorkStates /\ n.dels = r.dels \ {k} /\ n.todo = r.todo /\ n.op = r.op /\ n.tags = r.tags /\ n.during = r.during
      /\ n.failed = f
  BY <1>4, <1>5 DEF WorkStates
<1> HIDE DEF n
<1>7. level' \in [CacheLevels -> SUBSET CachedKeys] /\ (\A l \in CacheLevels : level'[l] \subseteq level[l])
      /\ (ok => \A l \in CacheLevels : k \notin level'[l])
  BY <1>1, <1>3
<1>8. (\A j : Cached(j)' => Cached(j)) /\ (k \in f \/ ~Cached(k)')
  BY <1>4, <1>7 DEF Cached
<1>9. \A j \in n.todo \ n.dels : j \in n.failed \cup n.during \/ ~Cached(j)'
  BY <1>3, <1>4, <1>6, <1>8 DEF CallInv, Settled
<1>10. n.op = "tags" => \A t \in n.tags : \A j \in taggedKeys'[t] :
           j \in n.dels \/ j \in n.failed \cup n.during \/ ~Cached(j)'
  BY <1>1, <1>3, <1>4, <1>6, <1>8 DEF CallInv, Settled
<1>11. n.dels \subseteq n.todo
  BY <1>3, <1>6 DEF CallInv
<1> QED BY <1>1, <1>2, <1>3, <1>6, <1>7, <1>9, <1>10, <1>11, CallStep

\* A key loses its tags, or keeps them because a deletion of it failed.
LEMMA UntagKeeps ==
    ASSUME InvalidationInv, NEW w \in Work, removeKeyFromTags(w) PROVE InvalidationInv'
<1> DEFINE r == work[w]
<1>1. PICK k \in r.todo \ r.dels :
         /\ taggedKeys' = IF k \in r.failed THEN taggedKeys ELSE [t \in Tags |-> taggedKeys[t] \ {k}]
         /\ LET done == IF r.op = "key" THEN {k} ELSE {} IN
            work' = [work EXCEPT ![w].todo = @ \ {k}, ![w].failed = @ \ done, ![w].during = @ \ done]
         /\ UNCHANGED <<level, scheduled, processor>>
  BY DEF removeKeyFromTags
<1> DEFINE done == IF r.op = "key" THEN {k} ELSE {}
           m1 == [r EXCEPT !.todo = r.todo \ {k}]
           m2 == [m1 EXCEPT !.failed = m1.failed \ done]
           n == [m2 EXCEPT !.during = m2.during \ done]
<1>2. /\ taggedKeys \in [Tags -> SUBSET CachedKeys] /\ scheduled \in [ScheduledJobs -> TargetStates]
      /\ level \in [CacheLevels -> SUBSET CachedKeys] /\ r \in WorkStates /\ CallInv(r) /\ work \in [Work -> WorkStates]
  BY DEF InvalidationInv, InvalidationShape
<1>3. done \subseteq {k} /\ (r.op = "tags" => done = {})
  OBVIOUS
<1>4. work' = [work EXCEPT ![w] = n]
  BY <1>1
<1> HIDE DEF done
<1>5. /\ m1 \in WorkStates /\ m1.todo = r.todo \ {k} /\ m1.dels = r.dels /\ m1.failed = r.failed /\ m1.during = r.during
      /\ m1.op = r.op /\ m1.tags = r.tags
  BY <1>2 DEF WorkStates
<1> HIDE DEF m1
<1>6. /\ m2 \in WorkStates /\ m2.todo = r.todo \ {k} /\ m2.dels = r.dels /\ m2.failed = r.failed \ done /\ m2.during = r.during
      /\ m2.op = r.op /\ m2.tags = r.tags
  BY <1>5 DEF WorkStates
<1> HIDE DEF m2
<1>7. /\ n \in WorkStates /\ n.todo = r.todo \ {k} /\ n.dels = r.dels /\ n.failed = r.failed \ done
      /\ n.during = r.during \ done /\ n.op = r.op /\ n.tags = r.tags
  BY <1>6 DEF WorkStates
<1> HIDE DEF n
<1>8. taggedKeys' \in [Tags -> SUBSET CachedKeys] /\ \A t \in Tags : taggedKeys'[t] \subseteq taggedKeys[t]
  BY <1>1, <1>2
<1>9. \A j : Cached(j)' <=> Cached(j)
  BY <1>1 DEF Cached
<1>10. \A j \in n.todo \ n.dels : j \in n.failed \cup n.during \/ ~Cached(j)'
  BY <1>2, <1>3, <1>7, <1>9 DEF CallInv, Settled
<1>11. n.op = "tags" => \A t \in n.tags : \A j \in taggedKeys'[t] :
           j \in n.dels \/ j \in n.failed \cup n.during \/ ~Cached(j)'
  <2>1. n.tags \subseteq Tags
    BY <1>7 DEF WorkStates
  <2> QED BY <1>2, <1>3, <1>7, <1>8, <1>9, <2>1 DEF CallInv, Settled
<1>12. n.dels \subseteq n.todo
  BY <1>1, <1>2, <1>7 DEF CallInv
<1> QED BY <1>1, <1>2, <1>4, <1>7, <1>8, <1>10, <1>11, <1>12, CallStep

\* The steps that end a part of a call.
LEMMA EndKeeps ==
    ASSUME InvalidationInv, NEW w \in Work, DeleteMatching(w) \/ CleanUpTags(w) \/ EndWork(w) PROVE InvalidationInv'
<1> DEFINE r == work[w]
<1>1. /\ taggedKeys \in [Tags -> SUBSET CachedKeys] /\ scheduled \in [ScheduledJobs -> TargetStates]
      /\ level \in [CacheLevels -> SUBSET CachedKeys] /\ r \in WorkStates /\ CallInv(r) /\ work \in [Work -> WorkStates]
  BY DEF InvalidationInv, InvalidationShape
<1>2. NoWork \in WorkStates /\ NoWork.op = "none" /\ NoWork.todo = {} /\ NoWork.dels = {}
  BY DEF NoWork, WorkStates
<1>3. NoTarget \in TargetStates
  BY DEF NoTarget, TargetStates
<1>4. CASE DeleteMatching(w)
  <2> DEFINE n == [r EXCEPT !.op = "key"]
  <2>1. PICK ok \in BOOLEAN : level' = IF ok THEN [level EXCEPT !["L2"] = @ \ Matching] ELSE level
    BY <1>4 DEF DeleteMatching
  <2>2. work' = [work EXCEPT ![w] = n] /\ UNCHANGED <<taggedKeys, scheduled>>
    BY <1>4 DEF DeleteMatching
  <2>3. n \in WorkStates /\ n.op = "key" /\ n.todo = r.todo /\ n.dels = r.dels /\ n.failed = r.failed /\ n.during = r.during
    BY <1>1 DEF WorkStates
  <2> HIDE DEF n
  <2>4. level' \in [CacheLevels -> SUBSET CachedKeys] /\ \A l \in CacheLevels : level'[l] \subseteq level[l]
    BY <1>1, <2>1
  <2>5. \A j : Cached(j)' => Cached(j)
    BY <2>4 DEF Cached
  <2>6. n.dels \subseteq n.todo /\ \A k \in n.todo \ n.dels : k \in n.failed \cup n.during \/ ~Cached(k)'
    BY <1>1, <2>3, <2>5 DEF CallInv, Settled
  <2> QED BY <1>1, <2>2, <2>3, <2>4, <2>6, CallStep
<1>5. CASE CleanUpTags(w)
  <2> DEFINE m == [NoWork EXCEPT !.op = "key"]
             n == [m EXCEPT !.job = r.job]
  <2>1. work' = [work EXCEPT ![w] = n] /\ UNCHANGED <<level, scheduled>>
        /\ taggedKeys' = [t \in Tags |-> IF t \in r.tags THEN {} ELSE taggedKeys[t]]
    BY <1>5 DEF CleanUpTags
  <2>2. m \in WorkStates /\ m.op = "key" /\ m.todo = {} /\ m.dels = {}
    BY <1>2 DEF WorkStates
  <2> HIDE DEF m
  <2>3. n \in WorkStates /\ n.op = "key" /\ n.todo = {} /\ n.dels = {}
    BY <1>1, <2>2 DEF WorkStates
  <2> HIDE DEF n
  <2>4. taggedKeys' \in [Tags -> SUBSET CachedKeys] /\ \A t \in Tags : taggedKeys'[t] \subseteq taggedKeys[t]
    BY <1>1, <2>1
  <2> QED BY <1>1, <2>1, <2>3, <2>4, CallStep
<1>6. CASE EndWork(w)
  <2>1. work' = [work EXCEPT ![w] = NoWork] /\ UNCHANGED <<level, taggedKeys>>
        /\ scheduled' = [j \in ScheduledJobs |-> IF j \in r.job THEN NoTarget ELSE scheduled[j]]
    BY <1>6 DEF EndWork
  <2>2. scheduled' \in [ScheduledJobs -> TargetStates]
    BY <1>1, <1>3, <2>1
  <2> QED BY <1>1, <1>2, <2>1, <2>2, CallStep
<1> QED BY <1>4, <1>5, <1>6

\* What is invalidated is a key, a pattern or tags.
LEMMA TargetFacts == Targets \subseteq TargetStates /\ NoTarget \in TargetStates
<1>0. NoTarget \in TargetStates
  BY DEF NoTarget, TargetStates
<1>1. ASSUME NEW k \in CachedKeys PROVE [NoTarget EXCEPT !.op = "key", !.keys = {k}] \in TargetStates
  <2> DEFINE m == [NoTarget EXCEPT !.op = "key"]
  <2>1. m \in TargetStates
    BY DEF NoTarget, TargetStates
  <2> HIDE DEF m
  <2>2. [m EXCEPT !.keys = {k}] \in TargetStates
    BY <2>1 DEF TargetStates
  <2> QED BY <2>2 DEF m
<1>2. [NoTarget EXCEPT !.op = "pattern"] \in TargetStates
  BY DEF NoTarget, TargetStates
<1>3. ASSUME NEW ts \in SUBSET Tags PROVE [NoTarget EXCEPT !.op = "tags", !.tags = ts] \in TargetStates
  <2> DEFINE m == [NoTarget EXCEPT !.op = "tags"]
  <2>1. m \in TargetStates
    BY DEF NoTarget, TargetStates
  <2> HIDE DEF m
  <2>2. [m EXCEPT !.tags = ts] \in TargetStates
    BY <2>1 DEF TargetStates
  <2> QED BY <2>2 DEF m
<1> QED BY <1>0, <1>1, <1>2, <1>3 DEF Targets

\* Jobs are scheduled, started and cleared.
LEMMA ScheduleKeeps ==
    ASSUME InvalidationInv,
           \/ \E j \in ScheduledJobs : ScheduleInvalidation(j) \/ SchedulePatternInvalidation(j) \/ ScheduleTagInvalidation(j)
           \/ ClearScheduledInvalidations \/ StopInvalidator
    PROVE  InvalidationInv'
<1>1. scheduled \in [ScheduledJobs -> TargetStates]
  BY DEF InvalidationInv, InvalidationShape
<1>2. UNCHANGED <<level, taggedKeys, work>>
  BY DEF ScheduleInvalidation, SchedulePatternInvalidation, ScheduleTagInvalidation, Schedule,
         ClearScheduledInvalidations, StopInvalidator
<1>3. scheduled' \in [ScheduledJobs -> TargetStates]
  <2>1. ASSUME NEW j \in ScheduledJobs, NEW x \in Targets, scheduled' = [scheduled EXCEPT ![j] = x]
        PROVE  scheduled' \in [ScheduledJobs -> TargetStates]
    BY <1>1, <2>1, TargetFacts
  <2>2. CASE ClearScheduledInvalidations \/ StopInvalidator
    BY <2>2, TargetFacts DEF ClearScheduledInvalidations, StopInvalidator
  <2> QED BY <2>1, <2>2 DEF ScheduleInvalidation, SchedulePatternInvalidation, ScheduleTagInvalidation, Schedule
<1>5. ASSUME NEW w \in Work PROVE CallInv(work[w])'
  BY <1>2 DEF InvalidationInv, CallInv, Settled, Cached
<1> QED BY <1>2, <1>3, <1>5 DEF InvalidationInv, InvalidationShape

\* The invariant of the invalidator.
LEMMA InvalidationAlways == InvalidationSpec => []InvalidationInv
<1>1. InvalidationInit => InvalidationInv
  <2> SUFFICES ASSUME InvalidationInit PROVE InvalidationInv
    OBVIOUS
  <2>1. NoWork \in WorkStates /\ NoWork.op = "none" /\ NoWork.todo = {} /\ NoWork.dels = {}
    BY DEF NoWork, WorkStates
  <2> QED BY <2>1, TargetFacts DEF InvalidationInit, InvalidationInv, InvalidationShape, CallInv
<1>2. InvalidationInv /\ [InvalidationNext]_invalidationVars => InvalidationInv'
  <2> SUFFICES ASSUME InvalidationInv, [InvalidationNext]_invalidationVars PROVE InvalidationInv'
    OBVIOUS
  <2>1. ASSUME NEW k \in CachedKeys, StoreEntry(k) \/ \E ts \in SUBSET Tags : TagKey(k, ts) PROVE InvalidationInv'
    BY <2>1, ApplicationKeeps
  <2>2. ASSUME NEW w \in Work, InvalidateKey(w) \/ InvalidateByPattern(w) \/ InvalidateByTags(w) PROVE InvalidationInv'
    <3>1. PICK x \in Targets : StartInvalidation(w, x, {}) /\ UNCHANGED <<level, taggedKeys, scheduled, processor>>
      BY <2>2 DEF InvalidateKey, InvalidateByPattern, InvalidateByTags
    <3>2. {} \in SUBSET ScheduledJobs /\ x \in TargetStates
      BY TargetFacts
    <3> QED BY <3>1, <3>2, StartKeeps
  <2>3. ASSUME NEW w \in Work, NEW j \in ScheduledJobs, processScheduledInvalidations(w, j) PROVE InvalidationInv'
    <3>1. scheduled[j] \in TargetStates /\ {j} \in SUBSET ScheduledJobs
      BY DEF InvalidationInv, InvalidationShape
    <3>2. StartInvalidation(w, scheduled[j], {j}) /\ UNCHANGED <<level, taggedKeys, scheduled, processor>>
      BY <2>3 DEF processScheduledInvalidations
    <3> QED BY <3>1, <3>2, StartKeeps
  <2>4. ASSUME NEW w \in Work, DeleteFromLevels(w) \/ removeKeyFromTags(w) \/ DeleteMatching(w) \/ CleanUpTags(w) \/ EndWork(w)
        PROVE  InvalidationInv'
    BY <2>4, DeleteKeeps, UntagKeeps, EndKeeps
  <2>5. CASE \/ \E j \in ScheduledJobs :
                   ScheduleInvalidation(j) \/ SchedulePatternInvalidation(j) \/ ScheduleTagInvalidation(j)
             \/ ClearScheduledInvalidations \/ StopInvalidator
    BY <2>5, ScheduleKeeps
  <2>6. CASE UNCHANGED invalidationVars
    BY <2>6 DEF invalidationVars, InvalidationInv, InvalidationShape, CallInv, Settled, Cached
  <2> QED BY <2>1, <2>2, <2>3, <2>4, <2>5, <2>6 DEF InvalidationNext
<1> QED BY <1>1, <1>2, PTL DEF InvalidationSpec

\* UntaggedOnlyByOverlap, for any keys, tags, calls in flight and scheduled jobs: only
\* removeKeyFromTags and the last step of InvalidateByTags take tags, and the invariant
\* tells what they know of the key.
THEOREM UntaggedAlwaysByOverlap == InvalidationSpec => UntaggedOnlyByOverlap
<1> DEFINE Overlap == \A k \in CachedKeys, t \in Tags :
             k \in taggedKeys[t] \ taggedKeys'[t] /\ Cached(k) =>
                 \E w \in Work : work'[w] # work[w] /\ k \in work[w].during \cup work[w].failed
<1>1. InvalidationInv /\ [InvalidationNext]_invalidationVars => [Overlap]_invalidationVars
  <2> SUFFICES ASSUME InvalidationInv, [InvalidationNext]_invalidationVars, NEW k \in CachedKeys, NEW t \in Tags,
                      k \in taggedKeys[t], k \notin taggedKeys'[t], Cached(k)
               PROVE  \E w \in Work : work'[w] # work[w] /\ k \in work[w].during \cup work[w].failed
    OBVIOUS
  <2>0. work \in [Work -> WorkStates]
    BY DEF InvalidationInv, InvalidationShape
  <2>1. PICK w \in Work : removeKeyFromTags(w) \/ CleanUpTags(w)
    <3>1. ASSUME NEW j \in CachedKeys, StoreEntry(j) \/ \E ts \in SUBSET Tags : TagKey(j, ts) PROVE FALSE
      BY <3>1 DEF StoreEntry, TagKey
    <3>2. ASSUME NEW w \in Work, InvalidateKey(w) \/ InvalidateByPattern(w) \/ InvalidateByTags(w) PROVE FALSE
      BY <3>2 DEF InvalidateKey, InvalidateByPattern, InvalidateByTags
    <3>3. ASSUME NEW w \in Work, NEW j \in ScheduledJobs, processScheduledInvalidations(w, j) PROVE FALSE
      BY <3>3 DEF processScheduledInvalidations
    <3>4. ASSUME NEW w \in Work, DeleteFromLevels(w) \/ DeleteMatching(w) \/ EndWork(w) PROVE FALSE
      BY <3>4 DEF DeleteFromLevels, DeleteMatching, EndWork
    <3>5. ASSUME \/ \E j \in ScheduledJobs :
                   ScheduleInvalidation(j) \/ SchedulePatternInvalidation(j) \/ ScheduleTagInvalidation(j)
                 \/ ClearScheduledInvalidations \/ StopInvalidator
          PROVE  FALSE
      BY <3>5 DEF ScheduleInvalidation, SchedulePatternInvalidation, ScheduleTagInvalidation, Schedule,
         ClearScheduledInvalidations, StopInvalidator
    <3>6. ~UNCHANGED invalidationVars
      BY DEF invalidationVars
    <3> QED BY <3>1, <3>2, <3>3, <3>4, <3>5, <3>6 DEF InvalidationNext
  <2> DEFINE r == work[w]
  <2>2. r \in WorkStates /\ CallInv(r)
    BY <2>0 DEF InvalidationInv
  <2>3. CASE removeKeyFromTags(w)
    <3>1. PICK j \in r.todo \ r.dels :
         /\ taggedKeys' = IF j \in r.failed THEN taggedKeys ELSE [s \in Tags |-> taggedKeys[s] \ {j}]
         /\ LET done == IF r.op = "key" THEN {j} ELSE {} IN
            work' = [work EXCEPT ![w].todo = @ \ {j}, ![w].failed = @ \ done, ![w].during = @ \ done]
      BY <2>3 DEF removeKeyFromTags
    <3>2. j = k
      BY <3>1
    <3>3. k \in r.during \cup r.failed
      BY <2>2, <3>1, <3>2 DEF CallInv, Settled
    <3> DEFINE done == IF r.op = "key" THEN {j} ELSE {}
               m1 == [r EXCEPT !.todo = r.todo \ {j}]
               m2 == [m1 EXCEPT !.failed = m1.failed \ done]
               n == [m2 EXCEPT !.during = m2.during \ done]
    <3>4. work' = [work EXCEPT ![w] = n]
      BY <3>1
    <3> HIDE DEF done
    <3>5. n.todo = r.todo \ {j}
      BY <2>2 DEF WorkStates
    <3> HIDE DEF n
    <3>6. work'[w].todo = r.todo \ {j}
      BY <2>0, <3>4, <3>5
    <3> QED BY <3>1, <3>3, <3>6
  <2>4. CASE CleanUpTags(w)
    <3> DEFINE m == [NoWork EXCEPT !.op = "key"]
               n == [m EXCEPT !.job = r.job]
    <3>1. /\ r.op = "tags" /\ r.todo = {} /\ work' = [work EXCEPT ![w] = n]
          /\ taggedKeys' = [s \in Tags |-> IF s \in r.tags THEN {} ELSE taggedKeys[s]]
      BY <2>4 DEF CleanUpTags
    <3>2. t \in r.tags /\ r.dels = {}
      BY <2>2, <3>1 DEF CallInv
    <3>3. k \in r.during \cup r.failed
      BY <2>2, <3>1, <3>2 DEF CallInv, Settled
    <3>4. n.op = "key"
      BY DEF NoWork
    <3> HIDE DEF n
    <3>5. work'[w].op = "key"
      BY <2>0, <3>1, <3>4
    <3> QED BY <3>1, <3>3, <3>5
  <2> QED BY <2>1, <2>3, <2>4
<1> QED BY <1>1, InvalidationAlways, PTL DEF InvalidationSpec, UntaggedOnlyByOverlap

-----------------------------------------------------------------------------
(* The lock of the account.                                                *)

N == Cardinality(Procs)

\* A wrong password was tried and is not yet counted in the row.
Guessing(r) == r.pc = "increment"

\* The request has failed and will lock the account.
Locking(r) == r.pc \in {"increment", "lock"} /\ LimitReached(r.row.failed)

\* The request may still fail, and will then not lock the account: it read a number of
\* failures below the limit.
Stale(r) == r.pc \in {"verify", "twofa"} /\ ~LimitReached(r.row.failed)

Guessers   == {p \in Procs : Guessing(req[p])}
NotLocking == {p \in Procs : ~Locking(req[p])}
Stales     == {p \in Procs : Stale(req[p])}

\* While the row is below the limit every guess is counted in it or about to be; from
\* then on a guess makes a request lock the account, or uses up a stale one.
GuessInv ==
    /\ row.failed + 1 < MaxLogins => guesses <= row.failed + Cardinality(Guessers)
    /\ row.failed + 1 >= MaxLogins =>
          guesses + Cardinality(NotLocking) + Cardinality(Stales) <= MaxLogins + 2 * (N - 1)

LoginShape ==
    /\ row \in Rows /\ guesses \in Nat /\ count \in [Keys -> Nat]
    /\ req \in [Procs -> Requests]
    /\ \A p \in Procs : req[p].pc \notin {"getByID", "check", "save", "sweep"} /\ req[p].call \in {"none", "login", "unknown"}

LoginInv == LoginShape /\ GuessInv
-----------------------------------------------------------------------------
One(b) == IF b THEN 1 ELSE 0

\* The number of requests with some property changes with the request that moves.
LEMMA OneMoves ==
    ASSUME NEW S \in SUBSET Procs, NEW T \in SUBSET Procs, NEW p \in Procs, T \ {p} = S \ {p}
    PROVE  /\ Cardinality(S) \in Nat /\ Cardinality(T) \in Nat /\ N \in Nat
           /\ Cardinality(S) <= N /\ Cardinality(T) <= N
           /\ Cardinality(T) = Cardinality(S) + One(p \in T) - One(p \in S)
           /\ p \notin T => Cardinality(T) + 1 <= N
<1>0. IsFiniteSet(Procs)
  BY AuthenticationAssumption
<1>1. IsFiniteSet(S) /\ IsFiniteSet(T) /\ Cardinality(S) <= N /\ Cardinality(T) <= N
  BY <1>0, FS_Subset DEF N
<1>2. Cardinality(S) \in Nat /\ Cardinality(T) \in Nat /\ N \in Nat
  BY <1>0, <1>1, FS_CardinalityType DEF N
<1>3. Cardinality(S \ {p}) = Cardinality(S) - One(p \in S) /\ Cardinality(T \ {p}) = Cardinality(T) - One(p \in T)
  <2>1. Cardinality(S \ {p}) = IF p \in S THEN Cardinality(S) - 1 ELSE Cardinality(S)
    BY <1>1, FS_RemoveElement
  <2>2. Cardinality(T \ {p}) = IF p \in T THEN Cardinality(T) - 1 ELSE Cardinality(T)
    BY <1>1, FS_RemoveElement
  <2> QED BY <1>2, <2>1, <2>2 DEF One
<1>4. Cardinality(T) = Cardinality(S) + One(p \in T) - One(p \in S)
  BY <1>2, <1>3 DEF One
<1>5. ASSUME p \notin T PROVE Cardinality(T) + 1 <= N
  <2>1. IsFiniteSet(T \cup {p}) /\ Cardinality(T \cup {p}) = Cardinality(T) + 1
    BY <1>1, <1>5, FS_AddElement
  <2>2. T \cup {p} \in SUBSET Procs
    OBVIOUS
  <2>3. Cardinality(T \cup {p}) <= N
    BY <1>0, <2>2, FS_Subset DEF N
  <2> QED BY <2>1, <2>3
<1> QED BY <1>1, <1>2, <1>4, <1>5

\* A step of request p, whose record becomes n.
LEMMA Counts ==
    ASSUME LoginShape, NEW p \in Procs, NEW n \in Requests, req' = [req EXCEPT ![p] = n]
    PROVE  /\ N \in Nat /\ N >= 1
           /\ Cardinality(Guessers) \in Nat /\ Cardinality(NotLocking) \in Nat /\ Cardinality(Stales) \in Nat
           /\ Cardinality(Guessers)' \in Nat /\ Cardinality(NotLocking)' \in Nat /\ Cardinality(Stales)' \in Nat
           /\ Cardinality(Guessers)' = Cardinality(Guessers) + One(Guessing(n)) - One(Guessing(req[p]))
           /\ Cardinality(NotLocking)' = Cardinality(NotLocking) + One(~Locking(n)) - One(~Locking(req[p]))
           /\ Cardinality(Stales)' = Cardinality(Stales) + One(Stale(n)) - One(Stale(req[p]))
           /\ Cardinality(NotLocking)' <= N
           /\ ~Stale(n) => Cardinality(Stales)' + 1 <= N
           /\ Cardinality(Guessers) + Cardinality(Stales) <= N
<1>1. req \in [Procs -> Requests]
  BY DEF LoginShape
<1>2. req'[p] = n /\ \A q \in Procs \ {p} : req'[q] = req[q]
  BY <1>1
<1> DEFINE G == Guessers
           H == {q \in Procs : Guessing(req'[q])}
           L == NotLocking
           M == {q \in Procs : ~Locking(req'[q])}
           S == Stales
           T == {q \in Procs : Stale(req'[q])}
<1>3. H = Guessers' /\ M = NotLocking' /\ T = Stales'
  BY DEF Guessers, NotLocking, Stales, Guessing, Locking, Stale, LimitReached
<1>4. /\ G \in SUBSET Procs /\ H \in SUBSET Procs /\ H \ {p} = G \ {p}
      /\ (p \in H <=> Guessing(n)) /\ (p \in G <=> Guessing(req[p]))
  BY <1>2 DEF Guessers
<1>5. /\ L \in SUBSET Procs /\ M \in SUBSET Procs /\ M \ {p} = L \ {p}
      /\ (p \in M <=> ~Locking(n)) /\ (p \in L <=> ~Locking(req[p]))
  BY <1>2 DEF NotLocking
<1>6. /\ S \in SUBSET Procs /\ T \in SUBSET Procs /\ T \ {p} = S \ {p}
      /\ (p \in T <=> Stale(n)) /\ (p \in S <=> Stale(req[p]))
  BY <1>2 DEF Stales
<1>7. G \cap S = {}
  BY DEF Guessers, Stales, Guessing, Stale
<1> HIDE DEF G, H, L, M, S, T
<1>8. /\ Cardinality(G) \in Nat /\ Cardinality(H) \in Nat /\ N \in Nat
      /\ Cardinality(H) = Cardinality(G) + One(Guessing(n)) - One(Guessing(req[p]))
  BY <1>4, OneMoves DEF One
<1>9. /\ Cardinality(L) \in Nat /\ Cardinality(M) \in Nat /\ Cardinality(M) <= N
      /\ Cardinality(M) = Cardinality(L) + One(~Locking(n)) - One(~Locking(req[p]))
  BY <1>5, OneMoves DEF One
<1>10. /\ Cardinality(S) \in Nat /\ Cardinality(T) \in Nat /\ (~Stale(n) => Cardinality(T) + 1 <= N)
       /\ Cardinality(T) = Cardinality(S) + One(Stale(n)) - One(Stale(req[p]))
  BY <1>6, OneMoves DEF One
<1>11. Cardinality(G) + Cardinality(S) <= N
  <2>1. IsFiniteSet(G) /\ IsFiniteSet(S) /\ IsFiniteSet(Procs)
    BY <1>4, <1>6, AuthenticationAssumption, FS_Subset
  <2>2. Cardinality(G \cup S) = Cardinality(G) + Cardinality(S) - Cardinality(G \cap S)
    BY <2>1, FS_Union
  <2>3. Cardinality(G \cap S) = 0
    BY <1>7, FS_EmptySet
  <2>4. G \cup S \in SUBSET Procs
    BY <1>4, <1>6
  <2>5. Cardinality(G \cup S) <= N
    BY <2>1, <2>4, FS_Subset DEF N
  <2> QED BY <1>8, <1>10, <2>2, <2>3, <2>5
<1>12. N >= 1
  <2>1. {} \in SUBSET Procs /\ {} \ {p} = {} \ {p} /\ p \notin {}
    OBVIOUS
  <2>2. Cardinality({}) + 1 <= N
    BY <2>1, OneMoves
  <2> QED BY <1>8, <2>2, FS_EmptySet
<1> QED BY <1>3, <1>8, <1>9, <1>10, <1>11, <1>12 DEF G, L, S

\* Steps that leave the row's counter and the guesses alone and neither begin nor end a
\* failure: most of Authenticate.
LEMMA NeutralKeeps ==
    ASSUME LoginInv, NEW p \in Procs, NEW n \in Requests, req' = [req EXCEPT ![p] = n],
           row'.failed = row.failed, UNCHANGED guesses,
           Guessing(n) <=> Guessing(req[p]), Locking(n) <=> Locking(req[p]),
           Stale(n) => Stale(req[p]) \/ row.failed + 1 < MaxLogins
    PROVE  GuessInv'
<1>0. LoginShape
  BY DEF LoginInv
<1> DEFINE i == Cardinality(Guessers)
           s == Cardinality(NotLocking)
           o == Cardinality(Stales)
           j == Cardinality(Guessers)'
           t == Cardinality(NotLocking)'
           u == Cardinality(Stales)'
           f == row.failed
           g == guesses
<1>7. /\ i \in Nat /\ s \in Nat /\ o \in Nat /\ N \in Nat
      /\ j = i + One(Guessing(n)) - One(Guessing(req[p])) /\ t = s + One(~Locking(n)) - One(~Locking(req[p]))
      /\ u = o + One(Stale(n)) - One(Stale(req[p]))
  BY <1>0, Counts
<1>2. f \in Nat /\ g \in Nat /\ MaxLogins \in Nat
  BY <1>0, AuthenticationAssumption DEF LoginShape, Rows
<1>3. (f + 1 < MaxLogins => g <= f + i) /\ (f + 1 >= MaxLogins => g + s + o <= MaxLogins + 2 * (N - 1))
  BY DEF LoginInv, GuessInv
<1> HIDE DEF i, s, o, j, t, u, f, g
<1>1. i \in Nat /\ s \in Nat /\ o \in Nat /\ j = i /\ t = s /\ u = o + One(Stale(n)) - One(Stale(req[p])) /\ N \in Nat
  BY <1>7 DEF One
<1>4. f + 1 >= MaxLogins => u <= o
  BY <1>1, <1>2 DEF One, f
<1>5. u \in Int
  BY <1>1 DEF One
<1>6. (f + 1 < MaxLogins => g <= f + j) /\ (f + 1 >= MaxLogins => g + t + u <= MaxLogins + 2 * (N - 1))
  BY <1>1, <1>2, <1>3, <1>4, <1>5
<1> QED BY <1>6 DEF GuessInv, f, g, j, t, u, N

\* A wrong password.
LEMMA GuessKeeps ==
    ASSUME LoginInv, NEW p \in Procs, NEW n \in Requests, req' = [req EXCEPT ![p] = n],
           row'.failed = row.failed, guesses' <= guesses + 1, guesses' \in Nat,
           req[p].pc \in {"verify", "twofa"}, n.pc = "increment", n.row = req[p].row
    PROVE  GuessInv'
<1>0. LoginShape
  BY DEF LoginInv
<1> DEFINE i == Cardinality(Guessers)
           s == Cardinality(NotLocking)
           o == Cardinality(Stales)
           j == Cardinality(Guessers)'
           t == Cardinality(NotLocking)'
           u == Cardinality(Stales)'
           f == row.failed
           g == guesses
           h == guesses'
           lim == LimitReached(n.row.failed)
<1>1. /\ i \in Nat /\ s \in Nat /\ o \in Nat /\ j \in Nat /\ t \in Nat /\ u \in Nat /\ N \in Nat
      /\ j = i + One(Guessing(n)) - One(Guessing(req[p])) /\ t = s + One(~Locking(n)) - One(~Locking(req[p]))
      /\ u = o + One(Stale(n)) - One(Stale(req[p]))
  BY <1>0, Counts
<1>2. /\ Guessing(n) /\ ~Guessing(req[p]) /\ ~Locking(req[p]) /\ ~Stale(n)
      /\ (lim => Locking(n) /\ ~Stale(req[p])) /\ (~lim => ~Locking(n) /\ Stale(req[p]))
  BY DEF Guessing, Locking, Stale
<1>3. f \in Nat /\ g \in Nat /\ MaxLogins \in Nat /\ h \in Nat /\ h <= g + 1
  BY <1>0, AuthenticationAssumption DEF LoginShape, Rows
<1>4. (f + 1 < MaxLogins => g <= f + i) /\ (f + 1 >= MaxLogins => g + s + o <= MaxLogins + 2 * (N - 1))
  BY DEF LoginInv, GuessInv
<1> HIDE DEF i, s, o, j, t, u, f, g, h, lim
<1>5. j = i + 1 /\ t + u = s + o - 1
  BY <1>1, <1>2 DEF One
<1>6. (f + 1 < MaxLogins => h <= f + j) /\ (f + 1 >= MaxLogins => h + t + u <= MaxLogins + 2 * (N - 1))
  BY <1>1, <1>3, <1>4, <1>5
<1> QED BY <1>6 DEF GuessInv, f, h, j, t, u, N

\* The database counts the failure.
LEMMA IncrementKeeps ==
    ASSUME LoginInv, NEW p \in Procs, NEW n \in Requests, req' = [req EXCEPT ![p] = n],
           row'.failed = CountUp(row.failed, MaxLogins), UNCHANGED guesses,
           req[p].pc = "increment", n.pc = "lock", n.row = req[p].row
    PROVE  GuessInv'
<1>0. LoginShape
  BY DEF LoginInv
<1> DEFINE i == Cardinality(Guessers)
           s == Cardinality(NotLocking)
           o == Cardinality(Stales)
           j == Cardinality(Guessers)'
           t == Cardinality(NotLocking)'
           u == Cardinality(Stales)'
           f == row.failed
           e == row'.failed
           g == guesses
<1>1. /\ i \in Nat /\ s \in Nat /\ o \in Nat /\ j \in Nat /\ t \in Nat /\ u \in Nat /\ N \in Nat
      /\ j = i + One(Guessing(n)) - One(Guessing(req[p])) /\ t = s + One(~Locking(n)) - One(~Locking(req[p]))
      /\ u = o + One(Stale(n)) - One(Stale(req[p])) /\ t <= N /\ i + o <= N
  BY <1>0, Counts
<1>2. ~Guessing(n) /\ Guessing(req[p]) /\ (Locking(req[p]) <=> Locking(n)) /\ ~Stale(n) /\ ~Stale(req[p])
  BY DEF Guessing, Locking, Stale
<1>3. f \in Nat /\ g \in Nat /\ MaxLogins \in Nat /\ f <= MaxLogins
  BY <1>0, AuthenticationAssumption DEF LoginShape, Rows
<1>4. (f + 1 < MaxLogins => g <= f + i) /\ (f + 1 >= MaxLogins => g + s + o <= MaxLogins + 2 * (N - 1))
  BY DEF LoginInv, GuessInv
<1>5. e \in Nat /\ (e = f + 1 \/ (e = f /\ f = MaxLogins))
  BY <1>3 DEF CountUp
<1> HIDE DEF i, s, o, j, t, u, f, g, e
<1>6. j = i - 1 /\ t = s /\ u = o
  BY <1>1, <1>2 DEF One
<1>7. e + 1 < MaxLogins => g <= e + j
  BY <1>1, <1>3, <1>4, <1>5, <1>6
<1>8. e + 1 >= MaxLogins => g + t + u <= MaxLogins + 2 * (N - 1)
  BY <1>1, <1>3, <1>4, <1>5, <1>6
<1> QED BY <1>7, <1>8 DEF GuessInv, e, g, j, t, u, N

\* The account is locked, or a login resets the row: the count starts again.
LEMMA RestartKeeps ==
    ASSUME LoginInv, NEW p \in Procs, NEW n \in Requests, req' = [req EXCEPT ![p] = n],
           row'.failed \in Nat, guesses' = 0, ~Stale(n)
    PROVE  GuessInv'
<1>0. LoginShape
  BY DEF LoginInv
<1> DEFINE j == Cardinality(Guessers)'
           t == Cardinality(NotLocking)'
           u == Cardinality(Stales)'
           e == row'.failed
<1>1. j \in Nat /\ t \in Nat /\ u \in Nat /\ N \in Nat /\ t <= N /\ u + 1 <= N
  BY <1>0, Counts
<1>2. MaxLogins \in Nat /\ MaxLogins >= 1 /\ e \in Nat
  BY AuthenticationAssumption
<1> HIDE DEF j, t, u, e
<1>3. 0 <= e + j /\ 0 + t + u <= MaxLogins + 2 * (N - 1)
  BY <1>1, <1>2
<1> QED BY <1>3 DEF GuessInv, e, j, t, u, N

-----------------------------------------------------------------------------
LoginPCs == PCs \ {"getByID", "check", "save", "sweep"}

\* A request of a login.
LoginRequest(n) == n \in Requests /\ n.pc \in LoginPCs /\ n.call \in {"none", "login", "unknown"}

\* A request moves on, or ends.
LEMMA GotoFacts ==
    ASSUME LoginShape, NEW p \in Procs, NEW l \in LoginPCs, Goto(p, l)
    PROVE  \E n : LoginRequest(n) /\ req' = [req EXCEPT ![p] = n] /\ n.pc = l /\ n.row = req[p].row
<1> DEFINE n == [req[p] EXCEPT !.pc = l]
<1>1. req' = [req EXCEPT ![p] = n]
  BY DEF Goto
<1>2. req[p] \in Requests /\ req[p].call \in {"none", "login", "unknown"} /\ l \in PCs
  BY DEF LoginShape, LoginPCs
<1>3. n \in Requests /\ n.pc = l /\ n.row = req[p].row /\ n.call = req[p].call
  BY <1>2 DEF Requests
<1> QED BY <1>1, <1>2, <1>3 DEF LoginRequest

\* An idle request.
LEMMA IdleFacts == LoginRequest(Idle) /\ Idle.pc = "idle" /\ NewRow \in Rows /\ NewRow.failed = 0
<1>1. NewRow \in Rows /\ NewRow.failed = 0
  <2>1. 0 \in Times /\ 0 \in 0 .. MaxLogins /\ 0 \in Passwords /\ {} \in SUBSET Codes
    BY AuthenticationAssumption DEF Times, Passwords
  <2> QED BY <2>1 DEF NewRow, Rows
<1>2. Idle \in Requests
  BY <1>1 DEF Idle, Requests, PCs, Wrong
<1> QED BY <1>1, <1>2 DEF Idle, LoginRequest, LoginPCs, PCs

\* The shape after a step of one request.
LEMMA ShapeStep ==
    ASSUME LoginShape, NEW p \in Procs, NEW n, LoginRequest(n), req' = [req EXCEPT ![p] = n],
           row' \in Rows, guesses' \in Nat, count' \in [Keys -> Nat]
    PROVE  LoginShape'
<1>1. req' \in [Procs -> Requests] /\ req'[p] = n /\ \A q \in Procs \ {p} : req'[q] = req[q]
  BY DEF LoginShape, LoginRequest
<1> QED BY <1>1 DEF LoginShape, LoginRequest, LoginPCs

\* A step outside of a failure.
LEMMA PlainStep ==
    ASSUME LoginInv, NEW p \in Procs, NEW n, LoginRequest(n), req' = [req EXCEPT ![p] = n],
           UNCHANGED <<row, guesses>>, count' \in [Keys -> Nat],
           req[p].pc \notin {"increment", "lock"}, n.pc \notin {"increment", "lock", "verify", "twofa"}
    PROVE  LoginInv'
<1>1. row \in Rows /\ guesses \in Nat
  BY DEF LoginInv, LoginShape
<1>2. LoginShape'
  BY <1>1, ShapeStep DEF LoginInv
<1>3. ~Guessing(n) /\ ~Guessing(req[p]) /\ ~Locking(n) /\ ~Locking(req[p]) /\ ~Stale(n)
  BY DEF Guessing, Locking, Stale
<1>4. n \in Requests
  BY DEF LoginRequest
<1>5. GuessInv'
  BY <1>3, <1>4, NeutralKeeps
<1> QED BY <1>2, <1>5 DEF LoginInv

\* Such a step that only moves on or ends.
LEMMA PlainMove ==
    ASSUME LoginInv, NEW p \in Procs, req[p].pc \notin {"increment", "lock"}, UNCHANGED <<row, guesses>>,
           count' \in [Keys -> Nat],
           Leave(p) \/ \E l \in LoginPCs \ {"increment", "lock", "verify", "twofa"} : Goto(p, l)
    PROVE  LoginInv'
<1>1. CASE Leave(p)
  <2>1. LoginRequest(Idle) /\ Idle.pc = "idle" /\ req' = [req EXCEPT ![p] = Idle]
    BY <1>1, IdleFacts DEF Leave
  <2> QED BY <2>1, PlainStep
<1>2. ASSUME NEW l \in LoginPCs \ {"increment", "lock", "verify", "twofa"}, Goto(p, l) PROVE LoginInv'
  <2>1. PICK n : LoginRequest(n) /\ req' = [req EXCEPT ![p] = n] /\ n.pc = l
    BY <1>2, GotoFacts DEF LoginInv
  <2> QED BY <1>2, <2>1, PlainStep
<1> QED BY <1>1, <1>2

\* The limiter's checks.
LEMMA BlockedKeeps ==
    ASSUME LoginInv, NEW p \in Procs, IsBlocked(p) PROVE LoginInv'
<1>1. count \in [Keys -> Nat]
  BY DEF LoginInv, LoginShape
<1>2. {"count_email", "lock_email", "ip", "count_ip", "lock_ip", "getUser"}
         \subseteq LoginPCs \ {"increment", "lock", "verify", "twofa"}
  BY DEF LoginPCs, PCs
<1>3. ASSUME NEW k \in Keys, CheckLock(p, k), At(p, "email") \/ At(p, "ip") PROVE LoginInv'
  <2>1. UNCHANGED <<row, guesses, count>> /\ req[p].pc \notin {"increment", "lock"}
    BY <1>3 DEF CheckLock, limiter, At
  <2>2. Leave(p) \/ \E l \in {"count_email", "count_ip", "getUser"} : Goto(p, l)
    BY <1>3 DEF CheckLock, Count
  <2> QED BY <1>1, <1>2, <2>1, <2>2, PlainMove
<1>4. ASSUME NEW k \in Keys, NEW then \in {"ip", "getUser"}, CheckCount(p, k, then) PROVE LoginInv'
  <2>1. UNCHANGED <<row, guesses, count>> /\ req[p].pc \notin {"increment", "lock"}
    BY <1>4 DEF CheckCount, limiter, At, Count
  <2>2. \E l \in {"lock_email", "lock_ip", "ip", "getUser"} : Goto(p, l)
    BY <1>4 DEF CheckCount, Lock
  <2> QED BY <1>1, <1>2, <2>1, <2>2, PlainMove
<1>5. ASSUME NEW k \in Keys, PutLock(p, k) PROVE LoginInv'
  <2>1. UNCHANGED <<row, guesses, count>> /\ req[p].pc \notin {"increment", "lock"} /\ Leave(p)
    BY <1>5 DEF PutLock, At, Lock
  <2> QED BY <1>1, <2>1, PlainMove
<1> QED BY <1>3, <1>4, <1>5 DEF IsBlocked, IsEmailBlocked, IsIPBlocked, Keys

\* A login begins.
LEMMA AuthenticateKeeps ==
    ASSUME LoginInv, NEW p \in Procs, NEW call \in {"login", "unknown"}, NEW pw \in Passwords \cup {Wrong},
           \E code \in Codes \cup {NoCode, Totp} : Authenticate(p, call, pw, code)
    PROVE  LoginInv'
<1>1. PICK code \in Codes \cup {NoCode, Totp} : Authenticate(p, call, pw, code)
  OBVIOUS
<1> DEFINE m1 == [Idle EXCEPT !.pc = "email"]
           m2 == [m1 EXCEPT !.call = call]
           m3 == [m2 EXCEPT !.pw = pw]
           n == [m3 EXCEPT !.code = code]
<1>2. /\ req[p].pc = "idle" /\ req' = [req EXCEPT ![p] = n] /\ UNCHANGED <<row, guesses, count>>
  BY <1>1 DEF Authenticate, At, limiter
<1>3. Idle \in Requests
  BY IdleFacts DEF LoginRequest
<1>4. m1 \in Requests /\ m1.pc = "email"
  BY <1>3 DEF Requests, PCs
<1> HIDE DEF m1
<1>5. m2 \in Requests /\ m2.pc = "email" /\ m2.call = call
  BY <1>4 DEF Requests
<1> HIDE DEF m2
<1>6. m3 \in Requests /\ m3.pc = "email" /\ m3.call = call
  BY <1>5 DEF Requests
<1> HIDE DEF m3
<1>7. n \in Requests /\ n.pc = "email" /\ n.call = call
  BY <1>6 DEF Requests
<1> HIDE DEF n
<1>8. LoginRequest(n)
  BY <1>7 DEF LoginRequest, LoginPCs, PCs
<1>9. count' \in [Keys -> Nat]
  BY <1>2 DEF LoginInv, LoginShape
<1> QED BY <1>2, <1>7, <1>8, <1>9, PlainStep

\* The row is read: below the limit the request may be stale one day, from the limit on
\* it is one that locks.
LEMMA GetUserKeeps ==
    ASSUME LoginInv, NEW p \in Procs, GetUserByEmail(p) PROVE LoginInv'
<1>1. req[p].pc = "getUser" /\ UNCHANGED <<row, guesses, count>>
  BY DEF GetUserByEmail, At, limiter
<1>2. count' \in [Keys -> Nat] /\ row \in Rows /\ guesses \in Nat /\ req[p] \in Requests
      /\ req[p].call \in {"none", "login", "unknown"} /\ LoginShape
  BY <1>1 DEF LoginInv, LoginShape
<1>3. CASE Goto(p, "get_email") \/ Leave(p)
  <2>1. "get_email" \in LoginPCs \ {"increment", "lock", "verify", "twofa"}
    BY DEF LoginPCs, PCs
  <2> QED BY <1>1, <1>2, <1>3, <2>1, PlainMove
<1> DEFINE m == [req[p] EXCEPT !.pc = "verify"]
           n == [m EXCEPT !.row = row]
<1>4. CASE req' = [req EXCEPT ![p] = n]
  <2>1. m \in Requests /\ m.pc = "verify" /\ m.call = req[p].call
    BY <1>2 DEF Requests, PCs
  <2> HIDE DEF m
  <2>2. n \in Requests /\ n.pc = "verify" /\ n.call = req[p].call /\ n.row = row
    BY <1>2, <2>1 DEF Requests
  <2> HIDE DEF n
  <2>3. LoginRequest(n)
    BY <1>2, <2>2 DEF LoginRequest, LoginPCs, PCs
  <2>4. LoginShape'
    BY <1>1, <1>2, <1>4, <2>3, ShapeStep
  <2>5. row.failed \in Nat /\ MaxLogins \in Nat
    BY <1>2, AuthenticationAssumption DEF Rows
  <2>6. /\ ~Guessing(n) /\ ~Guessing(req[p]) /\ ~Locking(n) /\ ~Locking(req[p])
        /\ Stale(n) => row.failed + 1 < MaxLogins
    BY <1>1, <2>2, <2>5 DEF Guessing, Locking, Stale, LimitReached
  <2>7. GuessInv'
    BY <1>1, <1>4, <2>2, <2>6, NeutralKeeps
  <2> QED BY <2>4, <2>7 DEF LoginInv
<1>5. Goto(p, "get_email") \/ Leave(p) \/ req' = [req EXCEPT ![p] = n]
  BY DEF GetUserByEmail, Leave
<1> QED BY <1>3, <1>4, <1>5

\* A wrong password or code: see GuessKeeps.
LEMMA FailureBegins ==
    ASSUME LoginInv, NEW p \in Procs, req[p].pc \in {"verify", "twofa"}, Goto(p, "increment"),
           UNCHANGED <<row, count>>, guesses' = CountUp(guesses, MaxLogins + 2 * Cardinality(Procs))
    PROVE  LoginInv'
<1>0. LoginShape /\ row \in Rows /\ guesses \in Nat /\ count \in [Keys -> Nat]
  BY DEF LoginInv, LoginShape
<1>1. "increment" \in LoginPCs
  BY DEF LoginPCs, PCs
<1>2. PICK n : LoginRequest(n) /\ req' = [req EXCEPT ![p] = n] /\ n.pc = "increment" /\ n.row = req[p].row
  BY <1>0, <1>1, GotoFacts
<1> DEFINE top == MaxLogins + 2 * Cardinality(Procs)
<1>3. guesses <= top /\ top \in Nat
  <2>1. Cardinality(Procs) \in Nat /\ MaxLogins \in Nat /\ Cardinality(Guessers) \in Nat /\ Cardinality(Guessers) <= N
    <3>1. Guessers \in SUBSET Procs /\ Guessers \ {p} = Guessers \ {p}
      BY DEF Guessers
    <3> QED BY <3>1, OneMoves, AuthenticationAssumption DEF N
  <2>2. N = Cardinality(Procs) /\ row.failed \in Nat
    BY <1>0 DEF N, Rows
  <2>3. Cardinality(NotLocking) \in Nat /\ Cardinality(Stales) \in Nat
    <3>1. NotLocking \in SUBSET Procs /\ Stales \in SUBSET Procs
      BY DEF NotLocking, Stales
    <3> QED BY <3>1, OneMoves
  <2> QED BY <1>0, <2>1, <2>2, <2>3 DEF LoginInv, GuessInv
<1>4. guesses' \in Nat /\ guesses' <= guesses + 1
  BY <1>0, <1>3 DEF CountUp
<1>5. LoginShape'
  BY <1>0, <1>2, <1>4, ShapeStep
<1>6. GuessInv'
  BY <1>2, <1>4, GuessKeeps DEF LoginRequest
<1> QED BY <1>5, <1>6 DEF LoginInv

\* The password is compared, and then the second factor.
LEMMA VerifyKeeps ==
    ASSUME LoginInv, NEW p \in Procs, VerifyPassword(p) \/ VerifyTwoFactorCode(p) PROVE LoginInv'
<1>0. LoginShape /\ row \in Rows /\ guesses \in Nat /\ count \in [Keys -> Nat]
  BY DEF LoginInv, LoginShape
<1>1. UNCHANGED <<row, count>> /\ req[p].pc \in {"verify", "twofa"}
  BY DEF VerifyPassword, VerifyTwoFactorCode, At, limiter
<1>2. CASE Goto(p, "increment") /\ guesses' = CountUp(guesses, MaxLogins + 2 * Cardinality(Procs))
  BY <1>1, <1>2, FailureBegins
<1>3. CASE (Goto(p, "reset") \/ Leave(p)) /\ UNCHANGED guesses
  <2>1. "reset" \in LoginPCs \ {"increment", "lock", "verify", "twofa"}
    BY DEF LoginPCs, PCs
  <2> QED BY <1>0, <1>1, <1>3, <2>1, PlainMove
<1>4. CASE Goto(p, "twofa") /\ UNCHANGED guesses
  <2>1. "twofa" \in LoginPCs
    BY DEF LoginPCs, PCs
  <2>2. PICK n : LoginRequest(n) /\ req' = [req EXCEPT ![p] = n] /\ n.pc = "twofa" /\ n.row = req[p].row
    BY <1>0, <1>4, <2>1, GotoFacts
  <2>3. LoginShape'
    BY <1>0, <1>1, <1>4, <2>2, ShapeStep
  <2>4. ~Guessing(n) /\ ~Guessing(req[p]) /\ ~Locking(n) /\ ~Locking(req[p]) /\ (Stale(n) => Stale(req[p]))
    BY <1>1, <2>2 DEF Guessing, Locking, Stale
  <2>5. GuessInv'
    BY <1>1, <1>4, <2>2, <2>4, NeutralKeeps DEF LoginRequest
  <2> QED BY <2>3, <2>5 DEF LoginInv
<1> QED BY <1>2, <1>3, <1>4 DEF VerifyPassword, VerifyTwoFactorCode

\* The row is reset, or the account locked.
LEMMA RestartStep ==
    ASSUME LoginInv, NEW p \in Procs, NEW l \in LoginPCs \ {"verify", "twofa"}, Goto(p, l), UNCHANGED count,
           row' \in Rows, guesses' = 0
    PROVE  LoginInv'
<1>0. LoginShape /\ count \in [Keys -> Nat]
  BY DEF LoginInv, LoginShape
<1>1. PICK n : LoginRequest(n) /\ req' = [req EXCEPT ![p] = n] /\ n.pc = l
  BY <1>0, GotoFacts
<1>2. ~Stale(n) /\ n \in Requests /\ row'.failed \in Nat
  BY <1>1 DEF Stale, LoginRequest, Rows
<1>3. LoginShape'
  BY <1>0, <1>1, ShapeStep
<1>4. GuessInv'
  BY <1>1, <1>2, RestartKeeps
<1> QED BY <1>3, <1>4 DEF LoginInv

\* The rest of a login: what handleFailedLogin does, when the database does not fail.
LEMMA FailureKeeps ==
    ASSUME LoginInv, "db" \notin Failures, NEW p \in Procs,
           ResetFailedLoginAttempts(p) \/ IncrementFailedLoginAttempts(p) \/ LockUser(p)
    PROVE  LoginInv'
<1>0. LoginShape /\ row \in Rows /\ guesses \in Nat /\ count \in [Keys -> Nat] /\ ~MayFail("db")
      /\ MaxLogins \in Nat /\ Window \in Nat
  BY AuthenticationAssumption DEF LoginInv, LoginShape, MayFail
<1>1. CASE ResetFailedLoginAttempts(p)
  <2> DEFINE r == [row EXCEPT !.failed = 0]
             s == [r EXCEPT !.locked = 0]
  <2>1. row' = s /\ guesses' = 0 /\ Goto(p, "issue") /\ UNCHANGED count
    BY <1>0, <1>1 DEF ResetFailedLoginAttempts, limiter
  <2>2. 0 \in 0 .. MaxLogins /\ 0 \in Times
    BY <1>0 DEF Times
  <2>3. r \in Rows
    BY <1>0, <2>2 DEF Rows
  <2> HIDE DEF r
  <2>4. s \in Rows
    BY <2>2, <2>3 DEF Rows
  <2>5. "issue" \in LoginPCs \ {"verify", "twofa"}
    BY DEF LoginPCs, PCs
  <2> QED BY <2>1, <2>4, <2>5, RestartStep
<1>2. CASE IncrementFailedLoginAttempts(p)
  <2> DEFINE c == CountUp(row.failed, MaxLogins)
  <2>1. row' = [row EXCEPT !.failed = c] /\ Goto(p, "lock") /\ UNCHANGED <<count, guesses>> /\ req[p].pc = "increment"
    BY <1>0, <1>2 DEF IncrementFailedLoginAttempts, limiter, At
  <2>2. c \in 0 .. MaxLogins
    <3>1. row.failed \in 0 .. MaxLogins
      BY <1>0 DEF Rows
    <3> QED BY <1>0, <3>1 DEF CountUp
  <2> HIDE DEF c
  <2>3. row' \in Rows /\ row'.failed = c
    BY <1>0, <2>1, <2>2 DEF Rows
  <2>4. "lock" \in LoginPCs
    BY DEF LoginPCs, PCs
  <2>5. PICK n : LoginRequest(n) /\ req' = [req EXCEPT ![p] = n] /\ n.pc = "lock" /\ n.row = req[p].row
    BY <1>0, <2>1, <2>4, GotoFacts
  <2>6. LoginShape'
    BY <1>0, <2>1, <2>3, <2>5, ShapeStep
  <2>7. GuessInv'
    BY <2>1, <2>3, <2>5, IncrementKeeps DEF LoginRequest, c
  <2> QED BY <2>6, <2>7 DEF LoginInv
<1>3. CASE LockUser(p)
  <2>0. Goto(p, "get_email") /\ req[p].pc = "lock" /\ UNCHANGED count /\ "get_email" \in LoginPCs
    BY <1>3 DEF LockUser, At, limiter, LoginPCs, PCs
  <2>1. CASE row' = [row EXCEPT !.locked = Window] /\ guesses' = 0
    <3>1. Window \in Times
      BY <1>0 DEF Times
    <3>2. row' \in Rows
      BY <1>0, <2>1, <3>1 DEF Rows
    <3> QED BY <2>0, <2>1, <3>2, RestartStep
  <2>2. CASE ~LimitReached(req[p].row.failed) /\ UNCHANGED <<row, guesses>>
    <3>1. PICK n : LoginRequest(n) /\ req' = [req EXCEPT ![p] = n] /\ n.pc = "get_email"
      BY <1>0, <2>0, GotoFacts
    <3>2. LoginShape'
      BY <1>0, <2>0, <2>2, <3>1, ShapeStep
    <3>3. ~Guessing(n) /\ ~Guessing(req[p]) /\ ~Locking(n) /\ ~Locking(req[p]) /\ ~Stale(n)
      BY <2>0, <2>2, <3>1 DEF Guessing, Locking, Stale
    <3>4. GuessInv'
      BY <2>2, <3>1, <3>3, NeutralKeeps DEF LoginRequest
    <3> QED BY <3>2, <3>4 DEF LoginInv
  <2> QED BY <1>0, <1>3, <2>1, <2>2 DEF LockUser
<1> QED BY <1>1, <1>2, <1>3

\* The limiter's counters are read and written, and tokens issued.
LEMMA RecordKeeps ==
    ASSUME LoginInv, NEW p \in Procs,
           \/ GetEmailAttempts(p) \/ RecordEmailAttempt(p) \/ GetIPAttempts(p) \/ RecordIPAttempt(p) \/ IssueTokens(p)
    PROVE  LoginInv'
<1>0. LoginShape /\ count \in [Keys -> Nat] /\ req[p] \in Requests /\ req[p].call \in {"none", "login", "unknown"}
  BY DEF LoginInv, LoginShape
<1>1. req[p].pc \notin {"increment", "lock"} /\ UNCHANGED <<row, guesses>>
  BY DEF GetEmailAttempts, RecordEmailAttempt, GetIPAttempts, RecordIPAttempt, IssueTokens, At, GetAttemptCount,
         SetAttemptCount
<1>2. ASSUME NEW k \in Keys, NEW then \in {"set_email", "set_ip"}, GetAttemptCount(p, k, then) PROVE LoginInv'
  <2>1. PICK c \in Nat : req' = [req EXCEPT ![p].pc = then, ![p].cnt = c]
    <3>1. 0 \in Nat /\ count[k] \in Nat
      BY <1>0
    <3> QED BY <1>2, <3>1 DEF GetAttemptCount
  <2> DEFINE m == [req[p] EXCEPT !.pc = then]
             n == [m EXCEPT !.cnt = c]
  <2>2. req' = [req EXCEPT ![p] = n]
    BY <2>1
  <2>3. m \in Requests /\ m.pc = then /\ m.call = req[p].call
    BY <1>0 DEF Requests, PCs
  <2> HIDE DEF m
  <2>4. n \in Requests /\ n.pc = then /\ n.call = req[p].call
    BY <2>3 DEF Requests
  <2> HIDE DEF n
  <2>5. LoginRequest(n) /\ UNCHANGED count
    BY <1>0, <1>2, <2>4 DEF LoginRequest, LoginPCs, PCs, GetAttemptCount, limiter
  <2> QED BY <1>0, <1>1, <2>2, <2>4, <2>5, PlainStep
<1>3. CASE RecordEmailAttempt(p) \/ RecordIPAttempt(p) \/ IssueTokens(p)
  <2>1. ASSUME NEW k \in Keys, SetAttemptCount(p, k) PROVE count' \in [Keys -> Nat]
    <3>1. count' = [count EXCEPT ![k] = CountUp(req[p].cnt, Limit(k))]
      BY <2>1 DEF SetAttemptCount
    <3>2. req[p].cnt \in Nat /\ Limit(k) \in Nat
      BY <1>0, AuthenticationAssumption DEF Requests, Limit
    <3>3. CountUp(req[p].cnt, Limit(k)) \in Nat
      BY <3>2 DEF CountUp
    <3> QED BY <1>0, <3>1, <3>3
  <2>2. count' \in [Keys -> Nat]
    BY <1>0, <1>3, <2>1 DEF RecordEmailAttempt, RecordIPAttempt, IssueTokens, limiter, Keys
  <2>3. Leave(p) \/ Goto(p, "get_ip")
    BY <1>3 DEF RecordEmailAttempt, RecordIPAttempt, IssueTokens
  <2>4. "get_ip" \in LoginPCs \ {"increment", "lock", "verify", "twofa"}
    BY DEF LoginPCs, PCs
  <2> QED BY <1>1, <2>2, <2>3, <2>4, PlainMove
<1> QED BY <1>2, <1>3 DEF GetEmailAttempts, GetIPAttempts, Keys

\* Time passes: locks and counters of the limiter end, the counter of the row does not.
LEMMA TickKeeps ==
    ASSUME LoginInv, Tick PROVE LoginInv'
<1>0. LoginShape /\ row \in Rows /\ guesses \in Nat /\ count \in [Keys -> Nat] /\ Window \in Nat
  BY AuthenticationAssumption DEF LoginInv, LoginShape
<1>1. \A t \in Times : Less(t) \in Times
  BY <1>0 DEF Less, Times
<1>2. row' = [row EXCEPT !.locked = Less(row.locked)] /\ UNCHANGED guesses
  BY DEF Tick
<1>3. row' \in Rows /\ row'.failed = row.failed
  BY <1>0, <1>1, <1>2 DEF Rows
<1>4. ASSUME NEW p \in Procs
      PROVE  /\ req'[p] \in Requests /\ req'[p].pc = req[p].pc /\ req'[p].call = req[p].call
             /\ req'[p].row.failed = req[p].row.failed
  <2> DEFINE r == req[p].row
             s == [r EXCEPT !.locked = Less(r.locked)]
             n == [req[p] EXCEPT !.row = s]
  <2>1. req'[p] = n
    BY DEF Tick
  <2>2. req[p] \in Requests /\ r \in Rows
    BY <1>0 DEF LoginShape, Requests
  <2> HIDE DEF r
  <2>3. s \in Rows /\ s.failed = r.failed
    BY <1>1, <2>2 DEF Rows
  <2> HIDE DEF s
  <2>4. n \in Requests /\ n.pc = req[p].pc /\ n.call = req[p].call /\ n.row = s
    BY <2>2, <2>3 DEF Requests
  <2> QED BY <2>1, <2>3, <2>4 DEF r
<1>5. req' \in [Procs -> Requests]
  <2>1. req' = [p \in Procs |-> req'[p]]
    BY DEF Tick
  <2> QED BY <1>4, <2>1
<1>6. count' \in [Keys -> Nat]
  BY <1>0 DEF Tick
<1>7. LoginShape'
  BY <1>0, <1>2, <1>3, <1>4, <1>5, <1>6 DEF LoginShape
<1>8. Guessers' = Guessers /\ NotLocking' = NotLocking /\ Stales' = Stales
  BY <1>4 DEF Guessers, NotLocking, Stales, Guessing, Locking, Stale, LimitReached
<1>9. GuessInv'
  <2>1. Cardinality(Guessers)' = Cardinality(Guessers) /\ Cardinality(NotLocking)' = Cardinality(NotLocking)
        /\ Cardinality(Stales)' = Cardinality(Stales)
    BY <1>8
  <2> QED BY <1>2, <1>3, <2>1 DEF LoginInv, GuessInv, N
<1> QED BY <1>7, <1>9 DEF LoginInv

\* GuessesBounded, for any number of requests in flight, any limits and windows, and with
\* the cache failing as it likes: Authenticate and handleFailedLogin decide by numbers
\* that are old when they are used, and still no more than two guesses for each other
\* request get through.  The database must not fail, and no other call may save the row:
\* either loses failures that were counted.
THEOREM GuessesAlwaysBounded ==
    ASSUME "db" \notin Failures, Offered \subseteq {"login", "unknown"}
    PROVE  Spec => []GuessesBounded
<1>1. Init => LoginInv
  <2> SUFFICES ASSUME Init PROVE LoginInv
    OBVIOUS
  <2>1. Idle \in Requests /\ Idle.pc = "idle" /\ Idle.call = "none" /\ NewRow \in Rows /\ NewRow.failed = 0
    BY IdleFacts DEF LoginRequest, Idle
  <2>2. LoginShape
    BY <2>1 DEF Init, LoginShape
  <2>3. Guessers = {} /\ Stales = {} /\ NotLocking \in SUBSET Procs
    BY <2>1 DEF Init, Guessers, Stales, NotLocking, Guessing, Stale
  <2>4. PICK p \in Procs : TRUE
    BY AuthenticationAssumption
  <2> DEFINE s == Cardinality(NotLocking)
  <2>5. s \in Nat /\ s <= N /\ N \in Nat /\ N >= 1
    <3>1. {} \in SUBSET Procs /\ p \notin {}
      OBVIOUS
    <3>2. Cardinality({}) + 1 <= N /\ N \in Nat
      BY <3>1, OneMoves
    <3> QED BY <2>3, <3>2, OneMoves, FS_EmptySet
  <2>6. Cardinality(Guessers) = 0 /\ Cardinality(Stales) = 0 /\ guesses = 0 /\ row.failed = 0
    BY <2>1, <2>3, FS_EmptySet DEF Init
  <2>7. MaxLogins \in Nat /\ MaxLogins >= 1
    BY AuthenticationAssumption
  <2> QED BY <2>2, <2>5, <2>6, <2>7 DEF LoginInv, GuessInv
<1>2. LoginInv /\ [Next]_vars => LoginInv'
  <2> SUFFICES ASSUME LoginInv, [Next]_vars PROVE LoginInv'
    OBVIOUS
  <2>1. CASE Tick
    BY <2>1, TickKeeps
  <2>2. ASSUME NEW p \in Procs, LoginStep(p) PROVE LoginInv'
    <3>1. ASSUME NEW call \in {"login", "unknown"} \cap Offered, NEW pw \in Passwords \cup {Wrong},
                 \E code \in Codes \cup {NoCode, Totp} : Authenticate(p, call, pw, code)
          PROVE  LoginInv'
      BY <3>1, AuthenticateKeeps
    <3>2. CASE IsBlocked(p) \/ GetUserByEmail(p) \/ VerifyPassword(p) \/ VerifyTwoFactorCode(p)
      BY <3>2, BlockedKeeps, GetUserKeeps, VerifyKeeps
    <3>3. CASE ResetFailedLoginAttempts(p) \/ IssueTokens(p)
      BY <3>3, FailureKeeps, RecordKeeps
    <3> QED BY <2>2, <3>1, <3>2, <3>3 DEF LoginStep
  <2>3. ASSUME NEW p \in Procs, FailureStep(p) PROVE LoginInv'
    BY <2>3, FailureKeeps, RecordKeeps DEF FailureStep
  <2>4. ASSUME NEW p \in Procs, UpdateStep(p) PROVE LoginInv'
    <3>1. req[p].pc \notin {"getByID", "check", "save", "sweep"}
      BY DEF LoginInv, LoginShape
    <3> QED BY <2>4, <3>1 DEF UpdateStep, GetByID, CheckCurrentPassword, SaveUser, RevokeAllUserTokens, At
  <2>5. CASE UNCHANGED vars
    <3>1. UNCHANGED <<row, count, req, guesses>>
      BY <2>5 DEF vars, limiter
    <3>2. Guessers' = Guessers /\ NotLocking' = NotLocking /\ Stales' = Stales
      BY <3>1 DEF Guessers, NotLocking, Stales, Guessing, Locking, Stale, LimitReached
    <3>3. LoginShape' /\ Cardinality(Guessers)' = Cardinality(Guessers)
          /\ Cardinality(NotLocking)' = Cardinality(NotLocking) /\ Cardinality(Stales)' = Cardinality(Stales)
      BY <3>1, <3>2 DEF LoginInv, LoginShape
    <3> QED BY <3>1, <3>3 DEF LoginInv, GuessInv, N
  <2> QED BY <2>1, <2>2, <2>3, <2>4, <2>5 DEF Next
<1>3. LoginInv => GuessesBounded
  <2> SUFFICES ASSUME LoginInv PROVE GuessesBounded
    OBVIOUS
  <2>1. PICK p \in Procs : TRUE
    BY AuthenticationAssumption
  <2> DEFINE i == Cardinality(Guessers)
             s == Cardinality(NotLocking)
             o == Cardinality(Stales)
             f == row.failed
             g == guesses
  <2>2. i \in Nat /\ i <= N /\ s \in Nat /\ o \in Nat /\ N \in Nat /\ N >= 1
    <3>1. Guessers \in SUBSET Procs /\ NotLocking \in SUBSET Procs /\ Stales \in SUBSET Procs
          /\ {} \in SUBSET Procs /\ p \notin {}
      BY DEF Guessers, NotLocking, Stales
    <3>2. Cardinality({}) + 1 <= N /\ N \in Nat
      BY <3>1, OneMoves
    <3> QED BY <3>1, <3>2, OneMoves, FS_EmptySet
  <2>3. f \in Nat /\ g \in Nat /\ MaxLogins \in Nat
    BY AuthenticationAssumption DEF LoginInv, LoginShape, Rows
  <2>4. (f + 1 < MaxLogins => g <= f + i) /\ (f + 1 >= MaxLogins => g + s + o <= MaxLogins + 2 * (N - 1))
    BY DEF LoginInv, GuessInv
  <2> HIDE DEF i, s, o, f, g
  <2>5. g <= MaxLogins + 2 * (N - 1)
    BY <2>2, <2>3, <2>4
  <2> QED BY <2>5 DEF GuessesBounded, g, N
<1> QED BY <1>1, <1>2, <1>3, PTL DEF Spec
=============================================================================

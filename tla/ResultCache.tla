----------------------------- MODULE ResultCache ----------------------------
(***************************************************************************)
(* The tool-result cache (ohmcp-cache/src/result_cache.rs): a map of       *)
(* bounded size with a time to live, which evicts the least recently used  *)
(* of a sample of its entries.  HashMap::iter gives the sample in an order *)
(* of its own: any SampleSize entries may be its first.                    *)
(*                                                                         *)
(* Every method holds &mut self (a mutex in the daemon and the client), so *)
(* a method is one step.  Operators that no action uses (AliveStrictly,    *)
(* AfterEvictingNewest, MustEvictLate) are plausible mistakes:             *)
(* the mutants of the properties below.                                    *)
(***************************************************************************)
EXTENDS Integers, FiniteSets

CONSTANTS Keys, Values, Nothing,
          Capacity,     \* ResultCache::new's capacity (65536, 4096)
          TTL,          \* ResultCache::new's ttl (300 s)
          SampleSize,   \* entries evict_lru looks at (8)
          MaxTime,      \* bound: the clock
          MaxGets       \* bound: number of lookups

ASSUME CacheAssumption ==
    /\ Capacity \in Nat \ {0} /\ SampleSize \in Nat \ {0}
    /\ TTL \in Nat
    /\ Nothing \notin Values /\ Nothing \notin [value : Values, at : Nat]

VARIABLES now,      \* Instant::now(), monotonic
          map,      \* the entries: a function on the keys present
          hits, misses,
          stored,   \* history: the last value put under each key, and when
          answer    \* history: what the last get returned, at this instant

cacheVars == <<now, map, hits, misses, stored, answer>>

CacheInit ==
    /\ now = 0 /\ map = [k \in {} |-> Nothing]
    /\ hits = 0 /\ misses = 0
    /\ stored = [k \in Keys |-> Nothing] /\ answer = Nothing

Without(m, k) == [j \in DOMAIN m \ {k} |-> m[j]]
With(m, k, e) == [j \in DOMAIN m \cup {k} |-> IF j = k THEN e ELSE m[j]]

-----------------------------------------------------------------------------
AliveStrictly(k) == k \in DOMAIN map /\ now - map[k].used <= TTL
Alive(k) == k \in DOMAIN map /\ now - map[k].inserted <= TTL

Hit(k) ==
    /\ Alive(k)
    /\ map' = [map EXCEPT ![k].used = now]
    /\ hits' = hits + 1
    /\ answer' = map[k].value
    /\ UNCHANGED <<now, misses, stored>>

\* A miss also drops the entry that was found too old.
Miss(k) ==
    /\ ~Alive(k)
    /\ map' = Without(map, k)
    /\ misses' = misses + 1
    /\ answer' = Nothing
    /\ UNCHANGED <<now, hits, stored>>

Get(k) == hits + misses < MaxGets /\ (Hit(k) \/ Miss(k))

-----------------------------------------------------------------------------
Sampled(s) ==
    /\ s \subseteq DOMAIN map
    /\ \/ Cardinality(s) = SampleSize
       \/ s = DOMAIN map /\ Cardinality(s) < SampleSize

MostRecentOf(s) == {k \in s : \A j \in s : map[j].used <= map[k].used}
OldestOf(s) == {k \in s : \A j \in s : map[k].used <= map[j].used}

AfterEvictingNewest ==
    {Without(map, k) : k \in UNION {MostRecentOf(s) : s \in {t \in SUBSET DOMAIN map : Sampled(t)}}}
\* evict_lru: what may be left after it.
AfterEviction ==
    {Without(map, k) : k \in UNION {OldestOf(s) : s \in {t \in SUBSET DOMAIN map : Sampled(t)}}}

MustEvictLate(k) == Cardinality(DOMAIN map) > Capacity /\ k \notin DOMAIN map
MustEvict(k) == Cardinality(DOMAIN map) >= Capacity /\ k \notin DOMAIN map

Put(k, v) ==
    /\ \E m \in IF MustEvict(k) THEN AfterEviction ELSE {map} :
          map' = With(m, k, [value |-> v, inserted |-> now, used |-> now])
    /\ stored' = [stored EXCEPT ![k] = [value |-> v, at |-> now]]
    /\ UNCHANGED <<now, hits, misses, answer>>

\* Time passes between calls; what a get returned is then a thing of the past.
Tick ==
    /\ now < MaxTime
    /\ now' = now + 1
    /\ answer' = Nothing
    /\ UNCHANGED <<map, hits, misses, stored>>

CacheNext == Tick \/ \E k \in Keys : Get(k) \/ \E v \in Values : Put(k, v)
CacheSpec == CacheInit /\ [][CacheNext]_cacheVars

-----------------------------------------------------------------------------
\* Properties

Entry == [value : Values, inserted : Nat, used : Nat]

\* Types; an entry is never used before it was inserted, nor in the future.
CacheTypeOK ==
    /\ now \in Nat /\ hits \in Nat /\ misses \in Nat
    /\ DOMAIN map \subseteq Keys
    /\ \A k \in DOMAIN map :
          map[k] \in Entry /\ map[k].inserted <= map[k].used /\ map[k].used <= now
    /\ stored \in [Keys -> {Nothing} \cup [value : Values, at : Nat]]
    /\ answer \in Values \cup {Nothing}

\* put evicts before it inserts: the cache never holds more than its capacity.
SizeBounded == IsFiniteSet(DOMAIN map) /\ Cardinality(DOMAIN map) <= Capacity

\* An entry is the last thing put under its key, with the age of that put.
EntriesAreLastPut ==
    \A k \in DOMAIN map :
        /\ stored[k] # Nothing
        /\ map[k].value = stored[k].value /\ map[k].inserted = stored[k].at

\* The inductive invariant: what get, put and evict_lru together preserve.
CacheInv == CacheTypeOK /\ SizeBounded /\ EntriesAreLastPut

\* The victim of a put is the least recently used of SampleSize entries: that
\* many (less itself), or all the others, were used no earlier.
EvictsOldOfSample ==
    [][\A v \in DOMAIN map \ DOMAIN map' :
          (\E k \in DOMAIN map' : k \notin DOMAIN map) =>
              LET younger == {j \in DOMAIN map \ {v} : map[j].used >= map[v].used}
              IN  \/ Cardinality(younger) >= SampleSize - 1
                  \/ younger = DOMAIN map \ {v}]_cacheVars

\* Eviction, expiry and the touch of last_used are invisible but for misses: a
\* lookup yields nothing or the last value put, and never one past its TTL.
Promise == INSTANCE CachePromise
KeepsPromise == Promise!Spec
=============================================================================

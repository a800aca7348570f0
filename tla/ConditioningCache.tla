-------------------------- MODULE ConditioningCache -------------------------
(***************************************************************************)
(* The cache of reference conditioning (runtime/conditioning_cache.py): an *)
(* LRU map with a limit on entries and one on bytes.  A caller that misses *)
(* builds the value outside the lock and looks again before it stores it.  *)
(* Each action but Build is one critical section of the cache's lock.  The *)
(* hit, miss and eviction counters are left out, and what is cached is its *)
(* key and size.  The server's callers take turns, by the GPU lock or      *)
(* because the startup comes first; the class does not ask that of them,   *)
(* and nothing here does.                                                  *)
(***************************************************************************)
EXTENDS Integers, Sequences, Functions

CONSTANTS
  Keys, Callers,
  Sizes,                  \* the sizes a built value can have
  MaxEntries, MaxBytes

\* __init__ refuses negative limits; zero disables the cache.
ASSUME CacheAssumption ==
  /\ Sizes \subseteq Nat
  /\ MaxEntries \in Nat /\ MaxBytes \in Nat

VARIABLES
  items,    \* the OrderedDict: <<key, size>>, oldest first
  bytes,    \* _bytes
  lookup,   \* each caller's get_or_create
  used      \* history: the keys in the order of their last use

cacheVars == <<items, bytes, lookup, used>>

Entry  == [key : Keys, size : Sizes]
NoLookup == [at |-> "idle"]
Lookups  == {NoLookup} \cup [at : {"building"}, key : Keys]
              \cup [at : {"built"}, key : Keys, size : Sizes]

KeysOf(q) == [n \in DOMAIN q |-> q[n].key]
Weight(q) == SumFunction([n \in DOMAIN q |-> q[n].size])

\* Every variable has its type, and no key has two entries.
CacheTypeOK ==
  /\ items \in Seq(Entry)
  /\ \A m, n \in DOMAIN items : items[m].key = items[n].key => m = n
  /\ bytes \in Int
  /\ lookup \in [Callers -> Lookups]
  /\ used \in Seq(Keys)

CacheInit ==
  /\ items = <<>> /\ bytes = 0
  /\ lookup = [c \in Callers |-> NoLookup]
  /\ used = <<>>

Enabled == MaxEntries > 0 /\ MaxBytes > 0
Cached(k) == \E n \in DOMAIN items : items[n].key = k

\* Mutant: the entry is not popped before it is stored again.
LastKeeps(q, x) == Append(q, x)

Without(q, n) == SubSeq(q, 1, n - 1) \o SubSeq(q, n + 1, Len(q))
Place(q, x)   == CHOOSE n \in DOMAIN q : q[n] = x
Last(q, x) ==
  Append(IF \E n \in DOMAIN q : q[n] = x THEN Without(q, Place(q, x)) ELSE q, x)

\* Mutant: a hit leaves the entry where it is.
HitInPlace(k) == UNCHANGED items /\ used' = Last(used, k)

\* pop and store again: the entry becomes the youngest.
Hit(k) ==
  LET n == CHOOSE n \in DOMAIN items : items[n].key = k IN
  /\ items' = Last(items, items[n])
  /\ used' = Last(used, k)

\* _trim: the fewest of the oldest entries whose removal meets both limits.
Trimmed(q, total, n) ==
  Len(q) - n <= MaxEntries /\ total - Weight(SubSeq(q, 1, n)) <= MaxBytes

Trim(q, total) ==
  LET n == CHOOSE n \in 0..Len(q) :
             /\ n = Len(q) \/ Trimmed(q, total, n)
             /\ \A m \in 0..(n - 1) : ~Trimmed(q, total, m)
  IN /\ items' = SubSeq(q, n + 1, Len(q))
     /\ bytes' = total - Weight(SubSeq(q, 1, n))

Get(c, k) ==
  /\ lookup[c] = NoLookup
  /\ IF Cached(k)
     THEN Hit(k) /\ UNCHANGED lookup
     ELSE /\ lookup' = [lookup EXCEPT ![c] = [at |-> "building", key |-> k]]
          /\ UNCHANGED <<items, used>>
  /\ UNCHANGED bytes

\* The factory, outside the lock: it raises, its value is not worth keeping,
\* or it is to be stored.
BuildFails(c) ==
  /\ lookup[c].at = "building"
  /\ lookup' = [lookup EXCEPT ![c] = NoLookup]
  /\ UNCHANGED <<items, bytes, used>>

Fits(size) == Enabled /\ size <= MaxBytes

Build(c) ==
  /\ lookup[c].at = "building"
  /\ \E size \in Sizes :
       lookup' = [lookup EXCEPT ![c] =
         IF Fits(size) THEN [at |-> "built", key |-> lookup[c].key, size |-> size]
                       ELSE NoLookup]
  /\ UNCHANGED <<items, bytes, used>>

\* Mutant: no second look before storing; storing an existing key replaces its value.
StoreBlindly(c) ==
  LET new == [key |-> lookup[c].key, size |-> lookup[c].size] IN
  /\ lookup[c].at = "built"
  /\ IF Cached(new.key)
     THEN Trim([n \in DOMAIN items |-> IF items[n].key = new.key THEN new ELSE items[n]],
               bytes + new.size)
     ELSE Trim(Append(items, new), bytes + new.size)
  /\ used' = Last(used, new.key)
  /\ lookup' = [lookup EXCEPT ![c] = NoLookup]

Store(c) ==
  LET new == [key |-> lookup[c].key, size |-> lookup[c].size] IN
  /\ lookup[c].at = "built"
  /\ IF Cached(new.key)
     THEN Hit(new.key) /\ UNCHANGED bytes
     ELSE Trim(Append(items, new), bytes + new.size) /\ used' = Last(used, new.key)
  /\ lookup' = [lookup EXCEPT ![c] = NoLookup]

Request(c) == (\E k \in Keys : Get(c, k)) \/ BuildFails(c) \/ Build(c) \/ Store(c)
-----------------------------------------------------------------------------
(* Properties.                                                             *)

\* The byte counter is what the entries weigh, though two callers may have
\* built the same key, with values of different size; so both limits are real.
BytesExact == bytes = Weight(items) /\ bytes <= MaxBytes

\* The entries are the keys used last, in the order of their use: only the
\* oldest are evicted, and a value just stored is never its own victim.
LeastRecentlyUsed ==
  /\ Len(items) <= MaxEntries
  /\ KeysOf(items) = SubSeq(used, Len(used) - Len(items) + 1, Len(used))
  /\ used # <<>> => items # <<>>
=============================================================================

-------------------------------- MODULE Cache --------------------------------
(***************************************************************************)
(* The general purpose cache of infra/cache.c, which backs the resultset,  *)
(* session, permission and metadata caches.                                *)
(*                                                                         *)
(* Every operation runs under the cache's read-write lock and is one step. *)
(* An entry has an address, because cache_lookup() hands out a pointer     *)
(* that its reader uses after the lock is gone; addresses are never        *)
(* reused, so that a pointer to freed memory stays recognisable.  Hash     *)
(* chains are abstracted to the set of entries; keys are compared in full  *)
(* by the code, so a chain behaves as a set.  Every entry weighs the same: *)
(* the limit on memory is enforced by the same eviction as the limit on    *)
(* the number of entries.  No caller pins an entry, and none calls         *)
(* cache_reinitialize().                                                   *)
(***************************************************************************)
EXTENDS Integers, FiniteSets

CONSTANTS
    Readers,        \* threads that look entries up
    Keys,           \* normalised keys
    Docs,           \* cached documents
    Tags,           \* table names entries depend on
    MaxEntries,     \* max_entries
    TTL,            \* ttl_seconds
    TimeBits,       \* width of time_t
    MaxInserts,     \* bound: entries ever allocated
    MaxTime         \* bound: the clock

ASSUME CacheAssumption ==
    /\ MaxEntries \in Nat \ {0}
    /\ TTL \in Nat \ {0}
    /\ TimeBits \in Nat \ {0}
    /\ MaxInserts \in Nat
    /\ MaxTime \in Nat

Nil == 0
Addresses == 1 .. MaxInserts

Entry == [key : Keys, doc : Docs, tags : SUBSET Tags, json : BOOLEAN,
          access : Nat, expiry : Nat, inUse : BOOLEAN]

VARIABLES
    store,          \* the entries in the table, by address
    entry_count,
    last,           \* the last address allocated
    held,           \* the pointer each reader got from cache_lookup()
    shared,         \* ghost: addresses that two readers have held at once
    clock           \* time(NULL)

cvars == <<store, entry_count, last, held, shared, clock>>

\* cache_create(): an empty table, at a time well after the epoch.
CInit ==
    /\ store = [p \in {} |-> {}]
    /\ entry_count = 0
    /\ last = 0
    /\ held = [r \in Readers |-> Nil]
    /\ shared = {}
    /\ clock = 2

At(k)      == {p \in DOMAIN store : store[p].key = k}
Expired(p) == store[p].expiry > 0 /\ clock >= store[p].expiry
Live(k)    == {p \in At(k) : ~Expired(p)}
Without(gone) == [p \in DOMAIN store \ gone |-> store[p]]

-----------------------------------------------------------------------------
(* Readers                                                                  *)

\* Mutant: the entry is handed out without in_use = 1.
cache_lookup_hit_unmarked(r, k) ==
    /\ held[r] = Nil
    /\ \E p \in Live(k) :
         /\ store' = [store EXCEPT ![p].access = clock]
         /\ held' = [held EXCEPT ![r] = p]
         /\ shared' = IF \E s \in Readers : held[s] = p THEN shared \cup {p} ELSE shared
    /\ UNCHANGED <<entry_count, last, clock>>

\* A live entry: in_use = 1, last_access_ts = now, and the pointer is out.
cache_lookup_hit(r, k) ==
    /\ held[r] = Nil
    /\ \E p \in Live(k) :
         /\ store' = [store EXCEPT ![p].inUse = TRUE, ![p].access = clock]
         /\ held' = [held EXCEPT ![r] = p]
         /\ shared' = IF \E s \in Readers : held[s] = p THEN shared \cup {p} ELSE shared
    /\ UNCHANGED <<entry_count, last, clock>>

\* No entry, or only an expired one: NULL.
cache_lookup_miss(k) == Live(k) = {}

\* in_use = 0, whoever else still reads the entry.  On an entry that was
\* freed meanwhile this writes to memory the cache no longer owns.
cache_release(r) ==
    /\ held[r] # Nil
    /\ store' = IF held[r] \in DOMAIN store
                  THEN [store EXCEPT ![held[r]].inUse = FALSE] ELSE store
    /\ held' = [held EXCEPT ![r] = Nil]
    /\ UNCHANGED <<entry_count, last, shared, clock>>

-----------------------------------------------------------------------------
(* Eviction                                                                 *)

\* An unsigned TimeBits-bit number read as a time_t, which is signed.
AsTime(n) == IF n >= 2 ^ (TimeBits - 1) THEN n - 2 ^ TimeBits ELSE n

\* evict_lru_under_lock() takes the smallest last_access_ts below its start
\* value, (time_t)UINT64_MAX.
Evictable(S) ==
    {p \in S : ~store[p].inUse /\ store[p].access < AsTime(2 ^ TimeBits - 1)}

\* What a loop over evict_lru_under_lock() takes from S: least recently used
\* first, until fewer than limit are left or nothing is evictable.
Evicted(S, limit) ==
    {gone \in SUBSET Evictable(S) :
       /\ \A p \in gone, q \in Evictable(S) \ gone : store[p].access <= store[q].access
       /\ Cardinality(S \ gone) < limit \/ gone = Evictable(S)
       /\ gone = {} \/ Cardinality(S \ gone) + 1 >= limit}

-----------------------------------------------------------------------------
(* Writers                                                                  *)

\* alloc_entry()
NewEntry(k, doc, tags, json) ==
    [key |-> k, doc |-> doc, tags |-> tags, json |-> json,
     access |-> clock, expiry |-> clock + TTL, inUse |-> FALSE]

\* Mutant: the entry that is replaced is not taken off the count.
cache_insert_miscounts(k, doc, tags, json) ==
    /\ last < MaxInserts
    /\ IF \E p \in At(k) : store[p].inUse
         THEN UNCHANGED <<store, entry_count, last>>
         ELSE \E gone \in Evicted(DOMAIN store \ At(k), MaxEntries) :
                LET kept == Without(At(k) \cup gone)
                IN  /\ store' = [p \in DOMAIN kept \cup {last + 1} |->
                                   IF p = last + 1 THEN NewEntry(k, doc, tags, json) ELSE kept[p]]
                    /\ entry_count' = entry_count - Cardinality(gone) + 1
                    /\ last' = last + 1
    /\ UNCHANGED <<held, shared, clock>>

\* The entry with this key is replaced, unless it is checked out: then the
\* new document is dropped, and the caller is told 0 all the same.  When
\* alloc_entry() fails, the old entry and the evicted ones are gone already.
cache_insert(k, doc, tags, json) ==
    /\ last < MaxInserts
    /\ IF \E p \in At(k) : store[p].inUse
         THEN UNCHANGED <<store, entry_count, last>>
         ELSE \E gone \in Evicted(DOMAIN store \ At(k), MaxEntries) :
                LET kept == Without(At(k) \cup gone)
                    left == entry_count - Cardinality(At(k)) - Cardinality(gone)
                IN  \/ /\ store' = [p \in DOMAIN kept \cup {last + 1} |->
                                      IF p = last + 1 THEN NewEntry(k, doc, tags, json) ELSE kept[p]]
                       /\ entry_count' = left + 1 /\ last' = last + 1
                    \/ store' = kept /\ entry_count' = left /\ UNCHANGED last
    /\ UNCHANGED <<held, shared, clock>>

\* expiry_ts = now - 1: the entry stays, for its readers, but is no hit.
MarkExpired(S) ==
    store' = [p \in DOMAIN store |->
                IF p \in S THEN [store[p] EXCEPT !.expiry = clock - 1] ELSE store[p]]

cache_expire_entry(k) ==
    /\ MarkExpired(At(k))
    /\ UNCHANGED <<entry_count, last, held, shared, clock>>

\* Every live entry that depends on the table.
cache_invalidate_by_tag(t) ==
    /\ MarkExpired({p \in DOMAIN store : t \in store[p].tags /\ ~Expired(p)})
    /\ UNCHANGED <<entry_count, last, held, shared, clock>>

\* The sweep: expired entries that nobody has checked out, then the least
\* recently used ones if the cache is over its limit.
cache_evict_expired ==
    /\ LET expired == {p \in DOMAIN store : Expired(p) /\ ~store[p].inUse}
       IN  \E more \in Evicted(DOMAIN store \ expired, MaxEntries + 1) :
             LET gone == expired \cup more
             IN  store' = Without(gone) /\ entry_count' = entry_count - Cardinality(gone)
    /\ UNCHANGED <<last, held, shared, clock>>

\* cache_destroy() at the end of a process, or a crash; the next process
\* starts from cache_create().
cache_restart ==
    /\ store' = [p \in {} |-> {}] /\ entry_count' = 0
    /\ held' = [r \in Readers |-> Nil]
    /\ UNCHANGED <<last, shared, clock>>

Tick ==
    /\ clock < MaxTime
    /\ clock' = clock + 1
    /\ UNCHANGED <<store, entry_count, last, held, shared>>

CNext ==
    \/ \E r \in Readers, k \in Keys : cache_lookup_hit(r, k)
    \/ \E r \in Readers : cache_release(r)
    \/ \E k \in Keys, d \in Docs, tags \in SUBSET Tags, j \in BOOLEAN :
         cache_insert(k, d, tags, j)
    \/ \E k \in Keys : cache_expire_entry(k)
    \/ \E t \in Tags : cache_invalidate_by_tag(t)
    \/ cache_evict_expired
    \/ cache_restart
    \/ Tick

CSpec == CInit /\ [][CNext]_cvars

-----------------------------------------------------------------------------
(* Properties                                                               *)

\* The table's state has the shape of cache_t and its entries.
CTypeOK ==
    /\ DOMAIN store \subseteq Addresses
    /\ \A p \in DOMAIN store : store[p] \in Entry
    /\ entry_count \in Nat
    /\ last \in 0 .. MaxInserts
    /\ held \in [Readers -> Addresses \cup {Nil}]
    /\ shared \in SUBSET Addresses
    /\ clock \in Nat

\* entry_count is the number of entries, and a key has one entry at most:
\* what the limits and the chains rely on after any mix of operations.
TableConsistent ==
    /\ entry_count = Cardinality(DOMAIN store)
    /\ \A p, q \in DOMAIN store : store[p].key = store[q].key => p = q

\* An entry that one reader at a time holds is not freed under it, whatever
\* the writers replace, expire or sweep meanwhile (in_use protects it).
SoleReaderSafe ==
    \A r \in Readers :
      held[r] # Nil /\ held[r] \notin shared => held[r] \in DOMAIN store

\* "no reader can ever be handed a pointer to memory that gets freed while
\* they're still using it" (cache_expire_entry()): also with two readers.
ReadersSafe == \A r \in Readers : held[r] # Nil => held[r] \in DOMAIN store
=============================================================================

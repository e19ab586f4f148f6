----------------------------- MODULE CacheProofs -----------------------------
(***************************************************************************)
(* Safety of the cache of infra/cache.c for any number of readers, keys,   *)
(* documents and tables and any limits: its state keeps its shape, the     *)
(* count and the chains stay consistent, and an entry is never freed under *)
(* a reader that has it for itself.                                        *)
(***************************************************************************)
EXTENDS Cache, FiniteSetTheorems, TLAPS

-----------------------------------------------------------------------------
(* The inductive invariant                                                  *)

\* expiry_ts = now - 1 stays a time because the clock is past the epoch.
PastEpoch == clock >= 1

\* The table holds only addresses that were allocated: the next is fresh.
Allocated == DOMAIN store \subseteq 1 .. last

\* An entry that one reader has for itself is in the table and marked.
CheckedOut ==
    \A r \in Readers :
      held[r] # Nil /\ held[r] \notin shared =>
        held[r] \in DOMAIN store /\ store[held[r]].inUse

\* Two readers of one entry are known to share it.
SharingKnown ==
    \A r, s \in Readers : r # s /\ held[r] = held[s] /\ held[r] # Nil => held[r] \in shared

CInv ==
    /\ CTypeOK
    /\ PastEpoch
    /\ Allocated
    /\ TableConsistent
    /\ CheckedOut
    /\ SharingKnown

-----------------------------------------------------------------------------
(* Facts about the operators                                                *)

\* The table is finite: it has no more entries than were ever allocated.
LEMMA StoreFinite ==
    ASSUME CTypeOK
    PROVE  IsFiniteSet(DOMAIN store)
<1>1. IsFiniteSet(Addresses)
  BY FS_Interval, CacheAssumption DEF Addresses
<1> QED
  BY <1>1, FS_Subset DEF CTypeOK

\* Eviction takes entries of the set it was given that nobody has checked out.
LEMMA EvictedUnused ==
    ASSUME NEW S, NEW limit, NEW gone \in Evicted(S, limit)
    PROVE  gone \subseteq S /\ \A p \in gone : ~store[p].inUse
<1>1. gone \subseteq Evictable(S)
  BY DEF Evicted
<1> QED
  BY <1>1 DEF Evictable

\* Removing entries takes as many off the count as there were.
LEMMA CountRemoved ==
    ASSUME NEW S, IsFiniteSet(S), NEW T \in SUBSET S
    PROVE  /\ IsFiniteSet(S \ T) /\ IsFiniteSet(T)
           /\ Cardinality(S) \in Nat /\ Cardinality(T) \in Nat
           /\ Cardinality(S \ T) = Cardinality(S) - Cardinality(T)
           /\ Cardinality(T) <= Cardinality(S)
<1>1. T = S \cap T
  OBVIOUS
<1>2. IsFiniteSet(T) /\ Cardinality(T) <= Cardinality(S)
  BY FS_Subset
<1>3. IsFiniteSet(S \ T) /\ Cardinality(S \ T) = Cardinality(S) - Cardinality(S \cap T)
  BY FS_Difference
<1> QED
  BY <1>1, <1>2, <1>3, FS_CardinalityType

-----------------------------------------------------------------------------
(* One lemma per kind of step                                               *)

\* cache_create() establishes the invariant.
LEMMA InitOK == CInit => CInv
<1> SUFFICES ASSUME CInit PROVE CInv
  OBVIOUS
<1>1. DOMAIN store = {}
  BY DEF CInit
<1>2. Cardinality(DOMAIN store) = 0
  BY <1>1, FS_EmptySet
<1> QED
  BY <1>1, <1>2, CacheAssumption
     DEF CInit, CInv, CTypeOK, PastEpoch, Allocated, TableConsistent, CheckedOut,
         SharingKnown, Nil, Addresses

\* A hit marks the entry and notes whether somebody else reads it.
LEMMA LookupOK ==
    ASSUME CInv, NEW r \in Readers, NEW k \in Keys, cache_lookup_hit(r, k)
    PROVE  CInv'
<1>1. PICK p \in Live(k) :
        /\ store' = [store EXCEPT ![p].inUse = TRUE, ![p].access = clock]
        /\ held' = [held EXCEPT ![r] = p]
        /\ shared' = IF \E s \in Readers : held[s] = p THEN shared \cup {p} ELSE shared
  BY DEF cache_lookup_hit
<1>2. p \in DOMAIN store /\ p \in Addresses /\ p # Nil
  BY DEF Live, At, CInv, CTypeOK, Addresses, Nil
<1>3. /\ DOMAIN store' = DOMAIN store
      /\ store'[p].inUse
      /\ \A q \in DOMAIN store : q # p => store'[q] = store[q]
      /\ \A q \in DOMAIN store : store'[q].key = store[q].key
      /\ \A q \in DOMAIN store : store'[q] \in Entry
  BY <1>1, <1>2 DEF CInv, CTypeOK, Entry
<1>4. UNCHANGED <<entry_count, last, clock>>
  BY DEF cache_lookup_hit
<1>5. held' \in [Readers -> Addresses \cup {Nil}] /\ held'[r] = p
        /\ \A s \in Readers : s # r => held'[s] = held[s]
  BY <1>1, <1>2 DEF CInv, CTypeOK
<1>6. CTypeOK' /\ PastEpoch' /\ Allocated'
  BY <1>1, <1>2, <1>3, <1>4, <1>5 DEF CInv, CTypeOK, PastEpoch, Allocated, Addresses
<1>7. TableConsistent'
  BY <1>3, <1>4 DEF CInv, TableConsistent
<1>8. CheckedOut'
  BY <1>1, <1>2, <1>3, <1>5 DEF CInv, CheckedOut
<1>9. SharingKnown'
  BY <1>1, <1>2, <1>5 DEF CInv, SharingKnown
<1> QED
  BY <1>6, <1>7, <1>8, <1>9 DEF CInv

\* A release clears a mark that only a shared entry's other readers rely on.
LEMMA ReleaseOK ==
    ASSUME CInv, NEW r \in Readers, cache_release(r)
    PROVE  CInv'
<1>1. /\ held' = [held EXCEPT ![r] = Nil]
      /\ held[r] # Nil
      /\ UNCHANGED <<entry_count, last, shared, clock>>
  BY DEF cache_release
<1>2. /\ DOMAIN store' = DOMAIN store
      /\ \A q \in DOMAIN store : q # held[r] => store'[q] = store[q]
      /\ \A q \in DOMAIN store : store'[q].key = store[q].key
      /\ \A q \in DOMAIN store : store'[q] \in Entry
  BY DEF cache_release, CInv, CTypeOK, Entry
<1>3. held' \in [Readers -> Addresses \cup {Nil}] /\ held'[r] = Nil
        /\ \A s \in Readers : s # r => held'[s] = held[s]
  BY <1>1 DEF CInv, CTypeOK
<1>4. CTypeOK' /\ PastEpoch' /\ Allocated'
  BY <1>1, <1>2, <1>3 DEF CInv, CTypeOK, PastEpoch, Allocated
<1>5. TableConsistent'
  BY <1>1, <1>2 DEF CInv, TableConsistent
<1>6. SharingKnown'
  BY <1>1, <1>3 DEF CInv, SharingKnown
<1>7. CheckedOut'
  BY <1>1, <1>2, <1>3 DEF CInv, CheckedOut, SharingKnown
<1> QED
  BY <1>4, <1>5, <1>6, <1>7 DEF CInv

\* Entries that nobody has checked out may leave the table, counted.
LEMMA RemoveOK ==
    ASSUME CInv, NEW gone \in SUBSET DOMAIN store,
           \A p \in gone : ~store[p].inUse,
           store' = Without(gone),
           entry_count' = entry_count - Cardinality(gone),
           UNCHANGED <<last, held, shared, clock>>
    PROVE  CInv'
<1>1. /\ DOMAIN store' = DOMAIN store \ gone
      /\ \A p \in DOMAIN store' : store'[p] = store[p]
  BY DEF Without
<1>2. entry_count' = Cardinality(DOMAIN store') /\ entry_count' \in Nat
  BY <1>1, StoreFinite, CountRemoved DEF CInv, TableConsistent
<1>3. CTypeOK' /\ PastEpoch' /\ Allocated'
  BY <1>1, <1>2 DEF CInv, CTypeOK, PastEpoch, Allocated
<1>4. TableConsistent'
  BY <1>1, <1>2 DEF CInv, TableConsistent
<1>5. CheckedOut' /\ SharingKnown'
  BY <1>1 DEF CInv, CheckedOut, SharingKnown
<1> QED
  BY <1>3, <1>4, <1>5 DEF CInv

\* cache_evict_expired() removes only what is not checked out.
LEMMA EvictExpiredOK ==
    ASSUME CInv, cache_evict_expired
    PROVE  CInv'
<1> DEFINE expired == {p \in DOMAIN store : Expired(p) /\ ~store[p].inUse}
<1>1. PICK more \in Evicted(DOMAIN store \ expired, MaxEntries + 1) :
        /\ store' = Without(expired \cup more)
        /\ entry_count' = entry_count - Cardinality(expired \cup more)
  BY DEF cache_evict_expired
<1>2. more \subseteq DOMAIN store \ expired /\ \A p \in more : ~store[p].inUse
  BY EvictedUnused
<1>3. expired \cup more \in SUBSET DOMAIN store /\ \A p \in expired \cup more : ~store[p].inUse
  BY <1>2
<1>4. UNCHANGED <<last, held, shared, clock>>
  BY DEF cache_evict_expired
<1> QED
  BY <1>1, <1>3, <1>4, RemoveOK

\* cache_insert() drops the document, replaces an entry nobody reads, or only
\* frees it when there is no memory for the new one.
LEMMA InsertOK ==
    ASSUME CInv, NEW k \in Keys, NEW d \in Docs, NEW tags \in SUBSET Tags, NEW j \in BOOLEAN,
           cache_insert(k, d, tags, j)
    PROVE  CInv'
<1>1. UNCHANGED <<held, shared, clock>> /\ last < MaxInserts
  BY DEF cache_insert
<1>2. CASE \E p \in At(k) : store[p].inUse
  <2>1. UNCHANGED <<store, entry_count, last>>
    BY <1>2 DEF cache_insert
  <2> QED
    BY <1>1, <2>1
       DEF CInv, CTypeOK, PastEpoch, Allocated, TableConsistent, CheckedOut, SharingKnown
<1>3. CASE ~\E p \in At(k) : store[p].inUse
  <2> DEFINE new  == last + 1
             Left(gone) == entry_count - Cardinality(At(k)) - Cardinality(gone)
  <2>1. PICK gone \in Evicted(DOMAIN store \ At(k), MaxEntries) :
          \/ /\ store' = [p \in DOMAIN Without(At(k) \cup gone) \cup {new} |->
                            IF p = new THEN NewEntry(k, d, tags, j)
                                       ELSE Without(At(k) \cup gone)[p]]
             /\ entry_count' = Left(gone) + 1
             /\ last' = new
          \/ /\ store' = Without(At(k) \cup gone)
             /\ entry_count' = Left(gone)
             /\ UNCHANGED last
    BY <1>3 DEF cache_insert
  <2> DEFINE out == At(k) \cup gone
             kept == DOMAIN store \ out
  <2>2. gone \subseteq DOMAIN store \ At(k) /\ \A p \in gone : ~store[p].inUse
    BY EvictedUnused
  <2>3. /\ At(k) \subseteq DOMAIN store /\ out \in SUBSET DOMAIN store
        /\ \A p \in out : ~store[p].inUse
        /\ \A p \in kept : store[p].key # k
    BY <1>3, <2>2 DEF At
  <2>4. IsFiniteSet(kept) /\ Cardinality(kept) \in Nat /\ Cardinality(kept) = Left(gone)
    <3>1. IsFiniteSet(DOMAIN store) /\ entry_count = Cardinality(DOMAIN store)
      BY StoreFinite DEF CInv, TableConsistent
    <3> DEFINE rest == DOMAIN store \ At(k)
    <3>2. IsFiniteSet(rest) /\ Cardinality(rest) = entry_count - Cardinality(At(k))
      BY <2>3, <3>1, CountRemoved
    <3>3. /\ IsFiniteSet(rest \ gone) /\ Cardinality(rest \ gone) \in Nat
          /\ Cardinality(rest \ gone) = Cardinality(rest) - Cardinality(gone)
      BY <2>2, <3>2, CountRemoved, FS_CardinalityType
    <3>4. rest \ gone = kept
      OBVIOUS
    <3> QED
      BY <3>2, <3>3, <3>4
  <2>5. CASE store' = Without(out) /\ entry_count' = Left(gone) /\ UNCHANGED last
    <3>1. Cardinality(kept) = entry_count - Cardinality(out)
      BY <2>3, StoreFinite, CountRemoved DEF CInv, TableConsistent
    <3>2. entry_count' = entry_count - Cardinality(out)
      BY <2>4, <2>5, <3>1
    <3> QED
      BY <1>1, <2>3, <2>5, <3>2, RemoveOK
  <2>6. CASE /\ store' = [p \in DOMAIN Without(out) \cup {new} |->
                            IF p = new THEN NewEntry(k, d, tags, j) ELSE Without(out)[p]]
             /\ entry_count' = Left(gone) + 1
             /\ last' = new
    <3>1. new \in Addresses /\ new \notin DOMAIN store /\ new \in 1 .. new
      BY <1>1, CacheAssumption DEF CInv, CTypeOK, Allocated, Addresses
    <3>2. /\ DOMAIN store' = kept \cup {new}
          /\ store'[new] = NewEntry(k, d, tags, j)
          /\ \A p \in kept : store'[p] = store[p]
      BY <2>6, <3>1 DEF Without
    <3>3. NewEntry(k, d, tags, j) \in Entry /\ NewEntry(k, d, tags, j).key = k
      <4>1. clock \in Nat /\ clock + TTL \in Nat
        BY CacheAssumption DEF CInv, CTypeOK
      <4> QED
        BY <4>1 DEF NewEntry, Entry
    <3>4. entry_count' = Cardinality(DOMAIN store') /\ entry_count' \in Nat
      <4>1. Cardinality(kept \cup {new}) = Cardinality(kept) + 1
        BY <2>4, <3>1, FS_AddElement
      <4>2. Cardinality(DOMAIN store') = Cardinality(kept) + 1
        BY <3>2, <4>1
      <4> HIDE DEF kept, Left
      <4> QED
        BY <2>4, <2>6, <4>2
    <3>5. CTypeOK'
      <4>1. DOMAIN store' \subseteq Addresses
        BY <3>1, <3>2 DEF CInv, CTypeOK
      <4>2. \A p \in DOMAIN store' : store'[p] \in Entry
        BY <3>2, <3>3 DEF CInv, CTypeOK
      <4>3. last' \in 0 .. MaxInserts
        BY <1>1, <2>6, CacheAssumption DEF CInv, CTypeOK
      <4> QED
        BY <1>1, <3>4, <4>1, <4>2, <4>3 DEF CInv, CTypeOK
    <3>6. PastEpoch' /\ Allocated'
      <4>1. last \in Nat /\ last' = last + 1 /\ DOMAIN store \subseteq 1 .. last
        BY <1>1, <2>6, CacheAssumption DEF CInv, CTypeOK, Allocated
      <4>2. kept \subseteq 1 .. (last + 1)
        BY <4>1
      <4>3. new \in 1 .. (last + 1)
        BY <4>1
      <4>4. DOMAIN store' \subseteq 1 .. (last + 1)
        BY <3>2, <4>2, <4>3
      <4>5. PastEpoch'
        BY <1>1 DEF CInv, PastEpoch
      <4> QED
        BY <4>1, <4>4, <4>5 DEF Allocated
    <3>7. TableConsistent'
      BY <2>3, <3>2, <3>3, <3>4 DEF CInv, TableConsistent
    <3>8. CheckedOut' /\ SharingKnown'
      BY <1>1, <2>3, <3>1, <3>2 DEF CInv, CheckedOut, SharingKnown
    <3> QED
      BY <3>5, <3>6, <3>7, <3>8 DEF CInv
  <2> QED
    BY <2>1, <2>5, <2>6
<1> QED
  BY <1>2, <1>3

\* Expiring entries keeps them, and their readers, where they are.
LEMMA ExpireOK ==
    ASSUME CInv, NEW S, MarkExpired(S), UNCHANGED <<entry_count, last, held, shared, clock>>
    PROVE  CInv'
<1>1. clock - 1 \in Nat
  BY DEF CInv, CTypeOK, PastEpoch
<1>2. /\ DOMAIN store' = DOMAIN store
      /\ \A p \in DOMAIN store : /\ store'[p] \in Entry
                                 /\ store'[p].key = store[p].key
                                 /\ store'[p].inUse = store[p].inUse
  BY <1>1 DEF MarkExpired, CInv, CTypeOK, Entry
<1> QED
  BY <1>2 DEF CInv, CTypeOK, PastEpoch, Allocated, TableConsistent, CheckedOut, SharingKnown

\* A new process starts with an empty table and no readers.
LEMMA RestartOK ==
    ASSUME CInv, cache_restart
    PROVE  CInv'
<1>1. DOMAIN store' = {} /\ entry_count' = 0 /\ held' = [r \in Readers |-> Nil]
        /\ UNCHANGED <<last, shared, clock>>
  BY DEF cache_restart
<1>2. Cardinality(DOMAIN store') = 0
  BY <1>1, FS_EmptySet
<1> QED
  BY <1>1, <1>2
     DEF CInv, CTypeOK, PastEpoch, Allocated, TableConsistent, CheckedOut, SharingKnown

\* Every operation keeps the invariant.
LEMMA NextOK ==
    ASSUME CInv, [CNext]_cvars
    PROVE  CInv'
<1>1. CASE UNCHANGED cvars
  BY <1>1
     DEF cvars, CInv, CTypeOK, PastEpoch, Allocated, TableConsistent, CheckedOut, SharingKnown
<1>2. ASSUME NEW r \in Readers, NEW k \in Keys, cache_lookup_hit(r, k) PROVE CInv'
  BY <1>2, LookupOK
<1>3. ASSUME NEW r \in Readers, cache_release(r) PROVE CInv'
  BY <1>3, ReleaseOK
<1>4. ASSUME NEW k \in Keys, NEW d \in Docs, NEW tags \in SUBSET Tags, NEW j \in BOOLEAN,
             cache_insert(k, d, tags, j)
      PROVE  CInv'
  BY <1>4, InsertOK
<1>5. ASSUME NEW k \in Keys, cache_expire_entry(k) PROVE CInv'
  BY <1>5, ExpireOK DEF cache_expire_entry
<1>6. ASSUME NEW t \in Tags, cache_invalidate_by_tag(t) PROVE CInv'
  BY <1>6, ExpireOK DEF cache_invalidate_by_tag
<1>7. CASE cache_evict_expired
  BY <1>7, EvictExpiredOK
<1>8. CASE cache_restart
  BY <1>8, RestartOK
<1>9. CASE Tick
  <2>1. clock' = clock + 1 /\ UNCHANGED <<store, entry_count, last, held, shared>>
    BY <1>9 DEF Tick
  <2> QED
    BY <2>1
       DEF CInv, CTypeOK, PastEpoch, Allocated, TableConsistent, CheckedOut, SharingKnown
<1> QED
  BY <1>1, <1>2, <1>3, <1>4, <1>5, <1>6, <1>7, <1>8, <1>9 DEF CNext

-----------------------------------------------------------------------------
(* Theorems                                                                 *)

\* The invariant holds in every reachable state of the cache.
THEOREM CacheInvariant == CSpec => []CInv
<1>1. CInit => CInv
  BY InitOK
<1>2. CInv /\ [CNext]_cvars => CInv'
  BY NextOK
<1> QED
  BY <1>1, <1>2, PTL DEF CSpec

\* cache_t and its entries keep their shape under every mix of operations.
THEOREM CacheTypeCorrect == CSpec => []CTypeOK
<1>1. CInv => CTypeOK
  BY DEF CInv
<1> QED
  BY <1>1, CacheInvariant, PTL

\* entry_count counts the entries exactly and a key has one entry at most,
\* after any mix of insertions, replacements, evictions and sweeps.
THEOREM CacheConsistent == CSpec => []TableConsistent
<1>1. CInv => TableConsistent
  BY DEF CInv
<1> QED
  BY <1>1, CacheInvariant, PTL

\* in_use protects a reader that has the entry for itself: neither
\* cache_insert() nor eviction nor the sweep frees it before its release.
THEOREM SoleReaderProtected == CSpec => []SoleReaderSafe
<1>1. CInv => SoleReaderSafe
  BY DEF CInv, CheckedOut, SoleReaderSafe
<1> QED
  BY <1>1, CacheInvariant, PTL
=============================================================================

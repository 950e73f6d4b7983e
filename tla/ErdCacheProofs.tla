--------------------------- MODULE ErdCacheProofs ---------------------------
(***************************************************************************)
(* The cache invariants for every capacity, arena size, key set and        *)
(* payload set.                                                            *)
(***************************************************************************)
EXTENDS ErdCache, TLAPS

(* A payload is a byte sequence: its length and its bytes are well typed.  *)
LEMMA PayloadType ==
    ASSUME NEW d \in Payload
    PROVE  /\ Len(d) \in Nat
           /\ d \in [1 .. Len(d) -> Byte]
           /\ d \in Seq(Byte)
<1>1. PICK n \in 0 .. MaxInputSize : d \in [1 .. n -> Byte]
  BY DEF Payload
<1>2. n \in Nat
  BY CacheConstants
<1>3. d \in Seq(Byte) /\ Len(d) = n
  BY <1>1, <1>2
<1> QED
  BY <1>1, <1>2, <1>3

(* A memcpy into the arena leaves an arena.                                *)
LEMMA WrittenType ==
    ASSUME CacheTypeOK, NEW d \in Payload, NEW o \in Nat
    PROVE  Written(o, d) \in [ArenaIndex -> Byte]
<1> SUFFICES ASSUME NEW a \in ArenaIndex, a >= o, a < o + Len(d)
             PROVE  d[a - o + 1] \in Byte
  BY DEF CacheTypeOK, Written
<1>1. a \in Nat /\ Len(d) \in Nat /\ d \in [1 .. Len(d) -> Byte]
  BY PayloadType, CacheConstants DEF ArenaIndex
<1>2. a - o + 1 \in 1 .. Len(d)
  BY <1>1
<1> QED
  BY <1>1, <1>2

(* erd_cache_mark_all_updated leaves each slot a well-formed entry.        *)
LEMMA RequeuedEntry ==
    ASSUME NEW e \in Entry
    PROVE  [e EXCEPT !.update_required = TRUE, !.publish_cooldown = 0] \in Entry
<1>1. 0 \in 0 .. MaxCooldown
  BY CacheConstants
<1> QED
  BY <1>1 DEF Entry

(* Every cache function leaves a cache of that shape.                      *)
LEMMA CacheStepType ==
    ASSUME CacheTypeOK, [CacheNext]_cacheVars
    PROVE  CacheTypeOK'
<1> USE CacheConstants
<1>1. ASSUME NEW k \in Key, NEW d \in Payload, UpdateExisting(k, d)
      PROVE  CacheTypeOK'
  <2>1. PICK i \in Slots :
          /\ arena' = Written(entries[i].data_offset, d)
          /\ entries' = [entries EXCEPT ![i].update_required = TRUE]
          /\ UNCHANGED arena_offset
    BY <1>1 DEF UpdateExisting
  <2>2. entries[i].data_offset \in Nat
    BY DEF CacheTypeOK, Entry
  <2>3. arena' \in [ArenaIndex -> Byte]
    BY <2>1, <2>2, WrittenType
  <2>4. entries' \in [Slots -> Entry]
    BY <2>1 DEF CacheTypeOK, Entry
  <2> QED
    BY <2>1, <2>3, <2>4 DEF CacheTypeOK
<1>2. ASSUME NEW k \in Key, NEW d \in Payload, InsertNew(k, d)
      PROVE  CacheTypeOK'
  <2>1. PICK i \in Slots :
          /\ arena_offset + Len(d) <= ArenaSize
          /\ arena' = Written(arena_offset, d)
          /\ entries' = [entries EXCEPT ![i] =
                        [@ EXCEPT !.key = k, !.data_offset = arena_offset,
                                  !.data_size = Len(d), !.valid = TRUE,
                                  !.update_required = TRUE]]
          /\ arena_offset' = arena_offset + Len(d)
    BY <1>2 DEF InsertNew
  <2>2. arena_offset \in Nat /\ Len(d) \in Nat
    BY PayloadType DEF CacheTypeOK
  <2>3. arena' \in [ArenaIndex -> Byte]
    BY <2>1, <2>2, WrittenType
  <2>4. entries' \in [Slots -> Entry]
    BY <2>1, <2>2 DEF CacheTypeOK, Entry
  <2> QED
    BY <2>1, <2>2, <2>3, <2>4 DEF CacheTypeOK
<1>3. ASSUME NEW it \in 0 .. Capacity, NEW i \in Slots, TakeNext(it, i)
      PROVE  CacheTypeOK'
  BY <1>3 DEF CacheTypeOK, Entry, TakeNext
<1>4. ASSUME NEW i \in Slots, erd_cache_mark_published(i)
      PROVE  CacheTypeOK'
  BY <1>4 DEF CacheTypeOK, Entry, erd_cache_mark_published
<1>5. ASSUME NEW i \in Slots, erd_cache_mark_unpublished(i)
      PROVE  CacheTypeOK'
  BY <1>5 DEF CacheTypeOK, Entry, erd_cache_mark_unpublished
<1>6. CASE erd_cache_mark_all_updated
  <2>2. entries' \in [Slots -> Entry]
    BY <1>6, RequeuedEntry DEF CacheTypeOK, erd_cache_mark_all_updated
  <2> QED
    BY <1>6, <2>2 DEF CacheTypeOK, erd_cache_mark_all_updated
<1>7. CASE erd_cache_tick_cooldowns
  BY <1>7 DEF CacheTypeOK, Entry, erd_cache_tick_cooldowns
<1>8. CASE erd_cache_reset
  BY <1>8 DEF CacheTypeOK, Entry, EmptyEntry, erd_cache_reset
<1>9. CASE UNCHANGED cacheVars
  BY <1>9 DEF CacheTypeOK, cacheVars
<1> QED
  BY <1>1, <1>2, <1>3, <1>4, <1>5, <1>6, <1>7, <1>8, <1>9
     DEF CacheNext, erd_cache_update

(* The cache always has the shape of erd_cache_t: every slot is a          *)
(* well-formed entry, cooldowns never exceed the throttle rate and the     *)
(* bump pointer stays inside the arena.                                    *)
THEOREM CacheTypeCorrect == CacheSpec => []CacheTypeOK
<1>1. CacheInit => CacheTypeOK
  BY CacheConstants DEF CacheInit, CacheTypeOK, Entry, EmptyEntry, Slots, ArenaIndex
<1>2. CacheTypeOK /\ [CacheNext]_cacheVars => CacheTypeOK'
  BY CacheStepType
<1> QED
  BY <1>1, <1>2, PTL DEF CacheSpec

-----------------------------------------------------------------------------
(* The fields that say which bytes a slot owns, and for whom.              *)
SameLayout == /\ \A i \in Slots : /\ entries'[i].key = entries[i].key
                                  /\ entries'[i].valid = entries[i].valid
                                  /\ entries'[i].data_offset = entries[i].data_offset
                                  /\ entries'[i].data_size = entries[i].data_size
              /\ arena_offset' = arena_offset

(* Only an insertion and a reset move slots or arena bytes around.         *)
LEMMA LayoutKept ==
    ASSUME CacheTypeOK,
           \/ \E k \in Key, d \in Payload : UpdateExisting(k, d)
           \/ \E it \in 0 .. Capacity, i \in Slots : TakeNext(it, i)
           \/ \E i \in Slots : erd_cache_mark_published(i)
           \/ \E i \in Slots : erd_cache_mark_unpublished(i)
           \/ erd_cache_mark_all_updated
           \/ erd_cache_tick_cooldowns
    PROVE  SameLayout
<1>1. ASSUME NEW k \in Key, NEW d \in Payload, UpdateExisting(k, d)
      PROVE  SameLayout
  BY <1>1 DEF UpdateExisting, SameLayout, CacheTypeOK, Entry
<1>2. ASSUME NEW it \in 0 .. Capacity, NEW i \in Slots, TakeNext(it, i)
      PROVE  SameLayout
  BY <1>2 DEF TakeNext, SameLayout, CacheTypeOK, Entry
<1>3. ASSUME NEW i \in Slots, erd_cache_mark_published(i)
      PROVE  SameLayout
  BY <1>3 DEF erd_cache_mark_published, SameLayout, CacheTypeOK, Entry
<1>4. ASSUME NEW i \in Slots, erd_cache_mark_unpublished(i)
      PROVE  SameLayout
  BY <1>4 DEF erd_cache_mark_unpublished, SameLayout, CacheTypeOK, Entry
<1>5. CASE erd_cache_mark_all_updated
  BY <1>5 DEF erd_cache_mark_all_updated, SameLayout, CacheTypeOK, Entry
<1>6. CASE erd_cache_tick_cooldowns
  BY <1>6 DEF erd_cache_tick_cooldowns, SameLayout, CacheTypeOK, Entry
<1> QED
  BY <1>1, <1>2, <1>3, <1>4, <1>5, <1>6

LEMMA LayoutInv ==
    ASSUME CacheInv, SameLayout
    PROVE  CacheInv'
BY DEF CacheInv, SameLayout, KeysUnique, SlicesInside, SlicesDisjoint

(* What an insertion does, slot by slot: slot i now holds k in the bytes   *)
(* the bump pointer passed over, the other slots are as they were.         *)
LEMMA InsertFields ==
    ASSUME CacheTypeOK, NEW k \in Key, NEW d \in Payload, InsertNew(k, d)
    PROVE  \E i \in Slots :
             /\ ~entries[i].valid
             /\ entries'[i].key = k /\ entries'[i].valid
             /\ entries'[i].update_required
             /\ entries'[i].data_offset = arena_offset
             /\ entries'[i].data_size = Len(d)
             /\ \A j \in Slots \ {i} : entries'[j] = entries[j]
             /\ arena' = Written(arena_offset, d)
             /\ arena_offset' = arena_offset + Len(d)
             /\ Len(d) <= MaxDataSize
             /\ arena_offset + Len(d) <= ArenaSize
BY DEF InsertNew, FirstFree, CacheTypeOK, Entry

LEMMA InsertInv ==
    ASSUME CacheTypeOK, CacheInv,
           NEW k \in Key, NEW d \in Payload, InsertNew(k, d)
    PROVE  CacheInv'
<1>1. PICK i \in Slots :
             /\ ~entries[i].valid
             /\ entries'[i].key = k /\ entries'[i].valid
             /\ entries'[i].data_offset = arena_offset
             /\ entries'[i].data_size = Len(d)
             /\ \A j \in Slots \ {i} : entries'[j] = entries[j]
             /\ arena_offset' = arena_offset + Len(d)
             /\ Len(d) <= MaxDataSize
  BY InsertFields
<1>2. Len(d) \in Nat /\ arena_offset \in Nat
  BY PayloadType, CacheConstants DEF CacheTypeOK
<1>3. \A j \in Slots : /\ entries[j].data_offset \in Nat
                       /\ entries[j].data_size \in Nat
  BY DEF CacheTypeOK, Entry
<1>4. \A j \in Slots : entries[j].valid => entries[j].key # k
  BY DEF InsertNew, Cached, Holds
<1>5. KeysUnique'
  BY <1>1, <1>4 DEF CacheInv, KeysUnique
<1>6. SlicesInside'
  BY <1>1, <1>2, <1>3 DEF CacheInv, SlicesInside
<1>7. SlicesDisjoint'
  <2> SUFFICES ASSUME NEW a \in Slots, NEW b \in Slots, a # b,
                      entries'[a].valid, entries'[b].valid
               PROVE  \/ entries'[a].data_offset + entries'[a].data_size <= entries'[b].data_offset
                      \/ entries'[b].data_offset + entries'[b].data_size <= entries'[a].data_offset
    BY DEF SlicesDisjoint
  <2>1. CASE a = i
    BY <1>1, <1>2, <1>3, <2>1 DEF CacheInv, SlicesInside
  <2>2. CASE b = i
    BY <1>1, <1>2, <1>3, <2>2 DEF CacheInv, SlicesInside
  <2>3. CASE a # i /\ b # i
    BY <1>1, <2>3 DEF CacheInv, SlicesDisjoint
  <2> QED
    BY <2>1, <2>2, <2>3
<1> QED
  BY <1>5, <1>6, <1>7 DEF CacheInv

(* One cache function keeps the invariant, whichever it is.                *)
LEMMA CacheStepInv ==
    ASSUME CacheTypeOK, CacheInv, [CacheNext]_cacheVars
    PROVE  CacheInv'
<1>1. ASSUME NEW k \in Key, NEW d \in Payload, InsertNew(k, d)
      PROVE  CacheInv'
  BY <1>1, InsertInv
<1>2. CASE erd_cache_reset
  BY <1>2 DEF erd_cache_reset, EmptyEntry, CacheInv, KeysUnique, SlicesInside, SlicesDisjoint
<1>3. CASE UNCHANGED cacheVars
  BY <1>3 DEF cacheVars, CacheInv, KeysUnique, SlicesInside, SlicesDisjoint
<1>4. CASE SameLayout
  BY <1>4, LayoutInv
<1> QED
  BY <1>1, <1>2, <1>3, <1>4, LayoutKept DEF CacheNext, erd_cache_update

(* For every capacity, arena size and sequence of calls: no ERD occupies   *)
(* two slots, every payload stays inside the used part of the arena, and   *)
(* no two payloads overlap.                                                *)
THEOREM CacheSafe == CacheSpec => []CacheInv
<1>1. CacheInit => CacheInv
  BY DEF CacheInit, EmptyEntry, CacheInv, KeysUnique, SlicesInside, SlicesDisjoint
<1>2. CacheTypeOK /\ CacheInv /\ [CacheNext]_cacheVars => CacheInv'
  BY CacheStepInv
<1> QED
  BY <1>1, <1>2, CacheTypeCorrect, PTL DEF CacheSpec

-----------------------------------------------------------------------------
(* The slot that erd_cache_find returns does not depend on the scan order. *)
LEMMA DataOfSlot ==
    ASSUME CacheInv, NEW i \in Slots, NEW k, Holds(i, k)
    PROVE  DataOf(k) = Slice(i)
<1>1. \A j \in Slots : Holds(j, k) => j = i
  BY DEF CacheInv, KeysUnique, Holds
<1> QED
  BY <1>1 DEF DataOf

(* The same fact about the state after a step.                             *)
LEMMA DataOfSlotNext ==
    ASSUME CacheInv', NEW i \in Slots, NEW k, Holds(i, k)'
    PROVE  DataOf(k)' = Slice(i)'
<1>1. \A j \in Slots : Holds(j, k)' => j = i
  BY DEF CacheInv, KeysUnique, Holds
<1> QED
  BY <1>1 DEF DataOf

(* A step that neither moves slots nor writes the arena changes no payload.*)
LEMMA StoreKept ==
    ASSUME CacheInv, CacheInv', SameLayout, arena' = arena
    PROVE  /\ CachedKeys' = CachedKeys
           /\ [k \in CachedKeys |-> DataOf(k)]' = [k \in CachedKeys |-> DataOf(k)]
<1>1. CachedKeys' = CachedKeys
  BY DEF CachedKeys, Cached, Holds, SameLayout
<1>2. ASSUME NEW k \in CachedKeys
      PROVE  DataOf(k)' = DataOf(k)
  <2>1. PICK i \in Slots : Holds(i, k)
    BY DEF CachedKeys, Cached
  <2>2. Holds(i, k)'
    BY <2>1 DEF Holds, SameLayout
  <2>3. Slice(i)' = Slice(i)
    BY DEF Slice, SameLayout
  <2> QED
    BY <2>1, <2>2, <2>3, DataOfSlot, DataOfSlotNext
<1> QED
  BY <1>1, <1>2

(* A payload written at offset o reads back as itself, and leaves alone a  *)
(* slice that does not meet the bytes it was written to.                   *)
LEMMA ReadBack ==
    ASSUME CacheTypeOK, NEW d \in Payload, NEW o \in Nat,
           o + Len(d) <= ArenaSize
    PROVE  [n \in 1 .. Len(d) |-> Written(o, d)[o + n - 1]] = d
<1>1. Len(d) \in Nat /\ d \in [1 .. Len(d) -> Byte] /\ ArenaSize \in Nat
  BY PayloadType, CacheConstants
<1>2. ASSUME NEW n \in 1 .. Len(d)
      PROVE  Written(o, d)[o + n - 1] = d[n]
  <2>1. /\ o + n - 1 \in ArenaIndex /\ o + n - 1 >= o /\ o + n - 1 < o + Len(d)
        /\ (o + n - 1) - o + 1 = n
    BY <1>1 DEF ArenaIndex
  <2> QED
    BY <2>1 DEF Written
<1> QED
  BY <1>1, <1>2

LEMMA Untouched ==
    ASSUME CacheTypeOK, NEW d \in Payload, NEW o \in Nat,
           NEW p \in Nat, NEW m \in Nat, p + m <= ArenaSize,
           o + Len(d) <= p \/ p + m <= o
    PROVE  \A n \in 1 .. m : Written(o, d)[p + n - 1] = arena[p + n - 1]
<1> SUFFICES ASSUME NEW n \in 1 .. m
             PROVE  Written(o, d)[p + n - 1] = arena[p + n - 1]
  OBVIOUS
<1>1. Len(d) \in Nat /\ ArenaSize \in Nat
  BY PayloadType, CacheConstants
<1>2. p + n - 1 \in ArenaIndex /\ ~(p + n - 1 >= o /\ p + n - 1 < o + Len(d))
  BY <1>1 DEF ArenaIndex
<1> QED
  BY <1>2 DEF Written

(* The payload of a slot in use ends before the arena does.                *)
LEMMA SliceBounds ==
    ASSUME CacheTypeOK, CacheInv, NEW j \in Slots, entries[j].valid
    PROVE  /\ entries[j].data_offset \in Nat /\ entries[j].data_size \in Nat
           /\ entries[j].data_offset + entries[j].data_size <= ArenaSize
           /\ entries[j].data_offset + entries[j].data_size <= arena_offset
<1>1. entries[j].data_offset \in Nat /\ entries[j].data_size \in Nat
  BY DEF CacheTypeOK, Entry
<1> QED
  BY <1>1, CacheConstants DEF CacheInv, SlicesInside, CacheTypeOK

(* A write to the slice of one ERD leaves every other slice alone.         *)
LEMMA OverwriteSlices ==
    ASSUME CacheTypeOK, CacheInv, SameLayout, NEW d \in Payload,
           NEW i \in Slots, NEW j \in Slots, i # j,
           entries[i].valid, entries[j].valid, Len(d) = entries[i].data_size,
           arena' = Written(entries[i].data_offset, d)
    PROVE  Slice(j)' = Slice(j)
<1> DEFINE o == entries[i].data_offset
           q == entries[j].data_offset
           m == entries[j].data_size
<1>1. o \in Nat /\ q \in Nat /\ m \in Nat /\ q + m <= ArenaSize
  BY SliceBounds
<1>2. o + Len(d) <= q \/ q + m <= o
  BY DEF CacheInv, SlicesDisjoint
<1>3. arena' = Written(o, d)
  OBVIOUS
<1>4. Slice(j)' = [n \in 1 .. m |-> arena'[q + n - 1]]
  BY DEF Slice, SameLayout
<1>5. Slice(j) = [n \in 1 .. m |-> arena[q + n - 1]]
  BY DEF Slice
<1> HIDE DEF o, q, m
<1>6. \A n \in 1 .. m : Written(o, d)[q + n - 1] = arena[q + n - 1]
  BY <1>1, <1>2, Untouched
<1> QED
  BY <1>3, <1>4, <1>5, <1>6

(* A write above the bump pointer leaves alone the slots it does not set.  *)
LEMMA InsertSlices ==
    ASSUME CacheTypeOK, CacheInv, NEW d \in Payload,
           NEW j \in Slots, entries[j].valid, entries'[j] = entries[j],
           arena' = Written(arena_offset, d)
    PROVE  Slice(j)' = Slice(j)
<1> DEFINE q == entries[j].data_offset
           m == entries[j].data_size
<1>1. /\ q \in Nat /\ m \in Nat /\ q + m <= ArenaSize
      /\ q + m <= arena_offset
  BY SliceBounds
<1>2. arena_offset \in Nat
  BY CacheConstants DEF CacheTypeOK
<1>3. Slice(j)' = [n \in 1 .. m |-> arena'[q + n - 1]]
  BY DEF Slice
<1>4. Slice(j) = [n \in 1 .. m |-> arena[q + n - 1]]
  BY DEF Slice
<1> HIDE DEF q, m
<1>5. \A n \in 1 .. m : Written(arena_offset, d)[q + n - 1] = arena[q + n - 1]
  BY <1>1, <1>2, Untouched
<1> QED
  BY <1>3, <1>4, <1>5

(* An accepted update of a cached ERD is an Overwrite of the store: the    *)
(* new bytes are its value, and every other ERD keeps its own.             *)
LEMMA UpdateIsOverwrite ==
    ASSUME CacheTypeOK, CacheInv, CacheInv',
           NEW k \in Key, NEW d \in Payload, UpdateExisting(k, d)
    PROVE  Store!Overwrite(k, d)
<1> USE CacheConstants
<1>1. PICK i \in Slots :
        /\ Holds(i, k)
        /\ Len(d) = entries[i].data_size
        /\ arena' = Written(entries[i].data_offset, d)
        /\ entries' = [entries EXCEPT ![i].update_required = TRUE]
        /\ UNCHANGED arena_offset
  BY DEF UpdateExisting
<1>2. SameLayout
  BY LayoutKept
<1>3. \A j \in Slots : entries[j].data_offset \in Nat /\ entries[j].data_size \in Nat
  BY DEF CacheTypeOK, Entry
<1>4. \A j \in Slots : entries[j].valid =>
          entries[j].data_offset + entries[j].data_size <= ArenaSize
  BY <1>3 DEF CacheInv, SlicesInside, CacheTypeOK
<1>5. CachedKeys' = CachedKeys /\ k \in CachedKeys
  BY <1>1, <1>2 DEF CachedKeys, Cached, Holds, SameLayout
<1>6. DataOf(k)' = d
  <2>1. Slice(i)' = [n \in 1 .. Len(d) |-> Written(entries[i].data_offset, d)[entries[i].data_offset + n - 1]]
    BY <1>1, <1>2 DEF Slice, SameLayout
  <2>2. Slice(i)' = d
    BY <2>1, <1>1, <1>3, <1>4, ReadBack DEF Holds
  <2>3. Holds(i, k)'
    BY <1>1, <1>2 DEF Holds, SameLayout
  <2> QED
    BY <2>2, <2>3, DataOfSlotNext
<1>7. ASSUME NEW m \in CachedKeys, m # k
      PROVE  DataOf(m)' = DataOf(m)
  <2>1. PICK j \in Slots : Holds(j, m)
    BY DEF CachedKeys, Cached
  <2>2. j # i
    BY <1>1, <1>7, <2>1 DEF Holds
  <2>3. Slice(j)' = Slice(j)
    BY <1>1, <1>2, <2>1, <2>2, OverwriteSlices DEF Holds
  <2>4. Holds(j, m)'
    BY <1>2, <2>1 DEF Holds, SameLayout
  <2> QED
    BY <2>1, <2>3, <2>4, DataOfSlot, DataOfSlotNext
<1>8. Len(DataOf(k)) = Len(d)
  <2>1. DataOf(k) = Slice(i)
    BY <1>1, DataOfSlot
  <2>2. Len(Slice(i)) = entries[i].data_size
    BY <1>3 DEF Slice
  <2> QED
    BY <1>1, <2>1, <2>2
<1>9. PendingKeys' = PendingKeys \cup {k}
  BY <1>1 DEF PendingKeys, Holds, CacheTypeOK, Entry
<1> QED
  BY <1>5, <1>6, <1>7, <1>8, <1>9 DEF Store!Overwrite

(* An insertion is an Admit of the store.                                  *)
LEMMA InsertIsAdmit ==
    ASSUME CacheTypeOK, CacheInv, CacheInv',
           NEW k \in Key, NEW d \in Payload, InsertNew(k, d)
    PROVE  Store!Admit(k, d)
<1> USE CacheConstants
<1>1. PICK i \in Slots :
        /\ ~entries[i].valid
        /\ entries'[i].key = k /\ entries'[i].valid
        /\ entries'[i].update_required
        /\ entries'[i].data_offset = arena_offset
        /\ entries'[i].data_size = Len(d)
        /\ \A j \in Slots \ {i} : entries'[j] = entries[j]
        /\ arena' = Written(arena_offset, d)
        /\ arena_offset + Len(d) <= ArenaSize
  BY InsertFields
<1>2. arena_offset \in Nat /\ Len(d) \in Nat
  BY PayloadType DEF CacheTypeOK
<1>3. k \notin CachedKeys
  BY DEF InsertNew, CachedKeys
<1>4. CachedKeys' = CachedKeys \cup {k}
  BY <1>1 DEF CachedKeys, Cached, Holds
<1>5. DataOf(k)' = d
  <2>1. Slice(i)' = [n \in 1 .. Len(d) |-> Written(arena_offset, d)[arena_offset + n - 1]]
    BY <1>1 DEF Slice
  <2>2. Slice(i)' = d
    BY <2>1, <1>1, <1>2, ReadBack
  <2> QED
    BY <1>1, <2>2, DataOfSlotNext DEF Holds
<1>6. ASSUME NEW m \in CachedKeys
      PROVE  DataOf(m)' = DataOf(m)
  <2>1. PICK j \in Slots : Holds(j, m)
    BY DEF CachedKeys, Cached
  <2>2. entries'[j] = entries[j]
    BY <1>1, <2>1 DEF Holds
  <2>3. Slice(j)' = Slice(j)
    BY <1>1, <2>1, <2>2, InsertSlices DEF Holds
  <2> QED
    BY <2>1, <2>2, <2>3, DataOfSlot, DataOfSlotNext DEF Holds
<1>7. PendingKeys' = PendingKeys \cup {k}
  BY <1>1 DEF PendingKeys, Holds
<1> QED
  BY <1>3, <1>4, <1>5, <1>6, <1>7 DEF Store!Admit

(* Every cache function is one operation of the store, or invisible to it. *)
LEMMA StepRefines ==
    ASSUME CacheTypeOK, CacheInv, CacheInv', [CacheNext]_cacheVars
    PROVE  [Store!Next]_(Store!vars)
<1> USE CacheConstants
<1>b. \A i, j \in Slots : entries[i].valid /\ entries[j].valid
                          /\ entries[i].key = entries[j].key => i = j
  BY DEF CacheInv, KeysUnique
<1>1. ASSUME NEW k \in Key, NEW d \in Payload, UpdateExisting(k, d)
      PROVE  Store!Next
  BY <1>1, UpdateIsOverwrite DEF Store!Next
<1>2. ASSUME NEW k \in Key, NEW d \in Payload, InsertNew(k, d)
      PROVE  Store!Next
  BY <1>2, InsertIsAdmit DEF Store!Next
<1>3. ASSUME NEW it \in 0 .. Capacity, NEW i \in Slots, TakeNext(it, i)
      PROVE  [Store!Next]_(Store!vars)
  <2>1. SameLayout /\ arena' = arena
    BY <1>3, LayoutKept DEF TakeNext
  <2>2. [k \in CachedKeys |-> DataOf(k)]' = [k \in CachedKeys |-> DataOf(k)]
    BY <2>1, StoreKept
  <2>3. entries[i].valid /\ entries[i].update_required
    BY <1>3 DEF TakeNext, Eligible
  <2>4. PendingKeys' = PendingKeys \ {entries[i].key}
    <3>1. /\ ~entries'[i].update_required
          /\ \A j \in Slots \ {i} : entries'[j] = entries[j]
      BY <1>3 DEF TakeNext, CacheTypeOK, Entry
    <3> QED
      BY <1>b, <2>1, <2>3, <3>1 DEF PendingKeys, Holds, SameLayout
  <2>5. CASE entries[i].key \in Key
    <3>1. entries[i].key \in PendingKeys
      BY <2>3, <2>5 DEF PendingKeys, Holds
    <3>2. Store!Take(entries[i].key)
      BY <2>2, <2>4, <3>1 DEF Store!Take
    <3> QED
      BY <2>5, <3>2 DEF Store!Next
  <2>6. CASE entries[i].key \notin Key
    <3>1. PendingKeys' = PendingKeys
      BY <2>4, <2>6 DEF PendingKeys
    <3> QED
      BY <2>2, <3>1 DEF Store!vars
  <2> QED
    BY <2>5, <2>6
<1>4. ASSUME NEW i \in Slots, erd_cache_mark_published(i)
      PROVE  UNCHANGED Store!vars
  <2>1. SameLayout /\ arena' = arena
    BY <1>4, LayoutKept DEF erd_cache_mark_published
  <2>2. \A j \in Slots : entries'[j].update_required = entries[j].update_required
    BY <1>4 DEF erd_cache_mark_published, CacheTypeOK, Entry
  <2>3. PendingKeys' = PendingKeys
    BY <2>1, <2>2 DEF PendingKeys, Holds, SameLayout
  <2> QED
    BY <2>1, <2>3, StoreKept DEF Store!vars
<1>5. ASSUME NEW i \in Slots, entries[i].valid, erd_cache_mark_unpublished(i)
      PROVE  [Store!Next]_(Store!vars)
  <2> DEFINE S == {entries[i].key} \cap Key
  <2>1. SameLayout /\ arena' = arena
    BY <1>5, LayoutKept DEF erd_cache_mark_unpublished
  <2>2. /\ entries'[i].update_required
        /\ \A j \in Slots \ {i} : entries'[j] = entries[j]
    BY <1>5 DEF erd_cache_mark_unpublished, CacheTypeOK, Entry
  <2>3. PendingKeys' = PendingKeys \cup S
    BY <1>5, <2>1, <2>2 DEF PendingKeys, Holds, SameLayout
  <2>4. S \subseteq CachedKeys
    BY <1>5 DEF CachedKeys, Cached, Holds
  <2>5. S \in SUBSET Key /\ Store!Requeue(S)
    BY <2>1, <2>3, <2>4, StoreKept DEF Store!Requeue
  <2> QED
    BY <2>5 DEF Store!Next
<1>6. CASE erd_cache_mark_all_updated
  <2>1. SameLayout /\ arena' = arena
    BY <1>6, LayoutKept DEF erd_cache_mark_all_updated
  <2>2. \A j \in Slots : entries[j].valid => entries'[j].update_required
    BY <1>6 DEF erd_cache_mark_all_updated, CacheTypeOK, Entry
  <2>3. PendingKeys' = PendingKeys \cup CachedKeys
    BY <2>1, <2>2 DEF PendingKeys, CachedKeys, Cached, Holds, SameLayout
  <2>4. CachedKeys \in SUBSET Key /\ Store!Requeue(CachedKeys)
    BY <2>1, <2>3, StoreKept DEF Store!Requeue, CachedKeys
  <2> QED
    BY <2>4 DEF Store!Next
<1>7. CASE erd_cache_tick_cooldowns
  <2>1. SameLayout /\ arena' = arena
    BY <1>7, LayoutKept DEF erd_cache_tick_cooldowns
  <2>2. \A j \in Slots : entries'[j].update_required = entries[j].update_required
    BY <1>7 DEF erd_cache_tick_cooldowns, CacheTypeOK, Entry
  <2>3. PendingKeys' = PendingKeys
    BY <2>1, <2>2 DEF PendingKeys, Holds, SameLayout
  <2> QED
    BY <2>1, <2>3, StoreKept DEF Store!vars
<1>8. CASE erd_cache_reset
  <2>1. \A i \in Slots : ~entries'[i].valid
    BY <1>8 DEF erd_cache_reset, EmptyEntry
  <2>2. CachedKeys' = {} /\ PendingKeys' = {}
    BY <2>1 DEF CachedKeys, Cached, PendingKeys, Holds
  <2>3. Store!Clear
    BY <2>2 DEF Store!Clear
  <2> QED
    BY <2>3 DEF Store!Next
<1>9. CASE UNCHANGED cacheVars
  <2>1. SameLayout /\ arena' = arena /\ entries' = entries
    BY <1>9 DEF cacheVars, SameLayout
  <2>2. PendingKeys' = PendingKeys
    BY <2>1 DEF PendingKeys, Holds
  <2> QED
    BY <2>1, <2>2, StoreKept DEF Store!vars
<1> QED
  BY <1>1, <1>2, <1>3, <1>4, <1>5, <1>6, <1>7, <1>8, <1>9
     DEF CacheNext, erd_cache_update

(* For every capacity, arena size and payload: the slot array with its     *)
(* byte arena behaves as the map of ErdStore.                              *)
THEOREM CacheImplementsStore == CacheSpec => ImplementsStore
<1>1. CacheInit => Store!Init
  <2> SUFFICES ASSUME CacheInit PROVE Store!Init
    OBVIOUS
  <2>1. \A i \in Slots : ~entries[i].valid
    BY DEF CacheInit, EmptyEntry
  <2>2. CachedKeys = {} /\ PendingKeys = {}
    BY <2>1 DEF CachedKeys, Cached, PendingKeys, Holds
  <2> QED
    BY <2>2 DEF Store!Init
<1>2. CacheTypeOK /\ CacheInv /\ CacheInv' /\ [CacheNext]_cacheVars
         => [Store!Next]_(Store!vars)
  BY StepRefines
<1> QED
  BY <1>1, <1>2, CacheTypeCorrect, CacheSafe, PTL
     DEF CacheSpec, ImplementsStore, Store!Spec
=============================================================================

------------------------------ MODULE ErdCache ------------------------------
(***************************************************************************)
(* The ERD cache of erd_cache.cpp: a fixed array of slots, and one byte    *)
(* arena from which a new ERD carves its payload with a bump pointer.      *)
(* Every function of the cache runs under the cache lock, so each one is a *)
(* single action.  The statistics counters are left out: nothing in the    *)
(* cache or in its callers branches on them.                               *)
(***************************************************************************)
EXTENDS Naturals, Sequences

CONSTANTS Key,          \* (erd, board_address) pairs
          NoKey,        \* the zeroed erd/board_address of an unused slot
          Byte,         \* byte values
          ZeroByte,     \* what memset leaves in the arena
          Capacity,     \* ERD_CACHE_CAPACITY
          ArenaSize,    \* ERD_CACHE_ARENA_SIZE
          MaxDataSize,  \* ERD_CACHE_MAX_DATA_SIZE
          MaxInputSize, \* longest payload a caller can pass (a uint8_t)
          MaxCooldown   \* max_cooldown: throttle_rate_seconds, 0 = disabled

ASSUME CacheConstants ==
    /\ NoKey \notin Key
    /\ ZeroByte \in Byte
    /\ Capacity \in Nat /\ ArenaSize \in Nat
    /\ MaxDataSize \in Nat /\ MaxInputSize \in Nat /\ MaxCooldown \in Nat

VARIABLES entries,      \* the slots
          arena,        \* the payload bytes of all slots
          arena_offset  \* next free byte

cacheVars == <<entries, arena, arena_offset>>

Slots == 0 .. Capacity - 1
ArenaIndex == 0 .. ArenaSize - 1

\* What a reader of the appliance bus can hand to erd_cache_update.
Payload == UNION {[1 .. n -> Byte] : n \in 0 .. MaxInputSize}

Entry == [key : Key \cup {NoKey}, data_offset : Nat, data_size : Nat,
          update_required : BOOLEAN, publish_cooldown : 0 .. MaxCooldown,
          valid : BOOLEAN]

CacheTypeOK == /\ entries \in [Slots -> Entry]
               /\ arena \in [ArenaIndex -> Byte]
               /\ arena_offset \in 0 .. ArenaSize

-----------------------------------------------------------------------------
EmptyEntry(size) == [key |-> NoKey, data_offset |-> 0, data_size |-> size,
                     update_required |-> FALSE, publish_cooldown |-> 0,
                     valid |-> FALSE]

CacheInit == /\ entries = [i \in Slots |-> EmptyEntry(0)]
             /\ arena = [a \in ArenaIndex |-> ZeroByte]
             /\ arena_offset = 0

\* erd_cache_find: slot i is the one that holds key k.
Holds(i, k) == entries[i].valid /\ entries[i].key = k

\* Mutant: the search starts at the second slot.
CachedFromSecond(k) == \E i \in Slots : i > 0 /\ Holds(i, k)

Cached(k) == \E i \in Slots : Holds(i, k)

\* The bytes of slot i as a sequence (memcpy out of the arena).
Slice(i) == [n \in 1 .. entries[i].data_size |-> arena[entries[i].data_offset + n - 1]]

\* memcpy of payload d to arena offset o.
Written(o, d) == [a \in ArenaIndex |->
                     IF a >= o /\ a < o + Len(d) THEN d[a - o + 1] ELSE arena[a]]

\* The scan for a slot that is not in use stops at the first one.
FirstFree(i) == /\ ~entries[i].valid
                /\ \A j \in Slots : j < i => entries[j].valid

\* Mutant: the size of the payload is not compared.
UpdateAnySize(k, d) ==
    \E i \in Slots :
        /\ Len(d) <= MaxDataSize
        /\ Holds(i, k)
        /\ d # Slice(i)
        /\ entries[i].data_offset + Len(d) <= ArenaSize
        /\ arena' = Written(entries[i].data_offset, d)
        /\ entries' = [entries EXCEPT ![i].update_required = TRUE]
        /\ UNCHANGED arena_offset

\* Mutant: the new value is stored but not marked.
UpdateUnmarked(k, d) ==
    \E i \in Slots :
        /\ Holds(i, k)
        /\ Len(d) = entries[i].data_size
        /\ arena' = Written(entries[i].data_offset, d)
        /\ UNCHANGED <<entries, arena_offset>>

\* The existing-entry branch: a payload of another size or with the same
\* bytes is refused and changes nothing.
UpdateExisting(k, d) ==
    \E i \in Slots :
        /\ Len(d) <= MaxDataSize
        /\ Holds(i, k)
        /\ Len(d) = entries[i].data_size
        /\ d # Slice(i)
        /\ arena' = Written(entries[i].data_offset, d)
        /\ entries' = [entries EXCEPT ![i].update_required = TRUE]
        /\ UNCHANGED arena_offset

\* The new-entry branch: refused when no slot or not enough arena is left.
InsertNew(k, d) ==
    \E i \in Slots :
        /\ Len(d) <= MaxDataSize
        /\ ~Cached(k)
        /\ FirstFree(i)
        /\ arena_offset + Len(d) <= ArenaSize
        /\ arena' = Written(arena_offset, d)
        /\ entries' = [entries EXCEPT ![i] =
                          [@ EXCEPT !.key = k, !.data_offset = arena_offset,
                                    !.data_size = Len(d), !.valid = TRUE,
                                    !.update_required = TRUE]]
        /\ arena_offset' = arena_offset + Len(d)

erd_cache_update(k, d) == UpdateExisting(k, d) \/ InsertNew(k, d)

\* Mutant: the cooldown is not looked at.
EligibleWhenChanged(i) == entries[i].valid /\ entries[i].update_required

\* A slot the publisher may take now: changed, and not rate limited.
Eligible(i) == /\ entries[i].valid
               /\ entries[i].update_required
               /\ ~(MaxCooldown > 0 /\ entries[i].publish_cooldown > 0)

\* erd_cache_snapshot_next_updated with *iterator = it: either slot i is the
\* first eligible one from it on, and its flag is cleared ...
TakeNext(it, i) == /\ i \in Slots
                   /\ i >= it
                   /\ Eligible(i)
                   /\ \A j \in Slots : it <= j /\ j < i => ~Eligible(j)
                   /\ entries' = [entries EXCEPT ![i].update_required = FALSE]
                   /\ UNCHANGED <<arena, arena_offset>>

\* ... or the scan runs off the end of the array.
NothingFrom(it) == \A j \in Slots : it <= j => ~Eligible(j)

erd_cache_mark_all_updated ==
    /\ entries' = [i \in Slots |->
                      IF entries[i].valid
                      THEN [entries[i] EXCEPT !.update_required = TRUE,
                                              !.publish_cooldown = 0]
                      ELSE entries[i]]
    /\ UNCHANGED <<arena, arena_offset>>

\* A MaxCooldown of 0 leaves the (zero) cooldown alone.
erd_cache_mark_published(i) ==
    /\ entries' = [entries EXCEPT ![i].publish_cooldown =
                       IF MaxCooldown > 0 THEN MaxCooldown ELSE @]
    /\ UNCHANGED <<arena, arena_offset>>

\* Mutant: a refused publish is forgotten.
ForgetRefused(i) == i \in Slots /\ UNCHANGED cacheVars

erd_cache_mark_unpublished(i) ==
    /\ entries' = [entries EXCEPT ![i].update_required = TRUE]
    /\ UNCHANGED <<arena, arena_offset>>

\* Mutant: a cooldown of 0 is counted down as well.
TickBelowZero ==
    /\ entries' = [i \in Slots |-> IF entries[i].valid /\ entries[i].update_required
                                   THEN [entries[i] EXCEPT !.publish_cooldown = @ - 1]
                                   ELSE entries[i]]
    /\ UNCHANGED <<arena, arena_offset>>

\* Once a second; only entries that wait to be published count down.
erd_cache_tick_cooldowns ==
    /\ MaxCooldown > 0
    /\ entries' = [i \in Slots |->
                      IF entries[i].valid /\ entries[i].update_required
                                          /\ entries[i].publish_cooldown > 0
                      THEN [entries[i] EXCEPT !.publish_cooldown = @ - 1]
                      ELSE entries[i]]
    /\ UNCHANGED <<arena, arena_offset>>

\* erd_cache_init after erd_cache_destroy: everything but data_size is zeroed.
erd_cache_reset ==
    /\ entries' = [i \in Slots |-> EmptyEntry(entries[i].data_size)]
    /\ arena' = [a \in ArenaIndex |-> ZeroByte]
    /\ arena_offset' = 0

-----------------------------------------------------------------------------
(* Any caller, in any order: the publisher's iterator is any value, and    *)
(* the entry it reports on is any slot in use.                             *)

CacheNext ==
    \/ \E k \in Key, d \in Payload : erd_cache_update(k, d)
    \/ \E it \in 0 .. Capacity, i \in Slots : TakeNext(it, i)
    \/ \E i \in Slots : entries[i].valid /\ erd_cache_mark_published(i)
    \/ \E i \in Slots : entries[i].valid /\ erd_cache_mark_unpublished(i)
    \/ erd_cache_mark_all_updated
    \/ erd_cache_tick_cooldowns
    \/ erd_cache_reset

CacheSpec == CacheInit /\ [][CacheNext]_cacheVars

-----------------------------------------------------------------------------
(* No ERD is cached twice: a duplicate would be updated and published      *)
(* through whichever slot the scan meets first.                            *)
KeysUnique == \A i, j \in Slots :
                 /\ entries[i].valid /\ entries[j].valid
                 /\ entries[i].key = entries[j].key
                 => i = j

(* Every payload lies below the bump pointer, which lies inside the arena: *)
(* no memcpy of the cache reads or writes outside its array.               *)
SlicesInside == \A i \in Slots : entries[i].valid =>
                   /\ entries[i].data_offset + entries[i].data_size <= arena_offset
                   /\ entries[i].data_size <= MaxDataSize

(* No two ERDs share an arena byte, so an update of one cannot change the  *)
(* value another one publishes.                                            *)
SlicesDisjoint == \A i, j \in Slots :
    entries[i].valid /\ entries[j].valid /\ i # j =>
        \/ entries[i].data_offset + entries[i].data_size <= entries[j].data_offset
        \/ entries[j].data_offset + entries[j].data_size <= entries[i].data_offset

CacheInv == KeysUnique /\ SlicesInside /\ SlicesDisjoint

-----------------------------------------------------------------------------
(* The abstract store this cache implements.                               *)
CachedKeys == {k \in Key : Cached(k)}
DataOf(k) == Slice(CHOOSE i \in Slots : Holds(i, k))
PendingKeys == {k \in Key : \E i \in Slots : Holds(i, k) /\ entries[i].update_required}

Store == INSTANCE ErdStore WITH store <- [k \in CachedKeys |-> DataOf(k)],
                                pending <- PendingKeys

(* The slot array and the arena implement the map of ErdStore: no update   *)
(* is mixed into another ERD's value, none is forgotten, nothing is        *)
(* evicted and no ERD changes size.                                        *)
ImplementsStore == Store!Spec
=============================================================================

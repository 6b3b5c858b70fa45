----------------------------- MODULE AssetStore -----------------------------
(***************************************************************************)
(* The store in memory that keeps assets (src/src/assetstore.c): which     *)
(* parts of an asset have been written, when that makes it complete, and   *)
(* which assets the cache drops.  Every operation holds the store's lock,  *)
(* so each one is a single step.                                           *)
(*                                                                         *)
(* A range records a write of `length` bytes at `offset` as                *)
(* offset .. offset + length, one more than was written.                   *)
(***************************************************************************)
EXTENDS Integers, Sequences, FiniteSetsExt

CONSTANTS
  Asset,
  Size,      \* the bytes of each asset
  Pieces,    \* the <<offset, length>> that are written of each asset
  MaxCount,  \* kCacheMaxCount
  MaxBytes,  \* kCacheMaxBytes
  MinAge,    \* kCacheMinAge
  MaxAge,    \* kCacheMaxAge
  Interval,  \* kCacheCheckInterval
  Word,      \* the values of a size_t
  NoEntry,   \* the store does not have the asset
  Static,    \* the "lru" of an asset that is never dropped
  MaxTime    \* BOUND: the time the clock stops at

\* Both ends belong to a range.
RangeType == [first : Nat, last : Nat]

\* What the store knows of an asset.
EntryType == [complete : BOOLEAN, ranges : Seq(RangeType), lru : Nat \cup {Static}]

ASSUME StoreAssumption ==
  /\ Size \in [Asset -> Nat \ {0}]
  /\ \A a \in Asset : \A p \in Pieces[a] :
       p[1] \in Nat /\ p[2] \in Nat \ {0} /\ p[1] + p[2] <= Size[a]
  /\ {MinAge, MaxAge, Interval, MaxCount, MaxBytes} \subseteq Nat
  /\ MinAge < MaxAge
  /\ NoEntry \notin EntryType
  /\ Static \notin Nat

VARIABLES
  entries,   \* store->state
  written,   \* HISTORY: the bytes written into the memory of each entry
  nextPrune, \* store->next_state_prune
  now        \* get_ts_monod()

vars == <<entries, written, nextPrune, now>>

RangeOf(first, last) == [first |-> first, last |-> last]

Lesser(x, y) == IF x < y THEN x ELSE y

\* MUTANT: the second argument is ignored
GreaterFirst(x, y) == x
Greater(x, y) == IF x > y THEN x ELSE y

\* The bytes a write copies.
\* MUTANT: one byte too many
BytesInclusive(p) == p[1] .. p[1] + p[2]
Bytes(p) == p[1] .. p[1] + p[2] - 1

SizeOf(S) == MapThenSumSet(LAMBDA a : Size[a], S)

Stored == {a \in Asset : entries[a] # NoEntry}

Init ==
  /\ entries   = [a \in Asset |-> NoEntry]
  /\ written   = [a \in Asset |-> {}]
  /\ nextPrune = 0
  /\ now       = 1

-----------------------------------------------------------------------------
(* Writing. *)

Touches(range, start, end) ==
  end >= range.first - 1 /\ start <= range.last + 1

\* The binary search ends behind the last range that starts at or before the
\* new one.  Ranges on its right are merged while they touch, which may widen
\* the new range; on its left there can be one.
MergeRange(ranges, start, end) ==
  LET index == Cardinality({j \in DOMAIN ranges : ranges[j].first <= start})
      \* the end after the first n ranges on the right were merged
      Widened(n) == IF n = 0 THEN end
                             ELSE Greater(end, ranges[index + n].last)
      right == CHOOSE n \in 0 .. Len(ranges) - index :
                 /\ \A k \in 1 .. n :
                      Touches(ranges[index + k], start, Widened(k - 1))
                 /\ n < Len(ranges) - index =>
                      ~Touches(ranges[index + n + 1], start, Widened(n))
      left == IF index > 0 /\ start <= ranges[index].last + 1 THEN 1 ELSE 0
      new  == IF left = 0
                THEN RangeOf(start, Widened(right))
                ELSE RangeOf(Lesser(start, ranges[index].first),
                             Greater(Widened(right), ranges[index].last))
  IN SubSeq(ranges, 1, index - left) \o <<new>>
       \o SubSeq(ranges, index + right + 1, Len(ranges))

\* MUTANT: the last recorded position need not be the end of the asset
IsCompleteFirstRange(ranges, total) == ranges # <<>> /\ ranges[1].first = 0
\* MUTANT: the last byte, not the position after it
IsCompleteLastByte(ranges, total) == ranges = <<RangeOf(0, total - 1)>>

IsComplete(ranges, total) == ranges = <<RangeOf(0, total)>>

FreshEntry == [complete |-> FALSE, ranges |-> <<>>, lru |-> now]

\* _merge_range and _update_asset_state.  A complete entry has no ranges any
\* more, and both leave it alone.
WithPiece(entry, p, total) ==
  IF entry.complete THEN entry
  ELSE LET ranges == MergeRange(entry.ranges, p[1], p[1] + p[2]) IN
       IF IsComplete(ranges, total)
         THEN [entry EXCEPT !.complete = TRUE, !.ranges = <<>>]
         ELSE [entry EXCEPT !.ranges = ranges]

Tagged(entry) ==
  IF entry.lru = Static THEN entry ELSE [entry EXCEPT !.lru = now]

-----------------------------------------------------------------------------
(* Pruning, the last step of every read and write. *)

OlderThan(store, age) ==
  {a \in Asset : /\ store[a] # NoEntry
                 /\ store[a].lru # Static
                 /\ store[a].lru < now - age}

\* Assets that are not in use, and can be dropped when there is too much.
Candidates(store) == OlderThan(store, MinAge) \ OlderThan(store, MaxAge)

\* qsort with _lru_compare_age; it may order equal ages either way.
GoesFirst(store, a, b) == store[a].lru <= store[b].lru

\* Drops the oldest.
DropsForCount(store, count, dropped) ==
  /\ dropped \subseteq Candidates(store)
  /\ Cardinality(dropped) =
       Lesser(count - MaxCount, Cardinality(Candidates(store)))
  /\ \A a \in dropped, b \in Candidates(store) \ dropped :
       GoesFirst(store, a, b)

\* Drops the largest, until the size_t bytes_to_free is below MaxBytes: it
\* stops too early when less than MaxBytes was to be freed, and not before
\* the last candidate when the subtraction wraps around.
DropsForBytes(store, bytes, dropped) ==
  LET largest(S) == \A a \in S, b \in Candidates(store) \ S : Size[a] >= Size[b]
      enough(S)  == (bytes - MaxBytes - SizeOf(S)) % Word < MaxBytes
  IN /\ dropped \subseteq Candidates(store)
     /\ largest(dropped)
     /\ dropped # {} \/ Candidates(store) = {}
     /\ enough(dropped) \/ dropped = Candidates(store)
     /\ \A S \in SUBSET dropped : S \notin {{}, dropped} /\ largest(S) => ~enough(S)

\* _lru_prune.  cache_count and cache_size are never counted, so that only the
\* interval triggers it, and what has become too old is dropped but still
\* counts.
Dropped(store, dropped) ==
  LET all   == {a \in Asset : store[a] # NoEntry}
      count == Cardinality(all)
      bytes == SizeOf(all)
      old   == OlderThan(store, MaxAge)
  IN old \subseteq dropped
     /\ IF bytes > MaxBytes       THEN DropsForBytes(store, bytes, dropped \ old)
        ELSE IF count > MaxCount  THEN DropsForCount(store, count, dropped \ old)
                                  ELSE dropped = old

\* What an operation that leaves `store` and `bytes` does at its end.
PruneAfter(store, bytes) ==
  IF nextPrune < now
    THEN \E dropped \in SUBSET Asset :
           /\ Dropped(store, dropped)
           /\ entries' = [a \in Asset |-> IF a \in dropped THEN NoEntry
                                                           ELSE store[a]]
           /\ written' = [a \in Asset |-> IF a \in dropped THEN {} ELSE bytes[a]]
           /\ nextPrune' = now + Interval
    ELSE /\ entries' = store
         /\ written' = bytes
         /\ UNCHANGED nextPrune

-----------------------------------------------------------------------------
(* The operations that change the store, and the clock. *)

\* MUTANT: a write does not mark the asset as used
WriteUntagged(a, p) ==
  LET entry == IF entries[a] = NoEntry THEN FreshEntry ELSE entries[a] IN
  /\ PruneAfter([entries EXCEPT ![a] = WithPiece(entry, p, Size[a])],
                [written EXCEPT ![a] = @ \cup Bytes(p)])
  /\ UNCHANGED now

\* _memstorestore_write
Write(a, p) ==
  LET entry == IF entries[a] = NoEntry THEN FreshEntry ELSE entries[a] IN
  /\ PruneAfter([entries EXCEPT ![a] = Tagged(WithPiece(entry, p, Size[a]))],
                [written EXCEPT ![a] = @ \cup Bytes(p)])
  /\ UNCHANGED now

\* _memstore_read
Read(a) ==
  /\ a \in Stored
  /\ PruneAfter([entries EXCEPT ![a] = Tagged(@)], written)
  /\ UNCHANGED now

\* asset_memstore_register_asset_nocopy, with the id generated from the data
Register(a) ==
  /\ entries' = [entries EXCEPT ![a] = [complete |-> TRUE, ranges |-> <<>>,
                                        lru |-> Static]]
  /\ written' = [written EXCEPT ![a] = 0 .. Size[a] - 1]
  /\ UNCHANGED <<nextPrune, now>>

Tick ==
  /\ now < MaxTime
  /\ now' = now + 1
  /\ UNCHANGED <<entries, written, nextPrune>>

Next ==
  \/ \E a \in Asset : \/ \E p \in Pieces[a] : Write(a, p)
                      \/ Read(a)
                      \/ Register(a)
  \/ Tick

Spec == Init /\ [][Next]_vars

-----------------------------------------------------------------------------
(* Properties. *)

\* Every variable keeps its type.
TypeOK ==
  /\ entries \in [Asset -> {NoEntry} \cup EntryType]
  /\ written \in [Asset -> SUBSET Nat]
  /\ \A a \in Asset : written[a] \subseteq 0 .. Size[a] - 1
  /\ nextPrune \in Nat
  /\ now \in Nat

\* Ranges are not empty, in order, and do not touch each other.
Apart(ranges) ==
  \A i \in DOMAIN ranges :
    /\ ranges[i].first < ranges[i].last
    /\ i > 1 => ranges[i - 1].last + 1 < ranges[i].first

\* The positions that ranges record.
Covered(ranges) ==
  UNION {ranges[i].first .. ranges[i].last : i \in DOMAIN ranges}

WithNext(bytes) == bytes \cup {b + 1 : b \in bytes}

\* Whatever the order, overlap or repetition of the writes, the ranges stay
\* sorted and apart (_merge_range searches them by their starts and looks for at
\* most one range on the left), and together they record exactly the bytes
\* written and the position behind each of them.
RangesExact ==
  \A a \in Stored : ~entries[a].complete =>
    /\ Apart(entries[a].ranges)
    /\ Covered(entries[a].ranges) = WithNext(written[a])

\* "out_complete: will be set to 1 if all of the asset's bytes are stored":
\* an asset that is complete has no byte that was never written.
CompleteIsWritten ==
  \A a \in Stored : entries[a].complete => written[a] = 0 .. Size[a] - 1

\* An asset of which everything was written is complete, whatever the order,
\* overlap or repetition of the writes.
WrittenIsComplete ==
  \A a \in Stored : written[a] = 0 .. Size[a] - 1 => entries[a].complete

\* The two together: complete means that everything was written.
CompleteExactly == CompleteIsWritten /\ WrittenIsComplete

InUse(a) ==
  a \in Stored /\ (entries[a].lru = Static \/ entries[a].lru >= now - MinAge)

\* Nothing that is registered for good, or was read or written in the last
\* MinAge seconds, is dropped ("assets that are currently being sent or
\* received"), and what is read or written is still there afterwards.
InUseKept ==
  [][\A a \in Asset :
       InUse(a) \/ Read(a) \/ (\E p \in Pieces[a] : Write(a, p))
         => a \in Stored']_vars
=============================================================================

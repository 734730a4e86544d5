------------------------------ MODULE ReadCache ------------------------------
(***************************************************************************)
(* The read cache of a file handle (buffering/readCache.h): at most two    *)
(* blocks, the one being read and one fetched ahead.  read() holds m_mutex *)
(* but for the wait for its block, so it is one step; clear() only marks   *)
(* the cache, and the next read() empties it.                              *)
(*                                                                         *)
(* A fetch is the wrapped handle's asynchronous read: it looks at the file *)
(* at some time, and answers later or fails.  Its block keeps it alive for *)
(* those who wait, also after it was dropped from the cache.               *)
(***************************************************************************)
EXTENDS Naturals, Sequences

CONSTANTS
    readBufferMinSize,  \* as in BufferLimits
    readBufferMaxSize

ASSUME ReadCacheAssumption == {readBufferMinSize, readBufferMaxSize} \subseteq Nat

VARIABLES
    m_cache,        \* fetches in the cache, oldest first
    m_clear,
    m_blockSize,    \* bytes to fetch ahead
    fetches         \* all fetches: offset, size, state and data

cacheVars == <<m_cache, m_clear, m_blockSize, fetches>>

ReadCacheInit ==
    /\ m_cache = <<>>
    /\ m_clear = FALSE
    /\ m_blockSize = 0
    /\ fetches = <<>>

Fetch(offset, size) == [offset |-> offset, size |-> size, state |-> "asked", data |-> <<>>]

EndOf(fetch) == fetch.offset + fetch.size

\* isCurrentRead(), of a fetch at the front of the cache.
Covers(fetch, offset) == fetch.offset <= offset /\ offset < EndOf(fetch)

isSequential(cache, offset) ==
    CASE cache = <<>> -> FALSE
      [] Len(cache) = 1 -> offset = EndOf(fetches[cache[1]])
      [] OTHER -> Covers(fetches[cache[Len(cache)]], offset)

\* increaseBlockSize(), whatever latency was measured, or resetBlockSize().
BlockSizes(cache, offset) ==
    CASE ~isSequential(cache, offset) -> {0}
      [] m_blockSize < readBufferMaxSize -> {m_blockSize} \cup readBufferMinSize..readBufferMaxSize
      [] OTHER -> {m_blockSize}

\* The cache after the deferred clear and after clearStaleEntries(), which
\* drops any number of blocks that were fetched long enough ago.
Refreshed ==
    LET cache == IF m_clear THEN <<>> ELSE m_cache IN
    {SubSeq(cache, n + 1, Len(cache)) :
        n \in {k \in 0..Len(cache) : \A i \in 1..k : fetches[cache[i]].state = "done"}}

\* The cache without the blocks before the first one that covers the offset.
DroppedUpTo(cache, offset) ==
    LET covering == {i \in 1..Len(cache) : Covers(fetches[cache[i]], offset)} IN
    IF covering = {} THEN <<>>
    ELSE SubSeq(cache, CHOOSE i \in covering : \A j \in covering : i <= j, Len(cache))

\* prefetchIfNeeded(): the fetch ahead, if any, behind the last block.
Prefetch(last, blocks, offset, continuousSize, blockSize) ==
    LET next == EndOf(last)
        from == IF next < offset THEN offset ELSE next
        to == IF next + blockSize < offset + continuousSize THEN next + blockSize ELSE offset + continuousSize IN
    IF blocks < 2 /\ from < to THEN <<Fetch(next, to - from)>> ELSE <<>>

\* read(), but for the wait: the block to wait for is the front of the cache.
CacheRead(offset, size, continuousSize) ==
    \E cache \in Refreshed :
        /\ m_clear' = FALSE
        /\ IF cache # <<>> /\ Covers(fetches[cache[1]], offset)
           THEN /\ m_cache' = cache
                /\ UNCHANGED <<m_blockSize, fetches>>
           ELSE \E blockSize \in BlockSizes(cache, offset) :
                LET kept == DroppedUpTo(cache, offset)
                    asked == IF kept = <<>> THEN <<Fetch(offset, size)>> ELSE <<>>
                    known == fetches \o asked
                    blocks == IF kept = <<>> THEN <<Len(known)>> ELSE kept
                    ahead == Prefetch(known[blocks[Len(blocks)]], Len(blocks), offset, continuousSize, blockSize) IN
                /\ m_blockSize' = blockSize
                /\ fetches' = known \o ahead
                /\ m_cache' = IF ahead = <<>> THEN blocks ELSE Append(blocks, Len(known) + 1)

\* clear()
Clear == m_clear' = TRUE

\* The storage is read: what there is of the block in the file.
FetchReads(f, file, fileSize) ==
    /\ fetches[f].state = "asked"
    /\ fetches' = [fetches EXCEPT ![f].state = "read",
                      ![f].data = [i \in 1..(IF fileSize < EndOf(fetches[f]) THEN fileSize - fetches[f].offset
                                                                             ELSE fetches[f].size)
                                   |-> file[fetches[f].offset + i - 1]]]
    /\ UNCHANGED <<m_cache, m_clear, m_blockSize>>

FetchCompletes(f) ==
    /\ fetches[f].state = "read"
    /\ fetches' = [fetches EXCEPT ![f].state = "done", ![f].size = Len(fetches[f].data)]
    /\ UNCHANGED <<m_cache, m_clear, m_blockSize>>

FetchFails(f) ==
    /\ fetches[f].state = "asked"
    /\ fetches' = [fetches EXCEPT ![f].state = "failed"]
    /\ UNCHANGED <<m_cache, m_clear, m_blockSize>>

\* readFromCache(): what a reader gets of a block.
Trimmed(f, offset, size) ==
    LET skipped == offset - fetches[f].offset
        rest == SubSeq(fetches[f].data, skipped + 1, Len(fetches[f].data)) IN
    IF Len(rest) > size THEN SubSeq(rest, 1, size) ELSE rest

=============================================================================

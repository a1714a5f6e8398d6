------------------------------- MODULE MPool -------------------------------
(***************************************************************************)
(* The arena allocator of mpool.c.  Memory is carved off the current chunk *)
(* of an array of chunks; nothing is ever returned to it piecemeal, but    *)
(* mpool_ctx_reset starts over and hands the same chunks out again.        *)
(***************************************************************************)
EXTENDS Integers

CONSTANTS
    ChunkSz,     \* mpool->chunksz, in bytes
    Requests,    \* the sizes clients ask for
    MaxChunk     \* bounds the number of chunks for TLC

ASSUME MPoolAssumption ==
    /\ ChunkSz \in Nat
    /\ Requests \subseteq Nat
    /\ MaxChunk \in Nat

VARIABLES
    mpool,       \* the mpool_ctx_t; arena maps a chunk to the bytes malloc gave it
    blocks,      \* the memory handed out since the last reset
    st           \* "ok", or "fini" once the chunks are freed

vars == <<mpool, blocks, st>>

Word == 8        \* sizeof(void *), sizeof(size_t) and the rounding of mpool_malloc
Header == 8      \* sizeof(struct _mpool_item)

\* mpool_malloc rounds each size up to a multiple of 8.
RoundUp(sz) == sz + (IF sz % 8 = 0 THEN 0 ELSE 8 - (sz % 8))

LastChunk(p) ==                              \* their MAX
    IF p.last_chunk >= p.current_chunk THEN p.last_chunk ELSE p.current_chunk

NewContext ==
    [arenasz |-> Word, current_chunk |-> 0, last_chunk |-> 0, current_pos |-> 0,
     arena |-> [i \in 0..0 |-> ChunkSz]]

\* Mutant: the position is carried over to the next chunk.
NewChunkKeepsPos(p, sz) ==
    LET cur == p.current_chunk + 1
        fresh == p.current_chunk >= p.last_chunk
    IN  [arenasz       |-> IF fresh /\ cur * Word = p.arenasz THEN p.arenasz * 2 ELSE p.arenasz,
         current_chunk |-> cur,
         last_chunk    |-> p.last_chunk,
         current_pos   |-> p.current_pos,
         arena         |-> IF fresh
                           THEN [i \in 0..cur |-> IF i = cur THEN sz ELSE p.arena[i]]
                           ELSE p.arena]

\* Mutant: the array of chunks is enlarged one chunk too late.
NewChunkLateGrowth(p, sz) ==
    LET cur == p.current_chunk + 1
        fresh == p.current_chunk >= p.last_chunk
    IN  [arenasz       |-> IF fresh /\ cur * Word > p.arenasz THEN p.arenasz * 2 ELSE p.arenasz,
         current_chunk |-> cur,
         last_chunk    |-> p.last_chunk,
         current_pos   |-> 0,
         arena         |-> IF fresh
                           THEN [i \in 0..cur |-> IF i = cur THEN sz ELSE p.arena[i]]
                           ELSE p.arena]

\* new_chunk: beyond the recycled chunks a chunk of sz bytes is malloc'd (and
\* the array of chunks doubled when it is full); before that the next recycled
\* chunk is taken, whatever its size.
NewChunk(p, sz) ==
    LET cur == p.current_chunk + 1
        fresh == p.current_chunk >= p.last_chunk
    IN  [arenasz       |-> IF fresh /\ cur * Word = p.arenasz THEN p.arenasz * 2 ELSE p.arenasz,
         current_chunk |-> cur,
         last_chunk    |-> p.last_chunk,
         current_pos   |-> 0,
         arena         |-> IF fresh
                           THEN [i \in 0..cur |-> IF i = cur THEN sz ELSE p.arena[i]]
                           ELSE p.arena]

Block(chunk, off, len) == [chunk |-> chunk, off |-> off, len |-> len]
End(b) == b.off + Header + b.len

-----------------------------------------------------------------------------
\* Mutant: the big chunk stays the current one.
MallocBigStays(sz) ==
    LET len == RoundUp(sz)
        p   == NewChunk(mpool, len + Header)
    IN  /\ len + Header > ChunkSz
        /\ mpool' = p
        /\ blocks' = blocks \cup {Block(p.current_chunk, 0, len)}

\* mpool_malloc's "big" branch: the item has a chunk to itself, and the chunk
\* in use before is abandoned.
MallocBig(sz) ==
    LET len == RoundUp(sz)
        p   == NewChunk(mpool, len + Header)
    IN  /\ len + Header > ChunkSz
        /\ mpool' = NewChunk(p, ChunkSz)
        /\ blocks' = blocks \cup {Block(p.current_chunk, 0, len)}

\* Mutant: the room left is compared with the size without its header.
MallocSmallNoHeader(sz) ==
    LET len  == RoundUp(sz)
        fits == ChunkSz - mpool.current_pos >= len
        p    == IF fits THEN mpool ELSE NewChunk(mpool, ChunkSz)
    IN  /\ len + Header <= ChunkSz
        /\ mpool' = [p EXCEPT !.current_pos = @ + len + Header]
        /\ blocks' = blocks \cup {Block(p.current_chunk, p.current_pos, len)}

\* The other branch: a new chunk only when the item does not fit.
MallocSmall(sz) ==
    LET len  == RoundUp(sz)
        fits == ChunkSz - mpool.current_pos >= len + Header
        p    == IF fits THEN mpool ELSE NewChunk(mpool, ChunkSz)
    IN  /\ len + Header <= ChunkSz
        /\ mpool' = [p EXCEPT !.current_pos = @ + len + Header]
        /\ blocks' = blocks \cup {Block(p.current_chunk, p.current_pos, len)}

Malloc(sz) ==
    /\ st = "ok"
    /\ mpool.current_chunk + 2 <= MaxChunk
    /\ MallocBig(sz) \/ MallocSmall(sz)
    /\ UNCHANGED st

\* mpool_realloc of a block: in place as long as its rounded size suffices,
\* otherwise like mpool_malloc; the old block is not reused.
Reallocate(b, sz) == b.len < sz /\ Malloc(sz)

\* Mutant: chunks used before the round that ends are forgotten.
ResetForgets ==
    /\ st = "ok"
    /\ mpool' = [mpool EXCEPT !.last_chunk = mpool.current_chunk,
                              !.current_chunk = 0, !.current_pos = 0]
    /\ blocks' = {}
    /\ UNCHANGED st

\* mpool_ctx_reset: everything handed out before is given up.
Reset ==
    /\ st = "ok"
    /\ mpool' = [mpool EXCEPT !.last_chunk = LastChunk(mpool),
                              !.current_chunk = 0, !.current_pos = 0]
    /\ blocks' = {}
    /\ UNCHANGED st

\* mpool_ctx_fini frees the chunks from the last one down to the first.
Fini ==
    /\ st = "ok"
    /\ mpool' = [mpool EXCEPT
                    !.last_chunk = LastChunk(mpool),
                    !.arena = [i \in DOMAIN mpool.arena \ (0..LastChunk(mpool)) |->
                                 mpool.arena[i]]]
    /\ blocks' = {}
    /\ st' = "fini"

CtxInit ==
    /\ st = "fini"
    /\ mpool' = NewContext
    /\ blocks' = {}
    /\ st' = "ok"

Init == mpool = NewContext /\ blocks = {} /\ st = "ok"

Next ==
    \/ \E sz \in Requests : Malloc(sz)
    \/ \E b \in blocks, sz \in Requests : Reallocate(b, sz)
    \/ Reset \/ Fini \/ CtxInit

Spec == Init /\ [][Next]_vars

-----------------------------------------------------------------------------
(* Properties *)

\* The fields stay in their types; in particular the position never passes
\* the end of a chunk, where `chunksz - current_pos` would wrap around.
TypeOK ==
    /\ mpool \in [arenasz : Nat, current_chunk : Nat, last_chunk : Nat,
                  current_pos : 0..ChunkSz, arena : [DOMAIN mpool.arena -> Nat]]
    /\ blocks \subseteq [chunk : Nat, off : Nat, len : Nat]
    /\ st \in {"ok", "fini"}

\* The array of chunks has an entry for each chunk, and exactly the chunks up
\* to the last one used exist: mpool_ctx_fini, which frees these, neither
\* leaks a chunk nor frees an entry nobody wrote.
ArenaExact ==
    /\ (LastChunk(mpool) + 1) * Word <= mpool.arenasz
    /\ DOMAIN mpool.arena = IF st = "ok" THEN 0..LastChunk(mpool) ELSE {}

\* No two blocks handed out since the last reset overlap.
Disjoint ==
    \A a, b \in blocks :
        a # b /\ a.chunk = b.chunk => End(a) <= b.off \/ End(b) <= a.off

\* A block lies within the memory of its chunk, except for a big block that
\* was given a recycled chunk: new_chunk does not look at its size, although
\* the comment in mpool_malloc (mpool.c:73) says `new "big" chunk`.
InBounds ==
    \A b \in blocks :
        \/ End(b) <= mpool.arena[b.chunk]
        \/ b.len + Header > ChunkSz /\ b.chunk <= mpool.last_chunk

\* Each block handed out has its memory for itself: neither it nor the position runs
\* past the end of a chunk, and no other block reaches into it.
BlocksSound == TypeOK /\ InBounds /\ Disjoint

\* mpool_malloc goes to malloc for a chunk only once all recycled chunks are
\* in use, and keeps those it has.
RecycledFirst ==
    [][st = "ok" /\ st' = "ok" /\ mpool'.arena # mpool.arena =>
          /\ mpool'.current_chunk > mpool.last_chunk
          /\ \A i \in DOMAIN mpool.arena : mpool'.arena[i] = mpool.arena[i]]_vars
=============================================================================

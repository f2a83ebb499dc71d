----------------------------- MODULE MemoryPool -----------------------------
(***************************************************************************)
(* The bump allocator of memory_pool.rs: one arena, a bump offset behind   *)
(* the outer mutex, and an intrusive list of freed blocks behind a mutex   *)
(* of its own.  A borrow holds the outer mutex throughout; dropping a      *)
(* block takes the list's mutex only, so it can fall between the two       *)
(* attempts of a borrow.  Addresses are offsets into the arena.            *)
(*                                                                         *)
(* Threads have no names: one of them is inside borrow, and any of them    *)
(* may drop a block that it holds.  Not shown: borrow(0), which touches no *)
(* state, and a pool without an arena, which is one of size 0.             *)
(***************************************************************************)
EXTENDS Seqs, FiniteSetsExt

CONSTANTS ArenaSize,     \* MemoryPoolConfig::arena_size_bytes
          Sizes,         \* the sizes asked for
          Width,         \* bits of usize
          MaxAllocated   \* bound: total_allocated between two resets

MIN_BLOCK_SIZE == 16
ALIGN == 8
HEADER == 16             \* size_of::<FreeBlock>()
Word == 2^Width          \* number of values of usize

ASSUME PoolAssumption ==
  /\ Width \in Nat /\ Word \in Nat
  /\ ArenaSize \in Nat /\ ArenaSize < Word
  /\ MIN_BLOCK_SIZE + ALIGN <= Word
  /\ Sizes \subseteq 1..(Word - 1)
  /\ MaxAllocated \in Nat

VARIABLES wanted,           \* the size that the borrow inside the outer mutex needs, 0 without one
          walked,           \* that borrow has found nothing in the list
          bump_offset,
          freed_list,       \* sequence of blocks, head first
          held,             \* the blocks in callers' hands
          total_allocated, total_freed,
          wrapped           \* history: has a size wrapped when it was rounded up?

vars == <<wanted, walked, bump_offset, freed_list, held, total_allocated, total_freed, wrapped>>

Block == [start : Nat, size : Nat]

Init ==
  /\ wanted = 0 /\ walked = FALSE
  /\ bump_offset = 0 /\ freed_list = <<>> /\ held = {}
  /\ total_allocated = 0 /\ total_freed = 0 /\ wrapped = FALSE

-----------------------------------------------------------------------------
(* BumpAllocator::borrow *)

AdjustedSize(n) == IF n < MIN_BLOCK_SIZE THEN MIN_BLOCK_SIZE ELSE n

(* borrow enters the mutex. *)
Borrow(n) ==
  /\ wanted = 0
  /\ total_allocated + AdjustedSize(n) <= MaxAllocated
  /\ wanted' = AdjustedSize(n)
  /\ UNCHANGED <<walked, bump_offset, freed_list, held, total_allocated, total_freed, wrapped>>

LeaveMutex == wanted' = 0 /\ walked' = FALSE

(* borrow returns a block of the size asked for at address a. *)
HandOut(a) ==
  /\ held' = held \cup {[start |-> a, size |-> wanted]}
  /\ total_allocated' = total_allocated + wanted
  /\ LeaveMutex

(* The positions in the list of the blocks that are large enough *)
Fits == {i \in DOMAIN freed_list : freed_list[i].size >= wanted}

(* Fault: the block that is reused stays in the list. *)
StayLinked(i) == freed_list

(* The list without its block i *)
Unlink(i) == RemoveAt(freed_list, i)

(* try_borrow_from_freed_list: the first block that is large enough is
   unlinked, and what it has beyond the size asked for goes with it. *)
TryFreedList ==
  /\ wanted > 0 /\ ~walked
  /\ \/ \E i \in Fits :
          /\ \A j \in Fits : i <= j
          /\ freed_list' = Unlink(i)
          /\ HandOut(freed_list[i].start)
     \/ /\ Fits = {} /\ walked' = TRUE
        /\ UNCHANGED <<wanted, freed_list, held, total_allocated>>
  /\ UNCHANGED <<bump_offset, total_freed, wrapped>>

(* Fault: the size is rounded down. *)
AlignDown(n) == (n \div ALIGN) * ALIGN

(* (size + 7) & !7 on usize *)
AlignedSize(n) == (((n + (ALIGN - 1)) % Word) \div ALIGN) * ALIGN

(* The sum overflows for the last 7 values of usize. *)
Wraps(n) == n + (ALIGN - 1) >= Word

(* try_bump_allocate: the end of the new block must be a usize and inside the
   arena, or borrow returns None.  A size that overflows panics in a debug
   build; in a release build it is rounded to 0, and fits. *)
TryBump ==
  LET end == bump_offset + AlignedSize(wanted)
      fits == end < Word /\ end <= ArenaSize
  IN  /\ wanted > 0 /\ walked
      /\ \/ /\ fits
            /\ bump_offset' = end /\ HandOut(bump_offset)
            /\ wrapped' = Wraps(wanted)
         \/ /\ ~fits \/ Wraps(wanted)
            /\ LeaveMutex /\ UNCHANGED <<bump_offset, held, total_allocated, wrapped>>
      /\ UNCHANGED <<freed_list, total_freed>>

-----------------------------------------------------------------------------
(* Fault: a dropped block is not counted. *)
DropUncounted(b) ==
  /\ held' = held \ {b}
  /\ freed_list' = <<b>> \o freed_list
  /\ UNCHANGED <<wanted, walked, bump_offset, total_allocated, total_freed, wrapped>>

(* MemoryBlock::drop: the header is written over the block's first bytes,
   and the block becomes the head of the list. *)
Drop(b) ==
  /\ held' = held \ {b}
  /\ freed_list' = <<b>> \o freed_list
  /\ total_freed' = total_freed + b.size
  /\ UNCHANGED <<wanted, walked, bump_offset, total_allocated, wrapped>>

(* reset may be called only while no block is outstanding. *)
Reset ==
  /\ wanted = 0 /\ held = {}
  /\ bump_offset' = 0 /\ freed_list' = <<>>
  /\ total_allocated' = 0 /\ total_freed' = 0
  /\ UNCHANGED <<wanted, walked, held, wrapped>>

(* A block whose size has wrapped reaches past the arena: the slice that data
   makes of it, and the header that drop may write, are undefined behaviour, and
   nothing is said of what follows. *)
Undefined == wrapped /\ UNCHANGED vars

Next ==
  \/ /\ ~wrapped
     /\ \/ \E n \in Sizes : Borrow(n)
        \/ TryFreedList \/ TryBump
        \/ \E b \in held : Drop(b)
        \/ Reset
  \/ Undefined

Spec == Init /\ [][Next]_vars

-----------------------------------------------------------------------------
(* Properties *)

TypeOK ==
  /\ wanted \in Nat /\ walked \in BOOLEAN
  /\ bump_offset \in 0..ArenaSize
  /\ freed_list \in Seq(Block)
  /\ held \subseteq Block
  /\ total_allocated \in Nat /\ total_freed \in Nat /\ wrapped \in BOOLEAN

Disjoint(b, c) == b.start + b.size <= c.start \/ c.start + c.size <= b.start

(* A block lies in the part of the arena that has been bumped, is aligned for
   the header that drop writes over it, and is large enough for it. *)
Placed(b) ==
  /\ b.start % ALIGN = 0 /\ b.start + b.size <= bump_offset
  /\ b.size >= HEADER

Apart ==
  /\ \A b \in held : Placed(b)
  /\ \A i \in DOMAIN freed_list : Placed(freed_list[i])
  /\ \A b, c \in held : b # c => Disjoint(b, c)
  /\ \A b \in held, i \in DOMAIN freed_list : Disjoint(b, freed_list[i])
  /\ \A i, j \in DOMAIN freed_list : i # j => Disjoint(freed_list[i], freed_list[j])

(* No byte belongs to two blocks, held or free: what a caller writes into its
   block reaches neither another caller's data nor the links of the list, and
   the header that drop writes stays inside the block that is dropped, unless
   a size has wrapped. *)
BlocksDisjoint == wrapped \/ Apart

Bytes(b) == b.start .. (b.start + b.size - 1)

(* stats: what was allocated and has not been freed is the number of bytes in
   callers' hands, so that fragmentation_ratio never exceeds 1. *)
Balanced ==
  wrapped \/ total_allocated - total_freed = Cardinality(UNION {Bytes(b) : b \in held})
=============================================================================

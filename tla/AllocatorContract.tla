------------------------- MODULE AllocatorContract -------------------------
(***************************************************************************)
(* What a SmallAllocator promises its user, whatever its implementation:   *)
(* the three allocators of 2_3 (block list, bit map, boundary tags) have   *)
(* the same interface, Alloc, ReAlloc and Free, and the programs that use  *)
(* them (main of main_list.cpp and of main_map.cpp, run of test.cpp) rely  *)
(* on it in the same way.                                                  *)
(*                                                                         *)
(* The state is what the user can see: the pointers it holds and the bytes *)
(* it would read through each of them.                                     *)
(***************************************************************************)
EXTENDS Integers

CONSTANTS
  MemSize,   \* bytes of the allocator's memory
  Size,      \* the sizes the user asks for
  Byte       \* what a byte of memory can hold

VARIABLE blocks   \* [pointers held -> [0 .. size - 1 -> Byte]]

(* The bytes that a block with contents c occupies when it starts at p. *)
Extent(p, c) == {p + i : i \in DOMAIN c}

(* A block c at p lies in the memory and on no byte of the blocks in B. *)
Fits(p, c, B) ==
  /\ Extent(p, c) \subseteq 0 .. MemSize - 1
  /\ \A q \in DOMAIN B : q # p /\ Extent(p, c) \cap Extent(q, B[q]) = {}

Without(B, p) == [q \in DOMAIN B \ {p} |-> B[q]]

With(B, p, c) == [q \in DOMAIN B \cup {p} |-> IF q = p THEN c ELSE B[q]]

Init == blocks = [p \in {} |-> <<>>]

(* A new block somewhere free; nothing is said of what it holds. *)
Alloc(size) ==
  \E p \in DOMAIN blocks' :
    /\ blocks'[p] \in [0 .. size - 1 -> Byte]
    /\ Fits(p, blocks'[p], blocks)
    /\ blocks' = With(blocks, p, blocks'[p])

(* The block at p becomes a block of `size' bytes at some q, with the same *)
(* contents as far as both reach.                                          *)
ReAlloc(p, size) ==
  \E q \in DOMAIN blocks' :
    /\ blocks'[q] \in [0 .. size - 1 -> Byte]
    /\ Fits(q, blocks'[q], Without(blocks, p))
    /\ \A i \in DOMAIN blocks'[q] \cap DOMAIN blocks[p] :
          blocks'[q][i] = blocks[p][i]
    /\ blocks' = With(Without(blocks, p), q, blocks'[q])

Free(p) == blocks' = Without(blocks, p)

(* The user stores a byte in a block it holds. *)
Write(p, i, v) ==
  /\ i \in DOMAIN blocks[p]
  /\ blocks' = [blocks EXCEPT ![p][i] = v]

Next ==
  \/ \E size \in Size : Alloc(size)
  \/ \E p \in DOMAIN blocks :
       \/ \E size \in Size : ReAlloc(p, size)
       \/ Free(p)
       \/ \E i \in 0 .. MemSize - 1, v \in Byte : Write(p, i, v)

Spec == Init /\ [][Next]_blocks
=============================================================================

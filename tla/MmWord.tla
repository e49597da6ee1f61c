------------------------------- MODULE MmWord -------------------------------
(***************************************************************************)
(* The arithmetic of mm.c: sizes are C size_t values, counted modulo       *)
(* SIZE_MOD, and a block header (or the footer of a free block) is one     *)
(* word that packs the block size with three flags in its low bits.        *)
(* Sizes and addresses are in bytes; an address is an offset from          *)
(* mem_heap_lo(), so that NULL (0) is never the address of a block.        *)
(***************************************************************************)
EXTENDS Integers

CONSTANT SIZE_MOD      \* number of values of size_t (2^64 in the build)

ASSUME SizeModAssumption == SIZE_MOD \in Nat /\ SIZE_MOD >= 64 /\ SIZE_MOD % 16 = 0

NULL == 0
wsize == 8
dsize == 2 * wsize
min_block_size == dsize

(***************************************************************************)
(* round_up(size, n): size_t arithmetic, so the addition may wrap.         *)
(***************************************************************************)
round_up(size, n) == (n * (((size + (n - 1)) % SIZE_MOD) \div n)) % SIZE_MOD

(***************************************************************************)
(* The size malloc looks for: the request plus one header word, rounded up *)
(* to a multiple of 16.                                                    *)
(***************************************************************************)
adjusted_size(size) == round_up((size + wsize) % SIZE_MOD, dsize)

-----------------------------------------------------------------------------
(***************************************************************************)
(* Header words: size in the high bits (a multiple of 16), alloc_mask 0x1, *)
(* prev_alloc_mask 0x2 and prev_mini_mask 0x4.                             *)
(***************************************************************************)
alloc_mask == 1
prev_alloc_mask == 2
prev_mini_mask == 4

HasBit(word, mask) == (word \div mask) % 2 = 1
SetBit(word, mask) == IF HasBit(word, mask) THEN word ELSE word + mask

pack_all(size, alloc, prev_alloc, prev_mini) ==
  size + (IF alloc THEN alloc_mask ELSE 0)
       + (IF prev_alloc THEN prev_alloc_mask ELSE 0)
       + (IF prev_mini THEN prev_mini_mask ELSE 0)

extract_size(word) == word - (word % 16)
extract_alloc(word) == HasBit(word, alloc_mask)
extract_prev_alloc(word) == HasBit(word, prev_alloc_mask)
extract_prev_mini(word) == HasBit(word, prev_mini_mask)

-----------------------------------------------------------------------------
(***************************************************************************)
(* The size classes of seg_list.  Class i holds the sizes from             *)
(* ClassBound[i] up to, and not including, ClassBound[i + 1].              *)
(***************************************************************************)
LENGTH == 14
Classes == 0 .. LENGTH - 1

ClassBound == << 32, 64, 128, 256, 512, 1024, 2048, 3072, 4096, 6656, 8192,
                 16384, 32768 >>

find_class(asize) ==
  CHOOSE i \in Classes :
    /\ i > 0 => ClassBound[i] <= asize
    /\ i < LENGTH - 1 => asize < ClassBound[i + 1]
=============================================================================

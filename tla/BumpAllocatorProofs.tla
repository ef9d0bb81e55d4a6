------------------------- MODULE BumpAllocatorProofs -------------------------
(***************************************************************************)
(* Proofs about BumpAllocator, for any arena, layouts and word size.       *)
(***************************************************************************)
EXTENDS BumpAllocator, TLAPS

(* Arithmetic of remainders. *)
LEMMA SmallRemainder ==
  ASSUME NEW m \in Nat \ {0}, NEW x \in 0 .. m - 1
  PROVE  x % m = x
OBVIOUS

LEMMA RemainderRange ==
  ASSUME NEW m \in Nat \ {0}, NEW x \in Nat
  PROVE  x % m \in 0 .. m - 1
OBVIOUS

(* The padding alloc computes is the least that aligns. *)
LEMMA PaddedIsAligned ==
  ASSUME NEW m \in Nat \ {0}, NEW x \in Nat, x % m # 0
  PROVE  (x + (m - (x % m))) % m = 0
<1>1. PICK q, r : q = x \div m /\ r = x % m
  OBVIOUS
<1>2. q \in Int /\ r \in 0 .. m - 1 /\ x = m * q + r
  BY <1>1
<1>3. x + (m - r) = m * (q + 1)
  BY <1>2
<1>4. (m * (q + 1)) % m = 0
  BY <1>2
<1>5. QED
  BY <1>1, <1>3, <1>4

LEMMA PaddingIsLeast ==
  ASSUME NEW m \in Nat \ {0}, NEW x \in Nat, NEW y \in Nat,
         x <= y, y % m = 0
  PROVE  x % m # 0 => x + (m - (x % m)) <= y
<1>1. PICK q, r, s : q = x \div m /\ r = x % m /\ s = y \div m
  OBVIOUS
<1>2. q \in Int /\ s \in Int /\ r \in 0 .. m - 1 /\ x = m * q + r /\ y = m * s
  BY <1>1
<1>3. SUFFICES ASSUME r # 0
               PROVE  m * (q + 1) <= m * s
  BY <1>1, <1>2
<1>4. q < s
  BY <1>2, <1>3
<1>5. QED
  BY <1>2, <1>4

-----------------------------------------------------------------------------

(* Until the arena is used up, usize is wide enough for every request.      *)
LEMMA Offsets ==
  ASSUME current \in 0 .. Size, NEW l \in Layouts
  PROVE  /\ Plus(Start, current) = Start + current
         /\ Remainder(l) = (Start + current) % l.align
         /\ Pad(l) \in 0 .. l.align - 1
         /\ (Start + current + Pad(l)) % l.align = 0
         /\ AlignedOffset(l) = current + Pad(l)
         /\ NewOffset(l) = current + Pad(l) + l.size
         /\ current + Pad(l) + l.size \in Usize
<1>1. /\ Half \in Nat \ {0} /\ Start \in Nat \ {0} /\ Size \in 0 .. Half
      /\ Start + Size < 2 * Half
      /\ l.size \in Nat \ {0} /\ l.align \in Nat \ {0} /\ l.size + l.align <= Half
  BY ArenaAssumption, LayoutsAssumption
<1>2. PICK w : w = 2 * Half
  OBVIOUS
<1>3. w \in Nat \ {0}
  BY <1>1, <1>2
<1>4. Plus(Start, current) = Start + current
  <2>1. Start + current \in 0 .. w - 1
    BY <1>1, <1>2
  <2>2. QED
    BY <1>2, <1>3, <2>1, SmallRemainder DEF Plus
<1>5. Remainder(l) = (Start + current) % l.align
  BY <1>4 DEF Remainder
<1>6. Remainder(l) \in 0 .. l.align - 1
  <2>1. PICK x : x = Start + current
    OBVIOUS
  <2>2. x \in Nat
    BY <1>1, <2>1
  <2>3. QED
    BY <1>1, <1>5, <2>1, <2>2, RemainderRange
<1>7. Pad(l) \in 0 .. l.align - 1
  <2>1. PICK r : r = Remainder(l)
    OBVIOUS
  <2>2. Pad(l) = IF r = 0 THEN 0 ELSE l.align - r
    BY <2>1 DEF Pad
  <2>3. r \in 0 .. l.align - 1
    BY <1>6, <2>1
  <2>4. QED
    BY <1>1, <2>2, <2>3
<1>8. (Start + current + Pad(l)) % l.align = 0
  <2>1. CASE Remainder(l) = 0
    BY <1>1, <1>5, <2>1 DEF Pad
  <2>2. CASE Remainder(l) # 0
    <3>1. Start + current \in Nat
      BY <1>1
    <3>2. (Start + current + (l.align - ((Start + current) % l.align))) % l.align = 0
      BY <1>1, <1>5, <2>2, <3>1, PaddedIsAligned
    <3>3. QED
      BY <1>5, <2>2, <3>2 DEF Pad
  <2>3. QED
    BY <2>1, <2>2
<1>9. current + Pad(l) + l.size \in 0 .. w - 1
  BY <1>1, <1>2, <1>7
<1>10. AlignedOffset(l) = current + Pad(l)
  <2>1. current + Pad(l) \in 0 .. w - 1
    BY <1>1, <1>2, <1>7, <1>9
  <2>2. QED
    BY <1>2, <1>3, <2>1, SmallRemainder DEF AlignedOffset, Plus
<1>11. NewOffset(l) = current + Pad(l) + l.size
  BY <1>2, <1>3, <1>9, <1>10, SmallRemainder DEF NewOffset, Plus
<1>12. QED
  BY <1>2, <1>4, <1>5, <1>7, <1>8, <1>9, <1>10, <1>11 DEF Usize

(* A request that does not fit has no room anywhere in what is left.        *)
LEMMA NoRoom ==
  ASSUME current \in 0 .. Size, NEW l \in Layouts, ~Fits(l),
         NEW off \in current .. Size, (Start + off) % l.align = 0
  PROVE  off + l.size > Size
<1>1. /\ Start \in Nat /\ Size \in Nat
      /\ l.size \in Nat \ {0} /\ l.align \in Nat \ {0}
  BY ArenaAssumption, LayoutsAssumption
<1>2. Start + current + Pad(l) <= Start + off
  <2>1. Start + current \in Nat /\ Start + off \in Nat /\ Start + current <= Start + off
    BY <1>1
  <2>2. CASE Remainder(l) = 0
    BY <1>1, <2>1, <2>2 DEF Pad
  <2>3. CASE Remainder(l) # 0
    <3>1. Start + current + (l.align - ((Start + current) % l.align)) <= Start + off
      BY <1>1, <2>1, <2>3, Offsets, PaddingIsLeast
    <3>2. QED
      BY <2>3, <3>1, Offsets DEF Pad
  <2>4. QED
    BY <2>2, <2>3
<1>3. NewOffset(l) = current + Pad(l) + l.size /\ Pad(l) \in Int
  BY <1>1, Offsets
<1>4. current + Pad(l) + l.size > Size
  BY <1>1, <1>3 DEF Fits
<1>5. QED
  BY <1>1, <1>2, <1>3, <1>4

-----------------------------------------------------------------------------

Inductive == TypeOK /\ BlocksInPlace /\ BlocksApart /\ OomMeansFull

LEMMA InitInductive == Init => Inductive
<1> SUFFICES ASSUME Init
             PROVE  Inductive
  OBVIOUS
<1>1. 0 \in 0 .. Size
  BY ArenaAssumption
<1>2. TypeOK
  BY <1>1 DEF Init, TypeOK
<1>3. BlocksInPlace /\ BlocksApart /\ OomMeansFull
  BY DEF Init, BlocksInPlace, BlocksApart, OomMeansFull
<1>4. QED
  BY <1>2, <1>3 DEF Inductive

LEMMA AllocStep ==
  ASSUME Inductive, NEW l \in Layouts, Alloc(l)
  PROVE  Inductive'
<1>1. PICK pad : pad = Pad(l)
  OBVIOUS
<1>2. PICK b : b = [at |-> Start + current + pad, layout |-> l]
  OBVIOUS
<1>3. /\ Half \in Nat \ {0} /\ Start \in Nat \ {0} /\ Size \in 0 .. Half
      /\ Start + Size < 2 * Half
      /\ l.size \in Nat \ {0} /\ l.align \in Nat \ {0}
      /\ current \in 0 .. Size
  BY ArenaAssumption, LayoutsAssumption DEF Inductive, TypeOK
<1>4. /\ pad \in Nat
      /\ (Start + current + pad) % l.align = 0
      /\ AlignedOffset(l) = current + pad
      /\ current' = current + pad + l.size
  <2>1. Pad(l) \in 0 .. l.align - 1
    BY <1>3, Offsets
  <2>2. QED
    BY <1>1, <1>3, <2>1, Offsets DEF Alloc
<1>5. current' <= Size
  BY DEF Alloc, Fits
<1>6. Plus(Start, AlignedOffset(l)) = Start + current + pad
  <2>1. PICK w : w = 2 * Half
    OBVIOUS
  <2>2. PICK x : x = Start + current + pad
    OBVIOUS
  <2>3. x \in 0 .. w - 1 /\ w \in Nat \ {0}
    BY <1>3, <1>4, <1>5, <2>1, <2>2
  <2>4. x % w = x
    BY <2>3, SmallRemainder
  <2>5. Start + AlignedOffset(l) = x
    BY <1>3, <1>4, <2>2
  <2>6. QED
    BY <2>1, <2>2, <2>4, <2>5 DEF Plus
<1>7. live' = live \cup {b} /\ UNCHANGED <<global, panic>> /\ panic = NoPanic
  BY <1>2, <1>6 DEF Alloc, Block, Running
<1>8. b.at = Start + current + pad /\ b.layout = l /\ b \in [at: Usize, layout: Layouts]
  BY <1>2, <1>3, <1>4, <1>5 DEF Usize
<1>9. TypeOK'
  <2>1. current' \in 0 .. Size
    BY <1>3, <1>4, <1>5
  <2>2. QED
    BY <1>7, <1>8, <2>1 DEF Inductive, TypeOK
<1>10. \A c \in live : /\ c.at \in Nat /\ c.layout.size \in Nat
                       /\ Start <= c.at
                       /\ c.at + c.layout.size <= Start + current
                       /\ c.at % c.layout.align = 0
  BY LayoutsAssumption DEF Inductive, TypeOK, BlocksInPlace, Usize
<1>11. \A c \in live : c.at + c.layout.size <= b.at
  BY <1>3, <1>4, <1>8, <1>10
<1>12. BlocksInPlace'
  <2>1. b.at % b.layout.align = 0 /\ Start <= b.at /\ b.at + b.layout.size <= Start + current'
    BY <1>3, <1>4, <1>8
  <2>2. \A c \in live : c.at + c.layout.size <= Start + current'
    BY <1>3, <1>4, <1>10
  <2>3. QED
    BY <1>7, <1>10, <2>1, <2>2 DEF BlocksInPlace
<1>13. BlocksApart'
  BY <1>7, <1>11 DEF Inductive, BlocksApart
<1>14. OomMeansFull'
  BY <1>7 DEF OomMeansFull, NoPanic, OomAt
<1>15. QED
  BY <1>9, <1>12, <1>13, <1>14 DEF Inductive

LEMMA OomStep ==
  ASSUME Inductive, NEW l \in Layouts, Oom(l)
  PROVE  Inductive'
<1>1. TypeOK' /\ BlocksInPlace' /\ BlocksApart'
  BY DEF Oom, Inductive, TypeOK, BlocksInPlace, BlocksApart
<1>2. OomMeansFull'
  <2> SUFFICES ASSUME NEW k \in Layouts, global, OomAt(l) = OomAt(k),
                      NEW off \in current .. Size,
                      (Start + off) % k.align = 0
               PROVE  off + k.size > Size
    BY DEF Oom, OomMeansFull
  <2>1. k = l
    BY DEF OomAt
  <2>2. QED
    BY <2>1, NoRoom DEF Oom, Inductive, TypeOK
<1>3. QED
  BY <1>1, <1>2 DEF Inductive

(* The steps that end no block's life early, and make none. *)
LEMMA OtherSteps ==
  ASSUME Inductive,
         \/ InitGlobalAllocator
         \/ \E b \in live : Dealloc(b)
         \/ Reset
         \/ UNCHANGED vars
  PROVE  Inductive'
<1>1. CASE InitGlobalAllocator
  BY <1>1 DEF InitGlobalAllocator, Inductive, TypeOK, BlocksInPlace, BlocksApart,
              OomMeansFull, NoPanic, Twice, OomAt
<1>2. CASE \E b \in live : Dealloc(b)
  BY <1>2 DEF Dealloc, Running, Inductive, TypeOK, BlocksInPlace, BlocksApart,
              OomMeansFull
<1>3. CASE Reset
  BY <1>3, ArenaAssumption
  DEF Reset, Running, Inductive, TypeOK, BlocksInPlace, BlocksApart,
      OomMeansFull, NoPanic, OomAt
<1>4. CASE UNCHANGED vars
  BY <1>4 DEF vars, Inductive, TypeOK, BlocksInPlace, BlocksApart, OomMeansFull
<1>5. QED
  BY <1>1, <1>2, <1>3, <1>4

(* What the heap keeps true: offsets stay in the arena, blocks in use are   *)
(* in place and apart, and requests are refused only for want of room.      *)
THEOREM HeapInvariant == Spec => []Inductive
<1>1. Inductive /\ [Next]_vars => Inductive'
  BY AllocStep, OomStep, OtherSteps DEF Next
<1>2. QED
  BY <1>1, InitInductive, PTL DEF Spec

(* The offset of SimpleAllocator never leaves its arena, and what is in use *)
(* is what was asked for.                                                  *)
THEOREM TypesHold == Spec => []TypeOK
<1>1. Inductive => TypeOK
  BY DEF Inductive
<1>2. QED
  BY <1>1, HeapInvariant, PTL

(* SimpleAllocator::alloc never hands out a byte of a block in use, for any *)
(* arena and any sequence of requests.                                     *)
THEOREM BlocksDoNotOverlap == Spec => []BlocksApart
<1>1. Inductive => BlocksApart
  BY DEF Inductive
<1>2. QED
  BY <1>1, HeapInvariant, PTL

(* Every block alloc hands out is aligned as its layout asks, and lies in   *)
(* the arena.                                                              *)
THEOREM BlocksStayInPlace == Spec => []BlocksInPlace
<1>1. Inductive => BlocksInPlace
  BY DEF Inductive
<1>2. QED
  BY <1>1, HeapInvariant, PTL

(* The additions of alloc, which nothing guards, never overflow a usize.    *)
THEOREM NoOverflow == Spec => []NothingWraps
<1>1. Inductive => NothingWraps
  <2> SUFFICES ASSUME Inductive, NEW l \in Layouts
               PROVE  Start + current \in Usize /\ current + Pad(l) + l.size \in Usize
    BY DEF NothingWraps
  <2>1. current \in 0 .. Size
    BY DEF Inductive, TypeOK
  <2>2. Start + current \in Usize
    BY <2>1, ArenaAssumption DEF Usize
  <2>3. QED
    BY <2>1, <2>2, Offsets
<1>2. QED
  BY <1>1, HeapInvariant, PTL

(* With the allocator set, oom means that what is left of the arena has no  *)
(* aligned place for the request: padding never costs a block its room.     *)
THEOREM OomOnlyWhenFull == Spec => []OomMeansFull
<1>1. Inductive => OomMeansFull
  BY DEF Inductive
<1>2. QED
  BY <1>1, HeapInvariant, PTL

=============================================================================

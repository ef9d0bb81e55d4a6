------------------------- MODULE EarlyPagingProofs -------------------------
(***************************************************************************)
(* Proofs about EarlyPaging, for directories of any size, any number of    *)
(* tables and any place of them in memory.                                 *)
(***************************************************************************)
EXTENDS EarlyPaging, TLAPS

LEMMA Sizes ==
  /\ Entries \in Nat /\ Tables \in Nat /\ HigherHalf \in Nat
  /\ 0 < Tables /\ Tables <= HigherHalf /\ HigherHalf + Tables < Entries
  /\ 0 \in Slot /\ 0 \in Table /\ Entries - 1 \in Slot
  /\ \A t \in Table : t \in Slot /\ HigherHalf + t \in Slot
BY PagingAssumption DEF Slot, Table

-----------------------------------------------------------------------------
(* The invariant of the loops. *)

LEMMA PagingStarts == PagingInit => PagingInvariant
BY Sizes DEF PagingInit, PagingInvariant, Entry, Filled

LEMMA ClearEntryKeeps ==
  ASSUME PagingInvariant, ClearEntry
  PROVE  PagingInvariant'
<1>1. directory' \in [Slot -> Entry]
  BY DEF PagingInvariant, ClearEntry, Entry
<1>2. \A s \in Slot : directory'[s] = NotPresent
  BY DEF PagingInvariant, ClearEntry
<1>3. building' = "clear" => table_idx' \in Slot /\ pte' = 0
  BY Sizes DEF PagingInvariant, ClearEntry, Slot
<1>4. building' \in {"clear", "fill"}
      /\ (building' = "fill" => table_idx' = 0 /\ pte' = 0)
  BY DEF PagingInvariant, ClearEntry
<1>5. \A t \in Table, e \in Slot : ~Filled(t, e)'
  BY <1>4 DEF Filled, Table, Slot
<1>6. QED
  BY <1>1, <1>2, <1>3, <1>4, <1>5, Sizes DEF PagingInvariant, ClearEntry

LEMMA FillEntryKeeps ==
  ASSUME PagingInvariant, FillEntry
  PROVE  PagingInvariant'
<1>1. table_idx \in Table /\ pte \in Slot
  BY DEF PagingInvariant, FillEntry
<1>2. PICK f : f = Frame(table_idx, pte)
  OBVIOUS
<1>3. f \in Entry
  BY <1>1, <1>2, Sizes DEF Frame, Entry, Slot, Table
<1>4. table' = [table EXCEPT ![table_idx] = [@ EXCEPT ![pte] = f]]
  BY <1>2 DEF FillEntry
<1>5. table' \in [Table -> [Slot -> Entry]]
  BY <1>1, <1>3, <1>4 DEF PagingInvariant
<1>6. /\ building = "fill"
      /\ IF pte + 1 < Entries
         THEN pte' = pte + 1 /\ UNCHANGED <<table_idx, building>>
         ELSE /\ pte' = 0
              /\ IF table_idx + 1 < Tables
                 THEN table_idx' = table_idx + 1 /\ UNCHANGED building
                 ELSE table_idx' = 0 /\ building' = "windows"
  BY DEF FillEntry
<1>7. \/ building' = "fill" /\ table_idx' = table_idx /\ pte' = pte + 1 /\ pte' \in Slot
      \/ /\ building' = "fill" /\ table_idx' = table_idx + 1 /\ table_idx' \in Table
         /\ pte' = 0 /\ pte = Entries - 1
      \/ building' = "windows" /\ table_idx = Tables - 1 /\ pte = Entries - 1
  <2>1. CASE pte + 1 < Entries
    BY <1>6, <2>1, <1>1, Sizes DEF Slot
  <2>2. CASE ~(pte + 1 < Entries) /\ table_idx + 1 < Tables
    BY <1>6, <2>2, <1>1, Sizes DEF Table, Slot
  <2>3. CASE ~(pte + 1 < Entries) /\ ~(table_idx + 1 < Tables)
    BY <1>6, <2>3, <1>1, Sizes DEF Table, Slot
  <2>4. QED
    BY <2>1, <2>2, <2>3
<1>8. /\ building' \in {"fill", "windows"}
      /\ building' = "fill" => table_idx' \in Table /\ pte' \in Slot
  BY <1>1, <1>7, Sizes
<1>9. ASSUME NEW t \in Table, NEW e \in Slot, Filled(t, e)'
      PROVE  table'[t][e] = t * Entries + e
  <2>1. CASE t = table_idx /\ e = pte
    BY <2>1, <1>1, <1>2, <1>4 DEF PagingInvariant, Frame
  <2>2. CASE t # table_idx \/ e # pte
    <3>1. t < table_idx \/ (t = table_idx /\ e < pte)
      BY <2>2, <1>1, <1>7, <1>9 DEF Filled, Table, Slot
    <3>2. table[t][e] = t * Entries + e
      BY <3>1 DEF PagingInvariant, Filled, FillEntry
    <3>3. table'[t][e] = table[t][e]
      BY <2>2, <1>1, <1>4 DEF PagingInvariant
    <3>4. QED
      BY <3>2, <3>3
  <2>3. QED
    BY <2>1, <2>2
<1>10. QED
  BY <1>5, <1>8, <1>9 DEF PagingInvariant, FillEntry

LEMMA MapWindowsKeeps ==
  ASSUME PagingInvariant, MapWindows
  PROVE  PagingInvariant'
<1>1. ASSUME NEW s \in Slot
      PROVE  directory'[s] = SlotLeadsTo(s) /\ SlotLeadsTo(s) \in Entry
  <2>1. directory[s] = NotPresent
    BY DEF PagingInvariant, MapWindows
  <2>2. directory'[s] = Pde(s)
    BY DEF MapWindows
  <2>3. Pde(s) = SlotLeadsTo(s)
    BY <2>1, Sizes DEF Pde, SlotLeadsTo, Slot, Table
  <2>4. SlotLeadsTo(s) \in Entry
    BY Sizes, PagingAssumption DEF SlotLeadsTo, Entry, Slot, Table
  <2>5. QED
    BY <2>2, <2>3, <2>4
<1>2. directory' \in [Slot -> Entry]
  BY <1>1 DEF MapWindows
<1>3. \A t \in Table, e \in Slot : table[t][e] = t * Entries + e
  BY DEF PagingInvariant, MapWindows, Filled
<1>4. \A s \in Slot : directory'[s] = SlotLeadsTo(s)'
  BY <1>1 DEF SlotLeadsTo
<1>5. QED
  BY <1>2, <1>3, <1>4 DEF PagingInvariant, MapWindows, Filled

(* The page tables at every step of building them: each loop has done what *)
(* its counters say, for directories and tables of any size.               *)
THEOREM PagingInvariance == PagingSpec => []PagingInvariant
<1>1. PagingInvariant /\ [PagingNext]_pagingVars => PagingInvariant'
  <2> SUFFICES ASSUME PagingInvariant, [PagingNext]_pagingVars
               PROVE  PagingInvariant'
    OBVIOUS
  <2>1. CASE ClearEntry
    BY <2>1, ClearEntryKeeps
  <2>2. CASE FillEntry
    BY <2>2, FillEntryKeeps
  <2>3. CASE MapWindows
    BY <2>3, MapWindowsKeeps
  <2>4. CASE EnablePaging
    BY <2>4 DEF EnablePaging, PagingInvariant, Filled, SlotLeadsTo
  <2>5. CASE UNCHANGED pagingVars
    BY <2>5 DEF pagingVars, PagingInvariant, Filled, SlotLeadsTo
  <2>6. QED
    BY <2>1, <2>2, <2>3, <2>4, <2>5 DEF PagingNext
<1>2. QED
  BY <1>1, PagingStarts, PTL DEF PagingSpec

-----------------------------------------------------------------------------
(* What the processor finds once paging is on. *)

LEMMA Walk ==
  ASSUME PagingInvariant, paging, NEW s \in Slot, NEW e \in Slot
  PROVE  /\ s \in Table => Translate(s, e) = s * Entries + e
         /\ s - HigherHalf \in Table =>
              Translate(s, e) = (s - HigherHalf) * Entries + e
         /\ s = Entries - 1 => Translate(s, e) = SlotLeadsTo(e)
         /\ s \notin Table /\ s - HigherHalf \notin Table /\ s # Entries - 1
              => Translate(s, e) = NotPresent
<1>1. /\ \A x \in Slot : directory[x] = SlotLeadsTo(x)
      /\ \A t \in Table, x \in Slot : table[t][x] = t * Entries + x
  BY DEF PagingInvariant, Filled
<1>2. ASSUME NEW t \in Table
      PROVE  /\ TableAt(FirstTable + t) = table[t]
             /\ FirstTable + t # NotPresent
  <2>1. PICK f : f = FirstTable + t
    OBVIOUS
  <2>2. f # PdFrame /\ f - FirstTable = t
    BY <2>1, PagingAssumption DEF Table
  <2>3. f # NotPresent
    BY <2>1, PagingAssumption DEF Table, NotPresent
  <2>4. TableAt(f) = table[t]
    BY <2>2 DEF TableAt
  <2>5. QED
    BY <2>1, <2>3, <2>4
<1>3. CASE s \in Table
  <2>1. directory[s] = FirstTable + s
    BY <1>1, <1>3 DEF SlotLeadsTo
  <2>2. s - HigherHalf \notin Table /\ s # Entries - 1
    BY <1>3, Sizes DEF Table
  <2>3. Translate(s, e) = table[s][e]
    BY <2>1, <1>2, <1>3 DEF Translate
  <2>4. QED
    BY <2>2, <2>3, <1>1, <1>3
<1>4. CASE s - HigherHalf \in Table
  <2>1. s \notin Table /\ s # Entries - 1
    BY <1>4, Sizes DEF Table, Slot
  <2>2. PICK t \in Table : t = s - HigherHalf
    BY <1>4
  <2>3. directory[s] = FirstTable + t
    BY <1>1, <2>1, <2>2, PagingAssumption DEF SlotLeadsTo, Table, Slot
  <2>4. Translate(s, e) = table[t][e]
    BY <2>3, <1>2 DEF Translate
  <2>5. QED
    BY <2>1, <2>2, <2>4, <1>1
<1>5. CASE s = Entries - 1
  <2>1. s \notin Table /\ s - HigherHalf \notin Table
    BY <1>5, Sizes DEF Table
  <2>2. directory[s] = PdFrame /\ PdFrame # NotPresent
    BY <1>1, <1>5, <2>1, PagingAssumption DEF SlotLeadsTo, NotPresent
  <2>3. Translate(s, e) = directory[e]
    BY <2>2 DEF Translate, TableAt
  <2>4. QED
    BY <2>1, <2>3, <1>1, <1>5
<1>6. CASE s \notin Table /\ s - HigherHalf \notin Table /\ s # Entries - 1
  BY <1>1, <1>6 DEF SlotLeadsTo, Translate
<1>7. QED
  BY <1>3, <1>4, <1>5, <1>6

LEMMA WindowsFollow == PagingInvariant => WindowsAgree
<1> SUFFICES ASSUME PagingInvariant, paging, NEW t \in Table, NEW e \in Slot
             PROVE  /\ Translate(t, e) = t * Entries + e
                    /\ Translate(HigherHalf + t, e) = t * Entries + e
  BY DEF WindowsAgree
<1>1. t \in Slot
  BY Sizes
<1>2. PICK s : s = HigherHalf + t
  OBVIOUS
<1>3. s \in Slot /\ s - HigherHalf = t
  BY <1>2, Sizes DEF Slot, Table
<1>4. Translate(t, e) = t * Entries + e
  BY <1>1, Walk
<1>5. Translate(s, e) = t * Entries + e
  BY <1>3, Walk
<1>6. QED
  BY <1>2, <1>4, <1>5

(* Both windows lead to the same frames, in order, from the first on: once *)
(* paging is on, an address in low memory stays what it was and is the     *)
(* same byte as its image in the higher half.                              *)
THEOREM WindowsLeadToTheSame == PagingSpec => []WindowsAgree
BY PagingInvariance, WindowsFollow, PTL

(* Every page outside the two windows and the last slot faults.            *)
THEOREM OnlyWindowsMapped == PagingSpec => []NothingElseMapped
<1>1. PagingInvariant => NothingElseMapped
  BY Walk DEF NothingElseMapped
<1>2. QED
  BY <1>1, PagingInvariance, PTL

(* The pages of the last slot are the tables themselves and PD.            *)
THEOREM TablesAreVisible == PagingSpec => []TablesShow
<1>1. PagingInvariant => TablesShow
  <2> SUFFICES ASSUME PagingInvariant, paging
               PROVE  TablesShow
    BY DEF TablesShow
  <2>1. \A x \in Slot : Translate(Entries - 1, x) = SlotLeadsTo(x)
    BY Sizes, Walk
  <2>2. SlotLeadsTo(Entries - 1) = PdFrame
    BY Sizes DEF SlotLeadsTo, Table
  <2>3. ASSUME NEW t \in Table
        PROVE  /\ SlotLeadsTo(t) = FirstTable + t
               /\ SlotLeadsTo(HigherHalf + t) = FirstTable + t
    BY Sizes, PagingAssumption DEF SlotLeadsTo, Table
  <2>4. QED
    BY <2>1, <2>2, <2>3, Sizes DEF TablesShow
<1>2. QED
  BY <1>1, PagingInvariance, PTL

=============================================================================

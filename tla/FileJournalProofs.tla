------------------------- MODULE FileJournalProofs -------------------------
(***************************************************************************)
(* Proofs about FileJournal, for every number, size and order of records:  *)
(* the file stays within its budget and keeps its header, its contents are *)
(* what the engine knows, and no power failure loses an appended record.   *)
(***************************************************************************)
EXTENDS FileJournal, TLAPS, WellFoundedInduction

-----------------------------------------------------------------------------
(* The scan of a file.                                                     *)

\* Induction over the naturals, for a set of them.
LEMMA NaturalSetInduction ==
  ASSUME NEW S, S \subseteq Nat, 0 \in S, \A n \in S : n + 1 \in S
  PROVE  S = Nat
<1> SUFFICES ASSUME Nat \ S # {} PROVE FALSE
  BY Zenon
<1> DEFINE R == OpToRel(<, Nat)
<1>1. \A x, y \in Nat : <<x, y>> \in R <=> x < y
  BY Zenon DEF OpToRel
<1>2. IsWellFoundedOn(R, Nat)
  BY NatLessThanWellFounded, Zenon DEF OpToRel
<1> HIDE DEF R
<1>3. PICK x \in Nat \ S : \A y \in Nat \ S : ~ (<<y, x>> \in R)
  BY <1>2, WFMin, Zenon
<1>4. x # 0 /\ x - 1 \in Nat /\ x - 1 < x /\ (x - 1) + 1 = x
  BY <1>3
<1>5. x - 1 \in S
  BY <1>1, <1>3, <1>4, Zenon
<1> QED BY <1>3, <1>4, <1>5

\* f is the scan of the cells, call by call of next_record, for n calls.
Scans(f, n, cells) ==
  f = [k \in 0..n |-> IF k = 0 THEN [records |-> <<>>, offset |-> 0]
                      ELSE next_record(cells, f[k - 1])]

\* The equation of a scan has a solution.
LEMMA ScanExists ==
  ASSUME NEW cells, NEW n \in Nat
  PROVE  \E f : Scans(f, n, cells)
<1> DEFINE S == {m \in Nat : \E f : Scans(f, m, cells)}
           start == [records |-> <<>>, offset |-> 0]
<1>1. 0 \in S
  <2> DEFINE first == [k \in 0..0 |-> start]
  <2> HIDE DEF start
  <2>1. first = [k \in 0..0 |-> IF k = 0 THEN start ELSE next_record(cells, first[k - 1])]
    BY SMT
  <2>2. Scans(first, 0, cells)
    BY <2>1, Zenon DEF Scans, start
  <2> QED BY <2>2, Zenon
<1>2. ASSUME NEW m \in S PROVE m + 1 \in S
  <2>1. m \in Nat
    BY <1>2
  <2>2. PICK f : Scans(f, m, cells)
    BY <1>2
  <2> DEFINE g == [k \in 0..(m + 1) |-> IF k = m + 1 THEN next_record(cells, f[m]) ELSE f[k]]
  <2>3. \A k \in 0..m : f[k] = IF k = 0 THEN start ELSE next_record(cells, f[k - 1])
    BY <2>1, <2>2, Zenon DEF Scans
  <2> HIDE DEF start
  <2>4. ASSUME NEW k \in 0..(m + 1)
        PROVE  g[k] = IF k = 0 THEN start ELSE next_record(cells, g[k - 1])
    <3>1. CASE k = 0
      BY <2>1, <2>3, <3>1
    <3>2. CASE k # 0
      <4>1. k - 1 \in 0..m /\ k - 1 \in 0..(m + 1) /\ k - 1 # m + 1
        BY <2>1, <3>2
      <4>2. g[k - 1] = f[k - 1]
        BY <4>1, Zenon
      <4>3. CASE k = m + 1
        <5>1. k - 1 = m
          BY <2>1, <4>3
        <5>2. g[k] = next_record(cells, f[m])
          BY <4>3, Zenon
        <5> QED BY <3>2, <4>2, <5>1, <5>2, Zenon
      <4>4. CASE k # m + 1
        <5>1. k \in 0..m
          BY <2>1, <4>4
        <5>2. g[k] = f[k]
          BY <4>4, Zenon
        <5> QED BY <2>3, <3>2, <4>2, <5>1, <5>2, Zenon
      <4> QED BY <4>3, <4>4, Zenon
    <3> QED BY <3>1, <3>2, Zenon
  <2>5. g = [k \in 0..(m + 1) |-> g[k]]
    BY Zenon
  <2> HIDE DEF g
  <2>6. Scans(g, m + 1, cells)
    BY <2>4, <2>5, Zenon DEF Scans, start
  <2> QED BY <2>1, <2>6
<1> HIDE DEF S
<1>3. S = Nat
  BY <1>1, <1>2, NaturalSetInduction, Zenon DEF S
<1> QED BY <1>3, Zenon DEF S

\* A replay is a scan of as many calls as the file has cells.
LEMMA ReplayScans ==
  ASSUME NEW cells, Len(cells) \in Nat
  PROVE  \E f : Scans(f, Len(cells), cells) /\ replay(cells) = f[Len(cells)]
<1> DEFINE chosen == CHOOSE f : Scans(f, Len(cells), cells)
<1>1. Scans(chosen, Len(cells), cells)
  BY ScanExists, Zenon
<1>2. replay(cells) = chosen[Len(cells)]
  BY Zenon DEF replay, Scans
<1> QED BY <1>1, <1>2, Zenon

\* What the calls of a scan return, one by one.
LEMMA ScanSteps ==
  ASSUME NEW cells, NEW n \in Nat, NEW f, Scans(f, n, cells)
  PROVE  /\ f[0] = [records |-> <<>>, offset |-> 0]
         /\ \A k \in 0..n : k + 1 <= n => f[k + 1] = next_record(cells, f[k])
<1>1. \A k \in 0..n : f[k] = IF k = 0 THEN [records |-> <<>>, offset |-> 0]
                             ELSE next_record(cells, f[k - 1])
  BY Zenon DEF Scans
<1>2. f[0] = [records |-> <<>>, offset |-> 0]
  <2>1. 0 \in 0..n
    OBVIOUS
  <2> QED BY <1>1, <2>1, Zenon
<1>3. ASSUME NEW k \in 0..n, k + 1 <= n PROVE f[k + 1] = next_record(cells, f[k])
  <2>1. k + 1 \in 0..n /\ k + 1 # 0 /\ (k + 1) - 1 = k
    BY <1>3
  <2> QED BY <1>1, <2>1, Zenon
<1> QED BY <1>2, <1>3

-----------------------------------------------------------------------------
(* Records laid out in cells.                                              *)

Cell == [record : Nat, part : Nat, size : Nat]

\* Cells of records before the n-th, each of them of a size.
Sound(cells, n) ==
  /\ cells \in Seq(Cell)
  /\ \A p \in DOMAIN cells : cells[p].record < n /\ (cells[p].part # 0 => cells[p].size # 0)

\* The file begins with the records rs: the k-th of them ends at cell at[k].
Laid(cells, at, rs) ==
  /\ rs \in Seq(Nat) /\ at \in [0..Len(rs) -> Nat] /\ at[0] = 0
  /\ \A k \in 1..Len(rs) : at[k - 1] < at[k] /\ at[k] <= Len(cells)
  /\ \A k \in 1..Len(rs) : \A p \in (at[k - 1] + 1)..at[k] :
       cells[p] = [record |-> rs[k], part |-> p - at[k - 1], size |-> at[k] - at[k - 1]]

\* The records rs and their ends at are the first of more and ends.
Begins(rs, at, more, ends) ==
  /\ Len(rs) <= Len(more)
  /\ \A k \in 1..Len(rs) : more[k] = rs[k]
  /\ \A k \in 0..Len(rs) : ends[k] = at[k]

\* No record at all is a layout of every file.
LEMMA NothingLaid ==
  ASSUME NEW cells, NEW at, at = [k \in 0..0 |-> 0]
  PROVE  Laid(cells, at, <<>>)
BY DEF Laid

\* The types in a layout.
LEMMA LaidTypes ==
  ASSUME NEW cells, NEW at, NEW rs, Laid(cells, at, rs)
  PROVE  rs \in Seq(Nat) /\ Len(rs) \in Nat /\ at \in [0..Len(rs) -> Nat] /\ at[0] = 0
<1>1. rs \in Seq(Nat) /\ at \in [0..Len(rs) -> Nat] /\ at[0] = 0
  BY Zenon DEF Laid
<1> QED BY <1>1

\* The ends of records are in order, and a record has a cell.
LEMMA EndsGrow ==
  ASSUME NEW cells, cells \in Seq(Cell), NEW at, NEW rs, Laid(cells, at, rs)
  PROVE  /\ \A j, k \in 0..Len(rs) : j <= k => at[j] <= at[k]
         /\ at[Len(rs)] \in Nat /\ at[Len(rs)] <= Len(cells)
         /\ Len(rs) <= at[Len(rs)]
<1> DEFINE S == {k \in Nat : k <= Len(rs) =>
                   k <= at[k] /\ at[k] <= Len(cells) /\ \A j \in 0..k : at[j] <= at[k]}
<1>1. Len(rs) \in Nat /\ Len(cells) \in Nat /\ at \in [0..Len(rs) -> Nat]
  BY LaidTypes
<1>2. 0 \in S
  BY <1>1 DEF Laid
<1>3. ASSUME NEW k \in S PROVE k + 1 \in S
  <2>1. k \in Nat
    BY <1>3
  <2> SUFFICES ASSUME k + 1 <= Len(rs)
               PROVE  /\ k + 1 <= at[k + 1] /\ at[k + 1] <= Len(cells)
                      /\ \A j \in 0..(k + 1) : at[j] <= at[k + 1]
    BY <2>1
  <2>2. k <= at[k] /\ \A j \in 0..k : at[j] <= at[k]
    BY <1>1, <1>3, <2>1
  <2>3. k + 1 \in 1..Len(rs) /\ (k + 1) - 1 = k /\ k \in 0..Len(rs)
    BY <1>1, <2>1
  <2>4. at[k] < at[k + 1] /\ at[k + 1] <= Len(cells)
    BY <2>3 DEF Laid
  <2>5. at[k] \in Nat /\ at[k + 1] \in Nat /\ \A j \in 0..(k + 1) : at[j] \in Nat
    BY <1>1, <2>3
  <2> QED BY <2>1, <2>2, <2>4, <2>5
<1> HIDE DEF S
<1>4. S = Nat
  BY <1>2, <1>3, NaturalSetInduction, Zenon DEF S
<1>5. \A k \in 0..Len(rs) :
        k <= at[k] /\ at[k] <= Len(cells) /\ \A j \in 0..k : at[j] <= at[k]
  BY <1>1, <1>4 DEF S
<1> QED BY <1>1, <1>5 DEF Laid

\* next_record finds a record of a layout whole.
LEMMA LaidIsWhole ==
  ASSUME NEW cells, cells \in Seq(Cell), NEW at, NEW rs, Laid(cells, at, rs),
         NEW k \in 0..Len(rs), k + 1 <= Len(rs)
  PROVE  LET p == at[k] + 1 IN
         /\ p <= Len(cells) /\ whole_at(cells, p)
         /\ cells[p].record = rs[k + 1] /\ at[k] + cells[p].size = at[k + 1]
<1> DEFINE p == at[k] + 1
<1>0. Len(rs) \in Nat /\ Len(cells) \in Nat /\ at \in [0..Len(rs) -> Nat]
  BY LaidTypes
<1>1. k \in Nat /\ k + 1 \in 1..Len(rs) /\ (k + 1) - 1 = k
  BY <1>0
<1>2. at[k] \in Nat /\ at[k + 1] \in Nat
  BY <1>0, <1>1
<1>3. at[k] < at[k + 1] /\ at[k + 1] <= Len(cells)
  BY <1>1 DEF Laid
<1>4. \A q \in (at[k] + 1)..at[k + 1] :
        cells[q] = [record |-> rs[k + 1], part |-> q - at[k], size |-> at[k + 1] - at[k]]
  BY <1>1 DEF Laid
<1>5. p \in (at[k] + 1)..at[k + 1] /\ p - at[k] = 1
  BY <1>2, <1>3
<1>6. cells[p] = [record |-> rs[k + 1], part |-> 1, size |-> at[k + 1] - at[k]]
  BY <1>4, <1>5, Zenon
<1>7. cells[p].part = 1 /\ cells[p].record = rs[k + 1] /\ cells[p].size = at[k + 1] - at[k]
  BY <1>6
<1> HIDE DEF p
<1>8. ASSUME NEW q \in 1..cells[p].size
      PROVE  cells[p + q - 1] = [cells[p] EXCEPT !.part = q]
  <2>1. p + q - 1 \in (at[k] + 1)..at[k + 1] /\ (p + q - 1) - at[k] = q
    <3>1. q \in 1..(at[k + 1] - at[k])
      BY <1>7, Zenon
    <3> QED BY <1>2, <3>1, SMTT(30) DEF p
  <2>2. cells[p + q - 1] = [record |-> rs[k + 1], part |-> q, size |-> at[k + 1] - at[k]]
    BY <1>4, <2>1, Zenon
  <2>3. [cells[p] EXCEPT !.part = q] = [record |-> rs[k + 1], part |-> q, size |-> at[k + 1] - at[k]]
    BY <1>6
  <2> QED BY <2>2, <2>3, Zenon
<1>9. p <= Len(cells) /\ p + cells[p].size - 1 <= Len(cells) /\ at[k] + cells[p].size = at[k + 1]
  BY <1>0, <1>2, <1>3, <1>7, SMTT(30) DEF p
<1> QED BY <1>7, <1>8, <1>9, Zenon DEF whole_at, p

\* The place of cell q in a record of s cells behind cell a.
LEMMA PlaceInRecord ==
  ASSUME NEW a \in Nat, NEW s \in Nat, NEW q \in (a + 1)..(a + s)
  PROVE  q - a \in 1..s /\ (a + 1) + (q - a) - 1 = q /\ (a + s) - a = s
OBVIOUS

\* A whole record behind a layout makes the layout longer by one.
LEMMA LaidLonger ==
  ASSUME NEW n, NEW cells, Sound(cells, n), NEW at, NEW rs, Laid(cells, at, rs),
         at[Len(rs)] + 1 <= Len(cells), whole_at(cells, at[Len(rs)] + 1)
  PROVE  LET cell == cells[at[Len(rs)] + 1] IN
         Laid(cells, [k \in 0..(Len(rs) + 1) |-> IF k = Len(rs) + 1 THEN at[Len(rs)] + cell.size ELSE at[k]],
              Append(rs, cell.record))
<1> DEFINE l    == Len(rs)
           p    == at[l] + 1
           cell == cells[p]
           ends == [k \in 0..(l + 1) |-> IF k = l + 1 THEN at[l] + cell.size ELSE at[k]]
           more == Append(rs, cell.record)
<1>0. rs \in Seq(Nat) /\ at \in [0..Len(rs) -> Nat] /\ at[0] = 0 /\ cells \in Seq(Cell)
  BY LaidTypes DEF Sound
<1>1. l \in Nat /\ at[l] \in Nat /\ cells \in Seq(Cell) /\ Len(cells) \in Nat
  BY <1>0
<1>2. p \in DOMAIN cells /\ cell \in Cell
  BY <1>1
<1>3. cell.part = 1 /\ p + cell.size - 1 <= Len(cells)
      /\ \A k \in 1..cell.size : cells[p + k - 1] = [cell EXCEPT !.part = k]
  BY Zenon DEF whole_at
<1>4. cell.size \in Nat /\ cell.size # 0 /\ cell.record \in Nat
  BY <1>2, <1>3 DEF Sound, Cell
<1>5. more \in Seq(Nat) /\ Len(more) = l + 1 /\ more[l + 1] = cell.record
      /\ \A k \in 1..l : more[k] = rs[k]
  BY <1>0, <1>1, <1>4
<1>6. ends \in [0..(l + 1) -> Nat] /\ ends[l + 1] = at[l] + cell.size /\ \A k \in 0..l : ends[k] = at[k]
  BY <1>0, <1>1, <1>4
<1>7. ends[0] = 0
  BY <1>0, <1>1, <1>6
<1> HIDE DEF ends, more, cell
<1>8. ASSUME NEW k \in 1..(l + 1)
      PROVE  /\ ends[k - 1] < ends[k] /\ ends[k] <= Len(cells)
             /\ \A q \in (ends[k - 1] + 1)..ends[k] :
                  cells[q] = [record |-> more[k], part |-> q - ends[k - 1], size |-> ends[k] - ends[k - 1]]
  <2>1. CASE k = l + 1
    <3>1. ends[k - 1] = at[l] /\ ends[k] = at[l] + cell.size /\ more[k] = cell.record
      BY <1>1, <1>5, <1>6, <2>1
    <3>2. ends[k - 1] < ends[k] /\ ends[k] <= Len(cells)
      <4>1. at[l] < at[l] + cell.size /\ at[l] + cell.size <= Len(cells)
        BY <1>1, <1>3, <1>4, SMTT(30)
      <4> QED BY <3>1, <4>1, Zenon
    <3>3. ASSUME NEW q \in (ends[k - 1] + 1)..ends[k]
          PROVE  cells[q] = [record |-> more[k], part |-> q - ends[k - 1], size |-> ends[k] - ends[k - 1]]
      <4>1. q - at[l] \in 1..cell.size /\ p + (q - at[l]) - 1 = q /\ ends[k] - ends[k - 1] = cell.size
        <5>1. q \in (at[l] + 1)..(at[l] + cell.size)
          BY <3>1, Zenon
        <5>2. q - at[l] \in 1..cell.size /\ p + (q - at[l]) - 1 = q /\ (at[l] + cell.size) - at[l] = cell.size
          BY <1>1, <1>4, <5>1, PlaceInRecord, Zenon
        <5> QED BY <3>1, <5>2, Zenon
      <4>2. cells[q] = [cell EXCEPT !.part = q - at[l]]
        BY <1>3, <4>1, Zenon
      <4>3. [cell EXCEPT !.part = q - at[l]] = [record |-> cell.record, part |-> q - at[l], size |-> cell.size]
        BY <1>2 DEF Cell
      <4> QED BY <3>1, <4>1, <4>2, <4>3, Zenon
    <3> QED BY <3>2, <3>3, Zenon
  <2>2. CASE k # l + 1
    <3>1. k \in 1..l /\ k \in 0..l /\ k - 1 \in 0..l
      BY <1>1, <2>2
    <3>2. ends[k - 1] = at[k - 1] /\ ends[k] = at[k] /\ more[k] = rs[k]
      BY <1>5, <1>6, <3>1, Zenon
    <3>3. /\ at[k - 1] < at[k] /\ at[k] <= Len(cells)
          /\ \A q \in (at[k - 1] + 1)..at[k] :
               cells[q] = [record |-> rs[k], part |-> q - at[k - 1], size |-> at[k] - at[k - 1]]
      BY <3>1, Zenon DEF Laid
    <3> QED BY <3>2, <3>3, Zenon
  <2> QED BY <2>1, <2>2, Zenon
<1>9. Laid(cells, ends, more)
  BY <1>5, <1>6, <1>7, <1>8, Zenon DEF Laid
<1> QED BY <1>9, Zenon DEF ends, more, cell

\* Two sequences with the same elements.
LEMMA SameRecords ==
  ASSUME NEW s \in Seq(Nat), NEW t \in Seq(Nat), Len(s) = Len(t), \A k \in 1..Len(t) : s[k] = t[k]
  PROVE  s = t
BY SMTT(30)

\* The scan has read the first k records of a layout.
Scanned(scan, at, rs, k) ==
  /\ scan.offset = at[k] /\ scan.records \in Seq(Nat) /\ Len(scan.records) = k
  /\ \A j \in 1..k : scan.records[j] = rs[j]

\* A scan reads the records of a layout, one with each call.
LEMMA LaidIsScanned ==
  ASSUME NEW cells, cells \in Seq(Cell), NEW at, NEW rs, Laid(cells, at, rs),
         NEW n \in Nat, NEW f, Scans(f, n, cells), Len(rs) <= n
  PROVE  \A k \in 0..Len(rs) : Scanned(f[k], at, rs, k)
<1> DEFINE S == {k \in Nat : k <= Len(rs) => Scanned(f[k], at, rs, k)}
<1>1. rs \in Seq(Nat) /\ Len(rs) \in Nat /\ at \in [0..Len(rs) -> Nat] /\ at[0] = 0
  BY LaidTypes
<1>2. 0 \in S
  <2>1. f[0] = [records |-> <<>>, offset |-> 0]
    BY ScanSteps, Zenon
  <2>2. f[0].records = <<>> /\ f[0].offset = 0
    BY <2>1
  <2>3. Scanned(f[0], at, rs, 0)
    BY <1>1, <2>2 DEF Scanned
  <2> QED BY <2>3
<1>3. ASSUME NEW k \in S PROVE k + 1 \in S
  <2>1. k \in Nat /\ k + 1 \in Nat
    BY <1>3
  <2> SUFFICES ASSUME k + 1 <= Len(rs) PROVE Scanned(f[k + 1], at, rs, k + 1)
    BY <2>1
  <2>2. k <= Len(rs) /\ k \in 0..Len(rs) /\ k \in 0..n /\ k + 1 <= n
    BY <1>1, <2>1
  <2>3. Scanned(f[k], at, rs, k)
    BY <1>3, <2>2
  <2> DEFINE p == at[k] + 1
  <2>4. p <= Len(cells) /\ whole_at(cells, p)
        /\ cells[p].record = rs[k + 1] /\ at[k] + cells[p].size = at[k + 1]
    BY <2>2, LaidIsWhole
  <2>5. f[k + 1] = next_record(cells, f[k])
    BY <2>2, ScanSteps, Zenon
  <2>6. next_record(cells, f[k]) =
          [records |-> Append(f[k].records, cells[p].record), offset |-> f[k].offset + cells[p].size]
    BY <2>3, <2>4, Zenon DEF next_record, Scanned
  <2> HIDE DEF p
  <2>7. f[k + 1].records = Append(f[k].records, rs[k + 1]) /\ f[k + 1].offset = at[k + 1]
    <3>1. f[k + 1] = [records |-> Append(f[k].records, rs[k + 1]), offset |-> at[k + 1]]
      BY <2>3, <2>4, <2>5, <2>6, Zenon DEF Scanned
    <3> QED BY <3>1
  <2>8. rs[k + 1] \in Nat /\ f[k].records \in Seq(Nat) /\ Len(f[k].records) = k
        /\ \A j \in 1..k : f[k].records[j] = rs[j]
    BY <1>1, <2>1, <2>3 DEF Scanned
  <2> QED BY <2>1, <2>7, <2>8, SMTT(30) DEF Scanned
<1> HIDE DEF S
<1>4. S = Nat
  BY <1>2, <1>3, NaturalSetInduction, Zenon DEF S
<1>5. \A k \in 0..Len(rs) : k \in Nat /\ k <= Len(rs)
  BY <1>1
<1> QED BY <1>4, <1>5, Zenon DEF S

\* The scan has read a layout that begins with rs.
Reads(scan, cells, at, rs) ==
  \E ends : /\ Laid(cells, ends, scan.records) /\ ends[Len(scan.records)] = scan.offset
            /\ Begins(rs, at, scan.records, ends)

\* A call of next_record leaves a layout, the same or longer by one.
LEMMA ScanReads ==
  ASSUME NEW n, NEW cells, Sound(cells, n), NEW at, NEW rs, rs \in Seq(Nat),
         NEW scan, Reads(scan, cells, at, rs)
  PROVE  Reads(next_record(cells, scan), cells, at, rs)
<1> DEFINE p == scan.offset + 1
<1>1. PICK ends : /\ Laid(cells, ends, scan.records) /\ ends[Len(scan.records)] = scan.offset
                  /\ Begins(rs, at, scan.records, ends)
  BY Zenon DEF Reads
<1>2. CASE p <= Len(cells) /\ whole_at(cells, p)
  <2> DEFINE cell == cells[p]
             l    == Len(scan.records)
             more == Append(scan.records, cell.record)
             then == [k \in 0..(l + 1) |-> IF k = l + 1 THEN ends[l] + cell.size ELSE ends[k]]
  <2>1. Laid(cells, then, more)
    <3>1. ends[l] + 1 = p
      BY <1>1, Zenon
    <3>2. ends[l] + 1 <= Len(cells) /\ whole_at(cells, ends[l] + 1)
      BY <1>2, <3>1, Zenon
    <3> QED BY <1>1, <3>1, <3>2, LaidLonger, Zenon
  <2>2. next_record(cells, scan) = [records |-> more, offset |-> scan.offset + cell.size]
    BY <1>2, Zenon DEF next_record
  <2> HIDE DEF more, cell
  <2>3. next_record(cells, scan).records = more /\ next_record(cells, scan).offset = scan.offset + cell.size
    BY <2>2
  <2>4. more \in Seq(Nat) /\ scan.records \in Seq(Nat) /\ l \in Nat
    BY <1>1, <2>1, LaidTypes, Zenon
  <2>5. Len(more) = l + 1 /\ \A k \in 1..l : more[k] = scan.records[k]
    BY <2>4 DEF more
  <2>6. then[l + 1] = scan.offset + cell.size /\ \A k \in 0..l : then[k] = ends[k]
    BY <1>1, <2>4
  <2> HIDE DEF then
  <2>7. Begins(rs, at, more, then)
    <3>1. Len(rs) \in Nat /\ Len(rs) <= l
      BY <1>1 DEF Begins
    <3>2. (\A k \in 1..Len(rs) : k \in 1..l) /\ (\A k \in 0..Len(rs) : k \in 0..l) /\ Len(rs) <= l + 1
      BY <2>4, <3>1
    <3> QED BY <1>1, <2>5, <2>6, <3>2, Zenon DEF Begins
  <2> QED BY <2>1, <2>3, <2>5, <2>6, <2>7, Zenon DEF Reads
<1>3. CASE ~ (p <= Len(cells) /\ whole_at(cells, p))
  <2>1. next_record(cells, scan) = scan
    BY <1>3, Zenon DEF next_record
  <2> QED BY <2>1, Zenon
<1> QED BY <1>2, <1>3, Zenon

(***************************************************************************)
(* What next_record finds in a file that begins with the records rs: those *)
(* and perhaps more behind them, and it stops where the last of them ends. *)
(***************************************************************************)
LEMMA ReplayReads ==
  ASSUME NEW n, NEW cells, Sound(cells, n), NEW at, NEW rs, Laid(cells, at, rs)
  PROVE  Reads(replay(cells), cells, at, rs)
<1> DEFINE l == Len(rs)
           m == Len(cells)
<1>1. cells \in Seq(Cell) /\ m \in Nat /\ rs \in Seq(Nat) /\ l \in Nat
  BY LaidTypes DEF Sound
<1>2. l <= m
  <2>1. at[l] \in Nat /\ at[l] <= m /\ l <= at[l]
    BY <1>1, EndsGrow, Zenon
  <2> QED BY <1>1, <2>1
<1>3. PICK f : Scans(f, m, cells) /\ replay(cells) = f[m]
  BY <1>1, ReplayScans, Zenon
<1>4. Scanned(f[l], at, rs, l)
  BY <1>1, <1>2, <1>3, LaidIsScanned
<1>5. f[l].records = rs /\ f[l].offset = at[l]
  <2>1. f[l].offset = at[l] /\ f[l].records \in Seq(Nat) /\ Len(f[l].records) = l
        /\ \A j \in 1..l : f[l].records[j] = rs[j]
    BY <1>4, Zenon DEF Scanned
  <2> QED BY <1>1, <2>1, SameRecords, Zenon
<1>6. Reads(f[l], cells, at, rs)
  <2>1. Begins(rs, at, rs, at)
    BY <1>1 DEF Begins
  <2> QED BY <1>5, <2>1, Zenon DEF Reads
<1> DEFINE S == {k \in Nat : l + k <= m => Reads(f[l + k], cells, at, rs)}
<1>7. 0 \in S
  <2>1. l + 0 = l
    BY <1>1
  <2> QED BY <1>6, <2>1, Zenon
<1>8. ASSUME NEW k \in S PROVE k + 1 \in S
  <2>1. k \in Nat /\ k + 1 \in Nat /\ l + (k + 1) = (l + k) + 1
    BY <1>1, <1>8
  <2> SUFFICES ASSUME (l + k) + 1 <= m PROVE Reads(f[(l + k) + 1], cells, at, rs)
    BY <2>1, Zenon
  <2>2. l + k <= m /\ l + k \in 0..m
    BY <1>1, <2>1
  <2>3. Reads(f[l + k], cells, at, rs)
    BY <1>8, <2>2, Zenon
  <2>4. f[(l + k) + 1] = next_record(cells, f[l + k])
    <3>1. \A j \in 0..m : j + 1 <= m => f[j + 1] = next_record(cells, f[j])
      <4>1. m \in Nat /\ Scans(f, m, cells)
        BY <1>1, <1>3, Zenon
      <4> HIDE DEF m
      <4> QED BY <4>1, ScanSteps
    <3> QED BY <2>2, <3>1, Zenon
  <2>5. Reads(next_record(cells, f[l + k]), cells, at, rs)
    BY <1>1, <2>3, ScanReads, Zenon
  <2> QED BY <2>4, <2>5, Zenon
<1> HIDE DEF S
<1>9. S = Nat
  BY <1>7, <1>8, NaturalSetInduction, Zenon DEF S
<1>10. m - l \in Nat /\ l + (m - l) = m /\ l + (m - l) <= m
  BY <1>1, <1>2
<1>11. Reads(f[l + (m - l)], cells, at, rs)
  BY <1>9, <1>10, Zenon DEF S
<1> QED BY <1>3, <1>10, <1>11, Zenon

-----------------------------------------------------------------------------
(* Writes and power failures.                                              *)

\* A layout stays where its cells do.
LEMMA LaidStays ==
  ASSUME NEW cells, cells \in Seq(Cell), NEW at, NEW rs, Laid(cells, at, rs),
         NEW new, new \in Seq(Cell), at[Len(rs)] <= Len(new),
         \A p \in 1..at[Len(rs)] : new[p] = cells[p]
  PROVE  Laid(new, at, rs)
<1> DEFINE l == Len(rs)
<1>1. rs \in Seq(Nat) /\ l \in Nat /\ at \in [0..l -> Nat] /\ at[0] = 0
  BY LaidTypes
<1>2. at[l] \in Nat /\ \A k \in 0..l : at[k] \in Nat /\ at[k] <= at[l]
  <2>1. \A j, k \in 0..l : j <= k => at[j] <= at[k]
    BY EndsGrow, Zenon
  <2>2. l \in 0..l /\ \A k \in 0..l : k <= l
    BY <1>1
  <2>3. \A k \in 0..l : at[k] \in Nat
    BY <1>1, Zenon
  <2> QED BY <2>1, <2>2, <2>3, Zenon
<1>3. ASSUME NEW k \in 1..l
      PROVE  /\ at[k - 1] < at[k] /\ at[k] <= Len(new)
             /\ \A p \in (at[k - 1] + 1)..at[k] :
                  new[p] = [record |-> rs[k], part |-> p - at[k - 1], size |-> at[k] - at[k - 1]]
  <2>1. k \in 0..l /\ k - 1 \in 0..l
    BY <1>1
  <2>2. at[k - 1] \in Nat /\ at[k] \in Nat /\ at[k] <= at[l]
    BY <1>2, <2>1, Zenon
  <2>3. at[k - 1] < at[k] /\ \A p \in (at[k - 1] + 1)..at[k] :
          cells[p] = [record |-> rs[k], part |-> p - at[k - 1], size |-> at[k] - at[k - 1]]
    BY Zenon DEF Laid
  <2>4. at[k] <= Len(new) /\ \A p \in (at[k - 1] + 1)..at[k] : p \in 1..at[l]
    BY <1>2, <2>2
  <2> QED BY <2>3, <2>4, Zenon
<1> QED BY <1>1, <1>3, Zenon DEF Laid

\* The length of a file in which something was written that ends at a cell.
Extent(cells, end) == IF end > Len(cells) THEN end ELSE Len(cells)

\* new is cells with the first m cells of record n, of a size, written at an offset.
Overwritten(cells, new, offset, n, size, m) ==
  /\ Sound(new, n + 1)
  /\ Len(new) = Extent(cells, offset + m)
  /\ \A p \in 1..offset : new[p] = cells[p]
  /\ \A p \in (offset + 1)..(offset + m) :
       new[p] = [record |-> n, part |-> p - offset, size |-> size]
  /\ \A p \in DOMAIN new : p > offset + m => p \in DOMAIN cells /\ new[p] = cells[p]

\* new is sound when record n is in it too, and has the length that it should.
Grown(cells, new, n, end) == Sound(new, n + 1) /\ Len(new) = Extent(cells, end)

\* The cells that a write leaves, also one behind the end of the file.
LEMMA WriteSound ==
  ASSUME NEW n \in Nat \ {0}, NEW cells, Sound(cells, n), NEW offset \in Nat,
         NEW size \in Nat \ {0}, NEW m \in 0..size
  PROVE  Grown(cells, written(cells, offset, encode(n, size), m), n, offset + m)
<1> DEFINE top == Extent(cells, offset + m)
           new == written(cells, offset, encode(n, size), m)
           fresh(p) == [record |-> n, part |-> p - offset, size |-> size]
           good(cell) == cell \in Cell /\ cell.record < n + 1 /\ (cell.part # 0 => cell.size # 0)
<1>1. cells \in Seq(Cell) /\ Len(cells) \in Nat /\ top \in Nat /\ DOMAIN cells = 1..Len(cells)
  BY DEF Sound, Extent
<1>2. new = [p \in 1..top |-> IF p > offset /\ p <= offset + m THEN encode(n, size)[p - offset]
                              ELSE IF p <= Len(cells) THEN cells[p] ELSE Zero]
  BY Zenon DEF written, Extent
<1> HIDE DEF new
<1>3. ASSUME NEW p \in 1..top PROVE good(new[p])
  <2>1. CASE p > offset /\ p <= offset + m
    <3>1. p - offset \in 1..size
      BY <1>1, <2>1
    <3>2. new[p] = fresh(p)
      BY <1>2, <2>1, <3>1, Zenon DEF encode
    <3>3. good(fresh(p))
      BY <3>1 DEF Cell
    <3> QED BY <3>2, <3>3, Zenon
  <2>2. CASE ~ (p > offset /\ p <= offset + m) /\ p <= Len(cells)
    <3>1. new[p] = cells[p]
      BY <1>2, <2>2, Zenon
    <3>2. p \in DOMAIN cells /\ cells[p] \in Cell
      BY <1>1, <2>2
    <3>3. cells[p].record < n /\ (cells[p].part # 0 => cells[p].size # 0)
      BY <3>2, Zenon DEF Sound
    <3>4. cells[p].record < n + 1
      BY <3>2, <3>3 DEF Cell
    <3> QED BY <3>1, <3>2, <3>3, <3>4, Zenon
  <2>3. CASE ~ (p > offset /\ p <= offset + m) /\ ~ (p <= Len(cells))
    <3>1. new[p] = Zero
      BY <1>2, <2>3, Zenon
    <3>2. good(Zero)
      BY DEF Zero, Cell
    <3> QED BY <3>1, <3>2, Zenon
  <2> QED BY <2>1, <2>2, <2>3, Zenon
<1>4. new \in Seq(Cell) /\ Len(new) = top /\ DOMAIN new = 1..top
  <2>1. DOMAIN new = 1..top /\ new \in [1..top -> Cell]
    BY <1>2, <1>3, Zenon
  <2> HIDE DEF top
  <2> QED BY <1>1, <2>1
<1>5. Sound(new, n + 1)
  BY <1>3, <1>4, Zenon DEF Sound
<1> QED BY <1>4, <1>5, Zenon DEF new, Grown

\* What a write at or before the end leaves, if it goes through or not.
LEMMA Writes ==
  ASSUME NEW n \in Nat \ {0}, NEW cells, Sound(cells, n), NEW offset \in Nat, offset <= Len(cells),
         NEW size \in Nat \ {0}, NEW m \in 0..size
  PROVE  Overwritten(cells, written(cells, offset, encode(n, size), m), offset, n, size, m)
<1> DEFINE top == Extent(cells, offset + m)
           new == written(cells, offset, encode(n, size), m)
           fresh(p) == [record |-> n, part |-> p - offset, size |-> size]
<1>1. cells \in Seq(Cell) /\ Len(cells) \in Nat /\ top \in Nat /\ DOMAIN cells = 1..Len(cells)
  BY DEF Sound, Extent
<1>2. new = [p \in 1..top |-> IF p > offset /\ p <= offset + m THEN encode(n, size)[p - offset]
                              ELSE IF p <= Len(cells) THEN cells[p] ELSE Zero]
  BY Zenon DEF written, Extent
<1>3. Sound(new, n + 1) /\ Len(new) = top
  <2>1. Grown(cells, new, n, offset + m)
    BY WriteSound, Zenon
  <2> QED BY <2>1, Zenon DEF Grown
<1> HIDE DEF new
<1>4. DOMAIN new = 1..top
  BY <1>2, Zenon
<1>5. ASSUME NEW p \in 1..top, ~ (p > offset /\ p <= offset + m)
      PROVE  p \in DOMAIN cells /\ new[p] = cells[p]
  <2>1. p \in 1..Len(cells) /\ p <= Len(cells)
    BY <1>1, <1>5 DEF Extent
  <2> QED BY <1>1, <1>2, <1>5, <2>1, Zenon
<1>6. ASSUME NEW p \in 1..offset PROVE new[p] = cells[p]
  <2>1. p \in 1..top /\ ~ (p > offset)
    BY <1>1 DEF Extent
  <2> QED BY <1>5, <2>1, Zenon
<1>7. ASSUME NEW p \in (offset + 1)..(offset + m) PROVE new[p] = fresh(p)
  <2>1. p \in 1..top /\ p > offset /\ p <= offset + m /\ p - offset \in 1..size
    BY <1>1 DEF Extent
  <2> QED BY <1>2, <2>1, Zenon DEF encode
<1>8. ASSUME NEW p \in 1..top, p > offset + m PROVE p \in DOMAIN cells /\ new[p] = cells[p]
  <2>1. ~ (p <= offset + m)
    BY <1>1, <1>8
  <2> QED BY <1>5, <2>1, Zenon
<1>9. Overwritten(cells, new, offset, n, size, m)
  BY <1>3, <1>4, <1>6, <1>7, <1>8, Zenon DEF Overwritten
<1> QED BY <1>9, Zenon DEF new

\* What is left behind an offset is of a record that began there or before.
Behind(cells, offset) ==
  \A p \in DOMAIN cells : p > offset => cells[p].part = 0 \/ cells[p].part >= p - offset

\* The records fill the file up to the offset.
LaidTo(cells, offset, rs) == \E at : Laid(cells, at, rs) /\ at[Len(rs)] = offset

\* So they do, and the rest are leftovers.
InHand(cells, offset, rs) == LaidTo(cells, offset, rs) /\ Behind(cells, offset)

\* The offset of a file in hand is within it.
LEMMA OffsetWithin ==
  ASSUME NEW cells, cells \in Seq(Cell), NEW offset, NEW rs, InHand(cells, offset, rs)
  PROVE  offset \in Nat /\ offset <= Len(cells) /\ rs \in Seq(Nat)
<1>1. PICK at : Laid(cells, at, rs) /\ at[Len(rs)] = offset
  BY Zenon DEF InHand, LaidTo
<1> QED BY <1>1, EndsGrow, LaidTypes, Zenon

\* A record that is written at the offset is the next of the layout.
LEMMA LaidByWrite ==
  ASSUME NEW n \in Nat, NEW cells, Sound(cells, n), NEW at, NEW rs, Laid(cells, at, rs),
         NEW size \in Nat \ {0}, NEW new, Overwritten(cells, new, at[Len(rs)], n, size, size)
  PROVE  LaidTo(new, at[Len(rs)] + size, Append(rs, n))
<1> DEFINE l == Len(rs)
           o == at[l]
           p == o + 1
           fresh(q) == [record |-> n, part |-> q, size |-> size]
<1>1. o \in Nat /\ l \in Nat /\ Sound(new, n + 1) /\ new \in Seq(Cell) /\ cells \in Seq(Cell)
  BY EndsGrow, LaidTypes, Zenon DEF Sound, Overwritten
<1>2. Len(new) \in Nat /\ Len(new) >= o + size
  <2>1. Len(new) = Extent(cells, o + size)
    BY Zenon DEF Overwritten
  <2> QED BY <1>1, <2>1 DEF Extent
<1>3. ASSUME NEW q \in 1..size PROVE new[p + q - 1] = fresh(q)
  <2>1. p + q - 1 \in (o + 1)..(o + size) /\ (p + q - 1) - o = q
    BY <1>1, SMTT(30)
  <2>2. new[p + q - 1] = [record |-> n, part |-> (p + q - 1) - o, size |-> size]
    BY <2>1, Zenon DEF Overwritten
  <2> QED BY <2>1, <2>2, Zenon
<1>4. new[p] = fresh(1)
  <2>1. 1 \in 1..size /\ p + 1 - 1 = p
    BY <1>1
  <2> QED BY <1>3, <2>1, Zenon
<1>5. new[p].record = n /\ new[p].part = 1 /\ new[p].size = size
  BY <1>4
<1>6. \A q \in 1..size : fresh(q) = [fresh(1) EXCEPT !.part = q]
  OBVIOUS
<1>7. p + size - 1 <= Len(new) /\ p <= Len(new)
  BY <1>1, <1>2
<1>8. whole_at(new, p)
  <2>1. \A q \in 1..size : new[p + q - 1] = [new[p] EXCEPT !.part = q]
    BY <1>3, <1>4, <1>6, Zenon
  <2> QED BY <1>5, <1>7, <2>1, Zenon DEF whole_at
<1>9. Laid(new, at, rs)
  <2>1. o <= Len(new) /\ \A q \in 1..o : new[q] = cells[q]
    BY <1>1, <1>2 DEF Overwritten
  <2> QED BY <1>1, <2>1, LaidStays, Zenon
<1> DEFINE ends == [k \in 0..(l + 1) |-> IF k = l + 1 THEN o + new[p].size ELSE at[k]]
<1>10. Laid(new, ends, Append(rs, n))
  <2>1. Laid(new, ends, Append(rs, new[p].record))
    BY <1>1, <1>7, <1>8, <1>9, LaidLonger, Zenon
  <2> QED BY <1>5, <2>1, Zenon
<1>11. ends[l + 1] = o + size
  <2>1. l + 1 \in 0..(l + 1)
    BY <1>1
  <2> QED BY <1>5, <2>1, Zenon
<1>12. Len(Append(rs, n)) = l + 1
  BY LaidTypes
<1> QED BY <1>10, <1>11, <1>12, Zenon DEF LaidTo

\* An append that succeeds, and one that fails, leave the file in hand.
LEMMA AppendInHand ==
  ASSUME NEW n \in Nat, NEW cells, Sound(cells, n), NEW offset, NEW rs, InHand(cells, offset, rs),
         NEW size \in Nat \ {0}, NEW new, Overwritten(cells, new, offset, n, size, size)
  PROVE  InHand(new, offset + size, Append(rs, n))
<1>1. PICK at : Laid(cells, at, rs) /\ at[Len(rs)] = offset /\ Behind(cells, offset)
  BY Zenon DEF InHand, LaidTo
<1>2. LaidTo(new, offset + size, Append(rs, n))
  BY <1>1, LaidByWrite, Zenon
<1>3. cells \in Seq(Cell) /\ offset \in Nat /\ rs \in Seq(Nat) /\ new \in Seq(Cell)
  BY OffsetWithin, Zenon DEF Sound, Overwritten
<1>5. ASSUME NEW p \in DOMAIN new, p > offset + size
      PROVE  new[p].part = 0 \/ new[p].part >= p - (offset + size)
  <2>1. p \in DOMAIN cells /\ new[p] = cells[p]
    BY <1>5, Zenon DEF Overwritten
  <2>2. p > offset /\ p \in Nat /\ cells[p] \in Cell
    BY <1>3, <1>5, <2>1
  <2>3. cells[p].part = 0 \/ cells[p].part >= p - offset
    BY <1>1, <2>1, <2>2, Zenon DEF Behind
  <2>4. cells[p].part \in Nat
    BY <2>2 DEF Cell
  <2> QED BY <1>3, <2>1, <2>2, <2>3, <2>4, SMTT(30)
<1>6. Behind(new, offset + size)
  BY <1>5, Zenon DEF Behind
<1> QED BY <1>2, <1>6, Zenon DEF InHand

\* An append that failed leaves the records in hand: what it wrote begins at the offset.
LEMMA FailInHand ==
  ASSUME NEW n \in Nat, NEW cells, Sound(cells, n), NEW offset, NEW rs, InHand(cells, offset, rs),
         NEW size \in Nat \ {0}, NEW m \in 0..size, NEW new, Overwritten(cells, new, offset, n, size, m)
  PROVE  InHand(new, offset, rs)
<1>1. PICK at : Laid(cells, at, rs) /\ at[Len(rs)] = offset /\ Behind(cells, offset)
  BY Zenon DEF InHand, LaidTo
<1>2. cells \in Seq(Cell) /\ offset \in Nat /\ offset <= Len(cells) /\ new \in Seq(Cell)
  BY OffsetWithin, Zenon DEF Sound, Overwritten
<1>3. offset <= Len(new)
  <2>1. Len(new) = Extent(cells, offset + m)
    BY Zenon DEF Overwritten
  <2> QED BY <1>2, <2>1 DEF Extent
<1>4. Laid(new, at, rs)
  BY <1>1, <1>2, <1>3, LaidStays, Zenon DEF Overwritten
<1>5. ASSUME NEW p \in DOMAIN new, p > offset
      PROVE  new[p].part = 0 \/ new[p].part >= p - offset
  <2>1. p \in Nat
    BY <1>2
  <2>2. CASE p > offset + m
    <3>1. p \in DOMAIN cells /\ new[p] = cells[p]
      BY <2>2, Zenon DEF Overwritten
    <3> QED BY <1>1, <1>5, <3>1, Zenon DEF Behind
  <2>3. CASE ~ (p > offset + m)
    <3>1. p \in (offset + 1)..(offset + m)
      BY <1>2, <1>5, <2>1, <2>3
    <3>2. new[p] = [record |-> n, part |-> p - offset, size |-> size]
      BY <3>1, Zenon DEF Overwritten
    <3> QED BY <1>2, <2>1, <3>2
  <2> QED BY <2>2, <2>3, Zenon
<1> QED BY <1>1, <1>4, <1>5, Zenon DEF InHand, LaidTo, Behind

\* A file is cut off behind an offset.
LEMMA CutSound ==
  ASSUME NEW n, NEW cells, Sound(cells, n), NEW offset \in Nat, offset <= Len(cells)
  PROVE  /\ Sound(SubSeq(cells, 1, offset), n) /\ Len(SubSeq(cells, 1, offset)) = offset
         /\ \A p \in 1..offset : SubSeq(cells, 1, offset)[p] = cells[p]
<1> DEFINE new == SubSeq(cells, 1, offset)
<1>1. cells \in Seq(Cell) /\ DOMAIN cells = 1..Len(cells) /\ Len(cells) \in Nat
  BY DEF Sound
<1>2. new \in Seq(Cell) /\ Len(new) = offset /\ DOMAIN new = 1..offset
      /\ \A p \in 1..offset : new[p] = cells[p] /\ p \in DOMAIN cells
  BY <1>1
<1> HIDE DEF new
<1>3. Sound(new, n)
  BY <1>2, Zenon DEF Sound
<1> QED BY <1>2, <1>3, Zenon DEF new

\* A replay and its end_replay leave the file in hand.
LEMMA OpenInHand ==
  ASSUME NEW n, NEW cells, Sound(cells, n)
  PROVE  LET found == replay(cells) IN
         /\ found.offset \in Nat /\ found.offset <= Len(cells)
         /\ InHand(SubSeq(cells, 1, found.offset), found.offset, found.records)
<1> DEFINE found == replay(cells)
           new   == SubSeq(cells, 1, found.offset)
           at    == [k \in 0..0 |-> 0]
<1>1. Reads(found, cells, at, <<>>)
  BY NothingLaid, ReplayReads, Zenon
<1>2. PICK ends : Laid(cells, ends, found.records) /\ ends[Len(found.records)] = found.offset
  BY <1>1, Zenon DEF Reads
<1> HIDE DEF found
<1>3. cells \in Seq(Cell)
  BY Zenon DEF Sound
<1>4. found.offset \in Nat /\ found.offset <= Len(cells)
  BY <1>2, <1>3, EndsGrow, Zenon
<1>5. Sound(new, n) /\ Len(new) = found.offset /\ \A p \in 1..found.offset : new[p] = cells[p]
  BY <1>4, CutSound, Zenon
<1>6. new \in Seq(Cell) /\ found.offset <= Len(new)
  BY <1>4, <1>5 DEF Sound
<1> HIDE DEF new
<1>7. Laid(new, ends, found.records)
  BY <1>2, <1>3, <1>5, <1>6, LaidStays, Zenon
<1>8. Behind(new, found.offset)
  BY <1>4, <1>5, <1>6 DEF Behind
<1>9. InHand(new, found.offset, found.records)
  BY <1>2, <1>7, <1>8, Zenon DEF InHand, LaidTo
<1> QED BY <1>4, <1>9, Zenon DEF found, new

\* Each cell of the file is one of old or of new, or a hole behind old.
Mixes(file, old, new) ==
  /\ file \in File /\ file.header \in {old.header, new.header}
  /\ Len(file.cells) \in {Len(old.cells), Len(new.cells)}
  /\ \A p \in DOMAIN file.cells :
       \/ p \in DOMAIN old.cells /\ file.cells[p] = old.cells[p]
       \/ p \in DOMAIN new.cells /\ file.cells[p] = new.cells[p]
       \/ p \notin DOMAIN old.cells /\ file.cells[p] = Zero

\* What a power failure leaves of a file.
LEMMA PowerMixes ==
  ASSUME NEW old \in File, NEW new \in File, NEW file \in Survivors(old, new)
  PROVE  Mixes(file, old, new)
<1>0. /\ old.cells \in Seq(Cell) /\ new.cells \in Seq(Cell)
      /\ DOMAIN old.cells = 1..Len(old.cells) /\ DOMAIN new.cells = 1..Len(new.cells)
      /\ Len(old.cells) \in Nat /\ Len(new.cells) \in Nat
      /\ old.header \in {"absent", "partial", "whole"} /\ new.header \in {"absent", "partial", "whole"}
  BY DEF File, Cell
<1>1. \/ file = old
      \/ \E h \in {old.header, new.header}, n \in {Len(old.cells), Len(new.cells)} :
           \E lost : file = PartlyWritten(old, new, h, n, lost)
  BY DEF Survivors
<1>2. CASE file = old
  BY <1>2, Zenon DEF Mixes
<1>3. ASSUME NEW h \in {old.header, new.header}, NEW n \in {Len(old.cells), Len(new.cells)},
             NEW lost, file = PartlyWritten(old, new, h, n, lost)
      PROVE  Mixes(file, old, new)
  <2>1. file.header = h /\ file.cells = [p \in 1..n |-> IF p \in lost THEN Before(old, p) ELSE After(old, new, p)]
    BY <1>3 DEF PartlyWritten
  <2>2. n \in Nat
    BY <1>0
  <2>3. Zero \in Cell
    BY DEF Zero, Cell
  <2>4. ASSUME NEW p \in 1..n
        PROVE  /\ file.cells[p] \in Cell
               /\ \/ p \in DOMAIN old.cells /\ file.cells[p] = old.cells[p]
                  \/ p \in DOMAIN new.cells /\ file.cells[p] = new.cells[p]
                  \/ p \notin DOMAIN old.cells /\ file.cells[p] = Zero
    <3>1. file.cells[p] \in {Before(old, p), After(old, new, p)}
      BY <2>1, Zenon
    <3>2. /\ p <= Len(old.cells) => p \in DOMAIN old.cells /\ old.cells[p] \in Cell
          /\ p <= Len(new.cells) => p \in DOMAIN new.cells /\ new.cells[p] \in Cell
          /\ ~ (p <= Len(old.cells)) => p \notin DOMAIN old.cells
      BY <1>0, <2>2
    <3> QED BY <2>3, <3>1, <3>2, Zenon DEF Before, After
  <2>5. DOMAIN file.cells = 1..n /\ file.cells \in [1..n -> Cell]
    BY <2>1, <2>4, Zenon
  <2>6. file.cells \in Seq(Cell) /\ Len(file.cells) = n
    BY <2>2, <2>5
  <2>7. file = [header |-> h, cells |-> file.cells]
    BY <1>3 DEF PartlyWritten
  <2>8. file \in File
    <3>1. h \in {"absent", "partial", "whole"}
      BY <1>0, Zenon
    <3> QED BY <2>6, <2>7, <3>1 DEF File, Cell
  <2> QED BY <2>1, <2>4, <2>5, <2>6, <2>8, Zenon DEF Mixes
<1> QED BY <1>1, <1>2, <1>3, Zenon

\* A mix of sound files is sound.
LEMMA MixSound ==
  ASSUME NEW n \in Nat \ {0}, NEW old, Sound(old.cells, n), NEW new, Sound(new.cells, n),
         NEW file, Mixes(file, old, new)
  PROVE  Sound(file.cells, n)
<1>1. file.cells \in Seq(Cell)
  BY DEF Mixes, File, Cell
<1>2. Zero.record < n /\ Zero.part = 0
  BY DEF Zero
<1> QED BY <1>1, <1>2, Zenon DEF Mixes, Sound

-----------------------------------------------------------------------------
(* The files, their headers and their lengths.                             *)

Headers == {"absent", "partial", "whole"}

Handles ==
  [open : BOOLEAN, torn : BOOLEAN, write_offset : Nat,
   stage : {"idle", "append", "snapshot"}, latched : BOOLEAN]

\* A file of records before the n-th that is within its budget.
GoodFile(file, n) ==
  file \in File /\ Sound(file.cells, n) /\ Len(file.cells) <= MaxBytes

FilesInv ==
  /\ GoodFile(cache, next) /\ GoodFile(media, next)
  /\ handle \in Handles /\ next \in Nat \ {0}

\* A file with other cells.
LEMMA WithCells ==
  ASSUME NEW file \in File, NEW cells \in Seq(Cell)
  PROVE  LET new == [file EXCEPT !.cells = cells] IN
         new \in File /\ new.cells = cells /\ new.header = file.header
BY Zenon DEF File, Cell

\* A file with nothing behind its header.
LEMMA EmptyGood ==
  ASSUME NEW n \in Nat \ {0}, NEW h \in Headers
  PROVE  GoodFile([header |-> h, cells |-> <<>>], n)
<1> DEFINE file == [header |-> h, cells |-> <<>>]
<1>1. file \in File /\ file.cells = <<>>
  BY DEF File, Headers
<1>2. Sound(<<>>, n) /\ Len(<<>>) <= MaxBytes
  BY JournalAssumption DEF Sound
<1> QED BY <1>1, <1>2, Zenon DEF GoodFile

\* A truncation to the header.
LEMMA EmptiedGood ==
  ASSUME NEW n \in Nat \ {0}, NEW file, GoodFile(file, n)
  PROVE  GoodFile([file EXCEPT !.cells = <<>>], n)
<1>1. <<>> \in Seq(Cell) /\ Sound(<<>>, n) /\ Len(<<>>) <= MaxBytes
  BY JournalAssumption DEF Sound
<1>2. [file EXCEPT !.cells = <<>>] \in File /\ [file EXCEPT !.cells = <<>>].cells = <<>>
  BY <1>1, WithCells, Zenon DEF GoodFile
<1> QED BY <1>1, <1>2, Zenon DEF GoodFile

\* A later number of records does not matter.
LEMMA GoodLater ==
  ASSUME NEW n \in Nat, NEW file, GoodFile(file, n)
  PROVE  GoodFile(file, n + 1)
<1>1. file.cells \in Seq(Cell)
  BY Zenon DEF GoodFile, Sound
<1>2. ASSUME NEW p \in DOMAIN file.cells PROVE file.cells[p].record < n + 1
  <2>1. file.cells[p].record \in Nat
    <3>1. file.cells[p] \in Cell
      BY <1>1
    <3> QED BY <3>1 DEF Cell
  <2>2. file.cells[p].record < n
    BY Zenon DEF GoodFile, Sound
  <2> QED BY <2>1, <2>2
<1> QED BY <1>2, Zenon DEF GoodFile, Sound

\* The file once the first m cells of record n are written at an offset.
Rewritten(file, offset, n, size, m) ==
  [file EXCEPT !.cells = written(@, offset, encode(n, size), m)]

\* A write within the budget.
LEMMA WrittenGood ==
  ASSUME NEW n \in Nat \ {0}, NEW file, GoodFile(file, n), NEW offset \in Nat,
         NEW size \in Nat \ {0}, NEW m \in 0..size, offset + size <= MaxBytes
  PROVE  GoodFile(Rewritten(file, offset, n, size, m), n + 1)
<1> DEFINE cells == written(file.cells, offset, encode(n, size), m)
           new == [file EXCEPT !.cells = cells]
<1>1. Grown(file.cells, cells, n, offset + m)
  BY WriteSound, Zenon DEF GoodFile
<1>2. cells \in Seq(Cell) /\ Sound(cells, n + 1)
  BY <1>1, Zenon DEF Grown, Sound
<1>3. Len(cells) <= MaxBytes
  <2>1. Len(cells) = Extent(file.cells, offset + m) /\ Len(file.cells) <= MaxBytes
        /\ file.cells \in Seq(Cell)
    BY <1>1, Zenon DEF Grown, GoodFile, Sound
  <2> HIDE DEF cells
  <2> QED BY <2>1, JournalAssumption DEF Extent
<1>4. Rewritten(file, offset, n, size, m) = new
  BY Zenon DEF Rewritten
<1> HIDE DEF cells
<1>5. new \in File /\ new.cells = cells /\ new.header = file.header
  BY <1>2, WithCells, Zenon DEF GoodFile
<1> HIDE DEF new
<1>6. GoodFile(new, n + 1)
  BY <1>2, <1>3, <1>5, Zenon DEF GoodFile
<1> QED BY <1>4, <1>6, Zenon

\* The file once a torn tail is cut off.
Cut(file) == [file EXCEPT !.cells = SubSeq(@, 1, replay(@).offset)]

\* A replay cuts off what is torn.
LEMMA CutGood ==
  ASSUME NEW n \in Nat \ {0}, NEW file, GoodFile(file, n)
  PROVE  LET offset == replay(file.cells).offset IN
         /\ offset \in Nat /\ GoodFile(Cut(file), n)
         /\ Cut(file).cells = SubSeq(file.cells, 1, offset) /\ Cut(file).header = file.header
<1> DEFINE offset == replay(file.cells).offset
           cells  == SubSeq(file.cells, 1, offset)
           new    == [file EXCEPT !.cells = cells]
<1>1. offset \in Nat /\ offset <= Len(file.cells)
  BY OpenInHand, Zenon DEF GoodFile
<1>2. Cut(file) = new
  BY Zenon DEF Cut
<1> HIDE DEF offset
<1>3. Sound(cells, n) /\ Len(cells) = offset
  BY <1>1, CutSound, Zenon DEF GoodFile
<1>4. cells \in Seq(Cell)
  BY <1>3, Zenon DEF Sound
<1>5. Len(cells) <= MaxBytes
  <2>1. Len(file.cells) <= MaxBytes /\ file.cells \in Seq(Cell)
    BY Zenon DEF GoodFile, Sound
  <2> QED BY <1>1, <1>3, <2>1, JournalAssumption
<1> HIDE DEF cells
<1>6. new \in File /\ new.cells = cells /\ new.header = file.header
  BY <1>4, WithCells, Zenon DEF GoodFile
<1> HIDE DEF new
<1>7. GoodFile(new, n)
  BY <1>3, <1>5, <1>6, Zenon DEF GoodFile
<1> QED BY <1>1, <1>2, <1>6, <1>7, Zenon DEF offset, cells

\* What is left of the file by a power failure.
LEMMA SurvivorGood ==
  ASSUME NEW n \in Nat \ {0}, NEW old, GoodFile(old, n), NEW new, GoodFile(new, n),
         NEW file \in Survivors(old, new)
  PROVE  GoodFile(file, n) /\ Mixes(file, old, new)
<1>1. Mixes(file, old, new)
  BY PowerMixes, Zenon DEF GoodFile
<1>2. Sound(file.cells, n)
  BY <1>1, MixSound, Zenon DEF GoodFile
<1>3. file \in File /\ Len(file.cells) <= MaxBytes
  BY <1>1, Zenon DEF GoodFile, Mixes
<1> QED BY <1>1, <1>2, <1>3, Zenon DEF GoodFile

\* What the handle may become.
LEMMA HandleSteps ==
  ASSUME handle \in Handles
  PROVE  /\ Closed \in Handles
         /\ [Closed EXCEPT !.open = TRUE] \in Handles
         /\ \A torn \in BOOLEAN, o \in Nat :
              [Closed EXCEPT !.open = TRUE, !.torn = torn, !.write_offset = o] \in Handles
         /\ \A latches \in BOOLEAN : [handle EXCEPT !.latched = latches] \in Handles
         /\ \A latches \in BOOLEAN, o \in Nat :
              [handle EXCEPT !.latched = latches, !.write_offset = o] \in Handles
         /\ \A latches \in BOOLEAN : [handle EXCEPT !.stage = "idle", !.latched = latches] \in Handles
         /\ \A size \in Nat, stage \in {"idle", "append"} :
              [handle EXCEPT !.write_offset = @ + size, !.stage = stage] \in Handles
         /\ [handle EXCEPT !.stage = "snapshot"] \in Handles
         /\ [handle EXCEPT !.write_offset = 0, !.stage = "idle", !.torn = FALSE] \in Handles
<1>1. Closed \in Handles /\ [Closed EXCEPT !.open = TRUE] \in Handles
  BY Zenon DEF Handles, Closed
<1>2. ASSUME NEW torn \in BOOLEAN, NEW o \in Nat
      PROVE  [Closed EXCEPT !.open = TRUE, !.torn = torn, !.write_offset = o] \in Handles
  BY Zenon DEF Handles, Closed
<1>3. ASSUME NEW latches \in BOOLEAN, NEW o \in Nat
      PROVE  /\ [handle EXCEPT !.latched = latches] \in Handles
             /\ [handle EXCEPT !.latched = latches, !.write_offset = o] \in Handles
             /\ [handle EXCEPT !.stage = "idle", !.latched = latches] \in Handles
  BY Zenon DEF Handles
<1>4. ASSUME NEW size \in Nat, NEW stage \in {"idle", "append"}
      PROVE  [handle EXCEPT !.write_offset = @ + size, !.stage = stage] \in Handles
  <2>1. handle.write_offset + size \in Nat
    <3>1. handle.write_offset \in Nat
      BY Zenon DEF Handles
    <3> QED BY <3>1
  <2> QED BY <2>1, Zenon DEF Handles
<1>5. /\ [handle EXCEPT !.stage = "snapshot"] \in Handles
      /\ [handle EXCEPT !.write_offset = 0, !.stage = "idle", !.torn = FALSE] \in Handles
  BY Zenon DEF Handles
<1> QED BY <1>1, <1>2, <1>3, <1>4, <1>5, Zenon

\* The two files of an append and what it adds to the handle.
LEMMA AppendGood ==
  ASSUME FilesInv, NEW size \in Sizes, fits(size), NEW m \in 0..size
  PROVE  /\ GoodFile(Rewritten(cache, handle.write_offset, next, size, m), next + 1)
         /\ GoodFile(media, next + 1) /\ next + 1 \in Nat \ {0}
<1>1. size \in Nat \ {0} /\ handle.write_offset \in Nat /\ next \in Nat \ {0}
  BY JournalAssumption DEF FilesInv, Handles
<1>2. handle.write_offset + size <= MaxBytes
  BY Zenon DEF fits
<1>3. next + 1 \in Nat \ {0} /\ next \in Nat
  BY <1>1
<1>4. GoodFile(media, next + 1)
  BY <1>3, GoodLater, Zenon DEF FilesInv
<1>5. GoodFile(cache, next)
  BY Zenon DEF FilesInv
<1>6. GoodFile(Rewritten(cache, handle.write_offset, next, size, m), next + 1)
  BY <1>1, <1>2, <1>5, WrittenGood, Zenon
<1> QED BY <1>3, <1>4, <1>6, Zenon

\* Every step keeps the files sound and within their budget.
LEMMA FilesStep ==
  ASSUME FilesInv, [Next]_vars
  PROVE  FilesInv'
<1>0. GoodFile(cache, next) /\ GoodFile(media, next) /\ handle \in Handles /\ next \in Nat \ {0}
  BY Zenon DEF FilesInv
<1>1. CASE Create
  <2>1. GoodFile([header |-> "whole", cells |-> <<>>], next)
    BY <1>0, EmptyGood, Zenon DEF Headers
  <2> QED BY <1>0, <1>1, <2>1, HandleSteps, Zenon DEF Create, FilesInv
<1>2. CASE CreateFails
  <2>1. PICK h \in {"partial", "whole"} : cache' = [header |-> h, cells |-> <<>>]
    BY <1>2, Zenon DEF CreateFails
  <2>2. h \in Headers
    BY Zenon DEF Headers
  <2>3. GoodFile([header |-> h, cells |-> <<>>], next)
    BY <1>0, <2>2, EmptyGood, Zenon
  <2> QED BY <1>0, <1>2, <2>1, <2>3, Zenon DEF CreateFails, FilesInv
<1>3. CASE Open
  <2>1. cache' = Cut(cache) /\ handle' \in Handles
    <3>1. replay(cache.cells).offset \in Nat
      BY <1>0, CutGood, Zenon
    <3>2. (replay(cache.cells).offset # Len(cache.cells)) \in BOOLEAN
      BY Zenon
    <3> QED BY <1>0, <1>3, <3>1, <3>2, HandleSteps, Zenon DEF Open, Cut
  <2>2. GoodFile(Cut(cache), next)
    BY <1>0, CutGood, Zenon
  <2> QED BY <1>0, <1>3, <2>1, <2>2, Zenon DEF Open, FilesInv
<1>4. ASSUME NEW size \in Sizes, NEW stage \in {"idle", "append"}, append(size, stage)
      PROVE  FilesInv'
  <2>1. size \in Nat /\ size \in 0..size
    BY JournalAssumption
  <2>2. /\ cache' = Rewritten(cache, handle.write_offset, next, size, size)
        /\ media' = cache' /\ next' = next + 1 /\ fits(size)
    BY <1>4, Zenon DEF append, Rewritten, durable_flush
  <2>3. handle' \in Handles
    BY <1>0, <1>4, <2>1, HandleSteps, Zenon DEF append
  <2>4. GoodFile(cache', next') /\ GoodFile(media', next') /\ next' \in Nat \ {0}
    BY <2>1, <2>2, AppendGood, Zenon
  <2> QED BY <2>3, <2>4, Zenon DEF FilesInv
<1>5. ASSUME NEW size \in Sizes, NEW latches \in BOOLEAN, AppendFails(size, latches)
      PROVE  FilesInv'
  <2>1. PICK m \in 0..size : cache' = Rewritten(cache, handle.write_offset, next, size, m)
    BY <1>5, Zenon DEF AppendFails, Rewritten
  <2>2. media' = media /\ next' = next + 1 /\ fits(size)
    BY <1>5, Zenon DEF AppendFails
  <2>3. handle' \in Handles
    <3>1. handle.write_offset \in Nat
      BY <1>0 DEF Handles
    <3> QED BY <1>0, <1>5, <3>1, HandleSteps, Zenon DEF AppendFails, failed_offset
  <2>4. GoodFile(cache', next') /\ GoodFile(media', next') /\ next' \in Nat \ {0}
    BY <2>1, <2>2, AppendGood, Zenon
  <2> QED BY <2>3, <2>4, Zenon DEF FilesInv
<1>6. ASSUME NEW size \in Sizes, NEW latches \in BOOLEAN, AppendRefused(size, latches)
      PROVE  FilesInv'
  BY <1>0, <1>6, HandleSteps, Zenon DEF AppendRefused, FilesInv
<1>7. CASE write_snapshot
  BY <1>0, <1>7, HandleSteps, Zenon DEF write_snapshot, FilesInv
<1>8. CASE EndsAfterRename
  BY <1>0, <1>8, HandleSteps, Zenon DEF EndsAfterRename, FilesInv
<1>9. ASSUME NEW latches \in BOOLEAN, WriteSnapshotFails(latches) PROVE FilesInv'
  BY <1>0, <1>9, HandleSteps, Zenon DEF WriteSnapshotFails, FilesInv
<1>10. CASE rotate
  <2>1. GoodFile([cache EXCEPT !.cells = <<>>], next)
    BY <1>0, EmptiedGood, Zenon
  <2> QED BY <1>0, <1>10, <2>1, HandleSteps, Zenon DEF rotate, FilesInv
<1>11. ASSUME NEW latches \in BOOLEAN, RotateFails(latches) PROVE FilesInv'
  <2>1. GoodFile([cache EXCEPT !.cells = <<>>], next)
    BY <1>0, EmptiedGood, Zenon
  <2>2. [cache EXCEPT !.header = cache.header] = cache
    BY <1>0 DEF GoodFile, File
  <2>3. GoodFile(cache', next)
    BY <1>0, <1>11, <2>1, <2>2, Zenon DEF RotateFails, rewrite_journal_header
  <2> QED BY <1>0, <1>11, <2>3, HandleSteps, Zenon DEF RotateFails, FilesInv
<1>12. CASE Close
  BY <1>0, <1>12, HandleSteps, Zenon DEF Close, FilesInv
<1>13. CASE PowerLoss
  <2>1. GoodFile(NoFile, next)
    BY <1>0, EmptyGood, Zenon DEF NoFile, Headers
  <2>2. cache' = NoFile \/ cache' \in Survivors(media, cache)
    BY <1>13, Zenon DEF PowerLoss, Journals
  <2>3. GoodFile(cache', next)
    BY <1>0, <2>1, <2>2, SurvivorGood, Zenon
  <2> QED BY <1>0, <1>13, <2>3, HandleSteps, Zenon DEF PowerLoss, FilesInv
<1>14. CASE UNCHANGED vars
  BY <1>0, <1>14, Zenon DEF vars, FilesInv
<1> QED
  BY <1>1, <1>2, <1>3, <1>4, <1>5, <1>6, <1>7, <1>8, <1>9, <1>10, <1>11, <1>12, <1>13, <1>14, Zenon
  DEF Next, Appends, Fails

\* Before the first open there is no file.
LEMMA FilesInit ==
  ASSUME Init
  PROVE  FilesInv
<1>1. next \in Nat \ {0} /\ next = 1
  BY DEF Init
<1>2. GoodFile(NoFile, next)
  BY <1>1, EmptyGood, Zenon DEF NoFile, Headers
<1>3. Closed \in Handles
  BY Zenon DEF Closed, Handles
<1> QED BY <1>1, <1>2, <1>3, Zenon DEF Init, FilesInv

\* The files are good in every state.
LEMMA FilesInvariant == Spec => []FilesInv
<1>1. Init => FilesInv
  BY FilesInit
<1>2. FilesInv /\ [Next]_vars => FilesInv'
  BY FilesStep
<1> QED BY <1>1, <1>2, PTL DEF Spec

(***************************************************************************)
(* The journal never grows past max_bytes, for every budget and size of    *)
(* records, also when appends fail and their bytes are left behind: append *)
(* compares the offset that the record would end at, and a rotation, a cut *)
(* or a power failure never makes the file longer.                         *)
(***************************************************************************)
THEOREM JournalGrowthBounded == Spec => []GrowthBounded
<1>1. FilesInv => GrowthBounded
  BY Zenon DEF FilesInv, GoodFile, GrowthBounded
<1> QED BY <1>1, FilesInvariant, PTL

\* The parts of a file that was written to or cut.
LEMMA FileParts ==
  ASSUME NEW file \in File, NEW offset, NEW n, NEW size, NEW m
  PROVE  /\ Rewritten(file, offset, n, size, m).header = file.header
         /\ Rewritten(file, offset, n, size, m).cells = written(file.cells, offset, encode(n, size), m)
         /\ Cut(file).header = file.header
         /\ Cut(file).cells = SubSeq(file.cells, 1, replay(file.cells).offset)
         /\ [file EXCEPT !.cells = <<>>].header = file.header
         /\ [file EXCEPT !.cells = <<>>].cells = <<>>
         /\ [file EXCEPT !.header = file.header] = file
BY Zenon DEF File, Rewritten, Cut

HeaderInv ==
  /\ FilesInv
  /\ handle.open => cache.header = "whole"
  /\ appended # {} => cache.header = "whole" /\ media.header = "whole"

\* A file that is in use has its header, and so has one with an acknowledged record.
LEMMA HeaderStep ==
  ASSUME ~NamesNeedFlush, HeaderInv, [Next]_vars
  PROVE  HeaderInv'
<1>0. /\ FilesInv' /\ handle \in Handles /\ cache \in File /\ media \in File
      /\ handle.open => cache.header = "whole"
      /\ appended # {} => cache.header = "whole" /\ media.header = "whole"
  BY FilesStep, Zenon DEF HeaderInv, FilesInv, GoodFile
<1>1. CASE Create
  <2>1. cache'.header = "whole" /\ media'.header = "whole"
    BY <1>1 DEF Create
  <2> QED BY <1>0, <2>1, Zenon DEF HeaderInv
<1>2. CASE CreateFails
  <2>1. ~handle'.open /\ appended' = {}
    <3>1. cache.header = "absent" /\ "absent" # "whole" /\ ~handle.open
          /\ handle' = handle /\ appended' = appended
      BY <1>2 DEF CreateFails
    <3> QED BY <1>0, <3>1, Zenon
  <2> QED BY <1>0, <2>1, Zenon DEF HeaderInv
<1>3. CASE Open
  <2>1. cache' = Cut(cache) /\ cache.header = "whole" /\ appended' = appended /\ media' = media
    BY <1>3, Zenon DEF Open, Cut
  <2> QED BY <1>0, <2>1, FileParts, Zenon DEF HeaderInv
<1>4. ASSUME NEW size \in Sizes, NEW stage \in {"idle", "append"}, append(size, stage)
      PROVE  HeaderInv'
  <2>1. /\ cache' = Rewritten(cache, handle.write_offset, next, size, size)
        /\ media' = cache' /\ handle.open
    BY <1>4, Zenon DEF append, At, Rewritten, durable_flush
  <2>2. cache'.header = "whole" /\ media'.header = "whole"
    BY <1>0, <2>1, FileParts, Zenon
  <2> QED BY <1>0, <2>2, Zenon DEF HeaderInv
<1>5. ASSUME NEW size \in Sizes, NEW latches \in BOOLEAN, AppendFails(size, latches)
      PROVE  HeaderInv'
  <2>1. PICK m \in 0..size : cache' = Rewritten(cache, handle.write_offset, next, size, m)
    BY <1>5, Zenon DEF AppendFails, Rewritten
  <2>2. handle.open /\ media' = media /\ appended' = appended
    BY <1>5, Zenon DEF AppendFails, At
  <2>3. cache'.header = "whole"
    BY <1>0, <2>1, <2>2, FileParts, Zenon
  <2> QED BY <1>0, <2>2, <2>3, Zenon DEF HeaderInv
<1>6. ASSUME NEW size \in Sizes, NEW latches \in BOOLEAN, AppendRefused(size, latches)
      PROVE  HeaderInv'
  BY <1>0, <1>6, Zenon DEF AppendRefused, At, HeaderInv
<1>7. CASE write_snapshot
  BY <1>0, <1>7, Zenon DEF write_snapshot, At, HeaderInv
<1>8. CASE EndsAfterRename
  BY <1>0, <1>8, Zenon DEF EndsAfterRename, At, HeaderInv
<1>9. ASSUME NEW latches \in BOOLEAN, WriteSnapshotFails(latches) PROVE HeaderInv'
  BY <1>0, <1>9, Zenon DEF WriteSnapshotFails, At, HeaderInv
<1>10. CASE rotate
  <2>1. cache' = [cache EXCEPT !.cells = <<>>] /\ media' = cache' /\ handle.open
    BY <1>10, Zenon DEF rotate, At
  <2> QED BY <1>0, <2>1, FileParts, Zenon DEF HeaderInv
<1>11. ASSUME NEW latches \in BOOLEAN, RotateFails(latches) PROVE HeaderInv'
  <2>1. /\ cache' = [cache EXCEPT !.cells = <<>>] \/ cache' = [cache EXCEPT !.header = cache.header]
        /\ media' = media /\ handle.open /\ appended' = appended
    BY <1>11, Zenon DEF RotateFails, At, rewrite_journal_header
  <2>2. cache'.header = cache.header
    BY <1>0, <2>1, FileParts, Zenon
  <2> QED BY <1>0, <2>1, <2>2, Zenon DEF HeaderInv
<1>12. CASE Close
  <2>1. ~handle'.open
    BY <1>0, <1>12, Zenon DEF Handles, Closed, Close
  <2> QED BY <1>0, <1>12, <2>1, Zenon DEF Close, HeaderInv
<1>13. CASE PowerLoss
  <2>1. cache' \in Survivors(media, cache) /\ media' = cache' /\ appended' = appended
    BY <1>13, Zenon DEF PowerLoss, Journals
  <2>2. cache'.header \in {media.header, cache.header}
    BY <1>0, <2>1, PowerMixes, Zenon DEF Mixes
  <2>3. ~handle'.open
    BY <1>0, <1>13, Zenon DEF Handles, Closed, PowerLoss
  <2> QED BY <1>0, <2>1, <2>2, <2>3, Zenon DEF HeaderInv
<1>14. CASE UNCHANGED vars
  BY <1>0, <1>14, Zenon DEF vars, HeaderInv
<1> QED
  BY <1>1, <1>2, <1>3, <1>4, <1>5, <1>6, <1>7, <1>8, <1>9, <1>10, <1>11, <1>12, <1>13, <1>14, Zenon
  DEF Next, Appends, Fails

(***************************************************************************)
(* A journal with an acknowledged record opens again after every crash:    *)
(* open writes a header only into a file that has none, and a rotation     *)
(* truncates behind the header it rewrites.  The hypothesis is about the   *)
(* file system: without a flush of its directory (open makes none), the    *)
(* name of a new file must be on the medium.                               *)
(***************************************************************************)
THEOREM JournalHeaderStays ==
  ASSUME ~NamesNeedFlush
  PROVE  Spec => []HeaderStays
<1>1. Init => HeaderInv
  <2> SUFFICES ASSUME Init PROVE HeaderInv
    OBVIOUS
  <2>1. FilesInv
    BY FilesInit
  <2>2. ~handle.open /\ appended = {}
    BY Zenon DEF Init, Closed
  <2> QED BY <2>1, <2>2, Zenon DEF HeaderInv
<1>2. HeaderInv /\ [Next]_vars => HeaderInv'
  BY HeaderStep
<1>3. HeaderInv => HeaderStays
  <2> SUFFICES ASSUME HeaderInv, appended # {}, NEW file \in Journals PROVE file.header = "whole"
    BY Zenon DEF HeaderStays
  <2>1. file \in Survivors(media, cache)
    BY Zenon DEF Journals
  <2>2. file.header \in {media.header, cache.header}
    BY <2>1, PowerMixes, Zenon DEF Mixes, HeaderInv, FilesInv, GoodFile
  <2> QED BY <2>2, Zenon DEF HeaderInv
<1> QED BY <1>1, <1>2, <1>3, PTL DEF Spec

-----------------------------------------------------------------------------
(* What the engine knows of the file.                                      *)

\* The engine uses the journal.
InUse == handle.open /\ ~handle.latched

KnownInv == FilesInv /\ (InUse => InHand(cache.cells, handle.write_offset, known))

\* A file with nothing behind its header is in hand.
LEMMA EmptyInHand == InHand(<<>>, 0, <<>>)
<1> DEFINE at == [k \in 0..0 |-> 0]
<1>1. Laid(<<>>, at, <<>>)
  BY NothingLaid, Zenon
<1>2. at[Len(<<>>)] = 0 /\ Behind(<<>>, 0)
  BY DEF Behind
<1> QED BY <1>1, <1>2, Zenon DEF InHand, LaidTo

\* What an append writes, if it goes through or not.
LEMMA AppendWrites ==
  ASSUME KnownInv, InUse, NEW size \in Sizes, NEW m \in 0..size
  PROVE  /\ Overwritten(cache.cells, Rewritten(cache, handle.write_offset, next, size, m).cells,
                        handle.write_offset, next, size, m)
         /\ size \in Nat \ {0} /\ size \in 0..size /\ next \in Nat /\ Sound(cache.cells, next)
<1>1. size \in Nat \ {0} /\ size \in 0..size
  BY JournalAssumption
<1>2. /\ next \in Nat \ {0} /\ cache \in File /\ Sound(cache.cells, next) /\ cache.cells \in Seq(Cell)
      /\ InHand(cache.cells, handle.write_offset, known)
  BY Zenon DEF KnownInv, FilesInv, GoodFile, Sound
<1>3. handle.write_offset \in Nat /\ handle.write_offset <= Len(cache.cells)
  BY <1>2, OffsetWithin, Zenon
<1>4. Overwritten(cache.cells, written(cache.cells, handle.write_offset, encode(next, size), m),
                  handle.write_offset, next, size, m)
  BY <1>1, <1>2, <1>3, Writes, Zenon
<1>5. next \in Nat
  BY <1>2
<1>6. Rewritten(cache, handle.write_offset, next, size, m).cells =
        written(cache.cells, handle.write_offset, encode(next, size), m)
  BY <1>2, Zenon DEF File, Rewritten
<1> QED BY <1>1, <1>2, <1>4, <1>5, <1>6, Zenon

\* Every step leaves the journal that the engine uses as the engine knows it.
LEMMA KnownStep ==
  ASSUME ~RotateFlushFails, KnownInv, [Next]_vars
  PROVE  KnownInv'
<1>0. /\ FilesInv' /\ handle \in Handles /\ cache \in File /\ GoodFile(cache, next)
      /\ next \in Nat \ {0}
      /\ InUse => InHand(cache.cells, handle.write_offset, known)
  BY FilesStep, Zenon DEF KnownInv, FilesInv, GoodFile
<1> SUFFICES ASSUME InUse' PROVE InHand(cache'.cells, handle'.write_offset, known')
  BY <1>0, Zenon DEF KnownInv
<1>1. CASE Create
  <2>1. cache'.cells = <<>> /\ known' = <<>> /\ handle' = [Closed EXCEPT !.open = TRUE]
    BY <1>1 DEF Create
  <2>2. handle'.write_offset = 0
    BY <2>1, Zenon DEF Closed
  <2> QED BY <2>1, <2>2, EmptyInHand, Zenon
<1>2. CASE CreateFails
  BY <1>2, Zenon DEF CreateFails, InUse
<1>3. CASE Open
  <2> DEFINE found == replay(cache.cells)
  <2>1. /\ cache' = Cut(cache) /\ known' = found.records
        /\ handle'.write_offset = found.offset
    BY <1>0, <1>3, Zenon DEF Handles, Closed, Open, Cut
  <2>2. InHand(SubSeq(cache.cells, 1, found.offset), found.offset, found.records)
    BY <1>0, OpenInHand, Zenon DEF GoodFile
  <2>3. cache'.cells = SubSeq(cache.cells, 1, found.offset)
    BY <1>0, <2>1, FileParts, Zenon
  <2> QED BY <2>1, <2>2, <2>3, Zenon
<1>4. ASSUME NEW size \in Sizes, NEW stage \in {"idle", "append"}, append(size, stage)
      PROVE  InHand(cache'.cells, handle'.write_offset, known')
  <2>1. /\ cache' = Rewritten(cache, handle.write_offset, next, size, size)
        /\ known' = Append(known, next) /\ InUse
    BY <1>4, Zenon DEF append, At, Rewritten, InUse
  <2>2. handle'.write_offset = handle.write_offset + size
    BY <1>0, <1>4, Zenon DEF Handles, Closed, append
  <2>3. size \in Nat \ {0} /\ size \in 0..size
    BY JournalAssumption
  <2>4. Overwritten(cache.cells, cache'.cells, handle.write_offset, next, size, size)
    BY <2>1, <2>3, AppendWrites, Zenon
  <2>5. next \in Nat /\ Sound(cache.cells, next) /\ InHand(cache.cells, handle.write_offset, known)
    BY <1>0, <2>1, <2>3, AppendWrites, Zenon
  <2>6. InHand(cache'.cells, handle.write_offset + size, Append(known, next))
    BY <2>3, <2>4, <2>5, AppendInHand, Zenon
  <2> QED BY <2>1, <2>2, <2>6, Zenon
<1>5. ASSUME NEW size \in Sizes, NEW latches \in BOOLEAN, AppendFails(size, latches)
      PROVE  InHand(cache'.cells, handle'.write_offset, known')
  <2>1. PICK m \in 0..size : cache' = Rewritten(cache, handle.write_offset, next, size, m)
    BY <1>5, Zenon DEF AppendFails, Rewritten
  <2>2. known' = known /\ InUse
    BY <1>5, Zenon DEF AppendFails, At, InUse
  <2>3. handle'.write_offset = handle.write_offset
    BY <1>0, <1>5, Zenon DEF Handles, Closed, AppendFails, failed_offset
  <2>4. Overwritten(cache.cells, cache'.cells, handle.write_offset, next, size, m)
    BY <2>1, <2>2, AppendWrites, Zenon
  <2>5. size \in Nat \ {0} /\ next \in Nat /\ Sound(cache.cells, next)
        /\ InHand(cache.cells, handle.write_offset, known)
    BY <1>0, <2>1, <2>2, AppendWrites, Zenon
  <2>6. InHand(cache'.cells, handle.write_offset, known)
    BY <2>4, <2>5, FailInHand, Zenon
  <2> QED BY <2>2, <2>3, <2>6, Zenon
<1>6. ASSUME NEW size \in Sizes, NEW latches \in BOOLEAN, AppendRefused(size, latches)
      PROVE  InHand(cache'.cells, handle'.write_offset, known')
  <2>1. handle'.write_offset = handle.write_offset /\ InUse /\ cache' = cache /\ known' = known
    BY <1>0, <1>6, Zenon DEF Handles, Closed, AppendRefused, At, InUse
  <2> QED BY <1>0, <2>1, Zenon
<1>7. CASE write_snapshot
  <2>1. handle'.write_offset = handle.write_offset /\ InUse /\ cache' = cache /\ known' = known
    BY <1>0, <1>7, Zenon DEF Handles, Closed, write_snapshot, At, InUse
  <2> QED BY <1>0, <2>1, Zenon
<1>8. CASE EndsAfterRename
  BY <1>0, <1>8, Zenon DEF Handles, Closed, EndsAfterRename, InUse
<1>9. ASSUME NEW latches \in BOOLEAN, WriteSnapshotFails(latches)
      PROVE  InHand(cache'.cells, handle'.write_offset, known')
  <2>1. handle'.write_offset = handle.write_offset /\ InUse /\ cache' = cache /\ known' = known
    BY <1>0, <1>9, Zenon DEF Handles, Closed, WriteSnapshotFails, At, InUse
  <2> QED BY <1>0, <2>1, Zenon
<1>10. CASE rotate
  <2>1. handle'.write_offset = 0 /\ cache' = [cache EXCEPT !.cells = <<>>] /\ known' = <<>>
    BY <1>0, <1>10, Zenon DEF Handles, Closed, rotate
  <2> QED BY <1>0, <2>1, FileParts, EmptyInHand, Zenon
<1>11. ASSUME NEW latches \in BOOLEAN, RotateFails(latches)
       PROVE  InHand(cache'.cells, handle'.write_offset, known')
  <2>1. handle'.write_offset = handle.write_offset /\ InUse /\ known' = known /\ ~latches
    BY <1>0, <1>11, Zenon DEF Handles, Closed, RotateFails, At, InUse
  <2>2. cache' = cache
    BY <1>0, <1>11, <2>1, FileParts, Zenon DEF RotateFails, rewrite_journal_header
  <2> QED BY <1>0, <2>1, <2>2, Zenon
<1>12. CASE Close
  BY <1>0, <1>12, Zenon DEF Handles, Closed, Close, InUse
<1>13. CASE PowerLoss
  BY <1>0, <1>13, Zenon DEF Handles, Closed, PowerLoss, InUse
<1>14. CASE UNCHANGED vars
  BY <1>0, <1>14, Zenon DEF vars, InUse
<1> QED
  BY <1>1, <1>2, <1>3, <1>4, <1>5, <1>6, <1>7, <1>8, <1>9, <1>10, <1>11, <1>12, <1>13, <1>14, Zenon
  DEF Next, Appends, Fails

\* A replay of a file in hand finds its records and at most one more.
LEMMA FoundInHand ==
  ASSUME NEW n, NEW cells, Sound(cells, n), NEW offset, NEW rs, InHand(cells, offset, rs)
  PROVE  LET found == replay(cells).records IN
         /\ Len(found) \in {Len(rs), Len(rs) + 1}
         /\ SubSeq(found, 1, Len(rs)) = rs
<1> DEFINE found == replay(cells).records
           l == Len(rs)
<1>1. PICK at : Laid(cells, at, rs) /\ at[Len(rs)] = offset /\ Behind(cells, offset)
  BY Zenon DEF InHand, LaidTo
<1>2. PICK ends : Laid(cells, ends, found) /\ Begins(rs, at, found, ends)
  BY <1>1, ReplayReads, Zenon DEF Reads
<1> HIDE DEF found
<1>3. cells \in Seq(Cell) /\ rs \in Seq(Nat) /\ l \in Nat /\ found \in Seq(Nat) /\ Len(found) \in Nat
      /\ ends \in [0..Len(found) -> Nat]
  BY <1>1, <1>2, LaidTypes, Zenon DEF Sound
<1>4. l <= Len(found) /\ (\A k \in 1..l : found[k] = rs[k]) /\ ends[l] = offset
  <2>1. l \in 0..l
    BY <1>3
  <2> QED BY <1>1, <1>2, <2>1, Zenon DEF Begins
<1>5. SubSeq(found, 1, l) = rs
  <2>1. SubSeq(found, 1, l) \in Seq(Nat) /\ Len(SubSeq(found, 1, l)) = l
        /\ \A k \in 1..l : SubSeq(found, 1, l)[k] = found[k]
    BY <1>3, <1>4
  <2> QED BY <1>3, <1>4, <2>1, SameRecords, Zenon
<1>6. ASSUME l + 1 < Len(found) PROVE FALSE
  <2> DEFINE p == ends[l + 1] + 1
  <2>1. l + 1 \in 1..Len(found) /\ l + 2 \in 1..Len(found) /\ (l + 1) - 1 = l /\ (l + 2) - 1 = l + 1
        /\ l + 1 \in 0..Len(found) /\ l + 2 \in 0..Len(found) /\ l \in 0..Len(found)
    BY <1>3, <1>6
  <2>2. offset \in Nat /\ ends[l + 1] \in Nat /\ ends[l + 2] \in Nat
    BY <1>3, <1>4, <2>1, Zenon
  <2>3. offset < ends[l + 1] /\ ends[l + 1] < ends[l + 2] /\ ends[l + 2] <= Len(cells)
    BY <1>2, <1>4, <2>1, Zenon DEF Laid
  <2>4. p \in (ends[l + 1] + 1)..ends[l + 2] /\ p - ends[l + 1] = 1
        /\ p > offset /\ p \in Nat /\ p - offset > 1
    BY <2>2, <2>3
  <2>5. cells[p] = [record |-> found[l + 2], part |-> 1, size |-> ends[l + 2] - ends[l + 1]]
    <3>1. \A q \in (ends[(l + 2) - 1] + 1)..ends[l + 2] :
            cells[q] = [record |-> found[l + 2], part |-> q - ends[(l + 2) - 1],
                        size |-> ends[l + 2] - ends[(l + 2) - 1]]
      BY <1>2, <2>1, Zenon DEF Laid
    <3> QED BY <2>1, <2>4, <3>1, Zenon
  <2>8. p \in DOMAIN cells
    BY <1>3, <2>2, <2>3
  <2> HIDE DEF p
  <2>6. cells[p].part = 1
    BY <2>5
  <2>7. cells[p].part = 0 \/ cells[p].part >= p - offset
    BY <1>1, <2>4, <2>8, Zenon DEF Behind
  <2> QED BY <2>2, <2>4, <2>6, <2>7
<1>7. Len(found) \in {l, l + 1}
  BY <1>3, <1>4, <1>6
<1> QED BY <1>5, <1>7, Zenon DEF found

(***************************************************************************)
(* What is in the file is what the engine knows to be in it, up to one     *)
(* record whose append failed, whatever the sizes of the records and the   *)
(* order of failures: append writes at write_offset_, which only a success *)
(* moves, so a leftover is overwritten or stays where no record begins.    *)
(* The hypothesis leaves out a rotation that fails in its last flush and   *)
(* does not latch, after which write_offset_ is behind the end of the file.*)
(***************************************************************************)
THEOREM JournalFileIsKnown ==
  ASSUME ~RotateFlushFails
  PROVE  Spec => []FileIsKnown
<1>1. Init => KnownInv
  <2> SUFFICES ASSUME Init PROVE KnownInv
    OBVIOUS
  <2>1. FilesInv
    BY FilesInit
  <2>2. ~handle.open
    BY Zenon DEF Init, Closed
  <2> QED BY <2>1, <2>2, Zenon DEF KnownInv, InUse
<1>2. KnownInv /\ [Next]_vars => KnownInv'
  BY KnownStep
<1>3. KnownInv => FileIsKnown
  <2> SUFFICES ASSUME KnownInv, handle.open, ~handle.latched
               PROVE  LET found == replay(cache.cells).records IN
                      /\ Len(found) \in {Len(known), Len(known) + 1}
                      /\ SubSeq(found, 1, Len(known)) = known
    BY Zenon DEF FileIsKnown
  <2>1. Sound(cache.cells, next) /\ InHand(cache.cells, handle.write_offset, known)
    BY Zenon DEF KnownInv, FilesInv, GoodFile, InUse
  <2> QED BY <2>1, FoundInHand, Zenon
<1> QED BY <1>1, <1>2, <1>3, PTL DEF Spec

-----------------------------------------------------------------------------
(* What a power failure leaves.                                            *)

\* The records that are due are among rs, and in order.
Covers(rs, due) ==
  /\ rs \in Seq(Nat) /\ due \subseteq Range(rs)
  /\ \A j, k \in DOMAIN rs : j < k /\ rs[j] \in due /\ rs[k] \in due => rs[j] < rs[k]

\* None of those that are due has a cell behind an end.
Clear(cells, end, due) ==
  \A p \in DOMAIN cells : p > end => cells[p].record \notin due

\* Two files begin with the same records, and what is due is among them only.
Kept(old, new, due, at, rs) ==
  /\ Laid(old, at, rs) /\ Laid(new, at, rs) /\ Covers(rs, due)
  /\ Clear(old, at[Len(rs)], due) /\ Clear(new, at[Len(rs)], due)

\* If nothing is due, nothing need be kept.
LEMMA NothingKept ==
  ASSUME NEW old, NEW new
  PROVE  LET at == [k \in 0..0 |-> 0] IN Kept(old, new, {}, at, <<>>) /\ at[Len(<<>>)] = 0
<1> DEFINE at == [k \in 0..0 |-> 0]
<1>1. Laid(old, at, <<>>) /\ Laid(new, at, <<>>)
  BY NothingLaid, Zenon
<1>2. Covers(<<>>, {}) /\ at[Len(<<>>)] = 0
  BY DEF Covers
<1>3. Clear(old, at[Len(<<>>)], {}) /\ Clear(new, at[Len(<<>>)], {})
  BY Zenon DEF Clear
<1> QED BY <1>1, <1>2, <1>3, Zenon DEF Kept

\* What is kept stays so when less is due.
LEMMA LessIsKept ==
  ASSUME NEW old, NEW new, NEW due, NEW at, NEW rs, Kept(old, new, due, at, rs),
         NEW less, less \subseteq due
  PROVE  Kept(old, new, less, at, rs)
BY Zenon DEF Kept, Covers, Clear

\* A replay finds what is due, in order.
LEMMA FoundCovers ==
  ASSUME NEW n, NEW cells, Sound(cells, n), NEW at, NEW rs, Laid(cells, at, rs),
         NEW due, Covers(rs, due), Clear(cells, at[Len(rs)], due)
  PROVE  /\ Covers(replay(cells).records, due)
         /\ at[Len(rs)] <= replay(cells).offset
<1> DEFINE found == replay(cells).records
           l == Len(rs)
<1>1. PICK ends : /\ Laid(cells, ends, found) /\ ends[Len(found)] = replay(cells).offset
                  /\ Begins(rs, at, found, ends)
  BY ReplayReads, Zenon DEF Reads
<1> HIDE DEF found
<1>2. cells \in Seq(Cell) /\ rs \in Seq(Nat) /\ l \in Nat /\ found \in Seq(Nat) /\ Len(found) \in Nat
      /\ ends \in [0..Len(found) -> Nat]
  BY <1>1, LaidTypes, Zenon DEF Sound
<1>3. DOMAIN found = 1..Len(found) /\ DOMAIN rs = 1..l /\ l \in 0..l
  BY <1>2
<1>4. l <= Len(found) /\ (\A k \in 1..l : found[k] = rs[k]) /\ ends[l] = at[l]
  BY <1>1, <1>3, Zenon DEF Begins
<1>5. \A j, k \in 0..Len(found) : j <= k => ends[j] <= ends[k]
  BY <1>1, <1>2, EndsGrow, Zenon
<1>6. at[l] <= replay(cells).offset
  <2>1. l \in 0..Len(found) /\ Len(found) \in 0..Len(found)
    BY <1>2, <1>4
  <2> QED BY <1>1, <1>4, <1>5, <2>1, Zenon
<1>7. ASSUME NEW k \in 1..Len(found), ~ (k \in 1..l) PROVE found[k] \notin due
  <2> DEFINE p == ends[k - 1] + 1
  <2>1. k - 1 \in 0..Len(found) /\ k \in 0..Len(found) /\ l \in 0..Len(found) /\ l <= k - 1
    BY <1>2, <1>4, <1>7
  <2>2. ends[l] <= ends[k - 1] /\ ends[l] \in Nat /\ ends[k - 1] \in Nat /\ ends[k] \in Nat
    BY <1>2, <1>5, <2>1, Zenon
  <2>3. ends[k - 1] < ends[k] /\ ends[k] <= Len(cells)
    BY <1>1, Zenon DEF Laid
  <2>4. p \in (ends[k - 1] + 1)..ends[k] /\ p > at[l]
    BY <1>4, <2>2, <2>3
  <2>5. p \in DOMAIN cells
    BY <1>2, <2>2, <2>3
  <2>6. cells[p] = [record |-> found[k], part |-> p - ends[k - 1], size |-> ends[k] - ends[k - 1]]
    BY <1>1, <2>4, Zenon DEF Laid
  <2> HIDE DEF p
  <2>7. cells[p].record = found[k]
    BY <2>6
  <2> QED BY <2>4, <2>5, <2>7, Zenon DEF Clear
<1>8. due \subseteq Range(found)
  <2>1. \A k \in 1..l : k \in 1..Len(found)
    BY <1>2, <1>4
  <2> QED BY <1>3, <1>4, <2>1, Zenon DEF Covers, Range
<1>9. ASSUME NEW j \in DOMAIN found, NEW k \in DOMAIN found, j < k, found[j] \in due, found[k] \in due
      PROVE  found[j] < found[k]
  <2>1. j \in 1..l /\ k \in 1..l
    BY <1>3, <1>7, <1>9, Zenon
  <2> QED BY <1>3, <1>4, <1>9, <2>1, Zenon DEF Covers
<1> QED BY <1>2, <1>6, <1>8, <1>9, Zenon DEF Covers, found

\* A write behind what is kept, of a record that is not due, keeps it.
LEMMA WriteKeeps ==
  ASSUME NEW n \in Nat, NEW cells, cells \in Seq(Cell), NEW at, NEW rs, Laid(cells, at, rs),
         NEW due, n \notin due, Clear(cells, at[Len(rs)], due),
         NEW offset \in Nat, at[Len(rs)] <= offset, offset <= Len(cells),
         NEW size \in Nat \ {0}, NEW m \in 0..size, NEW new, Overwritten(cells, new, offset, n, size, m)
  PROVE  Laid(new, at, rs) /\ Clear(new, at[Len(rs)], due)
<1> DEFINE e == at[Len(rs)]
<1>1. e \in Nat /\ new \in Seq(Cell) /\ DOMAIN new = 1..Len(new) /\ DOMAIN cells = 1..Len(cells)
  <2>1. e \in Nat /\ new \in Seq(Cell)
    BY EndsGrow, Zenon DEF Overwritten, Sound
  <2> QED BY <2>1
<1>2. e <= Len(new)
  <2>1. Len(new) = Extent(cells, offset + m) /\ Len(cells) \in Nat
    BY DEF Overwritten
  <2> QED BY <1>1, <2>1 DEF Extent
<1>3. \A p \in 1..e : new[p] = cells[p]
  <2>1. \A p \in 1..e : p \in 1..offset
    BY <1>1
  <2> QED BY <2>1, Zenon DEF Overwritten
<1>4. Laid(new, at, rs)
  BY <1>1, <1>2, <1>3, LaidStays, Zenon
<1>5. ASSUME NEW p \in DOMAIN new, p > e PROVE new[p].record \notin due
  <2>1. p \in Nat \ {0}
    BY <1>1
  <2>2. CASE p <= offset
    <3>1. p \in 1..offset /\ p \in DOMAIN cells
      BY <1>1, <2>1, <2>2
    <3> QED BY <1>5, <3>1, Zenon DEF Overwritten, Clear
  <2>3. CASE p > offset /\ p <= offset + m
    <3>1. p \in (offset + 1)..(offset + m)
      BY <2>1, <2>3
    <3>2. new[p] = [record |-> n, part |-> p - offset, size |-> size]
      BY <3>1, Zenon DEF Overwritten
    <3>3. new[p].record = n
      BY <3>2
    <3> QED BY <3>3, Zenon
  <2>4. CASE p > offset + m
    BY <1>5, <2>4, Zenon DEF Overwritten, Clear
  <2>5. p <= offset \/ (p > offset /\ p <= offset + m) \/ p > offset + m
    BY <2>1
  <2> QED BY <2>2, <2>3, <2>4, <2>5, Zenon
<1> QED BY <1>4, <1>5, Zenon DEF Clear

\* The records of a layout are those of its cells.
LEMMA LaidBefore ==
  ASSUME NEW n, NEW cells, Sound(cells, n), NEW at, NEW rs, Laid(cells, at, rs), NEW k \in 1..Len(rs)
  PROVE  rs[k] < n
<1> DEFINE p == at[k - 1] + 1
<1>1. cells \in Seq(Cell) /\ Len(rs) \in Nat /\ at \in [0..Len(rs) -> Nat]
  BY LaidTypes, Zenon DEF Sound
<1>2. k - 1 \in 0..Len(rs) /\ k \in 0..Len(rs)
  BY <1>1
<1>3. at[k - 1] \in Nat /\ at[k] \in Nat
  BY <1>1, <1>2, Zenon
<1>4. at[k - 1] < at[k] /\ at[k] <= Len(cells)
  BY Zenon DEF Laid
<1>5. p \in (at[k - 1] + 1)..at[k] /\ p \in DOMAIN cells
  BY <1>1, <1>3, <1>4
<1>6. cells[p] = [record |-> rs[k], part |-> p - at[k - 1], size |-> at[k] - at[k - 1]]
  BY <1>5, Zenon DEF Laid
<1> HIDE DEF p
<1>7. cells[p].record = rs[k]
  BY <1>6
<1> QED BY <1>5, <1>7, Zenon DEF Sound

\* Two files with the same layout have the same cells up to its end.
LEMMA LaidAlike ==
  ASSUME NEW old, NEW new, NEW at, NEW rs, Laid(old, at, rs), Laid(new, at, rs)
  PROVE  \A p \in 1..at[Len(rs)] : new[p] = old[p]
<1> DEFINE l == Len(rs)
           S == {k \in Nat : k <= l => \A p \in 1..at[k] : new[p] = old[p]}
<1>1. l \in Nat /\ at \in [0..l -> Nat] /\ at[0] = 0
  BY LaidTypes
<1>2. 0 \in S
  BY <1>1
<1>3. ASSUME NEW k \in S PROVE k + 1 \in S
  <2>1. k \in Nat /\ k + 1 \in Nat
    BY <1>3
  <2> SUFFICES ASSUME k + 1 <= l, NEW p \in 1..at[k + 1] PROVE new[p] = old[p]
    BY <2>1
  <2>2. k + 1 \in 1..l /\ (k + 1) - 1 = k /\ k <= l /\ k \in 0..l /\ k + 1 \in 0..l
    BY <1>1, <2>1
  <2>3. at[k] \in Nat /\ at[k + 1] \in Nat
    BY <1>1, <2>2, Zenon
  <2>4. CASE p \in 1..at[k]
    BY <1>3, <2>2, <2>4
  <2>5. CASE ~ (p \in 1..at[k])
    <3>1. p \in (at[k] + 1)..at[k + 1]
      BY <2>3, <2>5
    <3>2. /\ new[p] = [record |-> rs[k + 1], part |-> p - at[k], size |-> at[k + 1] - at[k]]
          /\ old[p] = [record |-> rs[k + 1], part |-> p - at[k], size |-> at[k + 1] - at[k]]
      <4>1. p \in (at[(k + 1) - 1] + 1)..at[k + 1]
        BY <2>2, <3>1, Zenon
      <4>2. /\ new[p] = [record |-> rs[k + 1], part |-> p - at[(k + 1) - 1], size |-> at[k + 1] - at[(k + 1) - 1]]
            /\ old[p] = [record |-> rs[k + 1], part |-> p - at[(k + 1) - 1], size |-> at[k + 1] - at[(k + 1) - 1]]
        BY <2>2, <4>1, Zenon DEF Laid
      <4> QED BY <2>2, <4>2, Zenon
    <3> QED BY <3>2, Zenon
  <2> QED BY <2>4, <2>5, Zenon
<1> HIDE DEF S
<1>4. S = Nat
  BY <1>2, <1>3, NaturalSetInduction, Zenon DEF S
<1>5. l <= l
  BY <1>1
<1> QED BY <1>1, <1>4, <1>5, Zenon DEF S

\* A record that is appended to what covers the others is covered too.
LEMMA AppendCovers ==
  ASSUME NEW n \in Nat, NEW rs, NEW due, Covers(rs, due),
         \A r \in due : r < n, \A k \in 1..Len(rs) : rs[k] < n
  PROVE  Covers(Append(rs, n), due \cup {n})
<1> DEFINE new == Append(rs, n)
           l == Len(rs)
<1>1. rs \in Seq(Nat) /\ l \in Nat /\ DOMAIN rs = 1..l
  BY DEF Covers
<1>2. new \in Seq(Nat) /\ DOMAIN new = 1..(l + 1) /\ new[l + 1] = n
      /\ \A k \in 1..l : new[k] = rs[k] /\ k \in 1..(l + 1)
  BY <1>1
<1> HIDE DEF new
<1>3. due \cup {n} \subseteq Range(new)
  <2>1. n \in Range(new)
    <3>1. l + 1 \in 1..(l + 1)
      BY <1>1
    <3> QED BY <1>2, <3>1, Zenon DEF Range
  <2>2. due \subseteq Range(new)
    BY <1>1, <1>2, Zenon DEF Covers, Range
  <2> QED BY <2>1, <2>2, Zenon
<1>4. ASSUME NEW j \in DOMAIN new, NEW k \in DOMAIN new, j < k,
             new[j] \in due \cup {n}, new[k] \in due \cup {n}
      PROVE  new[j] < new[k]
  <2>1. j \in 1..l /\ (k \in 1..l \/ k = l + 1)
    BY <1>1, <1>2, <1>4
  <2>2. new[j] \in due
    <3>1. new[j] < n /\ new[j] \in Nat
      BY <1>1, <1>2, <2>1
    <3>2. new[j] # n
      BY <3>1
    <3> QED BY <1>4, <3>2, Zenon
  <2>3. CASE k = l + 1
    BY <1>2, <2>2, <2>3, Zenon
  <2>4. CASE k \in 1..l
    <3>1. rs[k] # n
      BY <1>1, <2>4
    <3> QED BY <1>1, <1>2, <1>4, <2>1, <2>2, <2>4, <3>1, Zenon DEF Covers
  <2> QED BY <2>1, <2>3, <2>4, Zenon
<1> QED BY <1>2, <1>3, <1>4, Zenon DEF Covers, new

\* What two files keep, every mix of them keeps.
LEMMA MixKeeps ==
  ASSUME NEW old \in File, NEW new \in File, NEW file, Mixes(file, old, new),
         NEW due, 0 \notin due, NEW at, NEW rs, Kept(old.cells, new.cells, due, at, rs)
  PROVE  Kept(file.cells, file.cells, due, at, rs)
<1> DEFINE e == at[Len(rs)]
<1>1. old.cells \in Seq(Cell) /\ new.cells \in Seq(Cell) /\ file.cells \in Seq(Cell)
  BY DEF File, Cell, Mixes
<1>2. e \in Nat /\ e <= Len(old.cells) /\ e <= Len(new.cells)
  BY <1>1, EndsGrow, Zenon DEF Kept
<1>3. e <= Len(file.cells)
  BY <1>2, Zenon DEF Mixes
<1>4. \A p \in 1..e : new.cells[p] = old.cells[p]
  <2>1. Laid(old.cells, at, rs) /\ Laid(new.cells, at, rs)
    BY Zenon DEF Kept
  <2> QED BY <2>1, LaidAlike
<1>5. \A p \in 1..e : file.cells[p] = old.cells[p]
  <2>1. \A p \in 1..e : p \in DOMAIN file.cells /\ p \in DOMAIN old.cells
    BY <1>1, <1>2, <1>3
  <2> QED BY <1>4, <2>1, Zenon DEF Mixes
<1>6. Laid(file.cells, at, rs)
  BY <1>1, <1>3, <1>5, LaidStays, Zenon DEF Kept
<1>7. Clear(file.cells, e, due)
  <2>1. Zero.record = 0
    BY DEF Zero
  <2> QED BY <2>1, Zenon DEF Mixes, Kept, Clear
<1> QED BY <1>6, <1>7, Zenon DEF Kept

\* Both files keep what is due.
Stored(old, new, due) == \E at, kept : Kept(old, new, due, at, kept)

\* They do before the offset, and the records rs up to there cover it.
Ready(old, new, due, offset, rs) ==
  /\ \E at, kept : Kept(old, new, due, at, kept) /\ at[Len(kept)] <= offset
  /\ Covers(rs, due) /\ Clear(new, offset, due)

\* When nothing is due, any two files keep it,
LEMMA NothingStored == \A old, new : Stored(old, new, {})
BY NothingKept, Zenon DEF Stored

\* and an emptied file is ready for the next append.
LEMMA NothingReady == \A old, new : Ready(old, new, {}, 0, <<>>)
<1> SUFFICES ASSUME NEW old, NEW new PROVE Ready(old, new, {}, 0, <<>>)
  BY Zenon
<1> DEFINE at   == [k \in 0..0 |-> 0]
           none == <<>>
<1>1. Kept(old, new, {}, at, none) /\ at[Len(none)] = 0
  BY NothingKept, Zenon
<1>2. at[Len(none)] <= 0 /\ Covers(none, {})
  BY <1>1 DEF Covers
<1>3. Clear(new, 0, {})
  BY Zenon DEF Clear
<1> HIDE DEF at, none
<1>4. Ready(old, new, {}, 0, none)
  BY <1>1, <1>2, <1>3, Zenon DEF Ready
<1> QED BY <1>4, Zenon DEF none

\* What serves for the records due serves for fewer of them.
LEMMA LessIsReady ==
  ASSUME NEW old, NEW new, NEW due, NEW less, less \subseteq due
  PROVE  /\ Stored(old, new, due) => Stored(old, new, less) /\ Stored(new, new, less)
         /\ \A offset, rs : Ready(old, new, due, offset, rs) => Ready(old, new, less, offset, rs)
<1>1. Stored(old, new, due) => Stored(old, new, less) /\ Stored(new, new, less)
  <2> SUFFICES ASSUME NEW at, NEW kept, Kept(old, new, due, at, kept)
               PROVE  Kept(old, new, less, at, kept) /\ Kept(new, new, less, at, kept)
    BY Zenon DEF Stored
  <2>1. Kept(new, new, due, at, kept)
    BY Zenon DEF Kept
  <2> QED BY <2>1, LessIsKept, Zenon
<1>2. ASSUME NEW offset, NEW rs, Ready(old, new, due, offset, rs)
      PROVE  Ready(old, new, less, offset, rs)
  <2>1. PICK at, kept : Kept(old, new, due, at, kept) /\ at[Len(kept)] <= offset
    BY <1>2, Zenon DEF Ready
  <2>2. Kept(old, new, less, at, kept)
    BY <2>1, LessIsKept, Zenon
  <2>3. Covers(rs, less) /\ Clear(new, offset, less)
    BY <1>2, Zenon DEF Ready, Covers, Clear
  <2> QED BY <2>1, <2>2, <2>3, Zenon DEF Ready
<1> QED BY <1>1, <1>2, Zenon

\* A replay that cuts off what is torn leaves what is due.
LEMMA CutReady ==
  ASSUME NEW n, NEW old, NEW cells, Sound(cells, n), NEW due, Stored(old, cells, due)
  PROVE  LET found == replay(cells) IN
         Ready(old, SubSeq(cells, 1, found.offset), due, found.offset, found.records)
<1> DEFINE found == replay(cells)
           new   == SubSeq(cells, 1, found.offset)
<1>1. PICK at, kept : Kept(old, cells, due, at, kept)
  BY Zenon DEF Stored
<1>2. Laid(cells, at, kept) /\ Covers(kept, due) /\ Clear(cells, at[Len(kept)], due)
  BY <1>1, Zenon DEF Kept
<1>3. Covers(found.records, due) /\ at[Len(kept)] <= found.offset
  BY <1>2, FoundCovers, Zenon
<1>4. found.offset \in Nat /\ found.offset <= Len(cells)
  BY OpenInHand, Zenon
<1> HIDE DEF found
<1>5. Sound(new, n) /\ Len(new) = found.offset /\ \A p \in 1..found.offset : new[p] = cells[p]
  BY <1>4, CutSound, Zenon
<1> HIDE DEF new
<1>6. new \in Seq(Cell) /\ cells \in Seq(Cell) /\ at[Len(kept)] \in Nat
  BY <1>2, <1>5, EndsGrow, Zenon DEF Sound
<1>7. DOMAIN new = 1..found.offset
  BY <1>5, <1>6
<1>8. \A p \in 1..at[Len(kept)] : p \in 1..found.offset
  BY <1>3, <1>4, <1>6
<1>9. \A p \in 1..found.offset : p \in DOMAIN cells /\ ~ (p > found.offset)
  BY <1>4, <1>6
<1>10. Laid(new, at, kept)
  BY <1>2, <1>3, <1>5, <1>6, <1>8, LaidStays, Zenon
<1>11. Clear(new, at[Len(kept)], due) /\ Clear(new, found.offset, due)
  BY <1>2, <1>5, <1>7, <1>9, Zenon DEF Clear
<1>12. Kept(old, new, due, at, kept)
  BY <1>1, <1>10, <1>11, Zenon DEF Kept
<1> QED BY <1>3, <1>11, <1>12, Zenon DEF Ready, new, found

\* An append that fails leaves what is due.
LEMMA FailReady ==
  ASSUME NEW n \in Nat, NEW old, NEW cells, cells \in Seq(Cell), NEW due, n \notin due,
         NEW offset \in Nat, offset <= Len(cells), NEW rs, Ready(old, cells, due, offset, rs),
         NEW size \in Nat \ {0}, NEW m \in 0..size, NEW new, Overwritten(cells, new, offset, n, size, m)
  PROVE  Ready(old, new, due, offset, rs)
<1>1. PICK at, kept : Kept(old, cells, due, at, kept) /\ at[Len(kept)] <= offset
  BY Zenon DEF Ready
<1>2. Laid(cells, at, kept) /\ Clear(cells, at[Len(kept)], due)
  BY <1>1, Zenon DEF Kept
<1>3. Laid(new, at, kept) /\ Clear(new, at[Len(kept)], due)
  BY <1>1, <1>2, WriteKeeps
<1>4. ASSUME NEW p \in DOMAIN new, p > offset PROVE new[p].record \notin due
  <2>1. at[Len(kept)] \in Nat /\ new \in Seq(Cell)
    BY <1>2, EndsGrow, Zenon DEF Overwritten, Sound
  <2>2. p > at[Len(kept)]
    BY <1>1, <1>4, <2>1
  <2> QED BY <1>3, <2>2, Zenon DEF Clear
<1>5. Kept(old, new, due, at, kept)
  BY <1>1, <1>3, Zenon DEF Kept
<1>6. Clear(new, offset, due)
  BY <1>4, Zenon DEF Clear
<1> QED BY <1>1, <1>5, <1>6, Zenon DEF Ready

\* An append that succeeds, and is flushed, adds its record to what is due.
LEMMA AppendReady ==
  ASSUME NEW n \in Nat, NEW old, NEW cells, Sound(cells, n), NEW due, \A r \in due : r < n,
         NEW offset, NEW rs, Ready(old, cells, due, offset, rs), InHand(cells, offset, rs),
         NEW size \in Nat \ {0}, NEW new, Overwritten(cells, new, offset, n, size, size)
  PROVE  Ready(new, new, due \cup {n}, offset + size, Append(rs, n))
<1> DEFINE more == Append(rs, n)
           then == due \cup {n}
<1>1. InHand(new, offset + size, more)
  BY AppendInHand, Zenon
<1>2. PICK ends : Laid(new, ends, more) /\ ends[Len(more)] = offset + size
  BY <1>1, Zenon DEF InHand, LaidTo
<1>3. PICK at : Laid(cells, at, rs)
  BY Zenon DEF InHand, LaidTo
<1>4. Covers(more, then)
  <2>1. \A k \in 1..Len(rs) : rs[k] < n
    BY <1>3, LaidBefore, Zenon
  <2> QED BY <2>1, AppendCovers, Zenon DEF Ready
<1>5. cells \in Seq(Cell) /\ new \in Seq(Cell) /\ offset \in Nat
  BY OffsetWithin, Zenon DEF Sound, Overwritten
<1>6. ASSUME NEW p \in DOMAIN new, p > offset + size PROVE new[p].record \notin then
  <2>1. p \in DOMAIN cells /\ new[p] = cells[p]
    BY <1>6, Zenon DEF Overwritten
  <2>2. p > offset /\ cells[p] \in Cell
    BY <1>5, <1>6, <2>1
  <2>3. cells[p].record \notin due /\ cells[p].record < n
    BY <2>1, <2>2, Zenon DEF Ready, Clear, Sound
  <2>4. cells[p].record # n
    BY <2>2, <2>3 DEF Cell
  <2> QED BY <2>1, <2>3, <2>4, Zenon
<1>7. Clear(new, offset + size, then)
  BY <1>6, Zenon DEF Clear
<1>8. Kept(new, new, then, ends, more)
  BY <1>2, <1>4, <1>7, Zenon DEF Kept
<1>9. offset + size <= offset + size
  BY <1>5
<1> QED BY <1>2, <1>4, <1>7, <1>8, <1>9, Zenon DEF Ready

\* The records that a replay must find, whatever snapshot is there.
Due == {r \in appended : r > linked.snapshot}

\* The numbers of records and what the snapshot covers.
NumbersInv ==
  /\ linked.snapshot \in Nat /\ snapshot \in Nat /\ linked.snapshot <= snapshot /\ snapshot < next
  /\ \A r \in appended : r \in Nat \ {0} /\ r < next
  /\ handle.stage = "snapshot" => Due = {}

SafeInv ==
  /\ HeaderInv /\ KnownInv /\ NumbersInv
  /\ Stored(media.cells, cache.cells, Due)
  /\ InUse => Ready(media.cells, cache.cells, Due, handle.write_offset, known)

\* The environment in which a power failure loses nothing.
Reliable == ~NamesNeedFlush /\ ~RotateFlushFails /\ ~DirectoryFlushFails

\* What a step of the snapshot or of an append does to the numbers.
LEMMA NumbersStep ==
  ASSUME Reliable, FilesInv, NumbersInv, [Next]_vars
  PROVE  NumbersInv'
<1>0. /\ linked.snapshot \in Nat /\ snapshot \in Nat /\ linked.snapshot <= snapshot /\ snapshot < next
      /\ (\A r \in appended : r \in Nat \ {0} /\ r < next) /\ (handle.stage = "snapshot" => Due = {})
      /\ handle \in Handles /\ next \in Nat \ {0}
  BY Zenon DEF NumbersInv, FilesInv
<1>1. ASSUME UNCHANGED <<snapshot, linked, appended, next>>, handle'.stage # "snapshot"
      PROVE  NumbersInv'
  BY <1>0, <1>1, Zenon DEF NumbersInv
<1>2. CASE Create
  <2>1. handle'.stage # "snapshot"
    BY <1>2 DEF Create, Closed
  <2> QED BY <1>1, <1>2, <2>1, Zenon DEF Create
<1>3. CASE CreateFails \/ UNCHANGED vars
  BY <1>0, <1>3, Zenon DEF CreateFails, vars, NumbersInv, Due
<1>4. CASE Open
  <2>1. handle'.stage # "snapshot"
    BY <1>4 DEF Open, Closed
  <2> QED BY <1>1, <1>4, <2>1, Zenon DEF Open
<1>5. ASSUME NEW size \in Sizes, NEW stage \in {"idle", "append"}, append(size, stage)
      PROVE  NumbersInv'
  <2>1. /\ snapshot' = snapshot /\ linked' = linked /\ next' = next + 1
        /\ appended' = appended \cup {next} /\ stage # "snapshot"
    BY <1>5 DEF append
  <2>2. handle'.stage = stage
    BY <1>0, <1>5, Zenon DEF append, Handles
  <2>3. snapshot < next + 1 /\ next < next + 1 /\ \A r \in appended : r < next + 1
    BY <1>0
  <2> QED BY <1>0, <2>1, <2>2, <2>3, Zenon DEF NumbersInv
<1>6. ASSUME NEW size \in Sizes, NEW latches \in BOOLEAN, AppendFails(size, latches)
      PROVE  NumbersInv'
  <2>1. snapshot' = snapshot /\ linked' = linked /\ next' = next + 1 /\ appended' = appended
    BY <1>6, Zenon DEF AppendFails
  <2>2. handle'.stage = handle.stage /\ handle.stage = "idle"
    BY <1>0, <1>6, Zenon DEF AppendFails, At, Handles
  <2>3. snapshot < next + 1 /\ (\A r \in appended : r < next + 1) /\ "idle" # "snapshot"
    BY <1>0
  <2> QED BY <1>0, <2>1, <2>2, <2>3, Zenon DEF NumbersInv
<1>7. ASSUME NEW size \in Sizes, NEW latches \in BOOLEAN, AppendRefused(size, latches)
      PROVE  NumbersInv'
  <2>1. handle'.stage = handle.stage /\ handle.stage = "idle" /\ "idle" # "snapshot"
    BY <1>0, <1>7, Zenon DEF AppendRefused, At, Handles
  <2> QED BY <1>1, <1>7, <2>1, Zenon DEF AppendRefused
<1>8. CASE write_snapshot
  <2>1. snapshot' = next - 1 /\ linked' = atomic_replace_file /\ next' = next /\ appended' = appended
    BY <1>8, Zenon DEF write_snapshot, Reliable
  <2>2. linked'.snapshot = next - 1
    BY <2>1 DEF atomic_replace_file
  <2>3. next - 1 \in Nat /\ next - 1 <= next - 1 /\ next - 1 < next /\ \A r \in appended : ~ (r > next - 1)
    BY <1>0
  <2>4. Due' = {}
    BY <2>1, <2>2, <2>3, Zenon DEF Due
  <2> QED BY <1>0, <2>1, <2>2, <2>3, <2>4, Zenon DEF NumbersInv
<1>9. CASE EndsAfterRename
  <2>1. snapshot' = next - 1 /\ linked' = linked /\ next' = next /\ appended' = appended
        /\ handle'.stage # "snapshot"
    BY <1>9 DEF EndsAfterRename, Closed
  <2>2. next - 1 \in Nat /\ next - 1 < next /\ linked.snapshot <= next - 1
    BY <1>0
  <2> QED BY <1>0, <2>1, <2>2, Zenon DEF NumbersInv
<1>10. ASSUME NEW latches \in BOOLEAN, WriteSnapshotFails(latches) \/ RotateFails(latches)
       PROVE  NumbersInv'
  <2>1. handle'.stage = "idle" /\ "idle" # "snapshot"
    BY <1>0, <1>10, Zenon DEF WriteSnapshotFails, RotateFails, Handles
  <2> QED BY <1>1, <1>10, <2>1, Zenon DEF WriteSnapshotFails, RotateFails
<1>11. CASE rotate
  <2>1. handle'.stage = "idle" /\ "idle" # "snapshot"
    BY <1>0, <1>11, Zenon DEF rotate, Handles
  <2> QED BY <1>1, <1>11, <2>1, Zenon DEF rotate
<1>12. CASE Close
  <2>1. handle'.stage # "snapshot"
    BY <1>12 DEF Close, Closed
  <2> QED BY <1>1, <1>12, <2>1, Zenon DEF Close
<1>13. CASE PowerLoss
  <2>1. /\ snapshot' \in {linked.snapshot, snapshot} /\ next' = next /\ appended' = appended
        /\ linked'.snapshot = snapshot' /\ handle'.stage # "snapshot"
    BY <1>13 DEF PowerLoss, Snapshots, Closed
  <2>2. snapshot' \in Nat /\ snapshot' <= snapshot' /\ snapshot' < next
    BY <1>0, <2>1
  <2> QED BY <1>0, <2>1, <2>2, Zenon DEF NumbersInv
<1> QED
  BY <1>2, <1>3, <1>4, <1>5, <1>6, <1>7, <1>8, <1>9, <1>10, <1>11, <1>12, <1>13, Zenon
  DEF Next, Appends, Fails

\* Every step leaves what is due where a power failure does not reach it.
LEMMA SafeStep ==
  ASSUME Reliable, SafeInv, [Next]_vars
  PROVE  SafeInv'
<1>0. /\ HeaderInv' /\ KnownInv' /\ NumbersInv'
      /\ KnownInv /\ HeaderInv /\ NumbersInv /\ FilesInv
  <2>1. HeaderInv /\ KnownInv /\ NumbersInv /\ FilesInv
    BY Zenon DEF SafeInv, HeaderInv
  <2> QED BY <2>1, HeaderStep, KnownStep, NumbersStep, Zenon DEF Reliable
<1>1. /\ Stored(media.cells, cache.cells, Due)
      /\ InUse => Ready(media.cells, cache.cells, Due, handle.write_offset, known)
  BY Zenon DEF SafeInv
<1>2. /\ handle \in Handles /\ cache \in File /\ media \in File /\ next \in Nat
      /\ Sound(cache.cells, next) /\ cache.cells \in Seq(Cell)
  BY <1>0 DEF FilesInv, GoodFile, Sound
<1>3. 0 \notin Due /\ next \notin Due /\ (\A r \in Due : r < next) /\ next > linked.snapshot
  BY <1>0, <1>2 DEF NumbersInv, Due
<1>4. ASSUME Stored(media'.cells, cache'.cells, Due'),
             InUse' => Ready(media'.cells, cache'.cells, Due', handle'.write_offset, known')
      PROVE  SafeInv'
  BY <1>0, <1>4, Zenon DEF SafeInv
<1>5. CASE Create
  <2>1. Due' = {}
    <3>1. cache.header # "whole" /\ appended' = appended
      BY <1>5 DEF Create
    <3> QED BY <1>0, <3>1, Zenon DEF HeaderInv, Due
  <2>2. known' = <<>> /\ handle'.write_offset = 0
    BY <1>5, Zenon DEF Create, Closed
  <2> QED BY <1>4, <2>1, <2>2, NothingStored, NothingReady, Zenon
<1>6. CASE CreateFails
  <2>1. Due' = {} /\ ~InUse'
    <3>1. cache.header # "whole" /\ appended' = appended
      BY <1>6 DEF CreateFails
    <3> QED BY <1>0, <1>6, <3>1, Zenon DEF HeaderInv, Due, CreateFails, InUse
  <2> QED BY <1>4, <2>1, NothingStored, Zenon
<1>7. CASE Open
  <2> DEFINE found == replay(cache.cells)
  <2>1. /\ cache' = Cut(cache) /\ known' = found.records /\ handle'.write_offset = found.offset
        /\ media' = media /\ Due' = Due
    BY <1>7, Zenon DEF Open, Cut, Closed, Due
  <2>2. cache'.cells = SubSeq(cache.cells, 1, found.offset)
    BY <1>2, <2>1, FileParts, Zenon
  <2>3. Ready(media.cells, SubSeq(cache.cells, 1, found.offset), Due, found.offset, found.records)
    BY <1>1, <1>2, CutReady, Zenon
  <2>4. Ready(media'.cells, cache'.cells, Due', handle'.write_offset, known')
    BY <2>1, <2>2, <2>3, Zenon
  <2> QED BY <1>4, <2>4, Zenon DEF Ready, Stored
<1>8. ASSUME NEW size \in Sizes, NEW stage \in {"idle", "append"}, append(size, stage)
      PROVE  SafeInv'
  <2>1. /\ cache' = Rewritten(cache, handle.write_offset, next, size, size) /\ media' = cache'
        /\ known' = Append(known, next) /\ InUse
        /\ appended' = appended \cup {next} /\ linked' = linked
    BY <1>8, Zenon DEF append, At, Rewritten, InUse, durable_flush
  <2>2. handle'.write_offset = handle.write_offset + size
    BY <1>2, <1>8, Zenon DEF append, Handles
  <2>3. size \in Nat \ {0} /\ size \in 0..size
    BY JournalAssumption
  <2>4. Overwritten(cache.cells, cache'.cells, handle.write_offset, next, size, size)
    BY <1>0, <2>1, <2>3, AppendWrites, Zenon
  <2>5. InHand(cache.cells, handle.write_offset, known)
        /\ Ready(media.cells, cache.cells, Due, handle.write_offset, known)
    BY <1>0, <1>1, <2>1, Zenon DEF KnownInv
  <2>6. Ready(cache'.cells, cache'.cells, Due \cup {next}, handle.write_offset + size, Append(known, next))
    BY <1>2, <1>3, <2>3, <2>4, <2>5, AppendReady, Zenon
  <2>7. Due' = Due \cup {next}
    BY <1>3, <2>1, Zenon DEF Due
  <2>8. Ready(media'.cells, cache'.cells, Due', handle'.write_offset, known')
    BY <2>1, <2>2, <2>6, <2>7, Zenon
  <2> QED BY <1>4, <2>8, Zenon DEF Ready, Stored
<1>9. ASSUME NEW size \in Sizes, NEW latches \in BOOLEAN, AppendFails(size, latches)
      PROVE  SafeInv'
  <2>1. PICK m \in 0..size : cache' = Rewritten(cache, handle.write_offset, next, size, m)
    BY <1>9, Zenon DEF AppendFails, Rewritten
  <2>2. known' = known /\ InUse /\ media' = media /\ Due' = Due
    BY <1>9, Zenon DEF AppendFails, At, InUse, Due
  <2>3. handle'.write_offset = handle.write_offset
    BY <1>2, <1>9, Zenon DEF AppendFails, failed_offset, Handles
  <2>4. Overwritten(cache.cells, cache'.cells, handle.write_offset, next, size, m)
    BY <1>0, <2>1, <2>2, AppendWrites, Zenon
  <2>5. size \in Nat \ {0}
    BY JournalAssumption
  <2>6. handle.write_offset \in Nat /\ handle.write_offset <= Len(cache.cells)
    BY <1>0, <1>2, <2>2, OffsetWithin, Zenon DEF KnownInv
  <2>7. Ready(media.cells, cache'.cells, Due, handle.write_offset, known)
    BY <1>1, <1>2, <1>3, <2>2, <2>4, <2>5, <2>6, FailReady, Zenon
  <2>8. Ready(media'.cells, cache'.cells, Due', handle'.write_offset, known')
    BY <2>2, <2>3, <2>7, Zenon
  <2> QED BY <1>4, <2>8, Zenon DEF Ready, Stored
<1>10. ASSUME UNCHANGED <<cache, media, appended, linked, known>>,
              handle'.write_offset = handle.write_offset, InUse' => InUse
       PROVE  SafeInv'
  BY <1>1, <1>4, <1>10, Zenon DEF Due
<1>11. ASSUME NEW size \in Sizes, NEW latches \in BOOLEAN, AppendRefused(size, latches)
       PROVE  SafeInv'
  <2>1. handle'.write_offset = handle.write_offset /\ InUse
    BY <1>2, <1>11, Zenon DEF AppendRefused, At, InUse, Handles
  <2> QED BY <1>10, <1>11, <2>1, Zenon DEF AppendRefused
<1>12. CASE write_snapshot
  <2>1. /\ cache' = cache /\ media' = media /\ known' = known /\ InUse
        /\ handle'.write_offset = handle.write_offset /\ handle'.stage = "snapshot"
    BY <1>2, <1>12, Zenon DEF write_snapshot, At, InUse, Handles
  <2>2. Due' = {}
    BY <1>0, <2>1, Zenon DEF NumbersInv
  <2>3. {} \subseteq Due
    BY Zenon
  <2>4. Ready(media.cells, cache.cells, {}, handle.write_offset, known)
    BY <1>1, <2>1, <2>3, LessIsReady, Zenon
  <2> QED BY <1>4, <2>1, <2>2, <2>4, NothingStored, Zenon
<1>13. CASE EndsAfterRename
  <2>1. ~InUse'
    BY <1>13, Zenon DEF EndsAfterRename, Closed, InUse
  <2> QED BY <1>1, <1>4, <1>13, <2>1, Zenon DEF EndsAfterRename, Due
<1>14. ASSUME NEW latches \in BOOLEAN, WriteSnapshotFails(latches) PROVE SafeInv'
  <2>1. handle'.write_offset = handle.write_offset /\ InUse
    BY <1>2, <1>14, Zenon DEF WriteSnapshotFails, At, InUse, Handles
  <2> QED BY <1>10, <1>14, <2>1, Zenon DEF WriteSnapshotFails
<1>15. CASE rotate
  <2>1. known' = <<>> /\ handle'.write_offset = 0
    BY <1>2, <1>15, Zenon DEF rotate, Handles
  <2>2. Due' = {}
    BY <1>0, <1>15, Zenon DEF rotate, At, NumbersInv, Due
  <2> QED BY <1>4, <2>1, <2>2, NothingStored, NothingReady, Zenon
<1>16. ASSUME NEW latches \in BOOLEAN, RotateFails(latches) PROVE SafeInv'
  <2>1. Due' = {} /\ Due = {}
    BY <1>0, <1>16, Zenon DEF RotateFails, At, NumbersInv, Due
  <2>2. handle'.write_offset = handle.write_offset /\ InUse /\ known' = known /\ handle'.latched = latches
    BY <1>2, <1>16, Zenon DEF RotateFails, At, InUse, Handles
  <2>3. CASE ~latches
    <3>1. cache' = cache
      BY <1>2, <1>16, <2>3, FileParts, Zenon DEF RotateFails, rewrite_journal_header, Reliable
    <3>2. media' = media /\ appended' = appended /\ linked' = linked
      BY <1>16, Zenon DEF RotateFails
    <3> QED BY <1>10, <2>2, <3>1, <3>2, Zenon
  <2>4. CASE latches
    <3>1. ~InUse'
      BY <2>2, <2>4, Zenon DEF InUse
    <3> QED BY <1>4, <2>1, <3>1, NothingStored, Zenon
  <2> QED BY <2>3, <2>4, Zenon
<1>17. CASE Close
  <2>1. ~InUse' /\ Due' = Due /\ cache' = cache /\ media' \in {media, cache}
    BY <1>17, Zenon DEF Close, Closed, InUse, Due
  <2>2. Stored(cache.cells, cache.cells, Due)
    <3>1. Due \subseteq Due
      BY Zenon
    <3> QED BY <1>1, <3>1, LessIsReady, Zenon
  <2> QED BY <1>1, <1>4, <2>1, <2>2, Zenon
<1>18. CASE PowerLoss
  <2>1. ~InUse' /\ cache' \in Survivors(media, cache) /\ media' = cache'
    BY <1>18, Zenon DEF PowerLoss, Journals, Closed, InUse, Reliable
  <2>2. Due' \subseteq Due
    <3>1. appended' = appended /\ snapshot' \in {linked.snapshot, snapshot} /\ linked'.snapshot = snapshot'
      BY <1>18 DEF PowerLoss, Snapshots
    <3>2. \A r \in appended : r > linked'.snapshot => r > linked.snapshot
      BY <1>0, <3>1 DEF NumbersInv
    <3> QED BY <3>1, <3>2, Zenon DEF Due
  <2>3. Stored(cache'.cells, cache'.cells, Due)
    <3>1. PICK at, rs : Kept(media.cells, cache.cells, Due, at, rs)
      BY <1>1, Zenon DEF Stored
    <3>2. Mixes(cache', media, cache)
      BY <1>2, <2>1, PowerMixes, Zenon
    <3>3. Kept(cache'.cells, cache'.cells, Due, at, rs)
      BY <1>2, <1>3, <3>1, <3>2, MixKeeps, Zenon
    <3> QED BY <3>3, Zenon DEF Stored
  <2>4. Stored(cache'.cells, cache'.cells, Due')
    BY <2>2, <2>3, LessIsReady, Zenon
  <2> QED BY <1>4, <2>1, <2>4, Zenon
<1>19. CASE UNCHANGED vars
  BY <1>10, <1>19, Zenon DEF vars, InUse
<1> QED
  BY <1>5, <1>6, <1>7, <1>8, <1>9, <1>11, <1>12, <1>13, <1>14, <1>15, <1>16, <1>17, <1>18, <1>19, Zenon
  DEF Next, Appends, Fails

(***************************************************************************)
(* An append that returned success is found after any power failure, in    *)
(* order, unless the snapshot covers it: for any sizes of record, any      *)
(* number of failed appends, rotations and power failures, and whichever   *)
(* bytes that were not flushed the failure keeps.  The inductive invariant *)
(* says why: the records due lie whole, in order and from the first byte,  *)
(* in the flushed file AND in the written one, end at or before            *)
(* write_offset_, and no cell behind that end belongs to one of them.  So  *)
(* what a failure mixes of the two files agrees with both as far as the    *)
(* last record due, and append, which writes at write_offset_, touches     *)
(* none of it.  The hypothesis is what the code leaves unchecked: that a   *)
(* flushed new file keeps its name without a flush of its directory, that  *)
(* the flush of the directory behind a rename does not fail, and that a    *)
(* rotation whose last flush fails latches the handle.                     *)
(***************************************************************************)
THEOREM JournalAppendedSurvives ==
  ASSUME Reliable
  PROVE  Spec => []AppendedSurvives
<1>1. Init => SafeInv
  <2> SUFFICES ASSUME Init PROVE SafeInv
    OBVIOUS
  <2>1. FilesInv
    BY FilesInit
  <2>2. ~handle.open /\ ~InUse /\ appended = {} /\ Due = {}
    BY Zenon DEF Init, Closed, InUse, Due
  <2>3. KnownInv
    BY <2>1, <2>2, Zenon DEF KnownInv
  <2>4. HeaderInv
    BY <2>1, <2>2, Zenon DEF HeaderInv
  <2>5. NumbersInv
    <3>1. snapshot = 0 /\ linked.snapshot = 0 /\ next = 1 /\ appended = {}
      BY DEF Init
    <3> QED BY <2>2, <3>1 DEF NumbersInv
  <2> QED BY <2>2, <2>3, <2>4, <2>5, NothingStored, Zenon DEF SafeInv
<1>2. SafeInv /\ [Next]_vars => SafeInv'
  BY SafeStep
<1>3. SafeInv => AppendedSurvives
  <2> SUFFICES ASSUME SafeInv, NEW file \in Journals, NEW covered \in Snapshots
               PROVE  LET found == replay(file.cells).records
                          due   == {r \in appended : r > covered}
                      IN  /\ due \subseteq Range(found)
                          /\ \A j, k \in DOMAIN found :
                               j < k /\ {found[j], found[k]} \subseteq due => found[j] < found[k]
    BY Zenon DEF AppendedSurvives
  <2> DEFINE found == replay(file.cells).records
             due   == {r \in appended : r > covered}
  <2>1. /\ NumbersInv /\ Stored(media.cells, cache.cells, Due)
        /\ GoodFile(cache, next) /\ GoodFile(media, next) /\ next \in Nat \ {0}
        /\ cache \in File /\ media \in File
    BY Zenon DEF SafeInv, HeaderInv, FilesInv, GoodFile
  <2>2. GoodFile(file, next) /\ Mixes(file, media, cache)
    <3>1. file \in Survivors(media, cache)
      BY Zenon DEF Journals, Reliable
    <3> QED BY <2>1, <3>1, SurvivorGood, Zenon
  <2>3. Sound(file.cells, next) /\ 0 \notin Due
    BY <2>1, <2>2, Zenon DEF GoodFile, NumbersInv, Due
  <2>4. PICK at, rs : Kept(media.cells, cache.cells, Due, at, rs)
    BY <2>1, Zenon DEF Stored
  <2>5. Kept(file.cells, file.cells, Due, at, rs)
    BY <2>1, <2>2, <2>3, <2>4, MixKeeps, Zenon
  <2>6. Laid(file.cells, at, rs) /\ Covers(rs, Due) /\ Clear(file.cells, at[Len(rs)], Due)
    BY <2>5, Zenon DEF Kept
  <2>7. Covers(found, Due)
    BY <2>3, <2>6, FoundCovers, Zenon
  <2>8. due \subseteq Due
    <3>1. covered \in {linked.snapshot, snapshot}
      BY Zenon DEF Snapshots
    <3>2. \A r \in appended : r > covered => r > linked.snapshot
      BY <2>1, <3>1 DEF NumbersInv
    <3> QED BY <3>2, Zenon DEF Due
  <2> HIDE DEF found, due
  <2>9. due \subseteq Range(found)
    BY <2>7, <2>8, Zenon DEF Covers
  <2>10. \A j, k \in DOMAIN found :
           j < k /\ {found[j], found[k]} \subseteq due => found[j] < found[k]
    BY <2>7, <2>8, Zenon DEF Covers
  <2> QED BY <2>9, <2>10 DEF found, due
<1> QED BY <1>1, <1>2, <1>3, PTL DEF Spec
=============================================================================

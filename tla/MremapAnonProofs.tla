-------------------------- MODULE MremapAnonProofs --------------------------
(***************************************************************************)
(* Proofs about the mremap test points, for every size of an area and      *)
(* every address space: the layout, that a correct kernel passes, and that *)
(* each defect is reported by the test points of Catches and by no other.  *)
(* TLC tries areas of four and five pages; a large area of the code has    *)
(* 512.                                                                    *)
(*                                                                         *)
(* A test point is one of 17 shapes (two of them have a shared form), so   *)
(* what is particular to a test point is shown once per shape: Outcome of  *)
(* mremap on the layout.  The rest holds for any shape.                    *)
(***************************************************************************)
EXTENDS MremapAnon, TLAPS

\* Zenon proves most steps; those that need arithmetic or records cite SMT.
USE Zenon

\* The size of the areas before area k.
Off(k) ==
    (IF 1 < k THEN Size(1) ELSE 0) + (IF 2 < k THEN Size(2) ELSE 0) + (IF 3 < k THEN Size(3) ELSE 0)
      + (IF 4 < k THEN Size(4) ELSE 0) + (IF 5 < k THEN Size(5) ELSE 0)

Prots == SUBSET {"PROT_READ", "PROT_WRITE"}
AreaType == [size : Nat, nopage : {0, 1}, shared : {0, 1}, prot : Prots]

\* A page of area k once it is formatted.
AreaPage(k) ==
    IF P[k].nopage = 1 THEN Unmapped
    ELSE Mapping(P[k].prot, IF "PROT_WRITE" \in P[k].prot THEN Digit(k) ELSE "nul", P[k].shared)

\* The areas before n are formatted, those up to n have their place.
Formatted(n) ==
    /\ addr \in [DOMAIN P -> Int]
    /\ 0 <= addr[1] /\ addr[1] + total_size <= Pages
    /\ \A k \in DOMAIN P : k <= n => addr[k] = addr[1] + Off(k)
    /\ \A k \in DOMAIN P : k < n => \A p \in Span(addr[k], P[k].size) : mem[p] = AreaPage(k)
    /\ \A p \in Space \ Span(addr[1], total_size) : mem[p] = Unmapped

\* What access to page p of memory m raises.
FaultIn(m, p, prot) ==
    IF p \notin Space \/ m[p] = Unmapped THEN "SIGSEGV"
    ELSE IF prot \notin m[p].prot THEN "SIGSEGV"
    ELSE IF m[p].beyond = 1 THEN "SIGBUS"
    ELSE "none"

\* Check c finds what it asks for in memory m, with the new area at a.
Satisfied(c, m, a) ==
    LET f == (IF c.at.area = 0 THEN a ELSE addr[c.at.area]) + c.at.off
    IN  /\ c.check = "data" =>
              \A p \in f .. f + c.len - 1 : FaultIn(m, p, "PROT_READ") = "none" /\ m[p].ch = c.exp
        /\ c.check = "access" => \A p \in f .. f + c.len - 1 : FaultIn(m, p, "PROT_WRITE") = "none"
        /\ c.check = "signal" => FaultIn(m, f, "PROT_READ") = c.exp

Checks == Points[t].checks

\* The test point looks at what the kernel gets wrong.
Caught == t \in Catches(defect)
Reported == Judged => (Passed <=> ~Caught)

\* The checks from n on hold, unless the test point looks at what the kernel gets
\* wrong: then one of them does not.
Decided(n, m, a) ==
    /\ ~Caught => \A j \in DOMAIN Checks : n <= j => Satisfied(Checks[j], m, a)
    /\ Caught => \E j \in DOMAIN Checks : n <= j /\ ~Satisfied(Checks[j], m, a)

\* What a result of mremap leads to.
Outcome(r) ==
    /\ ~Caught => Expected(r)
    /\ Caught /\ Checks = <<>> => ~Expected(r)
    /\ Expected(r) /\ Checks # <<>> => Decided(1, r.mem, r.addr)

IInv ==
    /\ t \in Numbers
    /\ pc \in {"reserve", "format", "mremap", "check", "exited"}
    /\ pc # "exited" => handler = "SIG_DFL"
    /\ pc = "reserve" => /\ i = 1 /\ addr \in [DOMAIN P -> Int]
                         /\ \A p \in Space : mem[p] = Unmapped
    /\ pc = "format" => i \in DOMAIN P /\ Formatted(i)
    /\ pc = "mremap" => i = 1 /\ Formatted(Len(P) + 1)
    /\ pc = "check" => i \in DOMAIN Checks /\ Decided(i, mem, remapped)
    /\ Reported

-----------------------------------------------------------------------------
(* The table: every test point is a shape with areas of more than a page.  *)

SharedForm(n, r) == IF n = 3 THEN SharedShape3(r) ELSE SharedShape5(r)
Shape(n, r, sh) ==
    CASE n = 0 -> Shape0(r, sh) [] n = 1 -> Shape1(r, sh) [] n = 2 -> Shape2(r, sh)
      [] n = 3 -> Shape3(r, sh) [] n = 4 -> Shape4(r, sh) [] n = 5 -> Shape5(r, sh)
      [] n = 6 -> Shape6(r, sh) [] n = 7 -> Shape7(r, sh) [] n = 8 -> Shape8(r, sh)
      [] n = 9 -> Shape9(r, sh) [] n = 10 -> Shape10(r, sh) [] n = 11 -> Shape11(r, sh)
      [] n = 12 -> Shape12(r, sh) [] n = 13 -> Shape13(r, sh) [] n = 14 -> Shape14(r, sh)
      [] n = 15 -> Shape15(r, sh) [] n = 16 -> Shape16(r, sh)

\* Test point n is shape k, with areas of r pages, private (sh = 0) or shared (sh = 1).
IsShape(n, k, r, sh) ==
    /\ k \in 0 .. 16 /\ r \in Nat /\ r > 1 /\ sh \in {0, 1}
    /\ n % 100 = k /\ (n \div 100) % 2 = sh
    /\ Points[n] = IF sh = 1 /\ k \in {3, 5} THEN SharedForm(k, r) ELSE Shape(k, r, sh)

LEMMA Table0 == \A k \in 0 .. 16 : IsShape(k, k, MREMAP_RANGE_SIZE, 0)
<1> TAKE k \in 0 .. 16
<1>1. k \in Numbers
  BY SMT DEF Numbers
<1>2. k \in Int /\ k % 100 = k /\ (k \div 100) % 2 = 0
  BY SMT
<1>3. Points[k] = Shape(k, MREMAP_RANGE_SIZE, 0)
  <2>1. CASE k \in 0 .. 4
    BY <1>1, <2>1, SMT DEF Points, Shape, Run000, Run001, Run002, Run003, Run004
  <2>2. CASE k \in 5 .. 8
    BY <1>1, <2>2, SMT DEF Points, Shape, Run005, Run006, Run007, Run008
  <2>3. CASE k \in 9 .. 12
    BY <1>1, <2>3, SMT DEF Points, Shape, Run009, Run010, Run011, Run012
  <2>4. CASE k \in 13 .. 16
    BY <1>1, <2>4, SMT DEF Points, Shape, Run013, Run014, Run015, Run016
  <2> QED
    BY <1>2, <2>1, <2>2, <2>3, <2>4, SMT
<1> QED
  BY <1>2, <1>3, RangeAssumption, SMT DEF IsShape

LEMMA Table1 == \A k \in 0 .. 16 : IsShape(100 + k, k, MREMAP_RANGE_SIZE, 1)
<1> TAKE k \in 0 .. 16
<1>1. 100 + k \in Numbers
  BY SMT DEF Numbers
<1>2. k \in Int /\ (100 + k) % 100 = k /\ ((100 + k) \div 100) % 2 = 1
  BY SMT
<1>3. Points[100 + k] = IF k = 3 THEN SharedShape3(MREMAP_RANGE_SIZE) ELSE IF k = 5 THEN SharedShape5(MREMAP_RANGE_SIZE) ELSE Shape(k, MREMAP_RANGE_SIZE, 1)
  <2>1. CASE k \in 0 .. 4
    BY <1>1, <2>1, SMTT(30) DEF Points, Shape, Run100, Run101, Run102, Run103, Run104
  <2>2. CASE k \in 5 .. 8
    BY <1>1, <2>2, SMT DEF Points, Shape, Run105, Run106, Run107, Run108
  <2>3. CASE k \in 9 .. 12
    BY <1>1, <2>3, SMTT(30) DEF Points, Shape, Run109, Run110, Run111, Run112
  <2>4. CASE k \in 13 .. 16
    BY <1>1, <2>4, SMT DEF Points, Shape, Run113, Run114, Run115, Run116
  <2> QED
    BY <1>2, <2>1, <2>2, <2>3, <2>4, SMT
<1> QED
  BY <1>2, <1>3, RangeAssumption DEF IsShape, SharedForm

LEMMA Table2 == \A k \in 0 .. 16 : IsShape(200 + k, k, MREMAP_RANGE_LARGE_SIZE, 0)
<1> TAKE k \in 0 .. 16
<1>1. 200 + k \in Numbers
  BY SMT DEF Numbers
<1>2. k \in Int /\ (200 + k) % 100 = k /\ ((200 + k) \div 100) % 2 = 0
  BY SMT
<1>3. Points[200 + k] = Shape(k, MREMAP_RANGE_LARGE_SIZE, 0)
  <2>1. CASE k \in 0 .. 4
    BY <1>1, <2>1, SMTT(30) DEF Points, Shape, Run200, Run201, Run202, Run203, Run204
  <2>2. CASE k \in 5 .. 8
    BY <1>1, <2>2, SMTT(30) DEF Points, Shape, Run205, Run206, Run207, Run208
  <2>3. CASE k \in 9 .. 12
    BY <1>1, <2>3, SMTT(30) DEF Points, Shape, Run209, Run210, Run211, Run212
  <2>4. CASE k \in 13 .. 16
    BY <1>1, <2>4, SMT DEF Points, Shape, Run213, Run214, Run215, Run216
  <2> QED
    BY <1>2, <2>1, <2>2, <2>3, <2>4, SMT
<1> QED
  BY <1>2, <1>3, RangeAssumption, SMT DEF IsShape

LEMMA Table3 == \A k \in 0 .. 16 : IsShape(300 + k, k, MREMAP_RANGE_LARGE_SIZE, 1)
<1> TAKE k \in 0 .. 16
<1>1. 300 + k \in Numbers
  BY SMT DEF Numbers
<1>2. k \in Int /\ (300 + k) % 100 = k /\ ((300 + k) \div 100) % 2 = 1
  BY SMT
<1>3. Points[300 + k] = IF k = 3 THEN SharedShape3(MREMAP_RANGE_LARGE_SIZE) ELSE IF k = 5 THEN SharedShape5(MREMAP_RANGE_LARGE_SIZE) ELSE Shape(k, MREMAP_RANGE_LARGE_SIZE, 1)
  <2>1. CASE k \in 0 .. 4
    BY <1>1, <2>1, SMT DEF Points, Shape, Run300, Run301, Run302, Run303, Run304
  <2>2. CASE k \in 5 .. 8
    BY <1>1, <2>2, SMT DEF Points, Shape, Run305, Run306, Run307, Run308
  <2>3. CASE k \in 9 .. 12
    BY <1>1, <2>3, SMTT(30) DEF Points, Shape, Run309, Run310, Run311, Run312
  <2>4. CASE k \in 13 .. 16
    BY <1>1, <2>4, SMT DEF Points, Shape, Run313, Run314, Run315, Run316
  <2> QED
    BY <1>2, <2>1, <2>2, <2>3, <2>4, SMT
<1> QED
  BY <1>2, <1>3, RangeAssumption, SMT DEF IsShape, SharedForm

LEMMA Table == \A n \in Numbers : \E k \in 0 .. 16, r \in Nat, sh \in {0, 1} : IsShape(n, k, r, sh)
<1> TAKE n \in Numbers
<1>1. PICK v \in 0 .. 3, k \in 0 .. 16 : n = 100 * v + k
  BY SMT DEF Numbers
<1>2. MREMAP_RANGE_SIZE \in Nat /\ MREMAP_RANGE_LARGE_SIZE \in Nat
  BY RangeAssumption
<1>3. CASE v = 0
  BY <1>1, <1>2, <1>3, Table0, SMT
<1>4. CASE v = 1
  BY <1>1, <1>2, <1>4, Table1, SMT
<1>5. CASE v = 2
  BY <1>1, <1>2, <1>5, Table2, SMT
<1>6. CASE v = 3
  BY <1>1, <1>2, <1>6, Table3, SMT
<1> QED
  BY <1>3, <1>4, <1>5, <1>6, SMT

\* What all test points have in common: areas, at most five, and checks of which only
\* the last one changes memory or ends the process.
CheckType == [check : {"data", "access", "signal"}, at : [area : Nat, off : Int], len : Int,
              exp : {"0", "1", "2", "SIGSEGV", "SIGBUS"}]
WellFormed(x) ==
    /\ x.params \in Seq(AreaType) /\ Len(x.params) \in 1 .. 5
    /\ x.checks \in Seq(CheckType)
    /\ \A j \in DOMAIN x.checks : x.checks[j].check # "data" => j = Len(x.checks)
    /\ \A j \in DOMAIN x.checks : x.checks[j].check = "signal" => x.checks[j].exp \in {"SIGSEGV", "SIGBUS"}

LEMMA ShapesWellFormed ==
    ASSUME NEW r \in Nat, NEW sh \in {0, 1}, NEW k \in 0 .. 16
    PROVE  WellFormed(Shape(k, r, sh)) /\ WellFormed(SharedShape3(r)) /\ WellFormed(SharedShape5(r))
<1> USE DEF Point, WellFormed, rw, ro, use, free, Area, AreaType, Prots, Data, Access, Signal, remap, At, CheckType
<1>1. WellFormed(Shape0(r, sh))
  BY SMT DEF Shape0
<1>2. WellFormed(Shape1(r, sh))
  BY SMT DEF Shape1
<1>3. WellFormed(Shape2(r, sh))
  BY SMT DEF Shape2
<1>4. WellFormed(Shape3(r, sh))
  BY SMT DEF Shape3
<1>5. WellFormed(Shape4(r, sh))
  BY SMT DEF Shape4
<1>6. WellFormed(Shape5(r, sh))
  BY SMT DEF Shape5
<1>7. WellFormed(Shape6(r, sh))
  BY SMT DEF Shape6
<1>8. WellFormed(Shape7(r, sh))
  BY SMT DEF Shape7
<1>9. WellFormed(Shape8(r, sh))
  BY SMT DEF Shape8
<1>10. WellFormed(Shape9(r, sh))
  BY SMT DEF Shape9
<1>11. WellFormed(Shape10(r, sh))
  BY SMT DEF Shape10
<1>12. WellFormed(Shape11(r, sh))
  BY SMT DEF Shape11
<1>13. WellFormed(Shape12(r, sh))
  BY SMT DEF Shape12
<1>14. WellFormed(Shape13(r, sh))
  BY SMT DEF Shape13
<1>15. WellFormed(Shape14(r, sh))
  BY SMT DEF Shape14
<1>16. WellFormed(Shape15(r, sh))
  BY SMT DEF Shape15
<1>17. WellFormed(Shape16(r, sh))
  BY SMT DEF Shape16
<1>18. WellFormed(SharedShape3(r))
  BY SMT DEF SharedShape3, Shape3
<1>19. WellFormed(SharedShape5(r))
  BY SMT DEF SharedShape5, Shape5
<1> QED
  <2> HIDE DEF WellFormed
  <2> QED
    BY <1>1, <1>2, <1>3, <1>4, <1>5, <1>6, <1>7, <1>8, <1>9, <1>10, <1>11, <1>12, <1>13, <1>14, <1>15, <1>16, <1>17, <1>18, <1>19, SMT DEF Shape

LEMMA PointsWellFormed == \A n \in Numbers : WellFormed(Points[n])
<1> TAKE n \in Numbers
<1>1. PICK k \in 0 .. 16, r \in Nat, sh \in {0, 1} : IsShape(n, k, r, sh)
  BY Table
<1> QED
  BY <1>1, ShapesWellFormed, SMT DEF IsShape, SharedForm
-----------------------------------------------------------------------------
(* The layout.                                                             *)

LEMMA Sizes ==
    ASSUME t \in Numbers
    PROVE  /\ Len(P) \in 1 .. 5 /\ DOMAIN P = 1 .. Len(P)
           /\ \A k \in DOMAIN P : P[k] \in AreaType /\ P[k].size = Size(k)
           /\ \A k \in 1 .. 5 : Size(k) \in Nat
<1>1. P \in Seq(AreaType) /\ Len(P) \in 1 .. 5
  BY PointsWellFormed DEF WellFormed, P
<1>2. DOMAIN P = 1 .. Len(P) /\ \A k \in DOMAIN P : P[k] \in AreaType
  BY <1>1, SMT
<1>3. \A x \in AreaType : x.size \in Nat
  BY DEF AreaType
<1> QED
  BY <1>1, <1>2, <1>3 DEF Size

\* Areas follow each other without gaps, inside the range reserved for them.
LEMMA Offsets ==
    ASSUME t \in Numbers
    PROVE  /\ Off(1) = 0 /\ total_size \in Nat
           /\ \A k \in DOMAIN P : /\ Off(k) \in Nat /\ Off(k + 1) = Off(k) + P[k].size
                                  /\ Off(k + 1) <= total_size
           /\ \A k, l \in DOMAIN P : k < l => Off(k) + P[k].size <= Off(l)
<1>1. DOMAIN P \subseteq 1 .. 5 /\ \A k \in DOMAIN P : P[k].size = Size(k)
  BY Sizes, SMT
<1>2. Size(1) \in Nat /\ Size(2) \in Nat /\ Size(3) \in Nat /\ Size(4) \in Nat /\ Size(5) \in Nat
  BY Sizes, SMT
<1>3. Off(1) = 0 /\ total_size \in Nat
  BY <1>2, SMT DEF Off, total_size
<1>4. \A k \in 1 .. 5 : Off(k) \in Nat /\ Off(k + 1) = Off(k) + Size(k) /\ Off(k + 1) <= total_size
  BY <1>2, SMT DEF Off, total_size
<1>5. \A k, l \in 1 .. 5 : k < l => Off(k) + Size(k) <= Off(l)
  BY <1>2, SMT DEF Off
<1> QED
  BY <1>1, <1>3, <1>4, <1>5

LEMMA ReserveInv == IInv /\ Reserve => IInv'
<1> SUFFICES ASSUME IInv, Reserve PROVE IInv'
  OBVIOUS
<1>1. /\ t \in Numbers /\ pc = "reserve" /\ i = 1 /\ handler = "SIG_DFL"
      /\ addr \in [DOMAIN P -> Int] /\ \A p \in Space : mem[p] = Unmapped
      /\ UNCHANGED <<t, defect, i, remapped, errno, handler>>
  BY DEF IInv, Reserve
<1>2. CASE pc' = "format"
  <2>1. PICK a \in 0 .. Slack :
          /\ AllFree(mem, a, total_size)
          /\ mem' = [p \in Space |-> IF p \in Span(a, total_size) THEN Mapping({}, "nul", 1) ELSE mem[p]]
          /\ addr' = [addr EXCEPT ![1] = a]
    BY <1>2 DEF Reserve, Exit
  <2>2. 1 \in DOMAIN P /\ DOMAIN P \subseteq Nat \ {0} /\ P' = P /\ Off(1) = 0
    <3>1. P' = P
      BY <1>1 DEF P
    <3>2. 1 \in DOMAIN P /\ DOMAIN P \subseteq Nat \ {0}
      BY <1>1, Sizes, SMT
    <3> QED
      BY <1>1, <3>1, <3>2, Offsets
  <2>3. total_size' = total_size /\ Off(1)' = Off(1)
    BY <1>1 DEF total_size, Off, Size, P
  <2>4. a \in Int /\ 0 <= a /\ a + total_size <= Pages
    BY <2>1, SpaceAssumption, SMT DEF AllFree
  <2>5. addr' \in [DOMAIN P -> Int] /\ addr'[1] = a
    BY <1>1, <2>1, <2>2, <2>4
  <2>6. \A p \in Space \ Span(a, total_size) : mem'[p] = Unmapped
    BY <1>1, <2>1
  <2>7. \A k \in DOMAIN P : k <= 1 => k = 1
    BY <2>2, SMT
  <2>8. Formatted(1)'
    BY <2>2, <2>3, <2>4, <2>5, <2>6, <2>7, SMT DEF Formatted, Span, Space
  <2> QED
    BY <1>1, <1>2, <2>2, <2>8 DEF IInv, Reported, Judged
<1>3. CASE pc' = "exited"
  <2>1. verdict' = "mmap error."
    BY <1>1, <1>3 DEF Reserve, Exit
  <2> QED
    BY <1>1, <1>3, <2>1 DEF IInv, Reported, Judged
<1> QED
  BY <1>2, <1>3 DEF Reserve, Exit

\* One turn of the loop: one more area is in place, and the next one follows it.
LEMMA FormatStep ==
    ASSUME t \in Numbers, i \in DOMAIN P, Formatted(i), UNCHANGED t,
           mem' = [p \in Space |-> IF p \notin Span(addr[i], P[i].size) THEN mem[p] ELSE AreaPage(i)],
           addr' = IF i = Len(P) THEN addr ELSE [addr EXCEPT ![i + 1] = addr[i] + P[i].size],
           NEW n, n = i + 1
    PROVE  Formatted(n)'
<1> DEFINE a == addr[1]
<1>0. DOMAIN P = 1 .. Len(P) /\ Len(P) \in 1 .. 5 /\ P[i].size = Size(i)
  BY Sizes
<1>1. DOMAIN P = 1 .. Len(P) /\ i \in Int /\ 1 <= i /\ i <= Len(P) /\ Len(P) \in Int /\ 1 \in DOMAIN P
  BY <1>0, SMT
<1>2. /\ P' = P /\ total_size' = total_size /\ \A k : Off(k)' = Off(k) /\ AreaPage(k)' = AreaPage(k)
      /\ \A x, y : Span(x, y)' = Span(x, y)
  BY SMT DEF P, total_size, Off, Size, AreaPage, Mapping, Unmapped, Digit, Span, Space
<1>3. /\ addr \in [DOMAIN P -> Int] /\ a \in Int /\ 0 <= a /\ a + total_size <= Pages
      /\ \A k \in DOMAIN P : k <= i => addr[k] = a + Off(k)
  BY <1>1 DEF Formatted
<1>4. \A k \in DOMAIN P : P[k].size \in Nat
  BY Sizes DEF AreaType
<1>5. addr[i] = a + Off(i) /\ Off(i) \in Nat /\ P[i].size \in Nat /\ Off(i) + P[i].size <= total_size
         /\ Off(i + 1) = Off(i) + P[i].size /\ total_size \in Nat
  BY <1>1, <1>3, <1>4, Offsets, SMT
<1>6. addr' \in [DOMAIN P -> Int] /\ addr'[1] = a
  <2>1. CASE i = Len(P)
    BY <1>3, <2>1
  <2>2. CASE i # Len(P)
    <3>1. addr' = [addr EXCEPT ![i + 1] = addr[i] + P[i].size] /\ i + 1 # 1
      BY <1>1, <2>2, SMT
    <3>2. addr[i] + P[i].size \in Int
      BY <1>3, <1>5, SMT
    <3> QED
      BY <1>1, <1>3, <3>1, <3>2
  <2> QED
    BY <2>1, <2>2
<1>7. \A k \in DOMAIN P : k <= n => addr'[k] = a + Off(k)
  <2> SUFFICES ASSUME NEW k \in DOMAIN P, k <= n PROVE addr'[k] = a + Off(k)
    OBVIOUS
  <2>1. CASE k <= i
    <3>1. k # i + 1
      BY <1>1, <2>1, SMT
    <3> QED
      BY <1>3, <2>1, <3>1
  <2>2. CASE ~(k <= i)
    <3>1. k = i + 1 /\ i # Len(P)
      BY <1>1, <2>2, SMT
    <3>2. addr'[k] = addr[i] + P[i].size
      BY <1>3, <3>1
    <3> QED
      BY <1>3, <1>5, <3>1, <3>2, SMT
  <2> QED
    BY <2>1, <2>2
<1>8. \A k \in DOMAIN P : k < n => \A p \in Span(addr'[k], P[k].size) : mem'[p] = AreaPage(k)
  <2> SUFFICES ASSUME NEW k \in DOMAIN P, k < n, NEW p \in Span(addr'[k], P[k].size)
               PROVE  mem'[p] = AreaPage(k)
    OBVIOUS
  <2>1. k <= i /\ k \in Int
    BY <1>1, SMT
  <2>2. addr'[k] = addr[k] /\ p \in Space /\ p \in Int
    BY <1>3, <1>7, <2>1, SMT DEF Span, Space
  <2>3. CASE k = i
    BY <2>2, <2>3
  <2>4. CASE k # i
    <3>1. Off(k) + P[k].size <= Off(i) /\ Off(k) \in Nat /\ P[k].size \in Nat /\ addr[k] = a + Off(k)
      BY <1>1, <1>3, <1>4, <2>1, <2>4, Offsets, SMT
    <3>2. p \notin Span(addr[i], P[i].size)
      BY <1>3, <1>5, <2>2, <3>1, SMTT(30) DEF Span
    <3>3. mem[p] = AreaPage(k)
      BY <1>1, <2>1, <2>2, <2>4, SMT DEF Formatted
    <3> QED
      BY <2>2, <3>2, <3>3
  <2> QED
    BY <2>3, <2>4
<1>9. \A p \in Space \ Span(a, total_size) : mem'[p] = Unmapped
  <2> SUFFICES ASSUME NEW p \in Space, p \notin Span(a, total_size) PROVE mem'[p] = Unmapped
    OBVIOUS
  <2>1. p \notin Span(addr[i], P[i].size)
    BY <1>3, <1>5, SpaceAssumption, SMTT(30) DEF Span, Space
  <2>2. mem[p] = Unmapped
    BY DEF Formatted
  <2> QED
    BY <2>1, <2>2
<1> QED
  BY <1>2, <1>3, <1>6, <1>7, <1>8, <1>9 DEF Formatted, Space, Unmapped

LEMMA FormatInv == IInv /\ Format => IInv'
<1> SUFFICES ASSUME IInv, Format PROVE IInv'
  OBVIOUS
<1>1. /\ t \in Numbers /\ pc = "format" /\ handler = "SIG_DFL" /\ i \in DOMAIN P /\ Formatted(i)
      /\ UNCHANGED <<t, defect, remapped, errno, handler>>
  BY DEF IInv, Format
<1>2. P' = P /\ DOMAIN P = 1 .. Len(P) /\ Len(P) \in Nat
  BY <1>1, Sizes, SMT DEF P
<1>3. CASE pc' = "exited"
  <2>1. verdict' = "mmap error."
    BY <1>1, <1>3 DEF Format, Exit
  <2> QED
    BY <1>1, <1>3, <2>1 DEF IInv, Reported, Judged
<1>4. CASE pc' # "exited"
  <2>1. /\ mem' = [p \in Space |-> IF p \notin Span(addr[i], P[i].size) THEN mem[p] ELSE AreaPage(i)]
        /\ IF i = Len(P)
           THEN i' = 1 /\ pc' = "mremap" /\ UNCHANGED addr
           ELSE i' = i + 1 /\ addr' = [addr EXCEPT ![i + 1] = addr[i] + P[i].size] /\ UNCHANGED pc
    BY <1>4 DEF Format, Exit, AreaPage
  <2>2. addr' = IF i = Len(P) THEN addr ELSE [addr EXCEPT ![i + 1] = addr[i] + P[i].size]
    BY <2>1
  <2>3. PICK n : n = i + 1
    OBVIOUS
  <2>4. Formatted(n)'
    BY <1>1, <2>1, <2>2, <2>3, FormatStep
  <2>5. CASE i = Len(P)
    BY <1>1, <1>2, <2>1, <2>3, <2>4, <2>5 DEF IInv, Reported, Judged
  <2>6. CASE i # Len(P)
    <3>1. i' = n /\ pc' = "format" /\ n \in DOMAIN P
      BY <1>1, <1>2, <2>1, <2>3, <2>6, SMT
    <3>2. Formatted(i)'
      BY <2>4, <3>1 DEF Formatted
    <3> QED
      BY <1>1, <1>2, <3>1, <3>2 DEF IInv, Reported, Judged
  <2> QED
    BY <2>5, <2>6
<1> QED
  BY <1>3, <1>4
-----------------------------------------------------------------------------
(* The checks.                                                             *)

LEMMA HereType ==
    ASSUME t \in Numbers, i \in DOMAIN Checks
    PROVE  /\ Here = Checks[i] /\ Len(Checks) \in Nat /\ DOMAIN Checks = 1 .. Len(Checks)
           /\ Here.check \in {"data", "access", "signal"} /\ Here.len \in Int
           /\ Here.check # "data" => i = Len(Checks)
           /\ Here.check = "signal" => Here.exp \in {"SIGSEGV", "SIGBUS"}
<1>1. WellFormed(Points[t])
  BY PointsWellFormed
<1>2. Checks \in Seq(CheckType) /\ Here = Checks[i]
  BY <1>1 DEF WellFormed, Checks, Here
<1>3. \A c \in CheckType : c.check \in {"data", "access", "signal"} /\ c.len \in Int
  BY DEF CheckType
<1> QED
  BY <1>1, <1>2, <1>3, SMT DEF WellFormed, Checks

\* What a check that finds what it asks for, or not, says of the kernel.
LEMMA HereDecides ==
    ASSUME i \in DOMAIN Checks, Decided(i, mem, remapped), DOMAIN Checks = 1 .. Len(Checks), Len(Checks) \in Nat
    PROVE  /\ ~Caught => Satisfied(Checks[i], mem, remapped)
           /\ Satisfied(Checks[i], mem, remapped) /\ i = Len(Checks) => ~Caught
           /\ Satisfied(Checks[i], mem, remapped) /\ i # Len(Checks) =>
                 i + 1 \in DOMAIN Checks /\ Decided(i + 1, mem, remapped)
<1>1. i \in Int /\ 1 <= i /\ i <= Len(Checks)
  BY SMT
<1>2. ~Caught => Satisfied(Checks[i], mem, remapped)
  BY <1>1, SMT DEF Decided
<1>3. ASSUME Satisfied(Checks[i], mem, remapped), Caught
      PROVE  \E j \in DOMAIN Checks : i + 1 <= j /\ ~Satisfied(Checks[j], mem, remapped)
  <2>1. PICK j \in DOMAIN Checks : i <= j /\ ~Satisfied(Checks[j], mem, remapped)
    BY <1>3 DEF Decided
  <2>2. j # i
    BY <1>3, <2>1
  <2>3. i + 1 <= j
    BY <1>1, <2>1, <2>2, SMT
  <2> QED
    BY <2>1, <2>3
<1>4. \A j \in DOMAIN Checks : i + 1 <= j => i <= j
  BY <1>1, SMT
<1>5. ~Caught => \A j \in DOMAIN Checks : i + 1 <= j => Satisfied(Checks[j], mem, remapped)
  BY <1>4 DEF Decided
<1>6. i = Len(Checks) => \A j \in DOMAIN Checks : ~(i + 1 <= j)
  BY <1>1, SMT
<1>7. i # Len(Checks) => i + 1 \in DOMAIN Checks
  BY <1>1, SMT
<1> QED
  BY <1>2, <1>3, <1>5, <1>6, <1>7 DEF Decided

LEMMA FaultKinds ==
    /\ \A p, x : Fault(p, x) = FaultIn(mem, p, x)
    /\ \A p, x : Fault(p, x) \in {"none", "SIGSEGV", "SIGBUS"}
BY DEF Fault, FaultIn

\* A check that does not find what it asks for never passes, one that does goes on.
LEMMA CheckStep ==
    ASSUME IInv, pc = "check", UNCHANGED <<t, defect>>,
           \/ /\ Satisfied(Here, mem, remapped) /\ i = Len(Checks)
              /\ pc' = "exited" /\ verdict' \in {"ok", "exit0"}
           \/ /\ Satisfied(Here, mem, remapped) /\ i # Len(Checks)
              /\ i' = i + 1 /\ UNCHANGED <<pc, verdict, mem, remapped, handler, addr>>
           \/ /\ ~Satisfied(Here, mem, remapped)
              /\ pc' = "exited" /\ verdict' \notin {"ok", "exit0"}
    PROVE  IInv'
<1>1. t \in Numbers /\ i \in DOMAIN Checks /\ Decided(i, mem, remapped) /\ handler = "SIG_DFL"
  BY DEF IInv
<1>2. Here = Checks[i] /\ Len(Checks) \in Nat /\ DOMAIN Checks = 1 .. Len(Checks)
  BY <1>1, HereType
<1>3. /\ ~Caught => Satisfied(Here, mem, remapped)
      /\ Satisfied(Here, mem, remapped) /\ i = Len(Checks) => ~Caught
      /\ Satisfied(Here, mem, remapped) /\ i # Len(Checks) =>
            i + 1 \in DOMAIN Checks /\ Decided(i + 1, mem, remapped)
  BY <1>1, <1>2, HereDecides
<1>4. Caught' = Caught /\ Checks' = Checks
  BY DEF Caught, Catches, Shapes, Checks
<1>5. CASE pc' = "exited"
  BY <1>1, <1>3, <1>4, <1>5 DEF IInv, Reported, Judged, Passed
<1>6. CASE pc' # "exited"
  <2>1. /\ i' = i + 1 /\ UNCHANGED <<pc, verdict, mem, remapped, handler, addr>>
        /\ Satisfied(Here, mem, remapped) /\ i # Len(Checks)
    BY <1>6
  <2>2. i' \in DOMAIN Checks' /\ Decided(i', mem, remapped)
    BY <1>3, <1>4, <2>1
  <2>3. Decided(i, mem, remapped)'
    <3>1. \A c : Satisfied(c, mem, remapped)' = Satisfied(c, mem, remapped)
      BY <2>1, SMT DEF Satisfied, FaultIn, Space, Unmapped
    <3> QED
      BY <1>4, <2>2, <3>1, SMTT(30) DEF Decided
  <2>4. pc' = "check" /\ handler' = "SIG_DFL" /\ t' \in Numbers /\ (i \in DOMAIN Checks)'
    BY <1>1, <2>1, <2>2
  <2> QED
    BY <2>3, <2>4 DEF IInv, Reported, Judged
<1> QED
  BY <1>5, <1>6

LEMMA AdvanceStep ==
    ASSUME i \in Int, Advance
    PROVE  \/ i = Len(Checks) /\ pc' = "exited" /\ verdict' \in {"ok", "exit0"}
           \/ i # Len(Checks) /\ i' = i + 1 /\ UNCHANGED <<pc, verdict>>
BY DEF Advance, Exit, Checks

LEMMA DataInv == IInv /\ mremap_mmap_anon_data_check => IInv'
<1> SUFFICES ASSUME IInv, mremap_mmap_anon_data_check PROVE IInv'
  OBVIOUS
<1> DEFINE bad == {p \in Touched : Fault(p, "PROT_READ") # "none" \/ mem[p].ch # Here.exp}
<1>1. /\ pc = "check" /\ Here.check = "data" /\ UNCHANGED <<t, defect, mem, addr, remapped, handler>>
      /\ IF bad = {} THEN Advance
         ELSE IF Fault(Min(bad), "PROT_READ") # "none" THEN Raise(Fault(Min(bad), "PROT_READ")) ELSE Exit("error")
  BY DEF mremap_mmap_anon_data_check
<1>2. t \in Numbers /\ i \in DOMAIN Checks /\ handler = "SIG_DFL"
  BY <1>1 DEF IInv
<1>3. i \in Int
  BY <1>2, HereType, SMT
<1>4. bad = {} <=> Satisfied(Here, mem, remapped)
  <2>1. bad = {} <=> \A p \in Touched : FaultIn(mem, p, "PROT_READ") = "none" /\ mem[p].ch = Here.exp
    BY FaultKinds
  <2> QED
    BY <1>1, <2>1 DEF Satisfied, Touched, First, Address
<1>5. CASE bad = {}
  <2>1. Advance
    BY <1>1, <1>5
  <2> QED
    BY <1>1, <1>3, <1>4, <1>5, <2>1, AdvanceStep, CheckStep
<1>6. CASE bad # {}
  <2>1. pc' = "exited" /\ verdict' \notin {"ok", "exit0"}
    BY <1>1, <1>2, <1>6, FaultKinds DEF Raise, Exit
  <2> QED
    BY <1>1, <1>4, <1>6, <2>1, CheckStep
<1> QED
  BY <1>5, <1>6

LEMMA AccessInv == IInv /\ mremap_mmap_anon_access_check => IInv'
<1> SUFFICES ASSUME IInv, mremap_mmap_anon_access_check PROVE IInv'
  OBVIOUS
<1> DEFINE bad == {p \in Touched : Fault(p, "PROT_WRITE") # "none"}
<1>1. /\ pc = "check" /\ Here.check = "access" /\ UNCHANGED <<t, defect, addr, remapped, handler>>
      /\ IF bad = {} THEN Advance ELSE \E p : p \in bad \cup {Min(bad)} /\ Raise(Fault(p, "PROT_WRITE"))
  BY DEF mremap_mmap_anon_access_check
<1>2. t \in Numbers /\ i \in DOMAIN Checks /\ handler = "SIG_DFL"
  BY <1>1 DEF IInv
<1>3. i \in Int /\ i = Len(Checks)
  BY <1>1, <1>2, HereType, SMT
<1>4. bad = {} <=> Satisfied(Here, mem, remapped)
  <2>1. bad = {} <=> \A p \in Touched : FaultIn(mem, p, "PROT_WRITE") = "none"
    BY FaultKinds
  <2> QED
    BY <1>1, <2>1 DEF Satisfied, Touched, First, Address
<1>5. CASE bad = {}
  <2>1. Advance
    BY <1>1, <1>5
  <2> QED
    BY <1>1, <1>3, <1>4, <1>5, <2>1, AdvanceStep, CheckStep
<1>6. CASE bad # {}
  <2>1. PICK p : p \in bad \cup {Min(bad)} /\ Raise(Fault(p, "PROT_WRITE"))
    BY <1>1, <1>6
  <2>2. pc' = "exited" /\ verdict' \notin {"ok", "exit0"}
    BY <1>2, <2>1, FaultKinds DEF Raise, Exit
  <2> QED
    BY <1>1, <1>4, <1>6, <2>2, CheckStep
<1> QED
  BY <1>5, <1>6

LEMMA SignalInv == IInv /\ signal_check => IInv'
<1> SUFFICES ASSUME IInv, signal_check PROVE IInv'
  OBVIOUS
<1> DEFINE f == Fault(First, "PROT_READ")
<1>1. pc = "check" /\ Here.check = "signal" /\ UNCHANGED <<t, defect>> /\ pc' = "exited"
  BY DEF signal_check, Exit
<1>2. t \in Numbers /\ i \in DOMAIN Checks
  BY <1>1 DEF IInv
<1>3. i = Len(Checks) /\ Here.exp \in {"SIGSEGV", "SIGBUS"}
  BY <1>1, <1>2, HereType
<1>4. Satisfied(Here, mem, remapped) <=> f = Here.exp
  BY <1>1, FaultKinds DEF Satisfied, First, Address
<1>5. CASE verdict' = "sigaction error."
  BY <1>1, <1>2, <1>5 DEF IInv, Reported, Judged
<1>6. CASE verdict' # "sigaction error."
  <2>1. verdict' = IF f = "none" THEN "error" ELSE IF f = Here.exp THEN "exit0" ELSE f
    BY <1>6 DEF signal_check, Exit
  <2>2. CASE f = Here.exp
    BY <1>1, <1>3, <1>4, <2>1, <2>2, CheckStep
  <2>3. CASE f # Here.exp
    <3>1. verdict' \notin {"ok", "exit0"}
      BY <2>1, <2>3, FaultKinds
    <3> QED
      BY <1>1, <1>4, <2>3, <3>1, CheckStep
  <2> QED
    BY <2>2, <2>3
<1> QED
  BY <1>5, <1>6

\* What the call of the test point may return.
Results == mremap(addr[Call.addr.area], Call.old, Call.new, Call.flags, addr[Call.naddr.area] + Call.naddr.off)

RW == {"PROT_READ", "PROT_WRITE"}

\* Every page from f on, n pages long, is pg in memory m.
Filled(m, f, n, pg) == f \in Int /\ n \in Int /\ 0 <= f /\ f + n <= Pages /\ \A p \in Int : f <= p /\ p < f + n => m[p] = pg

LEMMA PageKinds ==
    ASSUME NEW prot, NEW ch, NEW sh
    PROVE  /\ Mapping(prot, ch, sh).prot = prot /\ Mapping(prot, ch, sh).ch = ch
           /\ Mapping(prot, ch, sh).shared = sh /\ Mapping(prot, ch, sh).beyond = 0
           /\ ch # "none" => Mapping(prot, ch, sh) # Unmapped
BY DEF Mapping, Unmapped

LEMMA AreaKinds ==
    ASSUME NEW n, NEW sh
    PROVE  /\ rw(n, sh).size = n /\ rw(n, sh).prot = RW /\ rw(n, sh).nopage = 0 /\ rw(n, sh).shared = sh
           /\ use(n, sh).size = n /\ use(n, sh).prot = {} /\ use(n, sh).nopage = 0 /\ use(n, sh).shared = sh
           /\ free(n).size = n /\ free(n).nopage = 1
BY DEF rw, use, free, Area, RW

LEMMA PairNotEmpty ==
    ASSUME NEW c, NEW d
    PROVE  <<c, d>> # <<>>
OBVIOUS

LEMMA Layout ==
    ASSUME t \in Numbers, Formatted(Len(P) + 1)
    PROVE  /\ addr[1] \in Int /\ 0 <= addr[1] /\ addr[1] + total_size <= Pages
           /\ \A k \in DOMAIN P : addr[k] = addr[1] + Off(k) /\ Filled(mem, addr[k], P[k].size, AreaPage(k))
<1>1. DOMAIN P = 1 .. Len(P) /\ Len(P) \in 1 .. 5 /\ \A k \in DOMAIN P : P[k].size = Size(k) /\ P[k] \in AreaType
  BY Sizes, SMTT(30)
<1>2. \A k \in DOMAIN P : k \in Int /\ k <= Len(P) + 1 /\ k < Len(P) + 1
  BY <1>1, SMT
<1>3. 1 \in DOMAIN P /\ addr \in [DOMAIN P -> Int]
  BY <1>1, SMT DEF Formatted
<1>4. addr[1] \in Int /\ 0 <= addr[1] /\ addr[1] + total_size <= Pages
  BY <1>3 DEF Formatted
<1>5. ASSUME NEW k \in DOMAIN P
      PROVE  addr[k] = addr[1] + Off(k) /\ Filled(mem, addr[k], P[k].size, AreaPage(k))
  <2>1. addr[k] = addr[1] + Off(k) /\ \A p \in Span(addr[k], P[k].size) : mem[p] = AreaPage(k)
    BY <1>2, <1>5 DEF Formatted
  <2>2. Off(k) \in Nat /\ Off(k + 1) = Off(k) + P[k].size /\ Off(k + 1) <= total_size /\ total_size \in Nat
    BY <1>5, Offsets
  <2>3. P[k].size \in Nat
    BY <1>1, <1>5 DEF AreaType
  <2>4. addr[k] \in Int /\ 0 <= addr[k] /\ addr[k] + P[k].size <= Pages
    BY <1>4, <2>1, <2>2, <2>3, SpaceAssumption, SMTT(30)
  <2>5. \A p \in Int : addr[k] <= p /\ p < addr[k] + P[k].size => p \in Span(addr[k], P[k].size)
    BY <2>3, <2>4, SpaceAssumption, SMT DEF Span, Space
  <2> QED
    BY <2>1, <2>3, <2>4, <2>5, SMT DEF Filled
<1> QED
  BY <1>4, <1>5

\* What the checks come to on memory that is filled.
LEMMA DataHolds ==
    ASSUME NEW m, NEW f \in Int, NEW n \in Int, NEW ch \in {"0", "1", "2"}, NEW sh,
           Filled(m, f, n, Mapping(RW, ch, sh))
    PROVE  Satisfied(Data(remap(0), n, ch), m, f)
<1>1. \A p \in f + 0 .. f + 0 + n - 1 : p \in Space /\ m[p] = Mapping(RW, ch, sh)
  BY SpaceAssumption, SMT DEF Filled, Space
<1> QED
  BY <1>1, PageKinds, SMT DEF Satisfied, Data, remap, FaultIn, RW

LEMMA AccessHolds ==
    ASSUME NEW m, NEW f \in Int, NEW n \in Int, 0 <= f, f + n <= Pages,
           \A p \in f .. f + n - 1 : m[p] # Unmapped /\ "PROT_WRITE" \in m[p].prot /\ m[p].beyond = 0
    PROVE  Satisfied(Access(n), m, f)
<1>1. \A p \in f + 0 .. f + 0 + n - 1 : p \in Space /\ p \in f .. f + n - 1
  BY SpaceAssumption, SMT DEF Space
<1> QED
  BY <1>1, SMT DEF Satisfied, Access, remap, FaultIn

LEMMA Settled ==
    ASSUME NEW res, WellFormed(Points[t]), Checks # <<>>,
           ~Caught => Expected(res) /\ \A j \in DOMAIN Checks : Satisfied(Checks[j], res.mem, res.addr),
           Caught => \E j \in DOMAIN Checks : ~Satisfied(Checks[j], res.mem, res.addr)
    PROVE  Outcome(res)
<1>1. \A j \in DOMAIN Checks : 1 <= j
  BY SMT DEF WellFormed, Checks
<1> QED
  BY <1>1 DEF Outcome, Decided

\* Which defects each shape looks at.
LEMMA Catching ==
    ASSUME t \in Numbers, NEW k, NEW r, NEW sh, IsShape(t, k, r, sh)
    PROVE  /\ k \in {0, 1, 2} => ~Caught
           /\ k = 3 => (Caught <=> (defect = "grow_readonly" /\ sh = 0) \/ (defect = "shared_grows" /\ sh = 1))
           /\ k = 4 => (Caught <=> defect \in {"grow_over", "wrong_errno"})
           /\ k = 5 => (Caught <=> \/ defect = "no_copy"
                                   \/ (defect = "grow_readonly" /\ sh = 0) \/ (defect = "shared_grows" /\ sh = 1))
           /\ k \in {6, 12, 13} => (Caught <=> defect = "no_copy")
           /\ k = 7 => (Caught <=> defect \in {"no_copy", "clears_more"})
           /\ k \in {8, 9, 10, 11} => (Caught <=> defect \in {"overlap", "wrong_errno"})
           /\ k = 14 => (Caught <=> defect = "keep_tail")
           /\ k \in {15, 16} => (Caught <=> defect \in {"keep_old", "no_copy"})
<1>1. t % 100 = k /\ (t \div 100) % 2 = sh /\ k \in 0 .. 16
  BY DEF IsShape
<1>2. Caught <=> /\ k \in Shapes(defect)
                 /\ defect = "grow_readonly" => sh = 0
                 /\ defect = "shared_grows" => sh = 1
  BY <1>1 DEF Catches, Caught
<1> QED
  BY <1>1, <1>2, SMTT(30) DEF Shapes

\* One area in use, of n pages, and a neighbour of r pages: shapes 0, 1, 2, 4, 5, 14, 15.
LEMMA TwoAreas ==
    ASSUME t \in Numbers, Formatted(Len(P) + 1), NEW n \in Nat, NEW r \in Nat, NEW sh,
           P = <<rw(n, sh), use(r, sh)>>
    PROVE  /\ Filled(mem, addr[1], n, Mapping(RW, "0", sh))
           /\ Filled(mem, addr[1] + n, r, Mapping({}, "nul", sh))
<1>1. /\ DOMAIN P = 1 .. 2 /\ P[1].size = n /\ P[2].size = r
      /\ P[1].prot = RW /\ P[1].nopage = 0 /\ P[1].shared = sh
      /\ P[2].prot = {} /\ P[2].nopage = 0 /\ P[2].shared = sh
  <2>1. DOMAIN P = 1 .. 2 /\ P[1] = rw(n, sh) /\ P[2] = use(r, sh)
    BY SMT
  <2> QED
    BY <2>1, AreaKinds, SMT
<1>2. Size(1) = n /\ Size(2) = r
  BY <1>1, SMT DEF Size
<1>3. Off(2) = n
  BY <1>2, SMT DEF Off
<1>4. AreaPage(1) = Mapping(RW, "0", sh)
  BY <1>1, SMT DEF AreaPage, Digit, RW
<1>5. AreaPage(2) = Mapping({}, "nul", sh)
  BY <1>1, SMTT(30) DEF AreaPage
<1> QED
  BY <1>1, <1>3, <1>4, <1>5, Layout, SMT

LEMMA EqualSizes ==
    ASSUME t \in Numbers, Formatted(Len(P) + 1), NEW r, NEW sh, IsShape(t, 0, r, sh) \/ IsShape(t, 1, r, sh),
           NEW res \in Results
    PROVE  Outcome(res)
<1>1. /\ r \in Nat /\ r > 1
      /\ P = <<rw(r, sh), use(r, sh)>> /\ Call \in {Plain(1, r, r), Plain(1, Huge, Huge)}
      /\ Checks = <<Data(remap(0), r, "0"), Access(r)>> /\ Points[t].expect = "any"
  BY SMT DEF IsShape, Shape, Shape0, Shape1, P, Call, Checks, Point
<1>2. Filled(mem, addr[1], r, Mapping(RW, "0", sh))
  BY <1>1, TwoAreas, SMTT(30)
<1>3. Call.addr.area = 1 /\ Call.old = Call.new /\ Call.old \in Nat /\ Call.flags = {}
  BY <1>1, SMT DEF Plain, At, Huge
<1>4. res = Result(addr[1], "0", mem)
  BY <1>3, SMT DEF Results, mremap
<1>5. Expected(res)
  BY <1>1, <1>2, <1>4, SpaceAssumption, SMT DEF Expected, Result, Filled, MAP_FAILED
<1>6. Satisfied(Data(remap(0), r, "0"), mem, addr[1])
  BY <1>1, <1>2, DataHolds DEF Filled
<1>7. Satisfied(Access(r), mem, addr[1])
  BY <1>1, <1>2, AccessHolds, PageKinds, SMTT(30) DEF Filled, RW
<1>8. \A j \in DOMAIN Checks : Satisfied(Checks[j], res.mem, res.addr)
  BY <1>1, <1>4, <1>6, <1>7, SMT DEF Result
<1>9. ~Caught
  BY Catching
<1> QED
  BY <1>1, <1>5, <1>8, <1>9, Settled, PointsWellFormed

LEMMA Shrink ==
    ASSUME t \in Numbers, Formatted(Len(P) + 1), NEW r, NEW sh, IsShape(t, 2, r, sh) \/ IsShape(t, 14, r, sh),
           NEW res \in Results
    PROVE  Outcome(res)
<1> DEFINE n == 2 * r - 1
<1>0. r \in Nat /\ r > 1
  BY DEF IsShape
<1>1. P = <<rw(2 * r, sh), use(r, sh)>> /\ Call = Plain(1, 2 * r, n) /\ Points[t].expect = "any"
  BY SMT DEF IsShape, Shape, Shape2, Shape14, P, Call, Point
<1>2. Filled(mem, addr[1], 2 * r, Mapping(RW, "0", sh))
  BY <1>0, <1>1, TwoAreas, SMT
<1>3. Call.addr.area = 1 /\ Call.old = 2 * r /\ Call.new = n /\ Call.flags = {}
  BY <1>1 DEF Plain, At
<1>4. n \in Int /\ 0 < n /\ n <= 2 * r /\ n # 2 * r /\ 2 * r - n = 1 /\ 2 * r \in Int
  BY <1>0, SMT
<1>5. res = Result(addr[1], "0", IF Bad("keep_tail") THEN mem ELSE Unmap(mem, addr[1] + n, 1))
  <2> HIDE DEF n
  <2> QED
    BY <1>3, <1>4 DEF Results, mremap
<1>6. Expected(res)
  <2>1. res.addr = addr[1] /\ res.errno = "0"
    BY <1>5 DEF Result
  <2>2. addr[1] # MAP_FAILED
    BY <1>0, <1>2, SpaceAssumption, SMT DEF Filled, MAP_FAILED
  <2> QED
    BY <1>1, <2>1, <2>2 DEF Expected
<1>7. res.addr = addr[1] /\ addr[1] \in Int /\ 0 <= addr[1] /\ addr[1] + n < Pages
  BY <1>0, <1>2, <1>5, SpaceAssumption, SMT DEF Filled, Result
<1> HIDE DEF n
<1>8. ASSUME ~Caught
      PROVE  \A j \in DOMAIN Checks : Satisfied(Checks[j], res.mem, res.addr)
  <2>1. res.mem = IF defect = "keep_tail" THEN mem ELSE Unmap(mem, addr[1] + n, 1)
    BY <1>5 DEF Bad, Result
  <2>2. Filled(res.mem, addr[1], n, Mapping(RW, "0", sh))
    BY <1>2, <1>4, <1>7, <2>1, SpaceAssumption, SMTT(30) DEF Filled, Unmap, Span, Space
  <2>3. Satisfied(Data(remap(0), n, "0"), res.mem, addr[1])
    BY <1>4, <2>2, DataHolds DEF Filled
  <2>4. Satisfied(Access(n), res.mem, addr[1])
    BY <1>4, <2>2, AccessHolds, PageKinds, SMT DEF Filled, RW
  <2>5. defect # "keep_tail" => res.mem[addr[1] + n] = Unmapped
    BY <1>4, <1>7, <2>1, SpaceAssumption, SMTT(30) DEF Unmap, Span, Space
  <2>6. defect # "keep_tail" => Satisfied(Signal("SIGSEGV", remap(n)), res.mem, addr[1])
    BY <2>5 DEF Satisfied, Signal, remap, FaultIn
  <2>7. CASE IsShape(t, 2, r, sh)
    <3>1. Checks = <<Data(remap(0), n, "0"), Access(n)>>
      BY <2>7, SMT DEF IsShape, Shape, Shape2, Checks, Point, n
    <3> QED
      BY <1>7, <2>3, <2>4, <3>1, SMT
  <2>8. CASE IsShape(t, 14, r, sh)
    <3>1. Checks = <<Data(remap(0), n, "0"), Signal("SIGSEGV", remap(n))>>
      BY <2>8, SMT DEF IsShape, Shape, Shape14, Checks, Point, n
    <3>2. defect # "keep_tail"
      BY <1>8, <2>8, Catching
    <3> QED
      BY <1>7, <2>3, <2>6, <3>1, <3>2, SMT
  <2> QED
    BY <2>7, <2>8
<1>9. ASSUME Caught
      PROVE  \E j \in DOMAIN Checks : ~Satisfied(Checks[j], res.mem, res.addr)
  <2>1. defect = "keep_tail" /\ IsShape(t, 14, r, sh)
    BY <1>9, Catching
  <2>2. Checks = <<Data(remap(0), n, "0"), Signal("SIGSEGV", remap(n))>>
    BY <2>1, SMT DEF IsShape, Shape, Shape14, Checks, Point, n
  <2>3. res.mem[addr[1] + n] = Mapping(RW, "0", sh)
    BY <1>2, <1>4, <1>5, <1>7, <2>1, SMT DEF Bad, Result, Filled
  <2>4. addr[1] + n \in Space
    BY <1>4, <1>7, SpaceAssumption, SMTT(30) DEF Space
  <2>5. ~Satisfied(Signal("SIGSEGV", remap(n)), res.mem, addr[1])
    BY <2>3, <2>4, PageKinds, SMT DEF Satisfied, Signal, remap, FaultIn, RW
  <2> QED
    BY <1>7, <2>2, <2>5, SMT
<1>10. Checks # <<>>
  <2>1. CASE IsShape(t, 2, r, sh)
    <3>1. Checks = <<Data(remap(0), n, "0"), Access(n)>>
      BY <2>1, SMT DEF IsShape, Shape, Shape2, Checks, Point, n
    <3> QED
      BY <3>1, PairNotEmpty
  <2>2. CASE IsShape(t, 14, r, sh)
    <3>1. Checks = <<Data(remap(0), n, "0"), Signal("SIGSEGV", remap(n))>>
      BY <2>2, SMT DEF IsShape, Shape, Shape14, Checks, Point, n
    <3> QED
      BY <3>1, PairNotEmpty
  <2> QED
    BY <2>1, <2>2
<1> QED
  BY <1>6, <1>8, <1>9, <1>10, Settled, PointsWellFormed

\* Growth into a neighbour in use fails.
LEMMA NoRoom ==
    ASSUME t \in Numbers, Formatted(Len(P) + 1), NEW r, NEW sh, IsShape(t, 4, r, sh),
           NEW res \in Results
    PROVE  Outcome(res)
<1>1. /\ r \in Nat /\ r > 1
      /\ P = <<rw(r, sh), use(r, sh)>> /\ Call = Plain(1, r, 2 * r) /\ Points[t].expect = "ENOMEM"
      /\ Checks = <<>>
  BY SMT DEF IsShape, Shape, Shape4, P, Call, Checks, Point
<1>2. Filled(mem, addr[1], r, Mapping(RW, "0", sh)) /\ Filled(mem, addr[1] + r, r, Mapping({}, "nul", sh))
  BY <1>1, TwoAreas
<1>3. Call.addr.area = 1 /\ Call.old = r /\ Call.new = 2 * r /\ Call.flags = {}
  BY <1>1 DEF Plain, At
<1>4. 2 * r - r = r /\ ~(2 * r <= r)
  BY <1>1, SMT
<1>5. ~AllFree(mem, addr[1] + r, r)
  <2>1. addr[1] + r \in Span(addr[1] + r, r)
    BY <1>1, <1>2, SpaceAssumption, SMT DEF Filled, Span, Space
  <2>2. mem[addr[1] + r] # Unmapped
    BY <1>1, <1>2, PageKinds, SMT DEF Filled
  <2> QED
    BY <2>1, <2>2, SMTT(30) DEF AllFree
<1>6. addr[1] \in Int /\ addr[1] # MAP_FAILED
  BY <1>1, <1>2, SpaceAssumption, SMTT(30) DEF Filled, MAP_FAILED
<1>7. IF Bad("grow_over") THEN res.addr = addr[1]
      ELSE res.addr = MAP_FAILED /\ res.errno = IF Bad("wrong_errno") THEN "EFAULT" ELSE "ENOMEM"
  BY <1>3, <1>4, <1>5, SMT DEF Results, mremap, Result, Fail
<1>8. Expected(res) <=> res.addr = MAP_FAILED /\ res.errno = "ENOMEM"
  BY <1>1 DEF Expected
<1>9. Caught <=> defect \in {"grow_over", "wrong_errno"}
  BY Catching
<1> QED
  BY <1>1, <1>6, <1>7, <1>8, <1>9 DEF Outcome, Bad

\* The areas of shapes 8 to 11, as far as their addresses go.
LEMMA OverlapAreas ==
    ASSUME t \in Numbers, Formatted(Len(P) + 1), NEW k \in {8, 9, 10, 11}, NEW r, NEW sh, IsShape(t, k, r, sh)
    PROVE  LET a == addr[Call.addr.area]
               b == addr[Call.naddr.area] + Call.naddr.off
           IN  a \in Int /\ b \in Int /\ b < Pages /\ Overlap(a, Call.old, b, Call.new)
<1>1. r \in Int /\ r > 1
  BY SMT DEF IsShape
<1>2. /\ addr[1] \in Int /\ 0 <= addr[1] /\ addr[1] + total_size <= Pages
      /\ \A j \in DOMAIN P : addr[j] = addr[1] + Off(j)
  BY Layout
<1>3. CASE k = 8
  <2>1. P = <<use(r, sh), ro(r, sh), rw(r, sh), ro(r, sh), use(r, sh)>> /\ Call = Fixed(3, r, 3 * r, At(2, 0))
    BY <1>3, SMT DEF IsShape, Shape, Shape8, P, Call, Point
  <2>2. /\ DOMAIN P = 1 .. 5 /\ Size(1) = r /\ Size(2) = r /\ Size(3) = r /\ Size(4) = r /\ Size(5) = r
        /\ Call.addr.area = 3 /\ Call.old = r /\ Call.new = 3 * r /\ Call.naddr.area = 2 /\ Call.naddr.off = 0
    BY <2>1, SMT DEF Size, rw, ro, use, free, Area, Fixed, Plain, At
  <2>3. addr[2] = addr[1] + r /\ addr[3] = addr[1] + 2 * r /\ total_size = 5 * r
    BY <1>1, <1>2, <2>2, SMT DEF Off, total_size
  <2> QED
    BY <1>1, <1>2, <2>2, <2>3, SpaceAssumption, SMTT(30) DEF Overlap
<1>4. CASE k = 9
  <2>1. P = <<use(r, sh), rw(2 * r, sh), use(r, sh)>> /\ Call = Fixed(2, 2 * r, 1, At(2, 1))
    BY <1>4, SMT DEF IsShape, Shape, Shape9, P, Call, Point
  <2>2. /\ DOMAIN P = 1 .. 3 /\ Size(1) = r /\ Size(2) = 2 * r /\ Size(3) = r /\ Size(4) = 0 /\ Size(5) = 0
        /\ Call.addr.area = 2 /\ Call.old = 2 * r /\ Call.new = 1 /\ Call.naddr.area = 2 /\ Call.naddr.off = 1
    BY <2>1, SMT DEF Size, rw, ro, use, free, Area, Fixed, Plain, At
  <2>3. addr[2] = addr[1] + r /\ total_size = 4 * r
    BY <1>1, <1>2, <2>2, SMT DEF Off, total_size
  <2> QED
    BY <1>1, <1>2, <2>2, <2>3, SpaceAssumption, SMTT(30) DEF Overlap
<1>5. CASE k = 10
  <2>1. P = <<use(r, sh), free(r), rw(2 * r, sh), use(r, sh)>> /\ Call = Fixed(3, 2 * r, 2 * r, At(2, 0))
    BY <1>5, SMT DEF IsShape, Shape, Shape10, P, Call, Point
  <2>2. /\ DOMAIN P = 1 .. 4 /\ Size(1) = r /\ Size(2) = r /\ Size(3) = 2 * r /\ Size(4) = r /\ Size(5) = 0
        /\ Call.addr.area = 3 /\ Call.old = 2 * r /\ Call.new = 2 * r /\ Call.naddr.area = 2 /\ Call.naddr.off = 0
    BY <2>1, SMT DEF Size, rw, ro, use, free, Area, Fixed, Plain, At
  <2>3. addr[2] = addr[1] + r /\ addr[3] = addr[1] + 2 * r /\ total_size = 5 * r
    BY <1>1, <1>2, <2>2, SMT DEF Off, total_size
  <2> QED
    BY <1>1, <1>2, <2>2, <2>3, SpaceAssumption, SMTT(30) DEF Overlap
<1>6. CASE k = 11
  <2>1. P = <<use(r, sh), rw(2 * r, sh), free(r), use(r, sh)>> /\ Call = Fixed(2, 2 * r, 2 * r, At(2, 1))
    BY <1>6, SMT DEF IsShape, Shape, Shape11, P, Call, Point
  <2>2. /\ DOMAIN P = 1 .. 4 /\ Size(1) = r /\ Size(2) = 2 * r /\ Size(3) = r /\ Size(4) = r /\ Size(5) = 0
        /\ Call.addr.area = 2 /\ Call.old = 2 * r /\ Call.new = 2 * r /\ Call.naddr.area = 2 /\ Call.naddr.off = 1
    BY <2>1, SMT DEF Size, rw, ro, use, free, Area, Fixed, Plain, At
  <2>3. addr[2] = addr[1] + r /\ total_size = 5 * r
    BY <1>1, <1>2, <2>2, SMT DEF Off, total_size
  <2> QED
    BY <1>1, <1>2, <2>2, <2>3, SpaceAssumption, SMTT(30) DEF Overlap
<1> QED
  BY <1>3, <1>4, <1>5, <1>6

\* A move onto itself fails.
LEMMA Overlaps ==
    ASSUME t \in Numbers, Formatted(Len(P) + 1), NEW k \in {8, 9, 10, 11}, NEW r, NEW sh, IsShape(t, k, r, sh),
           NEW res \in Results
    PROVE  Outcome(res)
<1> DEFINE a == addr[Call.addr.area]
           b == addr[Call.naddr.area] + Call.naddr.off
<1>1. Overlap(a, Call.old, b, Call.new) /\ b # MAP_FAILED
  BY OverlapAreas, SpaceAssumption, SMT DEF MAP_FAILED
<1>2. "MREMAP_FIXED" \in Call.flags /\ Points[t].expect = "EINVAL" /\ Checks = <<>>
  <2>1. \A n, old, new, w : "MREMAP_FIXED" \in Fixed(n, old, new, w).flags
    BY DEF Fixed, Plain
  <2>2. CASE k = 8
    BY <2>1, <2>2, SMT DEF IsShape, Shape, Shape8, Call, Checks, Point
  <2>3. CASE k = 9
    BY <2>1, <2>3, SMT DEF IsShape, Shape, Shape9, Call, Checks, Point
  <2>4. CASE k = 10
    BY <2>1, <2>4, SMT DEF IsShape, Shape, Shape10, Call, Checks, Point
  <2>5. CASE k = 11
    BY <2>1, <2>5, SMTT(30) DEF IsShape, Shape, Shape11, Call, Checks, Point
  <2> QED
    BY <2>2, <2>3, <2>4, <2>5
<1> HIDE DEF a, b
<1>3. IF Bad("overlap") THEN res.addr = b
      ELSE res.addr = MAP_FAILED /\ res.errno = IF Bad("wrong_errno") THEN "EFAULT" ELSE "EINVAL"
  BY <1>1, <1>2, SMT DEF Results, mremap, Result, Fail, a, b
<1>4. Expected(res) <=> res.addr = MAP_FAILED /\ res.errno = "EINVAL"
  BY <1>2 DEF Expected
<1>5. Caught <=> defect \in {"overlap", "wrong_errno"}
  BY Catching
<1> QED
  BY <1>1, <1>2, <1>3, <1>4, <1>5 DEF Outcome, Bad

LEMMA GainedPage ==
    ASSUME NEW sh, NEW g, g = Gained(Mapping(RW, "0", sh))
    PROVE  /\ g # Unmapped /\ g.prot = IF Bad("grow_readonly") THEN {"PROT_READ"} ELSE RW
           /\ g.beyond = IF sh = 1 /\ ~Bad("shared_grows") THEN 1 ELSE 0
BY DEF Gained, Mapping, Unmapped

\* The checks of a grown area at c: its bytes, then writes to all of it, or the bus error
\* behind the shared object.
LEMMA GrownChecks ==
    ASSUME NEW m, NEW c \in Int, NEW r \in Int, r > 1, NEW sh \in {0, 1}, NEW ch,
           Filled(m, c, r, Mapping(RW, ch, sh)), Filled(m, c + r, r, Gained(Mapping(RW, "0", sh))),
           Checks = <<Data(remap(0), r, "0"), IF sh = 1 THEN Signal("SIGBUS", remap(r)) ELSE Access(2 * r)>>
    PROVE  /\ ch = "0" /\ ~(sh = 0 /\ defect = "grow_readonly") /\ ~(sh = 1 /\ defect = "shared_grows") =>
                 \A j \in DOMAIN Checks : Satisfied(Checks[j], m, c)
           /\ ch = "nul" => \E j \in DOMAIN Checks : ~Satisfied(Checks[j], m, c)
           /\ sh = 0 /\ defect = "grow_readonly" => \E j \in DOMAIN Checks : ~Satisfied(Checks[j], m, c)
           /\ sh = 1 /\ defect = "shared_grows" => \E j \in DOMAIN Checks : ~Satisfied(Checks[j], m, c)
<1> DEFINE g == Gained(Mapping(RW, "0", sh))
<1>1. /\ g # Unmapped /\ g.prot = IF Bad("grow_readonly") THEN {"PROT_READ"} ELSE RW
      /\ g.beyond = IF sh = 1 /\ ~Bad("shared_grows") THEN 1 ELSE 0
  BY GainedPage
<1>2. c \in Space /\ c + r \in Space /\ m[c] = Mapping(RW, ch, sh) /\ m[c + r] = g /\ c + 2 * r <= Pages
  BY SpaceAssumption, SMT DEF Filled, Space
<1>3. \A p \in c .. c + 2 * r - 1 : m[p] = Mapping(RW, ch, sh) \/ m[p] = g
  BY SMT DEF Filled
<1> HIDE DEF g
<1>4. /\ 1 \in DOMAIN Checks /\ 2 \in DOMAIN Checks /\ \A j \in DOMAIN Checks : j \in {1, 2}
      /\ Checks[1] = Data(remap(0), r, "0")
      /\ Checks[2] = IF sh = 1 THEN Signal("SIGBUS", remap(r)) ELSE Access(2 * r)
  BY SMT
<1>5. ASSUME ch = "0", ~(sh = 0 /\ defect = "grow_readonly"), ~(sh = 1 /\ defect = "shared_grows")
      PROVE  \A j \in DOMAIN Checks : Satisfied(Checks[j], m, c)
  <2>1. Satisfied(Checks[1], m, c)
    BY <1>4, <1>5, DataHolds
  <2>2. CASE sh = 0
    <3>1. \A p \in c .. c + 2 * r - 1 : m[p] # Unmapped /\ "PROT_WRITE" \in m[p].prot /\ m[p].beyond = 0
      BY <1>1, <1>3, <1>5, <2>2, PageKinds, SMT DEF Bad, RW
    <3>2. 0 <= c /\ c + 2 * r <= Pages /\ 2 * r \in Int
      BY <1>2, SMTT(30) DEF Space
    <3>3. Satisfied(Access(2 * r), m, c)
      BY <3>1, <3>2, AccessHolds
    <3> QED
      BY <1>4, <2>1, <2>2, <3>3
  <2>3. CASE sh = 1
    <3>1. FaultIn(m, c + r, "PROT_READ") = "SIGBUS"
      BY <1>1, <1>2, <1>5, <2>3, SMTT(30) DEF Bad, FaultIn, RW
    <3>2. Satisfied(Signal("SIGBUS", remap(r)), m, c)
      BY <3>1 DEF Satisfied, Signal, remap
    <3> QED
      BY <1>4, <2>1, <2>3, <3>2
  <2> QED
    BY <2>2, <2>3
<1>6. ASSUME ch = "nul" PROVE \E j \in DOMAIN Checks : ~Satisfied(Checks[j], m, c)
  <2>1. c + 0 \in c + 0 .. c + 0 + r - 1 /\ m[c + 0].ch # "0"
    BY <1>2, <1>6, PageKinds, SMTT(30)
  <2>2. ~Satisfied(Data(remap(0), r, "0"), m, c)
    BY <2>1 DEF Satisfied, Data, remap
  <2> QED
    BY <1>4, <2>2
<1>7. ASSUME sh = 0, defect = "grow_readonly" PROVE \E j \in DOMAIN Checks : ~Satisfied(Checks[j], m, c)
  <2>1. c + r \in c + 0 .. c + 0 + 2 * r - 1 /\ FaultIn(m, c + r, "PROT_WRITE") # "none"
    BY <1>1, <1>2, <1>7, SMTT(30) DEF Bad, FaultIn
  <2>2. ~Satisfied(Access(2 * r), m, c)
    BY <2>1 DEF Satisfied, Access, remap
  <2> QED
    BY <1>4, <1>7, <2>2, SMT
<1>8. ASSUME sh = 1, defect = "shared_grows" PROVE \E j \in DOMAIN Checks : ~Satisfied(Checks[j], m, c)
  <2>1. FaultIn(m, c + r, "PROT_READ") = "none"
    BY <1>1, <1>2, <1>8, SMTT(30) DEF Bad, FaultIn, RW
  <2>2. ~Satisfied(Signal("SIGBUS", remap(r)), m, c)
    BY <2>1 DEF Satisfied, Signal, remap
  <2> QED
    BY <1>4, <1>8, <2>2
<1> QED
  BY <1>5, <1>6, <1>7, <1>8, SMTT(30)

\* An area in use and free space behind it: shapes 3, 6 and 16.
LEMMA FreeBehind ==
    ASSUME t \in Numbers, Formatted(Len(P) + 1), NEW r \in Nat, NEW sh,
           P = <<rw(r, sh), free(r), use(r, sh)>>
    PROVE  /\ Filled(mem, addr[1], r, Mapping(RW, "0", sh)) /\ Filled(mem, addr[1] + r, r, Unmapped)
           /\ addr[2] = addr[1] + r
<1>1. /\ DOMAIN P = 1 .. 3 /\ P[1].size = r /\ P[2].size = r
      /\ P[1].prot = RW /\ P[1].nopage = 0 /\ P[1].shared = sh /\ P[2].nopage = 1
  <2>1. DOMAIN P = 1 .. 3 /\ P[1] = rw(r, sh) /\ P[2] = free(r)
    BY SMT
  <2> QED
    BY <2>1, AreaKinds, SMT
<1>2. Size(1) = r
  BY <1>1, SMT DEF Size
<1>3. Off(2) = r
  BY <1>2, SMT DEF Off
<1>4. AreaPage(1) = Mapping(RW, "0", sh)
  BY <1>1, SMT DEF AreaPage, Digit, RW
<1>5. AreaPage(2) = Unmapped
  BY <1>1 DEF AreaPage
<1> QED
  BY <1>1, <1>3, <1>4, <1>5, Layout, SMTT(30)

LEMMA GrowInPlace ==
    ASSUME t \in Numbers, Formatted(Len(P) + 1), NEW r, NEW sh, IsShape(t, 3, r, sh),
           NEW res \in Results
    PROVE  Outcome(res)
<1> DEFINE a == addr[1]
<1>1. /\ r \in Nat /\ r > 1 /\ sh \in {0, 1}
      /\ P = <<rw(r, sh), free(r), use(r, sh)>> /\ Call = Plain(1, r, 2 * r) /\ Points[t].expect = "any"
      /\ Checks = <<Data(remap(0), r, "0"), IF sh = 1 THEN Signal("SIGBUS", remap(r)) ELSE Access(2 * r)>>
  BY SMTT(30) DEF IsShape, Shape, SharedForm, Shape3, SharedShape3, P, Call, Checks, Point
<1>2. Filled(mem, a, r, Mapping(RW, "0", sh)) /\ Filled(mem, a + r, r, Unmapped)
  BY <1>1, FreeBehind
<1>3. Call.addr.area = 1 /\ Call.old = r /\ Call.new = 2 * r /\ Call.flags = {}
  BY <1>1 DEF Plain, At
<1>4. 2 * r - r = r /\ ~(2 * r <= r) /\ a \in Int /\ 0 <= a /\ a + r + r <= Pages /\ r \in Int
  BY <1>1, <1>2, SMT DEF Filled
<1>5. AllFree(mem, a + r, r)
  BY <1>2, <1>4, SMTT(30) DEF AllFree, Filled, Span, Space
<1>6. mem[a] = Mapping(RW, "0", sh)
  BY <1>1, <1>2, SMT DEF Filled
<1> HIDE DEF a
<1>7. res = Result(a, "0", [p \in Space |-> IF p \in Span(a + r, r) THEN Gained(Mapping(RW, "0", sh)) ELSE mem[p]])
  BY <1>3, <1>4, <1>5, <1>6 DEF Results, mremap, a
<1>8. Expected(res)
  BY <1>1, <1>4, <1>7, SpaceAssumption, SMT DEF Expected, Result, MAP_FAILED
<1>9. /\ Filled(res.mem, a, r, Mapping(RW, "0", sh)) /\ Filled(res.mem, a + r, r, Gained(Mapping(RW, "0", sh)))
      /\ res.addr = a
  <2>1. \A p \in Int : a <= p /\ p < a + r => p \in Space /\ p \notin Span(a + r, r)
    BY <1>1, <1>4, SpaceAssumption, SMT DEF Span, Space
  <2>2. \A p \in Int : a + r <= p /\ p < a + r + r => p \in Space /\ p \in Span(a + r, r)
    BY <1>1, <1>4, SpaceAssumption, SMT DEF Span, Space
  <2> QED
    BY <1>2, <1>4, <1>7, <2>1, <2>2 DEF Filled, Result
<1>10. Caught <=> \/ defect = "grow_readonly" /\ sh = 0
                  \/ defect = "shared_grows" /\ sh = 1
  BY Catching, SMTT(30)
<1>11. /\ ~Caught => \A j \in DOMAIN Checks : Satisfied(Checks[j], res.mem, res.addr)
       /\ Caught => \E j \in DOMAIN Checks : ~Satisfied(Checks[j], res.mem, res.addr)
  BY <1>1, <1>4, <1>9, <1>10, GrownChecks
<1>12. Checks # <<>>
  BY <1>1, PairNotEmpty
<1> QED
  BY <1>8, <1>11, <1>12, Settled, PointsWellFormed

\* What a move to a disjoint place leaves.
LEMMA MoveMakes ==
    ASSUME NEW m, NEW a \in Int, NEW n \in Int, NEW b \in Int, NEW new \in Int, NEW ch, NEW sh,
           0 < n, n <= new, 0 <= b, b + new <= Pages, a + n <= b \/ b + new <= a,
           Filled(m, a, n, Mapping(RW, ch, sh))
    PROVE  /\ Filled(Move(m, a, n, b, new), b, n, Mapping(RW, IF Bad("no_copy") THEN "nul" ELSE ch, sh))
           /\ Filled(Move(m, a, n, b, new), b + n, new - n, Gained(Mapping(RW, ch, sh)))
           /\ Filled(Move(m, a, n, b, new), a, n, IF Bad("keep_old") THEN Mapping(RW, ch, sh) ELSE Unmapped)
           /\ \A p \in Space \ (Span(a, n) \cup Span(b, new)) : Move(m, a, n, b, new)[p] = m[p]
<1> DEFINE pg == Mapping(RW, ch, sh)
           x == Move(m, a, n, b, new)
<1>1. /\ 0 <= a /\ a + n <= Pages
      /\ \A p \in Int : a <= p /\ p < a + n => m[p] = pg
  BY DEF Filled
<1>2. [pg EXCEPT !.ch = "nul"] = Mapping(RW, "nul", sh)
  BY SMT DEF Mapping
<1> HIDE DEF pg
<1>3. ASSUME NEW p \in Int, b <= p, p < b + n
      PROVE  x[p] = Mapping(RW, IF Bad("no_copy") THEN "nul" ELSE ch, sh)
  <2>1. p \in Space /\ p \in Span(b, new) /\ p - b < n /\ a + (p - b) \in Int /\ a <= a + (p - b) /\ a + (p - b) < a + n
    BY <1>3, SpaceAssumption, SMT DEF Span, Space
  <2>2. m[a + (p - b)] = pg
    BY <1>1, <2>1
  <2> QED
    BY <1>2, <2>1, <2>2 DEF Move, pg
<1>4. ASSUME NEW p \in Int, b + n <= p, p < b + n + (new - n)
      PROVE  x[p] = Gained(pg)
  <2>1. p \in Space /\ p \in Span(b, new) /\ ~(p - b < n)
    BY <1>4, SpaceAssumption, SMT DEF Span, Space
  <2>2. m[a] = pg
    BY <1>1, SMT
  <2> QED
    BY <2>1, <2>2 DEF Move
<1>5. ASSUME NEW p \in Int, a <= p, p < a + n
      PROVE  x[p] = IF Bad("keep_old") THEN pg ELSE Unmapped
  <2>1. p \in Space /\ p \notin Span(b, new) /\ p \in Span(a, n)
    BY <1>1, <1>5, SpaceAssumption, SMT DEF Span, Space
  <2> QED
    BY <1>1, <1>5, <2>1 DEF Move, Unmap
<1>6. ASSUME NEW p \in Space, p \notin Span(a, n), p \notin Span(b, new)
      PROVE  x[p] = m[p]
  BY <1>6 DEF Move, Unmap
<1> HIDE DEF x
<1>7. Filled(x, b, n, Mapping(RW, IF Bad("no_copy") THEN "nul" ELSE ch, sh))
  BY <1>3, SpaceAssumption, SMT DEF Filled
<1>8. Filled(x, b + n, new - n, Gained(pg))
  BY <1>4, SMT DEF Filled
<1>9. Filled(x, a, n, IF Bad("keep_old") THEN pg ELSE Unmapped)
  BY <1>1, <1>5 DEF Filled
<1> QED
  BY <1>6, <1>7, <1>8, <1>9 DEF pg, x

LEMMA FreeIsDisjoint ==
    ASSUME NEW a \in Int, NEW n \in Int, NEW c \in Int, NEW k \in Int, 0 < n, 0 < k, 0 <= c, NEW pg,
           Filled(mem, a, n, pg), pg # Unmapped, AllFree(mem, c, k)
    PROVE  a + n <= c \/ c + k <= a
<1>1. \A p \in Int : c <= p /\ p < c + k => mem[p] = Unmapped
  BY SpaceAssumption, SMT DEF AllFree, Span, Space
<1>2. \A p \in Int : a <= p /\ p < a + n => mem[p] # Unmapped
  BY DEF Filled
<1>3. CASE a <= c
  BY <1>1, <1>2, <1>3, SMT
<1>4. CASE c <= a
  BY <1>1, <1>2, <1>4, SMTT(30)
<1> QED
  BY <1>3, <1>4, SMT

\* The bytes of a moved area do not hold when they were not copied.
LEMMA DataFails ==
    ASSUME NEW m, NEW c \in Int, NEW r \in Int, 0 < r, NEW sh, NEW ch \in {"0", "1", "2"},
           Filled(m, c, r, Mapping(RW, "nul", sh))
    PROVE  ~Satisfied(Data(remap(0), r, ch), m, c)
<1>1. c + 0 \in c + 0 .. c + 0 + r - 1 /\ m[c + 0].ch # ch
  BY PageKinds, SMT DEF Filled
<1> QED
  BY <1>1 DEF Satisfied, Data, remap

\* The checks of shapes 15 and 16: the bytes, then the old place.
LEMMA OldPlaceChecks ==
    ASSUME NEW m, NEW c \in Int, NEW r \in Int, r > 1, NEW sh, NEW ch, NEW old,
           Filled(m, c, r, Mapping(RW, ch, sh)), Filled(m, addr[1], r, old),
           Checks = <<Data(remap(0), r, "0"), Signal("SIGSEGV", At(1, 0))>>
    PROVE  /\ ch = "0" /\ old = Unmapped => \A j \in DOMAIN Checks : Satisfied(Checks[j], m, c)
           /\ ch = "nul" => \E j \in DOMAIN Checks : ~Satisfied(Checks[j], m, c)
           /\ old = Mapping(RW, "0", sh) => \E j \in DOMAIN Checks : ~Satisfied(Checks[j], m, c)
<1>1. /\ 1 \in DOMAIN Checks /\ 2 \in DOMAIN Checks /\ \A j \in DOMAIN Checks : j \in {1, 2}
      /\ Checks[1] = Data(remap(0), r, "0") /\ Checks[2] = Signal("SIGSEGV", At(1, 0))
  BY SMT
<1>2. addr[1] + 0 \in Space /\ m[addr[1] + 0] = old
  BY SpaceAssumption, SMTT(30) DEF Filled, Space
<1>3. Satisfied(Signal("SIGSEGV", At(1, 0)), m, c) <=> FaultIn(m, addr[1] + 0, "PROT_READ") = "SIGSEGV"
  BY SMT DEF Satisfied, Signal, At
<1>4. old = Unmapped => FaultIn(m, addr[1] + 0, "PROT_READ") = "SIGSEGV"
  BY <1>2 DEF FaultIn
<1>5. old = Mapping(RW, "0", sh) => FaultIn(m, addr[1] + 0, "PROT_READ") = "none"
  BY <1>2, PageKinds, SMT DEF FaultIn, RW
<1>6. ch = "0" => Satisfied(Data(remap(0), r, "0"), m, c)
  BY DataHolds
<1>7. ch = "nul" => ~Satisfied(Data(remap(0), r, "0"), m, c)
  BY DataFails, SMT
<1> QED
  BY <1>1, <1>3, <1>4, <1>5, <1>6, <1>7

LEMMA GrowByMove ==
    ASSUME t \in Numbers, Formatted(Len(P) + 1), NEW r, NEW sh, IsShape(t, 5, r, sh) \/ IsShape(t, 15, r, sh),
           NEW res \in Results
    PROVE  Outcome(res)
<1> DEFINE a == addr[1]
           ch == IF Bad("no_copy") THEN "nul" ELSE "0"
           old == IF Bad("keep_old") THEN Mapping(RW, "0", sh) ELSE Unmapped
<1>1. /\ r \in Nat /\ r > 1 /\ sh \in {0, 1}
      /\ P = <<rw(r, sh), use(r, sh)>> /\ Call = Maymove(1, r, 2 * r) /\ Points[t].expect = "any"
  <2>1. CASE IsShape(t, 5, r, sh)
    BY <2>1, SMT DEF IsShape, Shape, SharedForm, Shape5, SharedShape5, P, Call, Point
  <2>2. CASE IsShape(t, 15, r, sh)
    BY <2>2, SMT DEF IsShape, Shape, Shape15, P, Call, Point
  <2> QED
    BY <2>1, <2>2
<1>2. Filled(mem, a, r, Mapping(RW, "0", sh)) /\ Filled(mem, a + r, r, Mapping({}, "nul", sh))
  BY <1>1, TwoAreas
<1>3. Call.addr.area = 1 /\ Call.old = r /\ Call.new = 2 * r /\ Call.flags = {"MREMAP_MAYMOVE"}
  BY <1>1 DEF Maymove, Plain, At
<1>4. 2 * r - r = r /\ ~(2 * r <= r) /\ a \in Int /\ r \in Int /\ 2 * r \in Int
  BY <1>1, <1>2, SMT DEF Filled
<1>5. ~AllFree(mem, a + r, r)
  <2>1. a + r \in Span(a + r, r)
    BY <1>1, <1>2, SpaceAssumption, SMT DEF Filled, Span, Space
  <2>2. mem[a + r] # Unmapped
    BY <1>1, <1>2, PageKinds, SMT DEF Filled
  <2> QED
    BY <2>1, <2>2 DEF AllFree
<1> HIDE DEF a
<1>6. PICK c \in {d \in Space : AllFree(mem, d, 2 * r)} : res = Result(c, "0", Move(mem, a, r, c, 2 * r))
  BY <1>3, <1>4, <1>5 DEF Results, mremap, a
<1>7. c \in Int /\ 0 <= c /\ c + 2 * r <= Pages /\ c # MAP_FAILED
  BY <1>6, SpaceAssumption, SMTT(30) DEF Space, AllFree, MAP_FAILED
<1>8. a + r <= c \/ c + 2 * r <= a
  <2>1. 0 < r /\ 0 < 2 * r
    BY <1>1, SMT
  <2>2. AllFree(mem, c, 2 * r)
    OBVIOUS
  <2>3. Mapping(RW, "0", sh) # Unmapped
    BY PageKinds, SMT
  <2> QED
    BY <1>2, <1>4, <1>7, <2>1, <2>2, <2>3, FreeIsDisjoint
<1>9. /\ Filled(res.mem, c, r, Mapping(RW, ch, sh)) /\ Filled(res.mem, c + r, 2 * r - r, Gained(Mapping(RW, "0", sh)))
      /\ Filled(res.mem, a, r, old) /\ res.addr = c /\ res.errno = "0"
  <2>1. res.mem = Move(mem, a, r, c, 2 * r) /\ res.addr = c /\ res.errno = "0"
    BY <1>6 DEF Result
  <2>2. 0 < r /\ r <= 2 * r
    BY <1>1, SMT
  <2>3. /\ Filled(Move(mem, a, r, c, 2 * r), c, r, Mapping(RW, IF Bad("no_copy") THEN "nul" ELSE "0", sh))
        /\ Filled(Move(mem, a, r, c, 2 * r), c + r, 2 * r - r, Gained(Mapping(RW, "0", sh)))
        /\ Filled(Move(mem, a, r, c, 2 * r), a, r, IF Bad("keep_old") THEN Mapping(RW, "0", sh) ELSE Unmapped)
    BY <1>2, <1>4, <1>7, <1>8, <2>2, MoveMakes
  <2> QED
    BY <2>1, <2>3
<1>10. Expected(res)
  BY <1>1, <1>7, <1>9 DEF Expected
<1>11. /\ Checks # <<>>
       /\ ~Caught => \A j \in DOMAIN Checks : Satisfied(Checks[j], res.mem, res.addr)
       /\ Caught => \E j \in DOMAIN Checks : ~Satisfied(Checks[j], res.mem, res.addr)
  <2>1. (defect # "no_copy" => ch = "0") /\ (defect # "keep_old" => old = Unmapped) /\ (defect = "no_copy" => ch = "nul")
           /\ (defect = "keep_old" => old = Mapping(RW, "0", sh))
    BY DEF Bad
  <2> HIDE DEF ch, old
  <2>2. CASE IsShape(t, 5, r, sh)
    <3>1. Checks = <<Data(remap(0), r, "0"), IF sh = 1 THEN Signal("SIGBUS", remap(r)) ELSE Access(2 * r)>>
      BY <2>2, SMT DEF IsShape, Shape, SharedForm, Shape5, SharedShape5, Checks, Point
    <3>2. Caught <=> \/ defect = "no_copy"
                     \/ defect = "grow_readonly" /\ sh = 0
                     \/ defect = "shared_grows" /\ sh = 1
      BY <2>2, Catching, SMTT(30)
    <3>3. Checks # <<>>
      BY <3>1, PairNotEmpty
    <3>4. Filled(res.mem, c + r, r, Gained(Mapping(RW, "0", sh)))
      BY <1>4, <1>9
    <3>5. /\ ch = "0" /\ ~(sh = 0 /\ defect = "grow_readonly") /\ ~(sh = 1 /\ defect = "shared_grows") =>
                \A j \in DOMAIN Checks : Satisfied(Checks[j], res.mem, c)
          /\ ch = "nul" => \E j \in DOMAIN Checks : ~Satisfied(Checks[j], res.mem, c)
          /\ sh = 0 /\ defect = "grow_readonly" => \E j \in DOMAIN Checks : ~Satisfied(Checks[j], res.mem, c)
          /\ sh = 1 /\ defect = "shared_grows" => \E j \in DOMAIN Checks : ~Satisfied(Checks[j], res.mem, c)
      BY <1>1, <1>4, <1>7, <1>9, <3>1, <3>4, GrownChecks
    <3>6. ~Caught => \A j \in DOMAIN Checks : Satisfied(Checks[j], res.mem, c)
      BY <2>1, <3>2, <3>5, SMTT(30)
    <3>7. Caught => \E j \in DOMAIN Checks : ~Satisfied(Checks[j], res.mem, c)
      BY <2>1, <3>2, <3>5, SMTT(30)
    <3> QED
      BY <1>9, <3>3, <3>6, <3>7
  <2>3. CASE IsShape(t, 15, r, sh)
    <3>1. Checks = <<Data(remap(0), r, "0"), Signal("SIGSEGV", At(1, 0))>>
      BY <2>3, SMT DEF IsShape, Shape, Shape15, Checks, Point
    <3>2. Caught <=> defect \in {"keep_old", "no_copy"}
      BY <2>3, Catching
    <3>3. Checks # <<>>
      BY <3>1, PairNotEmpty, SMTT(30)
    <3> QED
      BY <1>1, <1>4, <1>7, <1>9, <2>1, <3>1, <3>2, <3>3, OldPlaceChecks DEF a
  <2> QED
    BY <2>2, <2>3
<1> QED
  BY <1>10, <1>11, Settled, PointsWellFormed, SMTT(30)

\* What MREMAP_FIXED makes of r pages of ch at a, moved to b.
Moved(res, a, b, r, ch, sh) ==
    /\ res.addr = b /\ res.errno = "0"
    /\ Filled(res.mem, b, r, Mapping(RW, IF Bad("no_copy") THEN "nul" ELSE ch, sh))
    /\ Filled(res.mem, a, r, IF Bad("keep_old") THEN Mapping(RW, ch, sh) ELSE Unmapped)
    /\ ~Bad("clears_more") => \A p \in Space \ (Span(a, r) \cup Span(b, r)) : res.mem[p] = mem[p]
    /\ Bad("clears_more") /\ a + r <= b /\ b + r \in Space => res.mem[b + r] = Unmapped

LEMMA FixedMove ==
    ASSUME NEW a \in Int, NEW b \in Int, NEW r \in Int, 0 < r, 0 <= b, b + r <= Pages, a + r <= b \/ b + r <= a,
           NEW ch, NEW sh, Filled(mem, a, r, Mapping(RW, ch, sh)),
           NEW flags, "MREMAP_FIXED" \in flags, NEW res \in mremap(a, r, r, flags, b)
    PROVE  Moved(res, a, b, r, ch, sh)
<1> DEFINE most == IF Bad("clears_more") THEN r + 1 ELSE r
           cleared == IF Overlap(a, r, b, most) THEN mem ELSE Unmap(mem, b, most)
<1>1. ~Overlap(a, r, b, r)
  BY SMT DEF Overlap
<1>2. res = Result(b, "0", Move(cleared, a, r, b, r))
  BY <1>1 DEF mremap
<1>3. most \in Int /\ r <= most
  BY SMT
<1> HIDE DEF most
<1>4. Filled(cleared, a, r, Mapping(RW, ch, sh))
  <2>1. CASE Overlap(a, r, b, most)
    BY <2>1
  <2>2. CASE ~Overlap(a, r, b, most)
    <3>1. \A p \in Int : a <= p /\ p < a + r => p \in Space /\ p \notin Span(b, most)
      BY <1>3, <2>2, SpaceAssumption, SMT DEF Overlap, Span, Space, Filled
    <3> QED
      BY <2>2, <3>1 DEF Filled, Unmap
  <2> QED
    BY <2>1, <2>2
<1>5. \A p \in Space \ (Span(a, r) \cup Span(b, r)) : ~Bad("clears_more") => cleared[p] = mem[p]
  BY DEF Unmap, most
<1>6. Bad("clears_more") /\ a + r <= b /\ b + r \in Space => cleared[b + r] = Unmapped
  <2> SUFFICES ASSUME Bad("clears_more"), a + r <= b, b + r \in Space PROVE cleared[b + r] = Unmapped
    OBVIOUS
  <2>1. most = r + 1 /\ ~Overlap(a, r, b, most)
    BY SMT DEF most, Overlap
  <2>2. b + r \in Span(b, most)
    BY <2>1, SMT DEF Span
  <2> QED
    BY <2>1, <2>2 DEF Unmap
<1> HIDE DEF cleared
<1>7. res.mem = Move(cleared, a, r, b, r) /\ res.addr = b /\ res.errno = "0" /\ r <= r
  BY <1>2, SMT DEF Result
<1>8. /\ Filled(res.mem, b, r, Mapping(RW, IF Bad("no_copy") THEN "nul" ELSE ch, sh))
      /\ Filled(res.mem, a, r, IF Bad("keep_old") THEN Mapping(RW, ch, sh) ELSE Unmapped)
      /\ \A p \in Space \ (Span(a, r) \cup Span(b, r)) : res.mem[p] = cleared[p]
  BY <1>4, <1>7, MoveMakes, SMT
<1>9. a + r <= b => b + r \notin Span(a, r) \cup Span(b, r)
  BY SMT DEF Span
<1> QED
  BY <1>5, <1>6, <1>7, <1>8, <1>9 DEF Moved

\* The checks of shapes 6, 12 and 13: the bytes, then writes.
LEMMA MovedChecks ==
    ASSUME NEW m, NEW c \in Int, NEW r \in Int, r > 1, NEW sh, NEW ch, NEW exp \in {"0", "1", "2"},
           Filled(m, c, r, Mapping(RW, ch, sh)), Checks = <<Data(remap(0), r, exp), Access(r)>>
    PROVE  /\ ch = exp => \A j \in DOMAIN Checks : Satisfied(Checks[j], m, c)
           /\ ch = "nul" => \E j \in DOMAIN Checks : ~Satisfied(Checks[j], m, c)
<1>1. /\ 1 \in DOMAIN Checks /\ \A j \in DOMAIN Checks : j \in {1, 2}
      /\ Checks[1] = Data(remap(0), r, exp) /\ Checks[2] = Access(r)
  BY SMT
<1>2. ch = exp => Satisfied(Data(remap(0), r, exp), m, c)
  BY DataHolds, SMTT(30)
<1>3. ch = exp => Satisfied(Access(r), m, c)
  BY AccessHolds, PageKinds, SMT DEF Filled, RW
<1>4. ch = "nul" => ~Satisfied(Data(remap(0), r, exp), m, c)
  BY DataFails, SMT
<1> QED
  BY <1>1, <1>2, <1>3, <1>4

LEMMA MoveIntoFree ==
    ASSUME t \in Numbers, Formatted(Len(P) + 1), NEW r, NEW sh, IsShape(t, 6, r, sh) \/ IsShape(t, 16, r, sh),
           NEW res \in Results
    PROVE  Outcome(res)
<1> DEFINE ch == IF Bad("no_copy") THEN "nul" ELSE "0"
           old == IF Bad("keep_old") THEN Mapping(RW, "0", sh) ELSE Unmapped
<1>1. /\ r \in Nat /\ r > 1
      /\ P = <<rw(r, sh), free(r), use(r, sh)>> /\ Call = Fixed(1, r, r, At(2, 0)) /\ Points[t].expect = "naddr"
  <2>1. CASE IsShape(t, 6, r, sh)
    BY <2>1, SMT DEF IsShape, Shape, Shape6, P, Call, Point
  <2>2. CASE IsShape(t, 16, r, sh)
    BY <2>2, SMTT(30) DEF IsShape, Shape, Shape16, P, Call, Point
  <2> QED
    BY <2>1, <2>2
<1>2. /\ Filled(mem, addr[1], r, Mapping(RW, "0", sh)) /\ Filled(mem, addr[1] + r, r, Unmapped)
      /\ addr[2] = addr[1] + r
  BY <1>1, FreeBehind
<1>3. /\ Call.addr.area = 1 /\ Call.old = r /\ Call.new = r /\ "MREMAP_FIXED" \in Call.flags
      /\ Call.naddr.area = 2 /\ Call.naddr.off = 0
  BY <1>1 DEF Fixed, Plain, At
<1>4. /\ addr[1] \in Int /\ r \in Int /\ 0 < r /\ addr[2] \in Int /\ addr[2] + 0 = addr[2] /\ 0 <= addr[2]
      /\ addr[2] + r <= Pages /\ addr[1] + r <= addr[2]
  BY <1>1, <1>2, SMTT(30) DEF Filled
<1>5. res \in mremap(addr[1], r, r, Call.flags, addr[2])
  BY <1>3, <1>4, SMTT(30) DEF Results
<1>6. /\ res.addr = addr[2] /\ res.errno = "0" /\ Filled(res.mem, addr[2], r, Mapping(RW, ch, sh))
      /\ Filled(res.mem, addr[1], r, old)
  <2>1. Moved(res, addr[1], addr[2], r, "0", sh)
    BY <1>2, <1>3, <1>4, <1>5, FixedMove
  <2> QED
    BY <2>1, SMTT(30) DEF Moved
<1>7. Expected(res)
  BY <1>1, <1>3, <1>4, <1>6 DEF Expected
<1>8. /\ defect # "no_copy" => ch = "0"
      /\ defect # "keep_old" => old = Unmapped
      /\ defect = "no_copy" => ch = "nul"
      /\ defect = "keep_old" => old = Mapping(RW, "0", sh)
  BY DEF Bad
<1> HIDE DEF ch, old
<1>9. CASE IsShape(t, 6, r, sh)
  <2>1. Checks = <<Data(remap(0), r, "0"), Access(r)>>
    BY <1>9, SMT DEF IsShape, Shape, Shape6, Checks, Point
  <2>2. Caught <=> defect = "no_copy"
    BY <1>9, Catching, SMTT(30)
  <2>3. /\ ~Caught => \A j \in DOMAIN Checks : Satisfied(Checks[j], res.mem, res.addr)
        /\ Caught => \E j \in DOMAIN Checks : ~Satisfied(Checks[j], res.mem, res.addr)
    BY <1>1, <1>4, <1>6, <1>8, <2>1, <2>2, MovedChecks
  <2>4. Checks # <<>>
    BY <2>1, PairNotEmpty
  <2> QED
    BY <1>7, <2>3, <2>4, Settled, PointsWellFormed
<1>10. CASE IsShape(t, 16, r, sh)
  <2>1. Checks = <<Data(remap(0), r, "0"), Signal("SIGSEGV", At(1, 0))>>
    BY <1>10, SMT DEF IsShape, Shape, Shape16, Checks, Point
  <2>2. Caught <=> defect \in {"keep_old", "no_copy"}
    BY <1>10, Catching, SMTT(30)
  <2>3. /\ ~Caught => \A j \in DOMAIN Checks : Satisfied(Checks[j], res.mem, res.addr)
        /\ Caught => \E j \in DOMAIN Checks : ~Satisfied(Checks[j], res.mem, res.addr)
    BY <1>1, <1>4, <1>6, <1>8, <2>1, <2>2, OldPlaceChecks
  <2>4. Checks # <<>>
    BY <2>1, PairNotEmpty, SMTT(30)
  <2> QED
    BY <1>7, <2>3, <2>4, Settled, PointsWellFormed
<1> QED
  BY <1>9, <1>10, SMTT(30)

\* The move of shapes 12 and 13, of the area holding ch at a to b.
LEMMA MoveByOne ==
    ASSUME t \in Numbers, NEW k \in {12, 13}, NEW r, NEW sh, IsShape(t, k, r, sh), r \in Nat, r > 1,
           NEW ch \in {"0", "1", "2"}, Checks = <<Data(remap(0), r, ch), Access(r)>>, Points[t].expect = "naddr",
           NEW a \in Int, NEW b \in Int, 0 <= b, b + r <= Pages, a + r <= b \/ b + r <= a,
           a = addr[Call.addr.area], b = addr[Call.naddr.area] + Call.naddr.off,
           Filled(mem, a, r, Mapping(RW, ch, sh)),
           Call.old = r, Call.new = r, "MREMAP_FIXED" \in Call.flags,
           NEW res \in Results
    PROVE  Outcome(res)
<1> DEFINE copy == IF Bad("no_copy") THEN "nul" ELSE ch
<1>1. res \in mremap(a, r, r, Call.flags, b)
  BY SMTT(30) DEF Results
<1>2. Moved(res, a, b, r, ch, sh)
  BY <1>1, FixedMove, SMT
<1>3. Expected(res)
  BY <1>2 DEF Moved, Expected
<1>4. Caught <=> defect = "no_copy"
  BY Catching, SMTT(30)
<1>5. res.addr = b /\ Filled(res.mem, b, r, Mapping(RW, copy, sh))
  BY <1>2, SMTT(30) DEF Moved
<1>6. (defect # "no_copy" => copy = ch) /\ (defect = "no_copy" => copy = "nul")
  BY DEF Bad
<1> HIDE DEF copy
<1>7. /\ ~Caught => \A j \in DOMAIN Checks : Satisfied(Checks[j], res.mem, res.addr)
      /\ Caught => \E j \in DOMAIN Checks : ~Satisfied(Checks[j], res.mem, res.addr)
  BY <1>4, <1>5, <1>6, MovedChecks, SMTT(30)
<1>8. Checks # <<>>
  BY PairNotEmpty
<1> QED
  BY <1>3, <1>7, <1>8, Settled, PointsWellFormed, ZenonT(30)

LEMMA MoveDown ==
    ASSUME t \in Numbers, Formatted(Len(P) + 1), NEW r, NEW sh, IsShape(t, 12, r, sh), NEW res \in Results
    PROVE  Outcome(res)
<1>0. r \in Nat /\ r > 1
  BY DEF IsShape
<1>1. /\ P = <<use(r, sh), free(r), rw(r, sh), use(r, sh)>>
      /\ Call = Fixed(3, r, r, At(2, 0))
      /\ Points[t].expect = "naddr"
      /\ Checks = <<Data(remap(0), r, "2"), Access(r)>>
  BY SMT DEF IsShape, Shape, Shape12, P, Call, Checks, Point
<1>2. /\ DOMAIN P = 1 .. 4 /\ P[1].size = r /\ P[2].size = r /\ P[3].size = r
      /\ P[3].prot = RW /\ P[3].nopage = 0 /\ P[3].shared = sh
  <2>1. DOMAIN P = 1 .. 4 /\ P[1] = use(r, sh) /\ P[2] = free(r) /\ P[3] = rw(r, sh)
    BY <1>1, SMTT(30)
  <2>2. /\ use(r, sh).size = r /\ free(r).size = r /\ rw(r, sh).size = r
        /\ rw(r, sh).prot = RW /\ rw(r, sh).nopage = 0 /\ rw(r, sh).shared = sh
    BY AreaKinds, SMT
  <2> QED
    BY <2>1, <2>2
<1>3. Size(1) = r /\ Size(2) = r
  BY <1>2, SMT DEF Size
<1>4. Off(2) = r /\ Off(3) = r + r
  BY <1>0, <1>3, SMT DEF Off
<1>5. AreaPage(3) = Mapping(RW, "2", sh)
  BY <1>2, SMTT(30) DEF AreaPage, Digit, RW
<1>6. /\ addr[1] \in Int /\ 0 <= addr[1] /\ addr[2] = addr[1] + r /\ addr[3] = addr[1] + (r + r)
      /\ Filled(mem, addr[3], r, Mapping(RW, "2", sh))
  BY <1>0, <1>2, <1>4, <1>5, Layout, SMT
<1>7. /\ Call.addr.area = 3 /\ Call.old = r /\ Call.new = r /\ "MREMAP_FIXED" \in Call.flags
      /\ Call.naddr.area = 2 /\ Call.naddr.off = 0
  BY <1>1 DEF Fixed, Plain, At
<1>8. /\ addr[3] \in Int /\ addr[2] \in Int /\ addr[2] + 0 = addr[2] /\ 0 <= addr[2]
      /\ addr[2] + r <= Pages /\ addr[2] + r <= addr[3]
  BY <1>0, <1>6, SpaceAssumption, SMTT(30) DEF Filled
<1> QED
  BY <1>0, <1>1, <1>6, <1>7, <1>8, MoveByOne

LEMMA MoveUp ==
    ASSUME t \in Numbers, Formatted(Len(P) + 1), NEW r, NEW sh, IsShape(t, 13, r, sh), NEW res \in Results
    PROVE  Outcome(res)
<1>0. r \in Nat /\ r > 1
  BY DEF IsShape
<1>1. /\ P = <<use(r, sh), rw(r, sh), free(r), use(r, sh)>>
      /\ Call = Fixed(2, r, r, At(3, 0))
      /\ Points[t].expect = "naddr"
      /\ Checks = <<Data(remap(0), r, "1"), Access(r)>>
  BY SMT DEF IsShape, Shape, Shape13, P, Call, Checks, Point
<1>2. /\ DOMAIN P = 1 .. 4 /\ P[1].size = r /\ P[2].size = r /\ P[3].size = r
      /\ P[2].prot = RW /\ P[2].nopage = 0 /\ P[2].shared = sh
  <2>1. DOMAIN P = 1 .. 4 /\ P[1] = use(r, sh) /\ P[2] = rw(r, sh) /\ P[3] = free(r)
    BY <1>1, SMTT(30)
  <2>2. /\ use(r, sh).size = r /\ free(r).size = r /\ rw(r, sh).size = r
        /\ rw(r, sh).prot = RW /\ rw(r, sh).nopage = 0 /\ rw(r, sh).shared = sh
    BY AreaKinds, SMT
  <2> QED
    BY <2>1, <2>2
<1>3. Size(1) = r /\ Size(2) = r
  BY <1>2, SMT DEF Size
<1>4. Off(2) = r /\ Off(3) = r + r
  BY <1>0, <1>3, SMT DEF Off
<1>5. AreaPage(2) = Mapping(RW, "1", sh)
  BY <1>2, SMTT(30) DEF AreaPage, Digit, RW
<1>6. /\ addr[1] \in Int /\ 0 <= addr[1] /\ addr[2] = addr[1] + r /\ addr[3] = addr[1] + (r + r)
      /\ Filled(mem, addr[2], r, Mapping(RW, "1", sh)) /\ Filled(mem, addr[3], r, AreaPage(3))
  BY <1>0, <1>2, <1>4, <1>5, Layout, SMT
<1>7. /\ Call.addr.area = 2 /\ Call.old = r /\ Call.new = r /\ "MREMAP_FIXED" \in Call.flags
      /\ Call.naddr.area = 3 /\ Call.naddr.off = 0
  BY <1>1 DEF Fixed, Plain, At
<1>8. /\ addr[3] \in Int /\ addr[2] \in Int /\ addr[3] + 0 = addr[3] /\ 0 <= addr[3]
      /\ addr[3] + r <= Pages /\ addr[2] + r <= addr[3]
  BY <1>0, <1>6, SpaceAssumption, SMTT(30) DEF Filled
<1> QED
  BY <1>0, <1>1, <1>6, <1>7, <1>8, MoveByOne

\* The move onto the first half of an area: its second half is not to be touched.
LEMMA MoveOntoArea ==
    ASSUME t \in Numbers, Formatted(Len(P) + 1), NEW r, NEW sh, IsShape(t, 7, r, sh), NEW res \in Results
    PROVE  Outcome(res)
<1> DEFINE ch == IF Bad("no_copy") THEN "nul" ELSE "0"
           a == addr[1]
           b == addr[3]
<1>0. r \in Nat /\ r > 1
  BY DEF IsShape
<1>1. /\ P = <<rw(r, sh), use(r, sh), rw(2 * r, sh), use(r, sh)>> /\ Call = Fixed(1, r, r, At(3, 0))
      /\ Points[t].expect = "naddr"
      /\ Checks = <<Data(remap(0), r, "0"), Data(At(3, r), r, "2"), Access(r)>>
  BY SMTT(30) DEF IsShape, Shape, Shape7, P, Call, Checks, Point
<1>2. /\ DOMAIN P = 1 .. 4 /\ P[1].size = r /\ P[2].size = r /\ P[3].size = 2 * r
      /\ P[1].prot = RW /\ P[1].nopage = 0 /\ P[1].shared = sh
      /\ P[3].prot = RW /\ P[3].nopage = 0 /\ P[3].shared = sh
  <2>1. DOMAIN P = 1 .. 4 /\ P[1] = rw(r, sh) /\ P[2] = use(r, sh) /\ P[3] = rw(2 * r, sh)
    BY <1>1, SMTT(30)
  <2>2. /\ use(r, sh).size = r
        /\ \A n : rw(n, sh).size = n /\ rw(n, sh).prot = RW /\ rw(n, sh).nopage = 0 /\ rw(n, sh).shared = sh
    BY AreaKinds, SMT
  <2> QED
    BY <2>1, <2>2
<1>3. Size(1) = r /\ Size(2) = r
  BY <1>2, SMT DEF Size
<1>4. Off(3) = r + r
  BY <1>0, <1>3, SMT DEF Off
<1>5. AreaPage(1) = Mapping(RW, "0", sh) /\ AreaPage(3) = Mapping(RW, "2", sh)
  BY <1>2, SMTT(30) DEF AreaPage, Digit, RW
<1>6. /\ a \in Int /\ 0 <= a /\ b = a + (r + r)
      /\ Filled(mem, a, r, Mapping(RW, "0", sh)) /\ Filled(mem, b, 2 * r, Mapping(RW, "2", sh))
  BY <1>0, <1>2, <1>4, <1>5, Layout, SMT
<1>7. /\ Call.addr.area = 1 /\ Call.old = r /\ Call.new = r /\ "MREMAP_FIXED" \in Call.flags
      /\ Call.naddr.area = 3 /\ Call.naddr.off = 0
  BY <1>1 DEF Fixed, Plain, At
<1>8. /\ b \in Int /\ r \in Int /\ 0 < r /\ b + 0 = b /\ 0 <= b /\ b + r <= Pages /\ b + 2 * r <= Pages /\ a + r <= b
      /\ b + r \in Space
  BY <1>0, <1>6, SpaceAssumption, SMT DEF Filled, Space
<1>9. res \in mremap(a, r, r, Call.flags, b)
  BY <1>7, <1>8, SMTT(30) DEF Results
<1>10. Moved(res, a, b, r, "0", sh)
  BY <1>6, <1>7, <1>8, <1>9, FixedMove
<1>11. Expected(res)
  BY <1>1, <1>7, <1>8, <1>10, SMTT(30) DEF Moved, Expected
<1>12. /\ 1 \in DOMAIN Checks /\ 2 \in DOMAIN Checks /\ \A j \in DOMAIN Checks : j \in {1, 2, 3}
       /\ Checks[1] = Data(remap(0), r, "0") /\ Checks[2] = Data(At(3, r), r, "2") /\ Checks[3] = Access(r)
       /\ Checks # <<>>
  BY <1>1, SMTT(30)
<1>13. Filled(res.mem, b, r, Mapping(RW, ch, sh)) /\ res.addr = b
  BY <1>10, SMTT(30) DEF Moved
<1>14. Satisfied(Checks[2], res.mem, res.addr) <=>
          \A p \in b + r .. b + r + r - 1 : FaultIn(res.mem, p, "PROT_READ") = "none" /\ res.mem[p].ch = "2"
  <2>1. /\ Checks[2].check = "data" /\ Checks[2].len = r /\ Checks[2].exp = "2"
        /\ Checks[2].at.area = 3 /\ Checks[2].at.off = r
    BY <1>12, SMT DEF Data, At
  <2> QED
    BY <2>1, SMTT(30) DEF Satisfied
<1> HIDE DEF a, b
<1>15. ASSUME ~Caught
       PROVE  \A j \in DOMAIN Checks : Satisfied(Checks[j], res.mem, res.addr)
  <2>1. ch = "0" /\ ~Bad("clears_more")
    BY <1>15, Catching DEF Bad
  <2>2. Satisfied(Checks[1], res.mem, res.addr)
    BY <1>8, <1>12, <1>13, <2>1, DataHolds, SMTT(30)
  <2>3. Satisfied(Checks[3], res.mem, res.addr)
    BY <1>8, <1>12, <1>13, AccessHolds, PageKinds, SMTT(30) DEF Filled, RW
  <2>4. \A p \in b + r .. b + r + r - 1 : p \in Space /\ res.mem[p] = Mapping(RW, "2", sh)
    <3> TAKE p \in b + r .. b + r + r - 1
    <3>1. p \in Space /\ p \notin Span(a, r) /\ p \notin Span(b, r)
      BY <1>6, <1>8, SpaceAssumption, SMT DEF Space, Span
    <3>2. mem[p] = Mapping(RW, "2", sh)
      BY <1>6, <1>8, SMTT(30) DEF Filled
    <3> QED
      BY <1>10, <2>1, <3>1, <3>2 DEF Moved
  <2>5. Satisfied(Checks[2], res.mem, res.addr)
    BY <1>14, <2>4, PageKinds, SMT DEF FaultIn, RW
  <2> QED
    BY <1>12, <2>2, <2>3, <2>5
<1>16. ASSUME Caught
       PROVE  \E j \in DOMAIN Checks : ~Satisfied(Checks[j], res.mem, res.addr)
  <2>1. defect = "no_copy" \/ defect = "clears_more"
    BY <1>16, Catching
  <2>2. CASE defect = "no_copy"
    <3>1. ch = "nul"
      BY <2>2 DEF Bad
    <3>2. ~Satisfied(Checks[1], res.mem, res.addr)
      BY <1>8, <1>12, <1>13, <3>1, DataFails, SMTT(30)
    <3> QED
      BY <1>12, <3>2
  <2>3. CASE defect = "clears_more"
    <3>1. res.mem[b + r] = Unmapped
      BY <1>8, <1>10, <2>3 DEF Moved, Bad
    <3>2. b + r \in b + r .. b + r + r - 1 /\ FaultIn(res.mem, b + r, "PROT_READ") # "none"
      BY <1>8, <3>1, SMT DEF FaultIn
    <3> QED
      BY <1>12, <1>14, <3>2, SMTT(30)
  <2> QED
    BY <2>1, <2>2, <2>3
<1> QED
  BY <1>11, <1>12, <1>15, <1>16, Settled, PointsWellFormed

LEMMA Outcomes ==
    ASSUME t \in Numbers, Formatted(Len(P) + 1), NEW res \in Results
    PROVE  Outcome(res)
<1>1. PICK k \in 0 .. 16, r \in Nat, sh \in {0, 1} : IsShape(t, k, r, sh)
  BY Table
<1>2. k \in {0, 1, 2, 3, 4, 5, 6, 7, 8, 9, 10, 11, 12, 13, 14, 15, 16}
  BY SMT
<1> QED
  BY <1>1, <1>2, EqualSizes, Shrink, GrowInPlace, NoRoom, GrowByMove, MoveIntoFree, MoveOntoArea, Overlaps,
     MoveDown, MoveUp

LEMMA RemapInv == IInv /\ Remap => IInv'
<1> SUFFICES ASSUME IInv, Remap PROVE IInv'
  OBVIOUS
<1>1. t \in Numbers /\ pc = "mremap" /\ handler = "SIG_DFL" /\ i = 1 /\ Formatted(Len(P) + 1)
  BY SMTT(30) DEF IInv, Remap
<1>2. PICK res \in Results :
         /\ mem' = res.mem /\ remapped' = res.addr
         /\ IF ~Expected(res) THEN Exit("error")
            ELSE IF Checks = <<>> THEN Exit("ok")
            ELSE pc' = "check" /\ UNCHANGED verdict
  BY DEF Remap, Results, Checks
<1>3. UNCHANGED <<t, defect, i, addr, handler>>
  BY DEF Remap
<1>4. Outcome(res)
  BY <1>1, Outcomes
<1>5. Caught' = Caught /\ Checks' = Checks
  BY <1>3, SMTT(30) DEF Caught, Catches, Shapes, Checks
<1>6. CASE ~Expected(res)
  <2>1. Caught
    BY <1>4, <1>6 DEF Outcome
  <2> QED
    BY <1>1, <1>2, <1>3, <1>5, <1>6, <2>1 DEF IInv, Reported, Judged, Passed, Exit
<1>7. CASE Expected(res) /\ Checks = <<>>
  <2>1. ~Caught
    BY <1>4, <1>7 DEF Outcome
  <2> QED
    BY <1>1, <1>2, <1>3, <1>5, <1>7, <2>1 DEF IInv, Reported, Judged, Passed, Exit
<1>8. CASE Expected(res) /\ Checks # <<>>
  <2>1. Decided(1, res.mem, res.addr)
    BY <1>4, <1>8, SMTT(30) DEF Outcome
  <2>2. \A c : Satisfied(c, mem, remapped)' = Satisfied(c, res.mem, res.addr)
    BY <1>2, <1>3, SMT DEF Satisfied, FaultIn, Space, Unmapped
  <2>3. Decided(i, mem, remapped)'
    BY <1>1, <1>3, <1>5, <2>1, <2>2, SMTT(30) DEF Decided
  <2>4. 1 \in DOMAIN Checks
    BY <1>1, <1>8, PointsWellFormed, SMT DEF WellFormed, Checks
  <2>5. pc' = "check" /\ (i \in DOMAIN Checks)' /\ handler' = "SIG_DFL" /\ t' \in Numbers
    BY <1>1, <1>2, <1>3, <1>5, <1>8, <2>4
  <2> QED
    BY <2>3, <2>5 DEF IInv, Reported, Judged
<1> QED
  BY <1>6, <1>7, <1>8, SMTT(30)
-----------------------------------------------------------------------------
LEMMA InitInv == Init => IInv
<1> SUFFICES ASSUME Init PROVE IInv
  OBVIOUS
<1>1. addr \in [DOMAIN P -> Int]
  BY SpaceAssumption, SMT DEF Init, MAP_FAILED
<1> QED
  BY <1>1 DEF Init, IInv, Reported, Judged

LEMMA StutterInv == IInv /\ UNCHANGED vars => IInv'
<1> SUFFICES ASSUME IInv, UNCHANGED vars PROVE IInv'
  OBVIOUS
<1>1. /\ P' = P /\ Checks' = Checks /\ total_size' = total_size /\ Caught' = Caught
      /\ \A k : Off(k)' = Off(k) /\ AreaPage(k)' = AreaPage(k)
  BY SMT DEF vars, P, Checks, total_size, Caught, Catches, Shapes, Off, Size, AreaPage, Mapping, Unmapped, Digit
<1>2. \A n : Formatted(n)' = Formatted(n)
  BY <1>1, ZenonT(30) DEF vars, Formatted, Span, Space, Unmapped
<1>3. \A c : Satisfied(c, mem, remapped)' = Satisfied(c, mem, remapped)
  <2>1. \A p, prot : FaultIn(mem, p, prot)' = FaultIn(mem, p, prot)
    BY DEF vars, FaultIn, Space, Unmapped
  <2> QED
    BY <2>1 DEF vars, Satisfied
<1>4. Decided(i, mem, remapped)' = Decided(i, mem, remapped)
  BY <1>1, <1>3 DEF vars, Decided
<1> QED
  BY <1>1, <1>2, <1>4 DEF vars, IInv, Reported, Judged, Passed, Space, Unmapped

\* The invariant behind the results: how far the layout has come, and that the checks
\* still to be made all hold, or one of them fails when the kernel has a defect the test
\* point looks at.
THEOREM MremapInvariant == Spec => []IInv
<1>1. IInv /\ [Next]_vars => IInv'
  BY ReserveInv, FormatInv, RemapInv, DataInv, AccessInv, SignalInv, StutterInv DEF Next, Finished
<1> QED
  BY <1>1, InitInv, PTL DEF Spec

\* mremap_mmap_anon hands RUN_FUNC the layout its params ask for, whatever their sizes
\* and wherever mmap reserved the range.
THEOREM AreasLaidOut == Spec => []LaidOut
<1>1. IInv => LaidOut
  <2> SUFFICES ASSUME IInv, pc = "mremap"
               PROVE  /\ \A k \in 1 .. Len(P) - 1 : addr[k + 1] = addr[k] + P[k].size
                      /\ \A k \in DOMAIN P : \A p \in Span(addr[k], P[k].size) :
                            IF P[k].nopage = 1 THEN mem[p] = Unmapped
                            ELSE /\ mem[p].prot = P[k].prot /\ mem[p].shared = P[k].shared
                                 /\ "PROT_WRITE" \in P[k].prot => mem[p].ch = Digit(k)
                      /\ \A p \in Space \ Span(addr[1], total_size) : mem[p] = Unmapped
    BY DEF LaidOut
  <2>1. t \in Numbers /\ Formatted(Len(P) + 1)
    BY DEF IInv
  <2>2. DOMAIN P = 1 .. Len(P) /\ Len(P) \in 1 .. 5
    BY <2>1, Sizes
  <2>3. ASSUME NEW k \in 1 .. Len(P) - 1 PROVE addr[k + 1] = addr[k] + P[k].size
    <3>1. k \in DOMAIN P /\ k + 1 \in DOMAIN P
      BY <2>2, <2>3, SMT
    <3>2. addr[1] \in Int /\ addr[k] = addr[1] + Off(k) /\ addr[k + 1] = addr[1] + Off(k + 1)
      BY <2>1, <3>1, Layout
    <3>3. Off(k) \in Nat /\ Off(k + 1) = Off(k) + P[k].size /\ P[k].size \in Nat
      BY <2>1, <3>1, Offsets, Sizes DEF AreaType
    <3> QED
      BY <3>2, <3>3, SMT
  <2>4. ASSUME NEW k \in DOMAIN P, NEW p \in Span(addr[k], P[k].size)
        PROVE  IF P[k].nopage = 1 THEN mem[p] = Unmapped
               ELSE /\ mem[p].prot = P[k].prot /\ mem[p].shared = P[k].shared
                    /\ "PROT_WRITE" \in P[k].prot => mem[p].ch = Digit(k)
    <3>1. k < Len(P) + 1
      BY <2>2, <2>4, SMT
    <3>2. mem[p] = AreaPage(k)
      BY <2>1, <2>4, <3>1 DEF Formatted
    <3> QED
      BY <3>2, SMT DEF AreaPage, Mapping
  <2>5. \A p \in Space \ Span(addr[1], total_size) : mem[p] = Unmapped
    BY <2>1 DEF Formatted
  <2> QED
    BY <2>3, <2>4, <2>5, SMTT(30)
<1> QED
  BY <1>1, MremapInvariant, PTL

\* With a correct kernel all 68 test points pass, for every size of the areas.
THEOREM CorrectMremapPasses == Spec => []CorrectKernelPasses
<1>1. IInv => CorrectKernelPasses
  <2>1. defect = "none" => ~Caught
    BY SMT DEF Caught, Catches, Shapes
  <2> QED
    BY <2>1 DEF IInv, Reported, CorrectKernelPasses
<1> QED
  BY <1>1, MremapInvariant, PTL

\* A kernel with a defect fails exactly the test points whose checks look at what the
\* defect spoils: none of them passes, and every other one does.
THEOREM MremapDefectsReported == Spec => []DefectReported
<1>1. IInv => DefectReported
  BY DEF IInv, Reported, DefectReported, Caught
<1> QED
  BY <1>1, MremapInvariant, PTL
=============================================================================

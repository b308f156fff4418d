---------------------------- MODULE MremapTests ----------------------------
(***************************************************************************)
(* The 68 test points of mremap_mmap_anon as data.  Each RUN_FUNC lays out *)
(* adjacent areas (params), calls mremap on one of them, compares the      *)
(* result, checks bytes, and ends by writing to the new area or by reading *)
(* an address that must raise a signal.                                    *)
(*                                                                         *)
(* The unit of size is a page.  There are 17 shapes, each in four          *)
(* variants: 0xx private, 1xx shared, 2xx and 3xx the same with areas of a *)
(* large page.  r is the size of an area, sh its sharing.                  *)
(***************************************************************************)
EXTENDS Naturals

CONSTANTS
    MREMAP_RANGE_SIZE,          \* in pages
    MREMAP_RANGE_LARGE_SIZE     \* in pages

ASSUME RangeAssumption ==
    /\ MREMAP_RANGE_SIZE \in Nat /\ MREMAP_RANGE_SIZE > 1
    /\ MREMAP_RANGE_LARGE_SIZE \in Nat /\ MREMAP_RANGE_LARGE_SIZE > MREMAP_RANGE_SIZE

\* 0xffffffffffffe000 bytes: more than any address space holds.
Huge == 1000000

\* struct mremap_mmap_anon_param.
Area(size, prot, sh) == [size |-> size, nopage |-> 0, shared |-> sh, prot |-> prot]
rw(size, sh) == Area(size, {"PROT_READ", "PROT_WRITE"}, sh)
ro(size, sh) == Area(size, {"PROT_READ"}, sh)
use(size, sh) == Area(size, {}, sh)                \* PROT_NONE
free(size) == [size |-> size, nopage |-> 1, shared |-> 0, prot |-> {}]

\* An address: offset off in area i of params, or (area 0) in the remapped area.
At(i, off) == [area |-> i, off |-> off]
remap(off) == [area |-> 0, off |-> off]

\* mremap(addr, old, new, flags[, naddr]).
Plain(i, old, new) == [addr |-> At(i, 0), old |-> old, new |-> new, flags |-> {}, naddr |-> At(i, 0)]
Maymove(i, old, new) == [Plain(i, old, new) EXCEPT !.flags = {"MREMAP_MAYMOVE"}]
Fixed(i, old, new, naddr) ==
    [Plain(i, old, new) EXCEPT !.flags = {"MREMAP_MAYMOVE", "MREMAP_FIXED"}, !.naddr = naddr]

\* The checks after mremap, in order.
Data(a, len, exp) == [check |-> "data", at |-> a, len |-> len, exp |-> exp]
Access(len) == [check |-> "access", at |-> remap(0), len |-> len, exp |-> "0"]
Signal(sig, a) == [check |-> "signal", at |-> a, len |-> 1, exp |-> sig]

Point(params, call, expect, checks) ==
    [params |-> params, call |-> call, expect |-> expect, checks |-> checks]
-----------------------------------------------------------------------------
\* Equal sizes: nothing changes.
Shape0(r, sh) == Point(<<rw(r, sh), use(r, sh)>>, Plain(1, r, r), "any", <<Data(remap(0), r, "0"), Access(r)>>)
\* Equal sizes beyond the address space.
Shape1(r, sh) == Point(<<rw(r, sh), use(r, sh)>>, Plain(1, Huge, Huge), "any", <<Data(remap(0), r, "0"), Access(r)>>)
\* Shrink by a page.
Shape2(r, sh) == Point(<<rw(2 * r, sh), use(r, sh)>>, Plain(1, 2 * r, 2 * r - 1), "any",
                       <<Data(remap(0), 2 * r - 1, "0"), Access(2 * r - 1)>>)
\* Grow into free space.
Shape3(r, sh) == Point(<<rw(r, sh), free(r), use(r, sh)>>, Plain(1, r, 2 * r), "any",
                       <<Data(remap(0), r, "0"), Access(2 * r)>>)
\* Grow where there is no room.
Shape4(r, sh) == Point(<<rw(r, sh), use(r, sh)>>, Plain(1, r, 2 * r), "ENOMEM", <<>>)
\* Grow by moving.
Shape5(r, sh) == Point(<<rw(r, sh), use(r, sh)>>, Maymove(1, r, 2 * r), "any",
                       <<Data(remap(0), r, "0"), Access(2 * r)>>)
\* Move to free space.
Shape6(r, sh) == Point(<<rw(r, sh), free(r), use(r, sh)>>, Fixed(1, r, r, At(2, 0)), "naddr",
                       <<Data(remap(0), r, "0"), Access(r)>>)
Shape7_no_offset(r, sh) ==
    Point(<<rw(r, sh), use(r, sh), rw(2 * r, sh), use(r, sh)>>, Fixed(1, r, r, At(3, 0)), "naddr",
          <<Data(remap(0), r, "0"), Data(At(3, 0), r, "2"), Access(r)>>)

\* Move onto the first half of another area, whose rest keeps its bytes.
Shape7(r, sh) == Point(<<rw(r, sh), use(r, sh), rw(2 * r, sh), use(r, sh)>>, Fixed(1, r, r, At(3, 0)), "naddr",
                       <<Data(remap(0), r, "0"), Data(At(3, r), r, "2"), Access(r)>>)
\* New and old overlap, in four ways.
Shape8(r, sh) == Point(<<use(r, sh), ro(r, sh), rw(r, sh), ro(r, sh), use(r, sh)>>,
                       Fixed(3, r, 3 * r, At(2, 0)), "EINVAL", <<>>)
Shape9(r, sh) == Point(<<use(r, sh), rw(2 * r, sh), use(r, sh)>>, Fixed(2, 2 * r, 1, At(2, 1)), "EINVAL", <<>>)
Shape10(r, sh) == Point(<<use(r, sh), free(r), rw(2 * r, sh), use(r, sh)>>,
                        Fixed(3, 2 * r, 2 * r, At(2, 0)), "EINVAL", <<>>)
Shape11(r, sh) == Point(<<use(r, sh), rw(2 * r, sh), free(r), use(r, sh)>>,
                        Fixed(2, 2 * r, 2 * r, At(2, 1)), "EINVAL", <<>>)
\* Move down and up by one area.
Shape12(r, sh) == Point(<<use(r, sh), free(r), rw(r, sh), use(r, sh)>>, Fixed(3, r, r, At(2, 0)), "naddr",
                        <<Data(remap(0), r, "2"), Access(r)>>)
Shape13(r, sh) == Point(<<use(r, sh), rw(r, sh), free(r), use(r, sh)>>, Fixed(2, r, r, At(3, 0)), "naddr",
                        <<Data(remap(0), r, "1"), Access(r)>>)
\* The page cut off by a shrink, and the old place after a move, are gone.
Shape14(r, sh) == Point(<<rw(2 * r, sh), use(r, sh)>>, Plain(1, 2 * r, 2 * r - 1), "any",
                        <<Data(remap(0), 2 * r - 1, "0"), Signal("SIGSEGV", remap(2 * r - 1))>>)
Shape15(r, sh) == Point(<<rw(r, sh), use(r, sh)>>, Maymove(1, r, 2 * r), "any",
                        <<Data(remap(0), r, "0"), Signal("SIGSEGV", At(1, 0))>>)
Shape16(r, sh) == Point(<<rw(r, sh), free(r), use(r, sh)>>, Fixed(1, r, r, At(2, 0)), "naddr",
                        <<Data(remap(0), r, "0"), Signal("SIGSEGV", At(1, 0))>>)
\* Shared mappings that grow: the new pages lie beyond the shared object.
SharedShape3(r) == [Shape3(r, 1) EXCEPT !.checks = <<Data(remap(0), r, "0"), Signal("SIGBUS", remap(r))>>]
SharedShape5(r) == [Shape5(r, 1) EXCEPT !.checks = <<Data(remap(0), r, "0"), Signal("SIGBUS", remap(r))>>]
-----------------------------------------------------------------------------
Run000 == Shape0(MREMAP_RANGE_SIZE, 0)
Run001 == Shape1(MREMAP_RANGE_SIZE, 0)
Run002 == Shape2(MREMAP_RANGE_SIZE, 0)
Run003 == Shape3(MREMAP_RANGE_SIZE, 0)
Run004 == Shape4(MREMAP_RANGE_SIZE, 0)
Run005 == Shape5(MREMAP_RANGE_SIZE, 0)
Run006 == Shape6(MREMAP_RANGE_SIZE, 0)
Run007 == Shape7(MREMAP_RANGE_SIZE, 0)
Run008 == Shape8(MREMAP_RANGE_SIZE, 0)
Run009 == Shape9(MREMAP_RANGE_SIZE, 0)
Run010 == Shape10(MREMAP_RANGE_SIZE, 0)
Run011 == Shape11(MREMAP_RANGE_SIZE, 0)
Run012 == Shape12(MREMAP_RANGE_SIZE, 0)
Run013 == Shape13(MREMAP_RANGE_SIZE, 0)
Run014 == Shape14(MREMAP_RANGE_SIZE, 0)
Run015 == Shape15(MREMAP_RANGE_SIZE, 0)
Run016 == Shape16(MREMAP_RANGE_SIZE, 0)
Run100 == Shape0(MREMAP_RANGE_SIZE, 1)
Run101 == Shape1(MREMAP_RANGE_SIZE, 1)
Run102 == Shape2(MREMAP_RANGE_SIZE, 1)
Run103 == SharedShape3(MREMAP_RANGE_SIZE)
Run104 == Shape4(MREMAP_RANGE_SIZE, 1)
Run105 == SharedShape5(MREMAP_RANGE_SIZE)
Run106 == Shape6(MREMAP_RANGE_SIZE, 1)
Run107 == Shape7(MREMAP_RANGE_SIZE, 1)
Run108 == Shape8(MREMAP_RANGE_SIZE, 1)
Run109 == Shape9(MREMAP_RANGE_SIZE, 1)
Run110 == Shape10(MREMAP_RANGE_SIZE, 1)
Run111 == Shape11(MREMAP_RANGE_SIZE, 1)
Run112 == Shape12(MREMAP_RANGE_SIZE, 1)
Run113 == Shape13(MREMAP_RANGE_SIZE, 1)
Run114 == Shape14(MREMAP_RANGE_SIZE, 1)
Run115 == Shape15(MREMAP_RANGE_SIZE, 1)
Run116 == Shape16(MREMAP_RANGE_SIZE, 1)
Run200 == Shape0(MREMAP_RANGE_LARGE_SIZE, 0)
Run201 == Shape1(MREMAP_RANGE_LARGE_SIZE, 0)
Run202 == Shape2(MREMAP_RANGE_LARGE_SIZE, 0)
Run203 == Shape3(MREMAP_RANGE_LARGE_SIZE, 0)
Run204 == Shape4(MREMAP_RANGE_LARGE_SIZE, 0)
Run205 == Shape5(MREMAP_RANGE_LARGE_SIZE, 0)
Run206 == Shape6(MREMAP_RANGE_LARGE_SIZE, 0)
Run207 == Shape7(MREMAP_RANGE_LARGE_SIZE, 0)
Run208 == Shape8(MREMAP_RANGE_LARGE_SIZE, 0)
Run209 == Shape9(MREMAP_RANGE_LARGE_SIZE, 0)
Run210 == Shape10(MREMAP_RANGE_LARGE_SIZE, 0)
Run211 == Shape11(MREMAP_RANGE_LARGE_SIZE, 0)
Run212 == Shape12(MREMAP_RANGE_LARGE_SIZE, 0)
Run213 == Shape13(MREMAP_RANGE_LARGE_SIZE, 0)
Run214 == Shape14(MREMAP_RANGE_LARGE_SIZE, 0)
Run215 == Shape15(MREMAP_RANGE_LARGE_SIZE, 0)
Run216 == Shape16(MREMAP_RANGE_LARGE_SIZE, 0)
Run300 == Shape0(MREMAP_RANGE_LARGE_SIZE, 1)
Run301 == Shape1(MREMAP_RANGE_LARGE_SIZE, 1)
Run302 == Shape2(MREMAP_RANGE_LARGE_SIZE, 1)
Run303 == SharedShape3(MREMAP_RANGE_LARGE_SIZE)
Run304 == Shape4(MREMAP_RANGE_LARGE_SIZE, 1)
Run305 == SharedShape5(MREMAP_RANGE_LARGE_SIZE)
Run306 == Shape6(MREMAP_RANGE_LARGE_SIZE, 1)
Run307 == Shape7(MREMAP_RANGE_LARGE_SIZE, 1)
Run308 == Shape8(MREMAP_RANGE_LARGE_SIZE, 1)
Run309 == Shape9(MREMAP_RANGE_LARGE_SIZE, 1)
Run310 == Shape10(MREMAP_RANGE_LARGE_SIZE, 1)
Run311 == Shape11(MREMAP_RANGE_LARGE_SIZE, 1)
Run312 == Shape12(MREMAP_RANGE_LARGE_SIZE, 1)
Run313 == Shape13(MREMAP_RANGE_LARGE_SIZE, 1)
Run314 == Shape14(MREMAP_RANGE_LARGE_SIZE, 1)
Run315 == Shape15(MREMAP_RANGE_LARGE_SIZE, 1)
Run316 == Shape16(MREMAP_RANGE_LARGE_SIZE, 1)

Numbers == {100 * v + n : v \in 0 .. 3, n \in 0 .. 16}
Points == [t \in Numbers |->
    CASE t = 0 -> Run000 [] t = 1 -> Run001 [] t = 2 -> Run002 [] t = 3 -> Run003
      [] t = 4 -> Run004 [] t = 5 -> Run005 [] t = 6 -> Run006 [] t = 7 -> Run007
      [] t = 8 -> Run008 [] t = 9 -> Run009 [] t = 10 -> Run010 [] t = 11 -> Run011
      [] t = 12 -> Run012 [] t = 13 -> Run013 [] t = 14 -> Run014 [] t = 15 -> Run015
      [] t = 16 -> Run016 [] t = 100 -> Run100 [] t = 101 -> Run101 [] t = 102 -> Run102
      [] t = 103 -> Run103 [] t = 104 -> Run104 [] t = 105 -> Run105 [] t = 106 -> Run106
      [] t = 107 -> Run107 [] t = 108 -> Run108 [] t = 109 -> Run109 [] t = 110 -> Run110
      [] t = 111 -> Run111 [] t = 112 -> Run112 [] t = 113 -> Run113 [] t = 114 -> Run114
      [] t = 115 -> Run115 [] t = 116 -> Run116 [] t = 200 -> Run200 [] t = 201 -> Run201
      [] t = 202 -> Run202 [] t = 203 -> Run203 [] t = 204 -> Run204 [] t = 205 -> Run205
      [] t = 206 -> Run206 [] t = 207 -> Run207 [] t = 208 -> Run208 [] t = 209 -> Run209
      [] t = 210 -> Run210 [] t = 211 -> Run211 [] t = 212 -> Run212 [] t = 213 -> Run213
      [] t = 214 -> Run214 [] t = 215 -> Run215 [] t = 216 -> Run216 [] t = 300 -> Run300
      [] t = 301 -> Run301 [] t = 302 -> Run302 [] t = 303 -> Run303 [] t = 304 -> Run304
      [] t = 305 -> Run305 [] t = 306 -> Run306 [] t = 307 -> Run307 [] t = 308 -> Run308
      [] t = 309 -> Run309 [] t = 310 -> Run310 [] t = 311 -> Run311 [] t = 312 -> Run312
      [] t = 313 -> Run313 [] t = 314 -> Run314 [] t = 315 -> Run315 [] t = 316 -> Run316]
=============================================================================

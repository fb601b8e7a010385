------------------------- MODULE MatchEncodingProofs -------------------------
(***************************************************************************)
(* Theorems about MatchEncoding, for bytes, values, masks and numbers of   *)
(* entries of any size.                                                    *)
(***************************************************************************)
EXTENDS MatchEncoding, SequenceTheorems, FiniteSetTheorems, TLAPS

USE WidthAssumption

-----------------------------------------------------------------------------
(* Arithmetic of bit positions                                              *)

\* Multiplying by a natural number preserves the order.
LEMMA TimesMonotone ==
  ASSUME NEW a \in Int, NEW b \in Int, NEW c \in Nat, a <= b
  PROVE  a * c <= b * c
<1>1. (b - a) * c >= 0
  OBVIOUS
<1>2. (b - a) * c = b * c - a * c
  OBVIOUS
<1>3. QED  BY <1>1, <1>2

\* The exponent of bit j of byte k in a string of n bytes.
Pos(n, k, j) == (n - k) * W + (W - j)

\* An exponent has one place: no two bits of a string stand for the same number.
LEMMA PosUnique ==
  ASSUME NEW m \in Int, NEW n \in Int, NEW k \in Int, NEW l \in Int,
         NEW i \in 1 .. W, NEW j \in 1 .. W, Pos(m, k, i) = Pos(n, l, j)
  PROVE  m - k = n - l /\ i = j
<1> DEFINE p == m - k
           q == n - l
<1>1. p \in Int /\ q \in Int /\ p * W \in Int /\ q * W \in Int
  OBVIOUS
<1>2. p * W + (W - i) = q * W + (W - j)
  BY DEF Pos
<1>3. ASSUME NEW x \in Int, NEW y \in Int, x < y  PROVE x * W + W <= y * W
  <2>1. (x + 1) * W <= y * W
    BY <1>3, TimesMonotone
  <2>2. (x + 1) * W = x * W + W
    OBVIOUS
  <2>3. QED  BY <2>1, <2>2
<1>4. ~ (p < q)
  <2>1. SUFFICES ASSUME p < q PROVE FALSE
    OBVIOUS
  <2>2. p * W + W <= q * W
    BY <1>1, <1>3, <2>1
  <2> HIDE DEF p, q
  <2>3. QED  BY <1>1, <1>2, <2>2
<1>5. ~ (q < p)
  <2>1. SUFFICES ASSUME q < p PROVE FALSE
    OBVIOUS
  <2>2. q * W + W <= p * W
    BY <1>1, <1>3, <2>1
  <2> HIDE DEF p, q
  <2>3. QED  BY <1>1, <1>2, <2>2
<1>6. p = q
  BY <1>1, <1>4, <1>5
<1> HIDE DEF p, q
<1>7. i = j
  BY <1>1, <1>2, <1>6
<1>8. QED  BY <1>6, <1>7 DEF p, q

\* \div and % are those of the integers.
LEMMA DivMod ==
  ASSUME NEW p \in Nat
  PROVE  /\ p \div W \in Nat /\ p % W \in 0 .. W - 1
         /\ p = (p \div W) * W + (p % W)
  OBVIOUS

\* A set of natural numbers that is not empty has a least one.
LEMMA MinExists ==
  ASSUME NEW S \in SUBSET Nat, S # {}
  PROVE  Min(S) \in S /\ \A x \in S : Min(S) <= x
<1> DEFINE Below(k) == 0 .. k - 1
           T == {Below(k) : k \in S}
<1>1. T \subseteq FiniteSubsetsOf(Nat) /\ T # {}
  <2>1. ASSUME NEW k \in S  PROVE Below(k) \in FiniteSubsetsOf(Nat)
    <3>1. k - 1 \in Int /\ 0 \in Int
      OBVIOUS
    <3>2. IsFiniteSet(0 .. k - 1)
      BY <3>1, FS_Interval
    <3>3. QED  BY <3>2 DEF FiniteSubsetsOf
  <2>2. QED  BY <2>1
<1>2. \E t \in T : \A u \in T : <<u, t>> \notin StrictSubsetOrdering(Nat)
  <2> HIDE DEF T
  <2>1. QED  BY <1>1, FS_StrictSubsetOrderingWellFounded, WFMin
<1>3. PICK x \in S : \A y \in S : <<Below(y), Below(x)>> \notin StrictSubsetOrdering(Nat)
  BY <1>2
<1>4. ASSUME NEW y \in S  PROVE x <= y
  <2>1. SUFFICES ASSUME y < x PROVE FALSE
    OBVIOUS
  <2>2. Below(y) \subseteq Below(x) /\ Below(y) # Below(x)
    <3>1. y \in Below(x) /\ y \notin Below(y)
      BY <2>1
    <3>2. QED  BY <2>1, <3>1
  <2>3. <<Below(y), Below(x)>> \in StrictSubsetOrdering(Nat)
    BY <1>1, <2>2 DEF StrictSubsetOrdering, FiniteSubsetsOf
  <2>4. QED  BY <1>3, <2>3
<1>5. QED  BY <1>4 DEF Min

-----------------------------------------------------------------------------
(* Byte strings and their slices                                            *)

\* A string of n bytes is a sequence of that length.
LEMMA BytesAreSeq ==
  ASSUME NEW n \in Nat, NEW s \in Bytes(n)
  PROVE  s \in Seq(Byte) /\ Len(s) = n /\ \A k \in 1 .. n : s[k] \in SUBSET (1 .. W)
<1>1. s \in Seq(Byte)
  BY SeqDef DEF Bytes
<1>2. Len(s) = n
  BY <1>1, LenProperties DEF Bytes
<1>3. QED  BY <1>1, <1>2 DEF Bytes, Byte

\* The exponents of the one bits from byte f on of a string of n bytes.
NumberFrom(s, n, f) == {x \in Int : \E k \in f .. n : \E j \in s[k] : x = Pos(n, k, j)}

\* A slice that goes to the end of s, or is one zero byte before zeroes only.
SliceOf(s, n, f, l) ==
  /\ f \in 1 .. n + 1 /\ l \in 0 .. n
  /\ l = n \/ (l = f /\ \A k \in f .. n : s[k] = {})

\* Such a slice stands for the number that s is from its first byte on.
LEMMA NumberOfSlice ==
  ASSUME NEW n \in Nat, NEW s \in Bytes(n), NEW f, NEW l, SliceOf(s, n, f, l)
  PROVE  Number(SubSeq(s, f, l)) = NumberFrom(s, n, f)
<1>1. f \in 1 .. n + 1 /\ l \in 0 .. n
  BY DEF SliceOf
<1>2. \A k \in 1 .. n : s[k] \in SUBSET (1 .. W)
  BY BytesAreSeq
<1> DEFINE t == SubSeq(s, f, l)
<1>3. /\ Len(t) = IF f <= l THEN l - f + 1 ELSE 0
      /\ \A k \in 1 .. l - f + 1 : t[k] = s[f + k - 1]
  <2>1. \A k \in f .. l : s[k] \in Byte
    BY <1>1, <1>2 DEF Byte
  <2>2. f \in Int /\ l \in Int
    BY <1>1
  <2>3. QED  BY <2>1, <2>2, SubSeqProperties
<1> HIDE DEF t
<1>4. CASE l = n
  <2>1. ASSUME NEW x \in Number(t)  PROVE x \in NumberFrom(s, n, f)
    <3>1. PICK k \in 1 .. Len(t) : \E j \in t[k] : x = (Len(t) - k) * W + (W - j)
      BY <2>1 DEF Number
    <3>2. PICK j \in t[k] : x = (Len(t) - k) * W + (W - j)
      BY <3>1
    <3>3. k \in 1 .. n - f + 1 /\ Len(t) = n - f + 1
      BY <1>1, <1>3, <1>4
    <3>4. f + k - 1 \in f .. n /\ f + k - 1 \in 1 .. n /\ t[k] = s[f + k - 1]
      BY <1>1, <1>3, <1>4, <3>3
    <3>5. Len(t) - k = n - (f + k - 1)
      BY <1>1, <3>3
    <3>6. x = Pos(n, f + k - 1, j)
      BY <3>2, <3>5 DEF Pos
    <3>7. j \in 1 .. W /\ j \in s[f + k - 1]
      BY <1>2, <3>2, <3>4
    <3>8. x \in Int
      BY <3>4, <3>6, <3>7, <1>1 DEF Pos
    <3>9. QED  BY <3>4, <3>6, <3>7, <3>8 DEF NumberFrom
  <2>2. ASSUME NEW x \in NumberFrom(s, n, f)  PROVE x \in Number(t)
    <3>1. PICK k \in f .. n : \E j \in s[k] : x = Pos(n, k, j)
      BY <2>2 DEF NumberFrom
    <3>2. PICK j \in s[k] : x = Pos(n, k, j)
      BY <3>1
    <3>3. k - f + 1 \in 1 .. Len(t) /\ Len(t) - (k - f + 1) = n - k
      BY <1>1, <1>3, <1>4, <3>1
    <3>4. t[k - f + 1] = s[k]
      <4>1. k - f + 1 \in 1 .. l - f + 1 /\ f + (k - f + 1) - 1 = k
        BY <1>1, <1>4, <3>1
      <4>2. QED  BY <1>3, <4>1
    <3>5. x = (Len(t) - (k - f + 1)) * W + (W - j)
      BY <3>2, <3>3 DEF Pos
    <3>6. QED  BY <3>2, <3>3, <3>4, <3>5 DEF Number
  <2>3. QED  BY <2>1, <2>2 DEF t
<1>5. CASE l # n
  <2>1. l = f /\ \A k \in f .. n : s[k] = {}
    BY <1>5 DEF SliceOf
  <2>2. NumberFrom(s, n, f) = {}
    BY <2>1 DEF NumberFrom
  <2>3. \A k \in 1 .. Len(t) : t[k] = {}
    <3>1. Len(t) = 1 /\ t[1] = s[f] /\ f \in f .. n
      BY <1>1, <1>3, <2>1
    <3>2. QED  BY <2>1, <3>1
  <2>4. Number(t) = {}
    BY <2>3 DEF Number
  <2>5. QED  BY <2>2, <2>4 DEF t
<1>6. QED  BY <1>4, <1>5

\* What ToCanonicalIf cuts off are zero bytes, and what it keeps is a slice as above.
LEMMA SliceIsSlice ==
  ASSUME NEW n \in Nat, NEW s \in Bytes(n), NEW first \in 1 .. n + 1, canonical \in BOOLEAN
  PROVE  LET p == Slice(s, first) IN
         /\ p = <<p[1], p[2]>> /\ SliceOf(s, n, p[1], p[2]) /\ first <= p[1]
         /\ \A k \in first .. p[1] - 1 : s[k] = {}
         /\ ~canonical => p = <<first, n>>
         /\ canonical => /\ first <= n => p[1] <= p[2]
                         /\ p[1] < p[2] => s[p[1]] # {}
<1>1. Len(s) = n
  BY BytesAreSeq
<1> DEFINE ones == {k \in first .. Len(s) : s[k] # {}}
<1>2. CASE ~canonical
  BY <1>1, <1>2 DEF Slice, SliceOf
<1>3. CASE canonical /\ first > n
  BY <1>1, <1>3 DEF Slice, CanonicalSlice, SliceOf
<1>4. CASE canonical /\ first <= n /\ ones = {}
  <2>1. Slice(s, first) = <<first, first>>
    BY <1>1, <1>4 DEF Slice, CanonicalSlice
  <2>2. \A k \in first .. n : s[k] = {}
    BY <1>1, <1>4
  <2>3. QED  BY <1>4, <2>1, <2>2 DEF SliceOf
<1>5. CASE canonical /\ first <= n /\ ones # {}
  <2> DEFINE m == Min(ones)
  <2>1. Slice(s, first) = <<m, n>>
    <3>1. CanonicalSlice(s, first) =
            IF first > Len(s) THEN <<first, Len(s)>>
            ELSE IF ones = {} THEN <<first, first>> ELSE <<m, Len(s)>>
      BY Zenon DEF CanonicalSlice
    <3> HIDE DEF ones, m
    <3>2. QED  BY <1>1, <1>5, <3>1 DEF Slice
  <2>2. m \in ones /\ \A x \in ones : m <= x
    <3>1. ones \in SUBSET Nat
      BY <1>1
    <3> HIDE DEF ones
    <3>2. QED  BY <1>5, <3>1, MinExists
  <2> HIDE DEF m
  <2>3. s[m] # {} /\ m \in first .. n
    BY <1>1, <2>2
  <2>4. \A k \in first .. m - 1 : s[k] = {}
    BY <1>1, <2>2, <2>3
  <2> HIDE DEF ones
  <2>5. QED  BY <1>5, <2>1, <2>3, <2>4 DEF SliceOf
<1>6. QED  BY <1>2, <1>3, <1>4, <1>5

-----------------------------------------------------------------------------
(* What one match does                                                      *)

Entry == [match : Matches, slice : (1 .. L + 1) \X (0 .. L), mask : Seq(Byte)]

\* What stays true of an entry while its buffer loses bits: its slice is one of the
\* buffer, holds only bits the match cares for, and all of those that are left.
Fits(e, b) ==
  /\ SliceOf(b, L, e.slice[1], e.slice[2])
  /\ NumberFrom(b, L, e.slice[1]) \subseteq Kept(e.match)
  /\ \A k \in 1 .. e.slice[1] - 1 : \A j \in b[k] : Pos(L, k, j) \notin Kept(e.match)
  /\ e.match.kind = "ternary" => Number(e.mask) = Number(e.match.mask)

\* A match takes only bits it does not care for.
Spares(match, b, c) ==
  \A k \in 1 .. L :
    /\ c[k] \subseteq b[k]
    /\ \A j \in b[k] : Pos(L, k, j) \in Kept(match) => j \in c[k]

\* The width of the value of a match before leading zero bytes are cut.
Width(match) ==
  IF match.kind = "ternary" /\ Len(match.mask) < L THEN Len(match.mask) ELSE L

\* What WidthAsAsked says of an entry.
Asked(e, b) ==
  LET v == SubSeq(b, e.slice[1], e.slice[2]) IN
  IF canonical THEN (Width(e.match) > 0 => v # <<>>) /\ (Len(v) > 1 => v[1] # {})
  ELSE Len(v) = Width(e.match)

\* What holds of a new entry and of the buffer its match leaves.
New(e, b, c) ==
  /\ e \in Entry /\ c \in Bytes(L) /\ Fits(e, c) /\ Spares(e.match, b, c) /\ Asked(e, c)

\* Losing bits takes nothing from what is true of an entry.
LEMMA FitsNarrower ==
  ASSUME NEW e \in Entry, NEW b \in Bytes(L), NEW c \in Bytes(L), Fits(e, b),
         \A k \in 1 .. L : c[k] \subseteq b[k]
  PROVE  Fits(e, c)
<1>1. e.slice[1] \in 1 .. L + 1
  BY DEF Entry
<1>2. SliceOf(c, L, e.slice[1], e.slice[2])
  BY <1>1 DEF Fits, SliceOf
<1>3. NumberFrom(c, L, e.slice[1]) \subseteq NumberFrom(b, L, e.slice[1])
  BY <1>1 DEF NumberFrom
<1>4. \A k \in 1 .. e.slice[1] - 1 : c[k] \subseteq b[k]
  BY <1>1
<1>5. QED  BY <1>2, <1>3, <1>4 DEF Fits

\* What is common to the matches: first is where the value is cut, c the buffer that
\* is left.
LEMMA NewEntry ==
  ASSUME canonical \in BOOLEAN, NEW b, NEW c \in Bytes(L), NEW match \in Matches,
         NEW mask \in Seq(Byte), NEW first \in 1 .. L + 1,
         Spares(match, b, c),
         NumberFrom(c, L, first) \subseteq Kept(match),
         \A k \in 1 .. first - 1 : \A j \in c[k] : Pos(L, k, j) \notin Kept(match),
         match.kind = "ternary" => Number(mask) = Number(match.mask),
         Width(match) = L - first + 1
  PROVE  New([match |-> match, slice |-> Slice(c, first), mask |-> mask], b, c)
<1> DEFINE p == Slice(c, first)
           e == [match |-> match, slice |-> p, mask |-> mask]
<1>1. /\ p = <<p[1], p[2]>> /\ SliceOf(c, L, p[1], p[2]) /\ first <= p[1]
      /\ \A k \in first .. p[1] - 1 : c[k] = {}
      /\ ~canonical => p = <<first, L>>
      /\ canonical => /\ first <= L => p[1] <= p[2]
                      /\ p[1] < p[2] => c[p[1]] # {}
  BY SliceIsSlice
<1> HIDE DEF p
<1>2. p[1] \in 1 .. L + 1 /\ p[2] \in 0 .. L
  BY <1>1 DEF SliceOf
<1>3. e \in Entry
  <2>1. p \in (1 .. L + 1) \X (0 .. L)
    BY <1>1, <1>2
  <2>2. QED  BY <2>1 DEF Entry
<1>4. Fits(e, c)
  <2>1. NumberFrom(c, L, p[1]) \subseteq NumberFrom(c, L, first)
    BY <1>1, <1>2 DEF NumberFrom
  <2>2. \A k \in 1 .. p[1] - 1 : \A j \in c[k] : Pos(L, k, j) \notin Kept(match)
    <3>1. \A k \in 1 .. p[1] - 1 : k \in 1 .. first - 1 \/ k \in first .. p[1] - 1
      BY <1>2
    <3>2. QED  BY <1>1, <3>1
  <2>3. QED  BY <1>1, <2>1, <2>2 DEF Fits
<1>5. Asked(e, c)
  <2> DEFINE v == SubSeq(c, p[1], p[2])
  <2>1. \A k \in 1 .. L : c[k] \in Byte
    BY DEF Bytes
  <2>2. /\ Len(v) = IF p[1] <= p[2] THEN p[2] - p[1] + 1 ELSE 0
        /\ \A k \in 1 .. p[2] - p[1] + 1 : v[k] = c[p[1] + k - 1]
    <3>1. \A k \in p[1] .. p[2] : c[k] \in Byte
      <4>1. \A k \in p[1] .. p[2] : k \in 1 .. L
        BY <1>2
      <4>2. QED  BY <2>1, <4>1
    <3>2. p[1] \in Int /\ p[2] \in Int
      BY <1>2
    <3>3. QED  BY <3>1, <3>2, SubSeqProperties
  <2>3. Len(<<>>) = 0
    OBVIOUS
  <2> HIDE DEF v
  <2>4. CASE canonical
    <3>1. Width(match) > 0 => v # <<>>
      BY <1>1, <1>2, <2>2, <2>3, <2>4
    <3>2. Len(v) > 1 => v[1] # {}
      <4>1. SUFFICES ASSUME Len(v) > 1 PROVE v[1] # {}
        OBVIOUS
      <4>2. p[1] < p[2] /\ 1 \in 1 .. p[2] - p[1] + 1 /\ p[1] + 1 - 1 = p[1]
        BY <1>2, <2>2, <4>1
      <4>3. v[1] = c[p[1]]
        BY <2>2, <4>2
      <4>4. QED  BY <1>1, <2>4, <4>2, <4>3
    <3>3. QED  BY <2>4, <3>1, <3>2 DEF Asked, v
  <2>5. CASE ~canonical
    <3>1. p[1] = first /\ p[2] = L
      BY <1>1, <2>5
    <3>2. Len(v) = Width(match)
      BY <2>2, <3>1
    <3>3. QED  BY <2>5, <3>2 DEF Asked, v
  <2>6. QED  BY <2>4, <2>5
<1>6. QED  BY <1>3, <1>4, <1>5 DEF New, p

\* The exponent of a bit in terms of the bits before it, and its bounds.
LEMMA PosValue ==
  ASSUME NEW n \in Nat, NEW k \in 1 .. n, NEW j \in 1 .. W
  PROVE  /\ Pos(n, k, j) = n * W - ((k - 1) * W + j)
         /\ Pos(n, k, j) \in 0 .. n * W - 1
<1>1. (n - k) * W = n * W - k * W /\ (k - 1) * W = k * W - W
  OBVIOUS
<1>2. 0 * W <= (k - 1) * W /\ k * W <= n * W
  BY TimesMonotone
<1>3. n * W \in Int /\ k * W \in Int /\ 0 * W = 0
  OBVIOUS
<1> DEFINE nW == n * W
           kW == k * W
<1> HIDE DEF nW, kW
<1>4. Pos(n, k, j) = nW - kW + (W - j)
  BY <1>1 DEF Pos, nW, kW
<1>5. (k - 1) * W = kW - W /\ 0 <= kW - W /\ kW <= nW /\ nW \in Int /\ kW \in Int
  BY <1>1, <1>2, <1>3 DEF nW, kW
<1>6. /\ Pos(n, k, j) = nW - ((k - 1) * W + j)
      /\ Pos(n, k, j) \in 0 .. nW - 1
  BY <1>4, <1>5
<1>7. QED  BY <1>6 DEF nW

\* ExactMatch and its like care for every bit of the value.
LEMMA WholeIsNew ==
  ASSUME canonical \in BOOLEAN, buffer \in Bytes(L), GetWhole
  PROVE  \E e \in Entry : entries' = Append(entries, e) /\ New(e, buffer, buffer')
<1> DEFINE match == [kind |-> "whole"]
<1>1. match \in Matches /\ <<>> \in Seq(Byte) /\ 1 \in 1 .. L + 1 /\ match.kind # "ternary"
  BY DEF Matches
<1>2. Kept(match) = 0 .. L * W - 1
  BY DEF Kept
<1>3. \A k \in 1 .. L : buffer[k] \in SUBSET (1 .. W)
  BY BytesAreSeq
<1>4. NumberFrom(buffer, L, 1) \subseteq Kept(match)
  BY <1>2, <1>3, PosValue DEF NumberFrom
<1>5. Spares(match, buffer, buffer)
  BY DEF Spares
<1>6. Width(match) = L - 1 + 1
  BY <1>1 DEF Width
<1> HIDE DEF match
<1>7. New([match |-> match, slice |-> Slice(buffer, 1), mask |-> <<>>], buffer, buffer)
  <2>1. \A k \in 1 .. 1 - 1 : \A j \in buffer[k] : Pos(L, k, j) \notin Kept(match)
    OBVIOUS
  <2>2. match.kind = "ternary" => Number(<<>>) = Number(match.mask)
    BY <1>1
  <2>3. QED  BY <1>1, <1>4, <1>5, <1>6, <2>1, <2>2, NewEntry
<1>8. QED  BY <1>7 DEF GetWhole, Built, New, match

\* LpmMatch keeps exactly the bits of its prefix.
LEMMA LpmIsNew ==
  ASSUME canonical \in BOOLEAN, buffer \in Bytes(L), NEW plen \in 0 .. L * W, GetLpm(plen)
  PROVE  \E e \in Entry : entries' = Append(entries, e) /\ New(e, buffer, buffer')
<1> DEFINE match == [kind |-> "lpm", plen |-> plen]
           i == plen \div W
           r == plen % W
           b == buffer
           c == LpmMasked(plen)
<1>1. match \in Matches /\ <<>> \in Seq(Byte) /\ 1 \in 1 .. L + 1 /\ match.kind # "ternary"
  BY DEF Matches
<1>2. Kept(match) = L * W - plen .. L * W - 1
  BY DEF Kept
<1>3. \A k \in 1 .. L : buffer[k] \in SUBSET (1 .. W)
  BY BytesAreSeq
<1>4. i \in Nat /\ r \in 0 .. W - 1 /\ plen = i * W + r /\ i * W \in Nat
  BY DivMod
<1>5. c = [k \in 1 .. L |-> CASE k <= i    -> buffer[k]
                              [] k = i + 1 -> buffer[k] \cap (1 .. r)
                              [] k > i + 1 -> {}]
  BY DEF LpmMasked
<1> HIDE DEF i, r, c, match
<1>6. \A k \in 1 .. L : /\ k <= i => c[k] = b[k]
                        /\ k = i + 1 => c[k] = b[k] \cap (1 .. r)
                        /\ k > i + 1 => c[k] = {}
  BY <1>4, <1>5
<1>7. \A k \in 1 .. L : \A j \in b[k] : j \in c[k] <=> Pos(L, k, j) \in Kept(match)
  <2>1. SUFFICES ASSUME NEW k \in 1 .. L, NEW j \in b[k]
                 PROVE  j \in c[k] <=> Pos(L, k, j) \in Kept(match)
    OBVIOUS
  <2> DEFINE LW == L * W
             kW == (k - 1) * W
             iW == i * W
  <2>2. j \in 1 .. W
    BY <1>3
  <2>3. Pos(L, k, j) = LW - (kW + j) /\ Pos(L, k, j) <= LW - 1
    BY <2>2, PosValue
  <2>4. LW \in Int /\ kW \in Int /\ iW \in Nat /\ plen = iW + r
    BY <1>4
  <2>5. Kept(match) = LW - plen .. LW - 1
    BY <1>2
  <2>6. k <= i => kW + W <= iW
    <3>1. k <= i => k * W <= i * W
      BY <1>4, TimesMonotone
    <3>2. (k - 1) * W = k * W - W
      OBVIOUS
    <3>3. QED  BY <3>1, <3>2
  <2>7. k = i + 1 => kW = iW
    BY <1>4
  <2>8. k > i + 1 => iW + W <= kW
    <3>1. k > i + 1 => (i + 1) * W <= (k - 1) * W
      BY <1>4, TimesMonotone
    <3>2. (i + 1) * W = i * W + W
      BY <1>4
    <3>3. QED  BY <3>1, <3>2
  <2> HIDE DEF LW, kW, iW
  <2>9. Pos(L, k, j) \in Kept(match) <=> kW + j <= iW + r
    BY <2>2, <2>3, <2>4, <2>5, <1>4
  <2>10. CASE k <= i
    BY <1>4, <1>6, <2>2, <2>4, <2>6, <2>9, <2>10
  <2>11. CASE k = i + 1
    <3>1. kW + j <= iW + r <=> j \in 1 .. r
      BY <1>4, <2>2, <2>4, <2>7, <2>11
    <3>2. QED  BY <1>6, <2>9, <2>11, <3>1
  <2>12. CASE k > i + 1
    <3>1. ~ (kW + j <= iW + r)
      BY <1>4, <2>2, <2>4, <2>8, <2>12
    <3>2. QED  BY <1>6, <2>9, <2>12, <3>1
  <2>13. QED  BY <1>4, <2>10, <2>11, <2>12
<1>8. \A k \in 1 .. L : c[k] \subseteq b[k]
  BY <1>4, <1>6
<1>9. c \in Bytes(L)
  <2>1. \A k \in 1 .. L : c[k] \in SUBSET (1 .. W)
    BY <1>3, <1>8
  <2>2. QED  BY <1>5, <2>1 DEF Bytes, Byte
<1>10. Spares(match, b, c)
  BY <1>7, <1>8 DEF Spares
<1>11. NumberFrom(c, L, 1) \subseteq Kept(match)
  BY <1>7, <1>8 DEF NumberFrom
<1>12. Width(match) = L - 1 + 1
  BY <1>1 DEF Width
<1>13. New([match |-> match, slice |-> Slice(c, 1), mask |-> <<>>], b, c)
  <2>1. \A k \in 1 .. 1 - 1 : \A j \in c[k] : Pos(L, k, j) \notin Kept(match)
    OBVIOUS
  <2>2. match.kind = "ternary" => Number(<<>>) = Number(match.mask)
    BY <1>1
  <2>3. QED  BY <1>1, <1>9, <1>10, <1>11, <1>12, <2>1, <2>2, NewEntry
<1>14. QED  BY <1>13 DEF GetLpm, Built, New, match, c

\* TernaryMatch keeps, of what it does not cut off, exactly the bits of its mask, and
\* the mask that is sent stands for the one that was given.
LEMMA TernaryIsNew ==
  ASSUME canonical \in BOOLEAN, buffer \in Bytes(L), NEW mask \in Masks, GetTernary(mask)
  PROVE  \E e \in Entry : entries' = Append(entries, e) /\ New(e, buffer, buffer')
<1>1. PICK n \in 0 .. MaxMask : mask \in Bytes(n)
  BY DEF Masks
<1> DEFINE match == [kind |-> "ternary", mask |-> mask]
           off == n - L
           cut == CutTo(mask)
           b == buffer
           c == TernaryMasked(mask)
           p == Slice(mask, 1)
           sent == SubSeq(mask, p[1], p[2])
<1>2. /\ n \in Nat /\ mask \in Seq(Byte) /\ Len(mask) = n
      /\ \A k \in 1 .. n : mask[k] \in SUBSET (1 .. W)
  BY <1>1, BytesAreSeq
<1>3. match \in Matches /\ match.kind = "ternary" /\ match.mask = mask
  BY DEF Matches
<1>4. /\ n < L => cut = L - n + 1
      /\ n >= L => cut = 1
      /\ cut \in 1 .. L + 1
  BY <1>2 DEF CutTo
<1>5. \A k \in 1 .. L : b[k] \in SUBSET (1 .. W)
  BY BytesAreSeq
<1>6. c = [k \in 1 .. L |-> IF k < cut THEN b[k] ELSE b[k] \cap mask[k + off]]
  BY <1>2 DEF TernaryMasked
<1>7. SliceOf(mask, n, 1, n)
  BY <1>2 DEF SliceOf
<1>8. Kept(match) = NumberFrom(mask, n, 1)
  <2>1. Kept(match) = Number(mask)
    BY DEF Kept
  <2>2. SubSeq(mask, 1, n) = mask
    BY <1>2, SubSeqFull
  <2>3. Number(SubSeq(mask, 1, n)) = NumberFrom(mask, n, 1)
    BY <1>1, <1>2, <1>7, NumberOfSlice
  <2>4. QED  BY <2>1, <2>2, <2>3
<1>9. Number(sent) = Number(mask) /\ sent \in Seq(Byte)
  <2>1. /\ SliceOf(mask, n, p[1], p[2]) /\ 1 <= p[1]
        /\ \A k \in 1 .. p[1] - 1 : mask[k] = {}
    <3>1. 1 \in 1 .. n + 1
      BY <1>2
    <3>2. QED  BY <1>1, <1>2, <3>1, SliceIsSlice
  <2> HIDE DEF p
  <2>2. p[1] \in 1 .. n + 1 /\ p[2] \in 0 .. n
    BY <2>1 DEF SliceOf
  <2>3. Number(sent) = NumberFrom(mask, n, p[1])
    BY <1>1, <1>2, <2>1, NumberOfSlice
  <2>4. NumberFrom(mask, n, p[1]) = NumberFrom(mask, n, 1)
    <3>1. \A k \in 1 .. n : k \in p[1] .. n \/ k \in 1 .. p[1] - 1
      BY <1>2, <2>2
    <3>2. \A k \in p[1] .. n : k \in 1 .. n
      BY <1>2, <2>2
    <3>3. QED  BY <2>1, <3>1, <3>2 DEF NumberFrom
  <2>5. Number(mask) = NumberFrom(mask, n, 1)
    BY <1>8 DEF Kept
  <2>6. sent \in Seq(Byte)
    <3>1. \A k \in p[1] .. p[2] : mask[k] \in Byte
      <4>1. \A k \in p[1] .. p[2] : k \in 1 .. n
        BY <1>2, <2>2
      <4>2. QED  BY <1>2, <4>1 DEF Byte
    <3>2. p[1] \in Int /\ p[2] \in Int
      BY <2>2
    <3>3. QED  BY <3>1, <3>2, SubSeqProperties
  <2>7. QED  BY <2>3, <2>4, <2>5, <2>6
<1> HIDE DEF match, cut, c, sent
<1>10. ASSUME NEW k \in 1 .. L, NEW j \in b[k], Pos(L, k, j) \in Kept(match)
       PROVE  k + off \in 1 .. n /\ j \in mask[k + off]
  <2>1. PICK l \in 1 .. n : \E m \in mask[l] : Pos(L, k, j) = Pos(n, l, m)
    BY <1>8, <1>10 DEF NumberFrom
  <2>2. PICK m \in mask[l] : Pos(L, k, j) = Pos(n, l, m)
    BY <2>1
  <2>3. j \in 1 .. W /\ m \in 1 .. W
    BY <1>2, <1>5, <2>1, <2>2
  <2>4. L - k = n - l /\ j = m
    <3>1. L \in Int /\ n \in Int /\ k \in Int /\ l \in Int
      BY <1>2
    <3> HIDE DEF off
    <3>2. QED  BY ONLY <2>2, <2>3, <3>1, PosUnique
  <2>5. l = k + off
    BY <1>2, <2>4
  <2>6. QED  BY <2>1, <2>2, <2>4, <2>5
<1>11. \A k \in 1 .. cut - 1 : \A j \in b[k] : Pos(L, k, j) \notin Kept(match)
  <2>1. SUFFICES ASSUME NEW k \in 1 .. cut - 1, NEW j \in b[k], Pos(L, k, j) \in Kept(match)
                 PROVE  FALSE
    OBVIOUS
  <2>2. k \in 1 .. L /\ k <= L - n
    BY <1>2, <1>4
  <2>3. k + off \in 1 .. n
    BY <1>10, <2>1, <2>2
  <2>4. QED  BY <1>2, <2>2, <2>3
<1>12. \A k \in cut .. L : c[k] \subseteq mask[k + off] /\ k + off \in 1 .. n
  BY <1>2, <1>4, <1>6
<1>13. \A k \in 1 .. L : c[k] \subseteq b[k]
  BY <1>4, <1>6
<1>14. c \in Bytes(L)
  <2>1. \A k \in 1 .. L : c[k] \in SUBSET (1 .. W)
    BY <1>5, <1>13
  <2>2. QED  BY <1>6, <2>1 DEF Bytes, Byte
<1>15. Spares(match, b, c)
  <2>1. ASSUME NEW k \in 1 .. L, NEW j \in b[k], Pos(L, k, j) \in Kept(match)
        PROVE  j \in c[k]
    BY <1>6, <1>10, <2>1
  <2>2. QED  BY <1>13, <2>1 DEF Spares
<1>16. NumberFrom(c, L, cut) \subseteq Kept(match)
  <2>1. SUFFICES ASSUME NEW x \in Int, NEW k \in cut .. L, NEW j \in c[k], x = Pos(L, k, j)
                 PROVE  x \in NumberFrom(mask, n, 1)
    BY <1>8 DEF NumberFrom
  <2>2. j \in mask[k + off] /\ k + off \in 1 .. n
    BY <1>12
  <2>3. x = Pos(n, k + off, j)
    <3>1. L - k = n - (k + off)
      BY <1>2, <1>4
    <3>2. QED  BY <2>1, <3>1 DEF Pos
  <2>4. QED  BY <2>1, <2>2, <2>3 DEF NumberFrom
<1>17. Width(match) = L - cut + 1
  BY <1>2, <1>3, <1>4 DEF Width
<1>18. \A k \in 1 .. cut - 1 : \A j \in c[k] : Pos(L, k, j) \notin Kept(match)
  <2>1. \A k \in 1 .. cut - 1 : k \in 1 .. L
    BY <1>4
  <2>2. QED  BY <1>11, <1>13, <2>1
<1>19. New([match |-> match, slice |-> Slice(c, cut), mask |-> sent], b, c)
  BY <1>3, <1>4, <1>9, <1>14, <1>15, <1>16, <1>17, <1>18, NewEntry
<1>20. QED  BY <1>19 DEF GetTernary, Built, New, match, c, cut, sent

-----------------------------------------------------------------------------
(* The invariant and its theorems                                           *)

Types ==
  /\ canonical \in BOOLEAN /\ original \in Bytes(L) /\ buffer \in Bytes(L)
  /\ entries \in Seq(Entry) /\ Len(entries) <= MaxEntries

AllFit == \A i \in 1 .. Len(entries) : Fits(entries[i], buffer)

\* The buffer has bits of the original only, and all those every match cares for.
Kin ==
  \A k \in 1 .. L :
    /\ buffer[k] \subseteq original[k]
    /\ \A j \in original[k] :
         (\A i \in 1 .. Len(entries) : Pos(L, k, j) \in Kept(entries[i].match))
           => j \in buffer[k]

IInv == Types /\ AllFit /\ Kin

\* Every step that is not a stutter adds a new entry, of one of the three matches.
LEMMA StepIsNew ==
  ASSUME Types, Next
  PROVE  /\ \E e \in Entry : entries' = Append(entries, e) /\ New(e, buffer, buffer')
         /\ Len(entries) < MaxEntries /\ UNCHANGED <<canonical, original>>
<1>1. canonical \in BOOLEAN /\ buffer \in Bytes(L)
  BY DEF Types
<1>2. CASE GetWhole
  BY <1>1, <1>2, WholeIsNew DEF Next
<1>3. CASE \E plen \in 0 .. L * W : GetLpm(plen)
  BY <1>1, <1>3, LpmIsNew DEF Next
<1>4. CASE \E mask \in Masks : GetTernary(mask)
  BY <1>1, <1>4, TernaryIsNew DEF Next
<1>5. QED  BY <1>2, <1>3, <1>4 DEF Next

\* What appending an entry does to the sequence.
LEMMA Appended ==
  ASSUME entries \in Seq(Entry), NEW e \in Entry, entries' = Append(entries, e)
  PROVE  /\ entries' \in Seq(Entry) /\ Len(entries') = Len(entries) + 1
         /\ Len(entries) \in Nat
         /\ entries'[Len(entries) + 1] = e
         /\ \A i \in 1 .. Len(entries) : entries'[i] = entries[i] /\ entries[i] \in Entry
  OBVIOUS

\* The invariant holds at first.
LEMMA InitInv == Init => IInv
<1> SUFFICES ASSUME Init PROVE IInv
  OBVIOUS
<1>1. Len(entries) = 0 /\ entries \in Seq(Entry)
  BY DEF Init
<1>2. Types
  BY <1>1 DEF Init, Types
<1>3. AllFit
  BY <1>1 DEF AllFit
<1>4. Kin
  BY <1>1 DEF Init, Kin
<1>5. QED  BY <1>2, <1>3, <1>4 DEF IInv

\* Every step preserves it.
LEMMA StepInv == IInv /\ [Next]_vars => IInv'
<1> SUFFICES ASSUME IInv, [Next]_vars PROVE IInv'
  OBVIOUS
<1>1. CASE UNCHANGED vars
  BY <1>1 DEF vars, IInv, Types, AllFit, Kin
<1>2. CASE Next
  <2>1. Types /\ AllFit /\ Kin
    BY DEF IInv
  <2>2. /\ \E e \in Entry : entries' = Append(entries, e) /\ New(e, buffer, buffer')
        /\ Len(entries) < MaxEntries /\ UNCHANGED <<canonical, original>>
    BY <1>2, <2>1, StepIsNew
  <2>3. PICK e \in Entry : entries' = Append(entries, e) /\ New(e, buffer, buffer')
    BY <2>2
  <2>4. /\ entries' \in Seq(Entry) /\ Len(entries') = Len(entries) + 1
        /\ Len(entries) \in Nat
        /\ entries'[Len(entries) + 1] = e
        /\ \A i \in 1 .. Len(entries) : entries'[i] = entries[i] /\ entries[i] \in Entry
    BY <2>1, <2>3, Appended DEF Types
  <2>5. buffer' \in Bytes(L) /\ Fits(e, buffer') /\ Spares(e.match, buffer, buffer')
    BY <2>3 DEF New
  <2>6. Types'
    BY <2>1, <2>2, <2>4, <2>5 DEF Types
  <2>7. AllFit'
    <3>1. SUFFICES ASSUME NEW i \in 1 .. Len(entries) + 1
                   PROVE  Fits(entries'[i], buffer')
      BY <2>4 DEF AllFit, Fits, SliceOf, NumberFrom, Kept
    <3>2. CASE i = Len(entries) + 1
      BY <2>4, <2>5, <3>2
    <3>3. CASE i \in 1 .. Len(entries)
      <4>1. Fits(entries[i], buffer) /\ entries[i] \in Entry
        BY <2>1, <2>4, <3>3 DEF AllFit
      <4>2. \A k \in 1 .. L : buffer'[k] \subseteq buffer[k]
        BY <2>5 DEF Spares
      <4>3. buffer \in Bytes(L)
        BY <2>1 DEF Types
      <4>4. Fits(entries[i], buffer')
        BY <2>5, <4>1, <4>2, <4>3, FitsNarrower
      <4>5. QED  BY <2>4, <3>3, <4>4
    <3>4. QED  BY <2>4, <3>2, <3>3
  <2>8. Kin'
    <3>1. SUFFICES ASSUME NEW k \in 1 .. L
                   PROVE  /\ buffer'[k] \subseteq original[k]
                          /\ \A j \in original[k] :
                               (\A i \in 1 .. Len(entries') :
                                  Pos(L, k, j) \in Kept(entries'[i].match))
                                 => j \in buffer'[k]
      BY <2>2 DEF Kin, Kept, Pos
    <3>2. buffer'[k] \subseteq original[k]
      BY <2>1, <2>5 DEF Kin, Spares
    <3>3. ASSUME NEW j \in original[k],
                 \A i \in 1 .. Len(entries') : Pos(L, k, j) \in Kept(entries'[i].match)
          PROVE  j \in buffer'[k]
      <4>1. \A i \in 1 .. Len(entries) :
              i \in 1 .. Len(entries') /\ Pos(L, k, j) \in Kept(entries[i].match)
        BY <2>4, <3>3
      <4>2. j \in buffer[k]
        BY <2>1, <4>1 DEF Kin
      <4>3. Pos(L, k, j) \in Kept(e.match)
        BY <2>4, <3>3
      <4>4. QED  BY <2>5, <4>2, <4>3 DEF Spares
    <3>4. QED  BY <3>2, <3>3
  <2>9. QED  BY <2>6, <2>7, <2>8 DEF IInv
<1>3. QED  BY <1>1, <1>2

\* The invariant holds always.
THEOREM EntriesFit == Spec => []IInv
<1>1. QED  BY InitInv, StepInv, PTL DEF Spec

\* In terms of the invariant, what is sent of an entry is a number.
LEMMA WireNumber ==
  ASSUME IInv, NEW i \in 1 .. Len(entries)
  PROVE  /\ Number(Wire(entries[i])) = NumberFrom(buffer, L, entries[i].slice[1])
         /\ Fits(entries[i], buffer) /\ entries[i] \in Entry
<1>1. buffer \in Bytes(L) /\ entries \in Seq(Entry) /\ Fits(entries[i], buffer)
  BY DEF IInv, Types, AllFit
<1>2. SliceOf(buffer, L, entries[i].slice[1], entries[i].slice[2])
  BY <1>1 DEF Fits
<1>3. QED  BY <1>1, <1>2, NumberOfSlice DEF Wire

\* Every entry has its type, whatever matches are built (get of each match type in
\* tables.go).
THEOREM TypeCorrect == Spec => []TypeOK
<1>1. IInv => TypeOK
  <2>1. SUFFICES ASSUME IInv PROVE TypeOK
    OBVIOUS
  <2>2. \A i \in 1 .. Len(entries) : entries[i] \in Entry
    BY <2>1 DEF IInv, Types
  <2>3. QED  BY <2>1, <2>2 DEF IInv, Types, TypeOK, Entry
<1>2. QED  BY <1>1, EntriesFit, PTL

\* The strict rule of the P4Runtime specification: no entry ever has a bit in its value
\* that its match does not care for, whatever is built from the same buffer later.
THEOREM DontCareZero == Spec => []DontCareBitsZero
<1>1. IInv => DontCareBitsZero
  <2>1. SUFFICES ASSUME IInv, NEW i \in 1 .. Len(entries)
                 PROVE  /\ Number(Wire(entries[i])) \subseteq Kept(entries[i].match)
                        /\ entries[i].match.kind = "ternary" =>
                             Number(entries[i].mask) = Number(entries[i].match.mask)
    BY DEF DontCareBitsZero
  <2>2. QED  BY <2>1, WireNumber DEF Fits
<1>2. QED  BY <1>1, EntriesFit, PTL

\* An entry keeps its meaning until another match on the same buffer keeps fewer bits.
THEOREM SharingNarrows == Spec => []SharingOnlyNarrows
<1>1. IInv => SharingOnlyNarrows
  <2>1. SUFFICES ASSUME IInv, NEW i \in 1 .. Len(entries),
                        \A m \in 1 .. Len(entries) :
                          Number(original) \cap Kept(entries[i].match)
                            \subseteq Kept(entries[m].match)
                 PROVE  Number(Wire(entries[i]))
                          = Number(original) \cap Kept(entries[i].match)
    BY DEF SharingOnlyNarrows
  <2> DEFINE e == entries[i]
             f == e.slice[1]
  <2>2. /\ Number(Wire(e)) = NumberFrom(buffer, L, f) /\ Fits(e, buffer)
        /\ f \in 1 .. L + 1
    BY <2>1, WireNumber DEF Entry
  <2>3. Number(original) = NumberFrom(original, L, 1)
    <3>1. original \in Bytes(L)
      BY <2>1 DEF IInv, Types
    <3>2. original \in Seq(Byte) /\ Len(original) = L
      BY <3>1, BytesAreSeq
    <3>3. SubSeq(original, 1, L) = original
      BY <3>2, SubSeqFull
    <3>4. SliceOf(original, L, 1, L)
      BY DEF SliceOf
    <3>5. Number(SubSeq(original, 1, L)) = NumberFrom(original, L, 1)
      BY <3>1, <3>4, NumberOfSlice
    <3>6. QED  BY <3>3, <3>5
  <2>4. Kin
    BY <2>1 DEF IInv
  <2>5. NumberFrom(buffer, L, f) \subseteq NumberFrom(original, L, 1) \cap Kept(e.match)
    <3>1. \A k \in f .. L : k \in 1 .. L /\ buffer[k] \subseteq original[k]
      BY <2>2, <2>4 DEF Kin
    <3>2. NumberFrom(buffer, L, f) \subseteq NumberFrom(original, L, 1)
      BY <3>1 DEF NumberFrom
    <3>3. QED  BY <2>2, <3>2 DEF Fits
  <2>6. ASSUME NEW x \in NumberFrom(original, L, 1), x \in Kept(e.match)
        PROVE  x \in NumberFrom(buffer, L, f)
    <3>1. PICK k \in 1 .. L : \E j \in original[k] : x = Pos(L, k, j)
      BY DEF NumberFrom
    <3>2. PICK j \in original[k] : x = Pos(L, k, j)
      BY <3>1
    <3>3. \A m \in 1 .. Len(entries) : Pos(L, k, j) \in Kept(entries[m].match)
      BY <2>1, <2>3, <2>6, <3>2
    <3>4. j \in buffer[k]
      BY <2>4, <3>2, <3>3 DEF Kin
    <3>5. k \in f .. L
      <4>1. k \notin 1 .. f - 1
        BY <2>2, <2>6, <3>2, <3>4 DEF Fits
      <4>2. QED  BY <2>2, <4>1
    <3>6. x \in Int
      BY DEF NumberFrom
    <3>7. QED  BY <3>2, <3>4, <3>5, <3>6 DEF NumberFrom
  <2>7. QED  BY <2>2, <2>3, <2>5, <2>6
<1>2. QED  BY <1>1, EntriesFit, PTL

\* A value is sent as wide as asked for: in its shortest form with CanonicalBytestrings
\* (ToCanonicalBytestring), else as it came.
THEOREM WidthCorrect == Spec => []WidthAsAsked
<1>1. Init => WidthAsAsked
  BY DEF Init, WidthAsAsked
<1>2. IInv /\ WidthAsAsked /\ [Next]_vars => WidthAsAsked'
  <2>1. SUFFICES ASSUME IInv, WidthAsAsked, [Next]_vars PROVE WidthAsAsked'
    OBVIOUS
  <2>2. CASE UNCHANGED vars
    BY <2>1, <2>2 DEF vars, WidthAsAsked, Wire
  <2>3. CASE Next
    <3>1. Types
      BY <2>1 DEF IInv
    <3>2. PICK e \in Entry : entries' = Append(entries, e) /\ New(e, buffer, buffer')
      BY <2>3, <3>1, StepIsNew
    <3>3. canonical' = canonical
      BY <2>3, <3>1, StepIsNew
    <3>4. Len(entries') = Len(entries) + 1 /\ entries'[Len(entries) + 1] = e
      BY <3>1, <3>2, Appended DEF Types
    <3>5. entries'[Len(entries')] = e
      BY <3>4
    <3>6. Asked(e, buffer')
      BY <3>2 DEF New
    <3>7. QED  BY <3>3, <3>5, <3>6 DEF Asked, Width, WidthAsAsked, Wire
  <2>4. QED  BY <2>1, <2>2, <2>3
<1>3. QED  BY <1>1, <1>2, EntriesFit, PTL DEF Spec
=============================================================================

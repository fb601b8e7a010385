---------------------------- MODULE MatchEncoding ----------------------------
(***************************************************************************)
(* How NewTableEntry turns the matches of a caller into the bytes of a     *)
(* table entry (pkg/client/tables.go, pkg/util/conversion): ExactMatch,    *)
(* OptionalMatch, LpmMatch and TernaryMatch, with ToCanonicalBytestring.   *)
(*                                                                         *)
(* get neither copies the Value of a match nor gives it back unchanged: it *)
(* masks it in place, and the entry it returns holds a slice of it.  Here  *)
(* one caller builds several entries from one buffer, as one does who      *)
(* keeps an address and installs an exact entry, a prefix, ... for it.     *)
(*                                                                         *)
(* A byte is the set of its one bits, numbered from 1 for the most         *)
(* significant, so that & is intersection; a slice of the buffer is the    *)
(* pair of its first and its last index.                                   *)
(***************************************************************************)
EXTENDS Integers, Sequences, FiniteSetsExt

CONSTANTS
  W,          \* bits in a byte (8 in the code)
  L,          \* bytes in the buffer
  MaxMask,    \* bound on the bytes of a ternary mask
  MaxEntries  \* bound on the entries built from the buffer

ASSUME WidthAssumption == W \in Nat \ {0} /\ L \in Nat /\ MaxMask \in Nat /\ MaxEntries \in Nat

Byte == SUBSET (1 .. W)
Bytes(n) == [1 .. n -> Byte]

VARIABLES
  canonical,  \* c.CanonicalBytestrings
  original,   \* what the caller wrote into the buffer
  buffer,     \* what it holds now
  entries     \* the entries built so far, in order

vars == <<canonical, original, buffer, entries>>

Masks   == UNION {Bytes(n) : n \in 0 .. MaxMask}
Matches == [kind : {"whole"}] \cup [kind : {"lpm"}, plen : 0 .. L * W]
           \cup [kind : {"ternary"}, mask : Masks]

Init ==
  /\ canonical \in BOOLEAN
  /\ original \in Bytes(L) /\ buffer = original
  /\ entries = <<>>

-----------------------------------------------------------------------------
\* Mutant of CanonicalSlice: a zero loses its last byte too.
CanonicalSliceEmpty(s, first) ==
  LET ones == {k \in first .. Len(s) : s[k] # {}}
  IN IF ones = {} THEN <<first, first - 1>> ELSE <<Min(ones), Len(s)>>

\* The slice of s that ToCanonicalBytestring makes of its slice from first on: no
\* leading zero byte, but for the one of a zero; an empty slice stays empty.
CanonicalSlice(s, first) ==
  LET ones == {k \in first .. Len(s) : s[k] # {}}
  IN IF first > Len(s) THEN <<first, Len(s)>>
     ELSE IF ones = {} THEN <<first, first>> ELSE <<Min(ones), Len(s)>>

\* ToCanonicalIf
Slice(s, first) == IF canonical THEN CanonicalSlice(s, first) ELSE <<first, Len(s)>>

\* append(entry.Match, mf.get(...)): mask is what the entry says of a ternary mask.
Built(match, slice, mask) ==
  entries' = Append(entries, [match |-> match, slice |-> slice, mask |-> mask])

\* ExactMatch.get, OptionalMatch.get and, for each of its ends, RangeMatch.get
GetWhole ==
  /\ Built([kind |-> "whole"], Slice(buffer, 1), <<>>)
  /\ UNCHANGED buffer

\* Mutant of LpmMasked: the bytes after the one the prefix ends in are left alone.
LpmMaskedOneByte(plen) ==
  LET i == plen \div W
      r == plen % W
  IN [k \in 1 .. L |-> IF k = i + 1 THEN buffer[k] \cap (1 .. r) ELSE buffer[k]]

\* The bytes after the prefix are zeroed; of the byte at its end the r first bits stay.
\* A prefix as long as the value leaves it alone.
LpmMasked(plen) ==
  LET i == plen \div W
      r == plen % W
  IN [k \in 1 .. L |-> CASE k <= i    -> buffer[k]
                         [] k = i + 1 -> buffer[k] \cap (1 .. r)
                         [] k > i + 1 -> {}]

GetLpm(plen) ==
  /\ buffer' = LpmMasked(plen)
  /\ Built([kind |-> "lpm", plen |-> plen], Slice(buffer', 1), <<>>)

\* A value longer than its mask is cut at its front, a longer mask is not; the two are
\* aligned at their ends.
CutTo(mask) == IF Len(mask) < L THEN L - Len(mask) + 1 ELSE 1

\* Mutant of TernaryMasked: a longer mask is aligned with the value at its front.
TernaryMaskedFront(mask) ==
  LET offset == IF Len(mask) < L THEN Len(mask) - L ELSE 0
  IN [k \in 1 .. L |-> IF k < CutTo(mask) THEN buffer[k] ELSE buffer[k] \cap mask[k + offset]]

TernaryMasked(mask) ==
  LET offset == Len(mask) - L
  IN [k \in 1 .. L |-> IF k < CutTo(mask) THEN buffer[k] ELSE buffer[k] \cap mask[k + offset]]

GetTernary(mask) ==
  /\ buffer' = TernaryMasked(mask)
  /\ LET kept == Slice(mask, 1)
     IN Built([kind |-> "ternary", mask |-> mask], Slice(buffer', CutTo(mask)),
              SubSeq(mask, kept[1], kept[2]))

Next ==
  /\ Len(entries) < MaxEntries
  /\ \/ GetWhole
     \/ \E plen \in 0 .. L * W : GetLpm(plen)
     \/ \E mask \in Masks : GetTernary(mask)
  /\ UNCHANGED <<canonical, original>>

Spec == Init /\ [][Next]_vars

-----------------------------------------------------------------------------
TypeOK ==
  /\ canonical \in BOOLEAN /\ original \in Bytes(L) /\ buffer \in Bytes(L)
  /\ Len(entries) <= MaxEntries
  /\ \A i \in 1 .. Len(entries) :
       /\ entries[i].match \in Matches
       /\ entries[i].slice[1] \in 1 .. L + 1 /\ entries[i].slice[2] \in 0 .. L

\* The number a byte string stands for, as the set of the exponents of its one bits.
Number(s) ==
  UNION {{(Len(s) - k) * W + (W - j) : j \in s[k]} : k \in 1 .. Len(s)}

\* The exponents a match cares for.
Kept(match) ==
  CASE match.kind = "whole"   -> 0 .. L * W - 1
    [] match.kind = "lpm"     -> L * W - match.plen .. L * W - 1
    [] match.kind = "ternary" -> Number(match.mask)

\* What WriteUpdate would send of an entry now.
Wire(e) == SubSeq(buffer, e.slice[1], e.slice[2])

\* The strict rule of P4Runtime the code quotes: the bits a match does not care for
\* are zero in its value, the mask that goes with the value being the one sent.  It
\* holds of every entry at any time, whatever else the buffer is used for.
DontCareBitsZero ==
  \A i \in 1 .. Len(entries) :
    LET e == entries[i] IN
    /\ Number(Wire(e)) \subseteq Kept(e.match)
    /\ e.match.kind = "ternary" => Number(e.mask) = Number(e.match.mask)

\* An entry says what its match meant, until another match on the same buffer keeps
\* fewer bits: sharing a value is harmless between matches that keep the same bits,
\* so building an entry twice is.
SharingOnlyNarrows ==
  \A i \in 1 .. Len(entries) :
    LET meant == Number(original) \cap Kept(entries[i].match)
    IN (\A j \in 1 .. Len(entries) : meant \subseteq Kept(entries[j].match))
         => Number(Wire(entries[i])) = meant

\* With CanonicalBytestrings the newest entry is sent in the one shortest form that is
\* not empty; without, the value keeps the width it came with, or that of its mask.
WidthAsAsked ==
  entries # <<>> =>
    LET e == entries[Len(entries)]
        v == Wire(e)
        width == IF e.match.kind = "ternary" /\ Len(e.match.mask) < L
                   THEN Len(e.match.mask) ELSE L
    IN IF canonical
         THEN (width > 0 => v # <<>>) /\ (Len(v) > 1 => v[1] # {})
         ELSE Len(v) = width
=============================================================================

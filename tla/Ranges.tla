------------------------------- MODULE Ranges -------------------------------
(***************************************************************************)
(* Sets of code points as sorted, merged, inclusive ranges: the algebra of *)
(* ts/src/converter.ts that decides whether two character classes meet.    *)
(***************************************************************************)
EXTENDS Terminals

Span(lo, hi) == [lo |-> lo, hi |-> hi]
Null == <<Span(NoChar, NoChar)>>    \* not a pattern this package emitted

\* Not in the code: the later of two ranges that meet ends what they become.
MAbsorbLast(out, r) ==
  IF out # << >> /\ r.lo <= Last(out).hi + 1
    THEN [out EXCEPT ![Len(out)].hi = r.hi]
    ELSE Append(out, r)

\* Ranges that overlap or adjoin become one.
Absorb(out, r) ==
  IF out # << >> /\ r.lo <= Last(out).hi + 1
    THEN [out EXCEPT ![Len(out)].hi = IF r.hi > @ THEN r.hi ELSE @]
    ELSE Append(out, r)

\* Sorted by where they start, those that start together as they came.
Place(out, r) ==
  LET before == CHOOSE k \in 0 .. Len(out) : \A i \in DOMAIN out : i <= k <=> out[i].lo <= r.lo
  IN InsertAt(out, before + 1, r)
ByStart(rs) ==
  LET upTo[k \in 0 .. Len(rs)] == IF k = 0 THEN << >> ELSE Place(upTo[k - 1], rs[k])
  IN upTo[Len(rs)]
normalizeRanges(rs) ==
  LET sorted == ByStart(rs)
      upTo[k \in 0 .. Len(sorted)] == IF k = 0 THEN << >> ELSE Absorb(upTo[k - 1], sorted[k])
  IN upTo[Len(sorted)]

\* The gaps before the ranges, and the one after the last.
After(rs, k) == IF k = 0 THEN 0 ELSE rs[k].hi + 1
Gap(lo, hi) == IF lo <= hi THEN <<Span(lo, hi)>> ELSE << >>
complementRanges(rs) ==
  LET upTo[k \in 0 .. Len(rs)] ==
        IF k = 0 THEN << >> ELSE upTo[k - 1] \o Gap(After(rs, k - 1), rs[k].lo - 1)
  IN upTo[Len(rs)] \o Gap(After(rs, Len(rs)), MAX_CP)

\* Not in the code: ranges that share only an end are passed over.
MrangesIntersectOpen(a, b) ==
  LET meet[at \in (1 .. Len(a) + 1) \X (1 .. Len(b) + 1)] ==
        LET i == at[1]  j == at[2] IN
        /\ i <= Len(a) /\ j <= Len(b)
        /\ IF a[i].hi <= b[j].lo THEN meet[<<i + 1, j>>]
           ELSE IF b[j].hi <= a[i].lo THEN meet[<<i, j + 1>>]
           ELSE TRUE
  IN meet[<<1, 1>>]

rangesIntersect(a, b) ==
  LET meet[at \in (1 .. Len(a) + 1) \X (1 .. Len(b) + 1)] ==
        LET i == at[1]  j == at[2] IN
        /\ i <= Len(a) /\ j <= Len(b)
        /\ IF a[i].hi < b[j].lo THEN meet[<<i + 1, j>>]
           ELSE IF b[j].hi < a[i].lo THEN meet[<<i, j + 1>>]
           ELSE TRUE
  IN meet[<<1, 1>>]

\* Stops at the first range that begins after the code point.
rangesContain(rs, cp) ==
  LET from[k \in 1 .. Len(rs) + 1] ==
        k <= Len(rs) /\ rs[k].lo <= cp /\ (cp <= rs[k].hi \/ from[k + 1])
  IN from[1]

-----------------------------------------------------------------------------
(* emittedClassRanges                                                      *)

readEscape(p, i) ==
  Char(IF p[i].e \in {"u", "brace"} /\ p[i].c # NoDigits THEN p[i].c ELSE NoChar, i + 1)

RangesOf(negated, ms) ==
  IF \E k \in DOMAIN ms : NoChar \in {ms[k].lo, ms[k].hi} THEN Null
  ELSE LET merged == normalizeRanges([k \in DOMAIN ms |-> Span(ms[k].lo, ms[k].hi)])
       IN IF negated THEN complementRanges(merged) ELSE merged

emittedClassRanges(p) ==
  IF p = AnyChar THEN <<Span(0, MAX_CP)>>
  ELSE IF ~IsBracketed(p) THEN Null
  ELSE RangesOf(Negated(Inside(p)), MembersOf(Inside(p), readEscape))
=============================================================================

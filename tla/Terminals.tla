----------------------------- MODULE Terminals -----------------------------
(***************************************************************************)
(* What the characters of a terminal stand for: the decoders of            *)
(* ts/src/converter.ts (readChar, decodeString, decodeCharClass).          *)
(*                                                                         *)
(* A text is a sequence of symbols: a raw UTF-16 unit, as JavaScript's     *)
(* strings hold them, or one escape with the code point its digits say.    *)
(* NoDigits is a hexadecimal escape without the digits it needs. The       *)
(* delimiters of a terminal are left out.                                  *)
(***************************************************************************)
EXTENDS Integers, SequencesExt

MAX_CP == 1114111
LastBmp == 65535
NoDigits == -1
NoChar == -2    \* readChar throws

Raw(unit) == [e |-> "raw", c |-> unit]
Esc(mark, c) == [e |-> mark, c |-> c]    \* of "simple", c is the letter

Dash == 45
Caret == 94
Backslash == 92
Quote == 34
Open == 91
Close == 93

-----------------------------------------------------------------------------
(* UTF-16.                                                                 *)

High == 55296 .. 56319
Low == 56320 .. 57343
Surrogates == High \cup Low

\* String.fromCodePoint
UnitsOf(cp) ==
  IF cp > LastBmp
    THEN <<55296 + (cp - 65536) \div 1024, 56320 + ((cp - 65536) % 1024)>> ELSE <<cp>>

IsRaw(s, i, units) == i \in DOMAIN s /\ s[i].e = "raw" /\ s[i].c \in units

\* codePointAt
CodeAt(s, i) ==
  IF IsRaw(s, i, High) /\ IsRaw(s, i + 1, Low)
    THEN 65536 + (s[i].c - 55296) * 1024 + (s[i + 1].c - 56320) ELSE s[i].c

-----------------------------------------------------------------------------
(* readChar                                                                *)

\* By letter: \t \r \n and the characters that stand for themselves.
SIMPLE_ESCAPES ==
  [x \in {116, 114, 110, Backslash, Quote, Open, Close, Dash} |->
     CASE x = 116 -> 9 [] x = 114 -> 13 [] x = 110 -> 10 [] OTHER -> x]
HEX_ESCAPES == {"x", "u", "U"}

Char(cp, next) == [cp |-> cp, next |-> next]
RawChar(cp, i) == Char(cp, IF cp > LastBmp THEN i + 2 ELSE i + 1)

readChar(whole, i) ==
  LET s == whole[i] IN
  CASE s.e = "raw" -> RawChar(CodeAt(whole, i), i)
    [] s.e = "simple" /\ s.c \in DOMAIN SIMPLE_ESCAPES -> Char(SIMPLE_ESCAPES[s.c], i + 1)
    [] s.e \in HEX_ESCAPES /\ s.c \in 0 .. MAX_CP -> Char(s.c, i + 1)
    [] OTHER -> Char(NoChar, i + 1)

\* Every symbol is read, so one that cannot be makes the decoder throw.
Readable(body) == \A i \in DOMAIN body : readChar(body, i).cp # NoChar

\* The units of the string a literal's body denotes.
decodeString(body) ==
  LET from[i \in 1 .. Len(body) + 1] ==
        IF i > Len(body) THEN << >>
        ELSE LET c == readChar(body, i) IN UnitsOf(c.cp) \o from[c.next]
  IN from[1]

-----------------------------------------------------------------------------
(* decodeCharClass                                                         *)

Member(lo, hi, range) == [lo |-> lo, hi |-> hi, range |-> range]

\* A dash right before the end is a member.
OperatorAt(body, i) == IsRaw(body, i, {Dash}) /\ i < Len(body)

Taken(lo, hi, range, next) == [member |-> Member(lo, hi, range), next |-> next]
Ranged(lo, hi) == Taken(lo.cp, hi.cp, TRUE, hi.next)
TakeFrom(body, lo, Take(_, _)) ==
  IF OperatorAt(body, lo.next) THEN Ranged(lo, Take(body, lo.next + 1))
  ELSE Taken(lo.cp, lo.cp, FALSE, lo.next)

\* What a loop that takes its characters with Take reads from start on: single
\* members and ranges, in order.
Members(body, start, Take(_, _)) ==
  LET from[i \in 1 .. Len(body) + 1] ==
        IF i > Len(body) THEN << >>
        ELSE LET t == TakeFrom(body, Take(body, i), Take) IN <<t.member>> \o from[t.next]
  IN from[start]

Negated(body) == IsRaw(body, 1, {Caret})
MembersOf(body, Take(_, _)) == Members(body, IF Negated(body) THEN 2 ELSE 1, Take)

\* A class of nothing, or with a range that descends.
Hollow(ms) == ms = << >> \/ \E k \in DOMAIN ms : ms[k].hi < ms[k].lo
ClassFault(body) == ~Readable(body) \/ Hollow(MembersOf(body, readChar))

\* The text of a class without its brackets; "brace" is \u{...}.
Spelled(negated, ms, Spell(_)) ==
  LET part(m) == IF m.range THEN <<Spell(m.lo), Raw(Dash), Spell(m.hi)>> ELSE <<Spell(m.lo)>>
  IN (IF negated THEN <<Raw(Caret)>> ELSE << >>)
       \o FlattenSeq([k \in DOMAIN ms |-> part(ms[k])])
Bracketed(body) == <<Raw(Open)>> \o body \o <<Raw(Close)>>
IsBracketed(p) == Len(p) > 1 /\ IsRaw(p, 1, {Open}) /\ IsRaw(p, Len(p), {Close})
Inside(p) == SubSeq(p, 2, Len(p) - 1)

\* What `.` is lowered to: [\s\S].
AnyChar == Bracketed(<<Esc("simple", 115), Esc("simple", 83)>>)

classEscape(cp) == Esc(IF cp > LastBmp THEN "brace" ELSE "u", cp)

Regex(pattern, flags) == [kind |-> "regex", pattern |-> pattern, flags |-> flags]
Emitted(negated, ms) ==
  LET astral == \E k \in DOMAIN ms : ms[k].hi > LastBmp
  IN Regex(Bracketed(Spelled(negated, ms, classEscape)), IF negated \/ astral THEN "u" ELSE "")
decodeCharClass(body) == Emitted(Negated(body), MembersOf(body, readChar))
=============================================================================

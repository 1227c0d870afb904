---------------------------- MODULE RenderProps ----------------------------
(***************************************************************************)
(* What ts/src/render.ts promises at its head: a grammar that came from    *)
(* GBNF comes back, and any other is refused or keeps its language.        *)
(***************************************************************************)
EXTENDS Render

CONSTANTS Alphabet, MaxLength    \* of the strings compared

-----------------------------------------------------------------------------
(* The language of an element, over code points and rule names.            *)

CharOf(cp) == [cp |-> cp]
RuleOf(n) == [rule |-> n]

\* A pattern as JavaScript reads it, with the flag u. Past ASCII it is written
\* in escapes, so that a symbol of it is one character.
NamesOne(s) ==
  CASE s.e = "raw" -> TRUE
    [] s.e = "simple" -> s.c \notin Alphanumeric \ DOMAIN PatternEscapes
    [] OTHER -> s.c # NoDigits
Value(s) ==
  IF s.e = "simple" /\ s.c \in DOMAIN PatternEscapes THEN PatternEscapes[s.c] ELSE s.c

\* What the class is of: the pairs of the ends of its ranges and members.
RangeAt(s, i) == i + 2 <= Len(s) /\ IsRaw(s, i + 1, {Dash})
Listing(p) == IF Negated(Inside(p)) THEN Tail(Inside(p)) ELSE Inside(p)
EndsOf(p) ==
  LET s == Listing(p)
      begins[i \in 1 .. Len(s)] ==
        \/ i = 1
        \/ i > 1 /\ begins[i - 1] /\ ~RangeAt(s, i - 1)
        \/ i > 3 /\ begins[i - 3] /\ RangeAt(s, i - 3)
      last(i) == IF RangeAt(s, i) THEN i + 2 ELSE i
  IN {<<Value(s[i]), Value(s[last(i)])>> : i \in {j \in DOMAIN s : begins[j]}}

MemberSet(p) == {c \in Alphabet : \E e \in EndsOf(p) : e[1] <= c /\ c <= e[2]}
ClassSet(el) ==
  IF el.pattern = AnyChar THEN Alphabet
  ELSE IF Negated(Inside(el.pattern)) THEN Alphabet \ MemberSet(el.pattern)
  ELSE MemberSet(el.pattern)

\* Languages, cut off at MaxLength.
UpTo(strings, n) == {s \in strings : Len(s) <= n}
Concat(A, B) ==
  LET fit == [n \in 0 .. MaxLength |-> UpTo(B, MaxLength - n)]
  IN UNION {{a \o b : b \in fit[Len(a)]} : a \in UpTo(A, MaxLength)}
Power(A, k) ==
  LET p[j \in 0 .. k] == IF j = 0 THEN {<< >>} ELSE Concat(p[j - 1], A) IN p[k]
Star(A) == UNION {Power(A, k) : k \in 0 .. MaxLength}

BothCases(cp) == {c \in Alphabet \cup {cp} : Fold(c) = Fold(cp)}
Spellings(el) ==
  LET cps == CodePoints(el.literal)
      strings[k \in 0 .. Len(cps)] ==
        IF k = 0 THEN {<< >>}
        ELSE Concat(strings[k - 1],
               {<<CharOf(c)>> : c \in IF el.caseSensitive THEN {cps[k]} ELSE BothCases(cps[k])})
  IN strings[Len(cps)]

RECURSIVE Language(_)
SeqLanguage(seq) ==
  LET l[k \in 0 .. Len(seq)] == IF k = 0 THEN {<< >>} ELSE Concat(l[k - 1], Language(seq[k]))
  IN l[Len(seq)]
AltsLanguage(alts) == UNION {SeqLanguage(s) : s \in Range(alts)}
Language(el) ==
  CASE el.kind = "term" -> Spellings(el)
    [] el.kind = "ref" -> {<<RuleOf(el.name)>>}
    [] el.kind = "regex" -> {<<CharOf(c)>> : c \in ClassSet(el)}
    [] el.kind = "group" -> AltsLanguage(el.alts)
    [] el.kind = "opt" -> {<< >>} \cup Language(el.inner)
    [] el.kind = "star" -> Star(Language(el.inner))
    [] el.kind = "plus" -> Concat(Language(el.inner), Star(Language(el.inner)))
    [] el.kind = "rep" ->
         IF el.max = Infinity THEN Concat(Power(Language(el.inner), el.min), Star(Language(el.inner)))
         ELSE UNION {Power(Language(el.inner), k) : k \in el.min .. el.max}

-----------------------------------------------------------------------------
(* What GBNF can say.                                                      *)

\* A high surrogate and a low one that are members side by side. Spelled
\* raw, they are one character to the reader (see ClassFixedPoint).
SideBySide(p) ==
  \E i \in 1 .. Len(p) - 1 : p[i].c \in High /\ p[i + 1].c \in Low /\ p[i].e # "raw"
JoinedPair == \E el \in Written(grammar) : el.kind = "regex" /\ SideBySide(el.pattern)

\* A class that lists characters, each by itself or by an escape that names
\* one, and ranges that do not descend.
Lists(p) ==
  /\ IsBracketed(p) /\ \A i \in DOMAIN Inside(p) : NamesOne(Inside(p)[i])
  /\ EndsOf(p) # {} /\ \A e \in EndsOf(p) : e[1] <= e[2]
\* The bracket that closes it is its last symbol.
ClosesEarly(p) == \E i \in DOMAIN Inside(p) : IsRaw(Inside(p), i, {Close})

Speakable(el) ==
  CASE el.kind = "term" -> el.caseSensitive \/ Range(CodePoints(el.literal)) \cap Cased = {}
    [] el.kind = "ref" -> el.name \in Legal
    [] el.kind = "regex" -> el.pattern = AnyChar \/ (Lists(el.pattern) /\ ~ClosesEarly(el.pattern))
    [] el.kind \in {"opt", "star", "plus", "rep"} ->
         ~(el.inner.kind = "term" /\ el.inner.literal = << >>)
    [] OTHER -> el.kind = "group"

\* [a][b] is no class, and GBNF cannot say it as one: but readClassPattern takes
\* brackets inside a pattern for members, and writes it as a class of four.
Misread(el) == el.kind = "regex" /\ Lists(el.pattern) /\ ClosesEarly(el.pattern)
SomeMisread == \E el \in Written(grammar) : Misread(el)

NamesOf(g) == {g[i].name : i \in DOMAIN g}
Named ==
  /\ grammar # << >>
  /\ NamesOf(grammar) \subseteq Legal /\ Cardinality(NamesOf(grammar)) = Len(grammar)
  /\ Root \in NamesOf(grammar) \/ First \in NamesOf(grammar)

\* A grammar is refused only where GBNF cannot say all of it, however deep the
\* part it cannot say stands, and rendered only where it can, or where what it
\* cannot say is misread. One that came from GBNF is always rendered, with
\* nothing misread, and what is rendered can be read again.
RefusedExactly ==
  /\ phase = "refused" =>
       source = << >> /\ ~(Named /\ \A el \in Written(grammar) : Speakable(el))
  /\ phase \in {"rendered", "back", "lost"} =>
       /\ Named /\ \A el \in Written(grammar) : Speakable(el) \/ Misread(el)
       /\ SomeMisread => source = << >>
  /\ phase = "lost" => JoinedPair

\* The rules come back under their names and in their order, after a root of
\* their own where they had none, and each has the language it had: no operator
\* binds less or more than before, and no literal or class has other characters.
LanguageKept ==
  phase = "back" /\ ~JoinedPair /\ ~SomeMisread =>
    /\ Len(again) = Synthesized + Len(grammar)
    /\ Synthesized = 1 => again[1] = Production(Root, <<<<Ref(First)>>>>)
    /\ \A i \in DOMAIN grammar :
         LET p == again[Synthesized + i] IN
           /\ p.name = grammar[i].name
           /\ AltsLanguage(p.alts) = AltsLanguage(grammar[i].alts)

-----------------------------------------------------------------------------
(* The fixed point.                                                        *)

\* A range of one character is written as a member.
Respelled(negated, ms) ==
  Bracketed(Spelled(negated, [k \in DOMAIN ms |-> Narrow(ms[k])], classEscape))
NarrowPattern(p) ==
  IF p = AnyChar THEN p ELSE Respelled(Negated(Inside(p)), MembersOf(Inside(p), readOne))

RECURSIVE Narrowed(_)
NarrowedAlts(alts) ==
  [i \in DOMAIN alts |-> [j \in DOMAIN alts[i] |-> Narrowed(alts[i][j])]]
Narrowed(el) ==
  CASE el.kind = "regex" -> [el EXCEPT !.pattern = NarrowPattern(@)]
    [] el.kind = "group" -> [el EXCEPT !.alts = NarrowedAlts(@)]
    [] el.kind \in {"opt", "star", "plus", "rep"} -> [el EXCEPT !.inner = Narrowed(@)]
    [] OTHER -> el

\* A grammar that came from GBNF comes back as it was: the same productions,
\* elements, literals and counts, and the same class patterns but for a range
\* of one character.
FixedPoint ==
  source # << >> /\ phase = "back" /\ ~JoinedPair =>
    again = [i \in DOMAIN grammar |-> [grammar[i] EXCEPT !.alts = NarrowedAlts(@)]]

\* render.ts, "Fixed point": `parseGbnf(renderGbnf(g))` reproduces `g` exactly,
\* the same class patterns included.
ClassFixedPoint == source # << >> /\ phase \in {"back", "lost"} => again = grammar
=============================================================================

------------------------------- MODULE Render -------------------------------
(***************************************************************************)
(* renderGbnf (ts/src/render.ts): a grammar written out as GBNF, and read  *)
(* back. The grammar has been read from GBNF itself, or comes from another *)
(* front end, which may build what GBNF cannot say.                        *)
(*                                                                         *)
(* The text is a sequence of tokens, as the lexer would cut it: a literal, *)
(* a class, a name, a run of postfix operators, a bracket or a bar. A      *)
(* token Refusal stands for the exception and leaves nothing after it.     *)
(***************************************************************************)
EXTENDS Terminals, FiniteSets

CONSTANTS
  Legal,      \* the names GBNF can spell
  Illegal,
  Root,
  NoStart,    \* no option
  Infinity,   \* above every count
  Cased,      \* code points outside ASCII that have two cases
  Cases       \* what is rendered

VARIABLES
  source,     \* GBNF, or << >>
  start,      \* the option
  grammar,    \* the productions
  phase,
  seen,       \* the names checked
  lines,      \* the productions written
  again       \* the productions read back

vars == <<source, start, grammar, phase, seen, lines, again>>

-----------------------------------------------------------------------------
(* Spelling a terminal.                                                    *)

Lower == 97 .. 122
Upper == 65 .. 90
Controls == 0 .. 31 \cup 127 .. 159
ShortEscapes == [c \in {9, 10, 13} |-> CASE c = 9 -> 116 [] c = 10 -> 110 [] c = 13 -> 114]

RawText(units) == [i \in DOMAIN units |-> Raw(units[i])]

literalChar(cp) ==
  CASE cp \in {Quote, Backslash} -> Esc("simple", cp)
    [] cp \in DOMAIN ShortEscapes -> Esc("simple", ShortEscapes[cp])
    [] cp \in Controls \ DOMAIN ShortEscapes -> Esc("x", cp)
    [] OTHER -> Raw(cp)

\* Not in the code: the caret is left as it is.
MClassCharCaret(cp) ==
  CASE cp \in {Close, Open, Backslash} -> Esc("simple", cp)
    [] cp = Dash -> Esc("u", cp)
    [] cp \in DOMAIN ShortEscapes -> Esc("simple", ShortEscapes[cp])
    [] cp \in Controls \ DOMAIN ShortEscapes -> Esc("x", cp)
    [] cp > LastBmp -> Esc("U", cp)
    [] OTHER -> Raw(cp)

classChar(cp) ==
  CASE cp \in {Close, Open, Backslash} -> Esc("simple", cp)
    [] cp \in {Dash, Caret} -> Esc("u", cp)
    [] cp \in DOMAIN ShortEscapes -> Esc("simple", ShortEscapes[cp])
    [] cp \in Controls \ DOMAIN ShortEscapes -> Esc("x", cp)
    [] cp > LastBmp -> Esc("U", cp)
    [] OTHER -> Raw(cp)

\* The code points `for (const c of text)` visits.
CodePoints(units) ==
  LET text == RawText(units)
      from[i \in 1 .. Len(text) + 1] ==
        IF i > Len(text) THEN << >>
        ELSE LET c == RawChar(CodeAt(text, i), i) IN <<c.cp>> \o from[c.next]
  IN from[1]

\* Raw astral characters are written as the units they are.
quoteLiteral(units) ==
  LET spelled(cp) == IF cp > LastBmp THEN RawText(UnitsOf(cp)) ELSE <<literalChar(cp)>>
      cps == CodePoints(units)
  IN FlattenSeq([i \in DOMAIN cps |-> spelled(cps[i])])

-----------------------------------------------------------------------------
(* Reading the pattern of a regex element.                                 *)

PatternEscapes ==
  [x \in {110, 114, 116, 102, 118, 48} |->
     CASE x = 110 -> 10 [] x = 114 -> 13 [] x = 116 -> 9
       [] x = 102 -> 12 [] x = 118 -> 11 [] x = 48 -> 0]
Alphanumeric == Lower \cup Upper \cup 48 .. 57

\* readOne
readOne(p, i) ==
  LET s == p[i] IN
  CASE s.e = "raw" -> RawChar(CodeAt(p, i), i)
    [] s.e \in {"u", "brace", "x"} /\ s.c # NoDigits -> Char(s.c, i + 1)
    [] s.e = "simple" /\ s.c \in DOMAIN PatternEscapes -> Char(PatternEscapes[s.c], i + 1)
    [] s.e = "simple" /\ s.c \notin Alphanumeric -> Char(s.c, i + 1)
    [] OTHER -> Char(NoChar, i + 1)

IsClass(p) ==
  /\ IsBracketed(p)
  /\ \A i \in DOMAIN Inside(p) : readOne(Inside(p), i).cp # NoChar
  /\ ~Hollow(MembersOf(Inside(p), readOne))

-----------------------------------------------------------------------------
(* The tokens, and a fragment: its text, and how it composes.              *)

Literal(body) == [t |-> "GS", body |-> body]
Class(body) == [t |-> "CC", body |-> body]
Name(n) == [t |-> "NM", name |-> n]
Post(ops) == [t |-> "POST", ops |-> ops]
LP == [t |-> "LP"]
RP == [t |-> "RP"]
Bar == [t |-> "ALT"]
Dot == [t |-> "DOT"]
Refusal == [t |-> "refusal"]
Throws(text) == Refusal \in Range(text)

Op(o) == [o |-> o]
Braces(min, max) == [o |-> "braces", min |-> min, max |-> max]

Fragment(text, form) == [text |-> text, form |-> form]
Atom(token) == Fragment(<<token>>, "atom")
Nothing == Fragment(<< >>, "none")

Narrow(m) == [m EXCEPT !.range = m.lo # m.hi]
ClassText(negated, ms) ==
  Atom(Class(Spelled(negated, [k \in DOMAIN ms |-> Narrow(ms[k])], classChar)))
renderClass(p) ==
  IF p = AnyChar THEN Atom(Dot)
  ELSE IF IsClass(p) THEN ClassText(Negated(Inside(p)), MembersOf(Inside(p), readOne))
  ELSE Atom(Refusal)

Fold(cp) == IF cp \in Upper THEN cp + 32 ELSE cp

\* Every letter is a class of its two cases, and what lies between is a literal.
InsensitiveAs(cps) ==
  LET flushed(chunk) == IF chunk = << >> THEN << >> ELSE <<Literal(quoteLiteral(chunk))>>
      after[i \in 0 .. Len(cps)] ==
        IF i = 0 THEN [parts |-> << >>, chunk |-> << >>]
        ELSE LET so == after[i - 1] IN
          IF Fold(cps[i]) \in Lower
            THEN [parts |-> so.parts \o flushed(so.chunk)
                              \o <<Class(<<Raw(Fold(cps[i])), Raw(Fold(cps[i]) - 32)>>)>>,
                  chunk |-> << >>]
          ELSE IF cps[i] \in Cased THEN [so EXCEPT !.parts = Append(@, Refusal)]
          ELSE [so EXCEPT !.chunk = @ \o UnitsOf(cps[i])]
  IN after[Len(cps)].parts \o flushed(after[Len(cps)].chunk)
insensitiveFragments(units) == InsensitiveAs(CodePoints(units))

OpOf(el) ==
  CASE el.kind = "opt" -> Op("?")
    [] el.kind = "star" -> Op("*")
    [] el.kind = "plus" -> Op("+")
    [] el.kind = "rep" -> Braces(el.min, el.max)

\* Not in the code: what takes an operator needs no parentheses.
MPostfixBare(inner, op) ==
  LET body == inner.text IN
    IF inner.form = "postfix"
      THEN Fragment([body EXCEPT ![Len(body)] = Post(Append(@.ops, op))], "postfix")
      ELSE Fragment(Append(body, Post(<<op>>)), "postfix")

\* A second operator joins the run of the first; a sequence needs parentheses.
Postfix(inner, op) ==
  LET body == IF inner.form = "seq" THEN <<LP>> \o inner.text \o <<RP>> ELSE inner.text
  IN IF inner.form = "postfix"
       THEN Fragment([body EXCEPT ![Len(body)] = Post(Append(@.ops, op))], "postfix")
       ELSE Fragment(Append(body, Post(<<op>>)), "postfix")

Repeated(inner, op) == IF inner = Nothing THEN Atom(Refusal) ELSE Postfix(inner, op)
Parts(texts) == Fragment(texts, IF Len(texts) = 1 THEN "atom" ELSE "seq")

RECURSIVE renderElement(_)

renderSeq(seq) == FlattenSeq([i \in DOMAIN seq |-> renderElement(seq[i]).text])
renderAlts(alts) ==
  FlattenSeq([i \in DOMAIN alts |->
    IF i = 1 THEN renderSeq(alts[i]) ELSE <<Bar>> \o renderSeq(alts[i])])

renderElement(el) ==
  CASE el.kind = "term" ->
         IF el.literal = << >> THEN Nothing
         ELSE IF el.caseSensitive THEN Atom(Literal(quoteLiteral(el.literal)))
         ELSE Parts(insensitiveFragments(el.literal))
    [] el.kind = "ref" -> Atom(IF el.name \in Legal THEN Name(el.name) ELSE Refusal)
    [] el.kind = "regex" -> renderClass(el.pattern)
    [] el.kind = "group" -> Fragment(<<LP>> \o renderAlts(el.alts) \o <<RP>>, "atom")
    [] el.kind \in {"opt", "star", "plus", "rep"} ->
         Repeated(renderElement(el.inner), OpOf(el))
    [] OTHER -> Atom(Refusal)    \* token, prose, and any other kind

-----------------------------------------------------------------------------
(* Reading a text: the rule table of ts/src/converter.ts, by descent.      *)

Term(literal, cs) == [kind |-> "term", literal |-> literal, caseSensitive |-> cs]
Ref(n) == [kind |-> "ref", name |-> n]
Group(alts) == [kind |-> "group", alts |-> alts]
Bad == [kind |-> "bad"]          \* a decoder or repeat throws
Missing == [kind |-> "missing"]  \* the node of an empty literal

Rep(min, max, inner) == [kind |-> "rep", min |-> min, max |-> max, inner |-> inner]
Wrap(kind, inner) == [kind |-> kind, inner |-> inner]

repeat(inner, min, max) ==
  CASE min = 1 /\ max = 1 -> inner
    [] min = 0 /\ max = Infinity -> Wrap("star", inner)
    [] min = 1 /\ max = Infinity -> Wrap("plus", inner)
    [] min = 0 /\ max = 1 -> Wrap("opt", inner)
    [] OTHER -> Rep(min, max, inner)

applyPostfix(item, ops) ==
  FoldLeft(LAMBDA el, op :
    CASE op.o = "*" -> Wrap("star", el)
      [] op.o = "+" -> Wrap("plus", el)
      [] op.o = "?" -> Wrap("opt", el)
      [] op.o = "braces" -> IF op.max < op.min THEN Bad ELSE repeat(el, op.min, op.max),
    item, ops)

TokenAt(text, i) == IF i > Len(text) THEN "ZZ" ELSE text[i].t

RECURSIVE ReadAlts(_, _), ReadSeq(_, _)

Closed(inner) == [node |-> Group(inner.node), next |-> inner.next + 1]
ReadAtom(text, i) ==
  LET tkn == text[i]
      at(node) == [node |-> node, next |-> i + 1]
  IN CASE tkn.t = "GS" ->
            at(IF ~Readable(tkn.body) THEN Bad
               ELSE IF tkn.body = << >> THEN Missing
               ELSE Term(decodeString(tkn.body), TRUE))
       [] tkn.t = "CC" -> at(IF ClassFault(tkn.body) THEN Bad ELSE decodeCharClass(tkn.body))
       [] tkn.t = "DOT" -> at(Regex(AnyChar, "u"))
       [] tkn.t = "NM" -> at(Ref(tkn.name))
       [] tkn.t = "LP" -> Closed(ReadAlts(text, i + 1))

WithPost(text, atom) ==
  IF TokenAt(text, atom.next) = "POST"
    THEN [node |-> IF atom.node \in {Bad, Missing} THEN atom.node
                   ELSE applyPostfix(atom.node, text[atom.next].ops),
          next |-> atom.next + 1]
    ELSE atom

Joined(first, rest) == [node |-> first \o rest.node, next |-> rest.next]
Onward(text, el) ==
  Joined(IF el.node = Missing THEN << >> ELSE <<el.node>>, ReadSeq(text, el.next))
ReadSeq(text, i) ==
  IF TokenAt(text, i) \in {"ZZ", "ALT", "RP"} THEN [node |-> << >>, next |-> i]
  ELSE Onward(text, WithPost(text, ReadAtom(text, i)))

MoreAlts(text, seq) ==
  IF TokenAt(text, seq.next) = "ALT" THEN Joined(<<seq.node>>, ReadAlts(text, seq.next + 1))
  ELSE [node |-> <<seq.node>>, next |-> seq.next]
ReadAlts(text, i) == MoreAlts(text, ReadSeq(text, i))

Production(n, alts) == [name |-> n, alts |-> alts]
Line(n, text) == [name |-> n, text |-> text]
ReadLines(ls) == [i \in DOMAIN ls |-> Production(ls[i].name, ReadAlts(ls[i].text, 1).node)]

\* Every element, at any depth.
RECURSIVE Within(_)
Elements(alts) == UNION {UNION {Within(e) : e \in Range(s)} : s \in Range(alts)}
Within(el) ==
  {el} \cup
  CASE el.kind = "group" -> Elements(el.alts)
    [] el.kind \in {"opt", "star", "plus", "rep"} -> Within(el.inner)
    [] OTHER -> {}
Written(ps) == UNION {Elements(ps[i].alts) : i \in DOMAIN ps}

-----------------------------------------------------------------------------
(* renderGbnf, with a parse before it and one after it.                    *)

Init ==
  /\ \E c \in Cases :
       /\ source = c.source /\ grammar = c.grammar /\ start = c.start
       /\ phase = IF c.source = << >> THEN "names" ELSE "source"
  /\ seen = {} /\ lines = << >> /\ again = << >>

ParseSource ==
  /\ phase = "source"
  /\ grammar' = ReadLines(source)
  /\ phase' = IF Bad \in Written(grammar') THEN "unreadable" ELSE "names"
  /\ UNCHANGED <<source, start, seen, lines, again>>

Refuse == phase' = "refused" /\ UNCHANGED <<source, start, grammar, seen, lines, again>>

NoProductions == phase = "names" /\ grammar = << >> /\ Refuse

Unchecked == phase = "names" /\ Cardinality(seen) < Len(grammar)
next == grammar[Cardinality(seen) + 1].name

BadName == Unchecked /\ (next \in Illegal \/ next \in seen) /\ Refuse

CheckName ==
  /\ Unchecked /\ next \in Legal /\ next \notin seen
  /\ seen' = seen \cup {next}
  /\ UNCHANGED <<source, start, grammar, phase, lines, again>>

Checked == phase = "names" /\ grammar # << >> /\ Cardinality(seen) = Len(grammar)
First == IF start = NoStart THEN grammar[1].name ELSE start

KeepRoot ==
  /\ Checked /\ Root \in seen
  /\ phase' = "lines"
  /\ UNCHANGED <<source, start, grammar, seen, lines, again>>

NoSuchStart == Checked /\ Root \notin seen /\ First \notin seen /\ Refuse

\* Not in the code: the start option is taken at its word.
MAddRootUnchecked ==
  /\ Checked /\ Root \notin seen
  /\ lines' = <<Line(Root, <<Name(First)>>)>>
  /\ phase' = "lines"
  /\ UNCHANGED <<source, start, grammar, seen, again>>

AddRoot ==
  /\ Checked /\ Root \notin seen /\ First \in seen
  /\ lines' = <<Line(Root, <<Name(First)>>)>>
  /\ phase' = "lines"
  /\ UNCHANGED <<source, start, grammar, seen, again>>

Synthesized == IF Root \in seen THEN 0 ELSE 1
Left == phase = "lines" /\ Len(lines) < Synthesized + Len(grammar)
production == grammar[Len(lines) - Synthesized + 1]

RenderProduction ==
  /\ Left
  /\ \E text \in {renderAlts(production.alts)} :
       \/ /\ ~Throws(text)
          /\ lines' = Append(lines, Line(production.name, text))
          /\ UNCHANGED <<source, start, grammar, phase, seen, again>>
       \/ Throws(text) /\ Refuse

Rendered ==
  /\ phase = "lines" /\ ~Left
  /\ phase' = "rendered"
  /\ UNCHANGED <<source, start, grammar, seen, lines, again>>

ReadBack ==
  /\ phase = "rendered"
  /\ again' = ReadLines(lines)
  /\ phase' = IF Bad \in Written(again') THEN "lost" ELSE "back"
  /\ UNCHANGED <<source, start, grammar, seen, lines>>

Over ==
  phase \in {"unreadable", "refused", "back", "lost"} /\ UNCHANGED vars

Next ==
  \/ ParseSource \/ NoProductions \/ BadName \/ CheckName
  \/ KeepRoot \/ NoSuchStart \/ AddRoot
  \/ RenderProduction \/ Rendered \/ ReadBack \/ Over

Spec == Init /\ [][Next]_vars
=============================================================================

------------------------------ MODULE MCRender ------------------------------
(***************************************************************************)
(* Grammars read from GBNF: one terminal of up to MaxBody symbols, or a    *)
(* structure of two rules. Grammars from elsewhere: elements that GBNF     *)
(* cannot say, one level deep and under each wrapper.                      *)
(***************************************************************************)
EXTENDS RenderProps

CONSTANTS MaxBody, Kinds

la == 97
lb == 98
HI == 55357     \* with LO, the two units of U+1F600
LO == 56832
Smile == 128512
Eacute == 233

MCAlphabet == {65, la, lb, Dash, Caret, Close, Eacute, LO, Smile}
MCCased == {Eacute}

-----------------------------------------------------------------------------
(* From GBNF.                                                              *)

Symbols ==
  {Raw(la), Raw(lb), Raw(Dash), Raw(Caret), Raw(HI), Raw(LO), Esc("simple", Close),
   Esc("u", Dash), Esc("u", LO), Esc("u", HI), Esc("U", Smile), Esc("x", Caret)}
Faulty == {Esc("simple", 100), Esc("u", NoDigits), Esc("U", MAX_CP + 1)}

Source(lines_) == [source |-> lines_, grammar |-> << >>, start |-> NoStart]
One(text) == Source(<<Line(Root, text)>>)

Terminals_ ==
  {One(<<Class(body)>>) : body \in BoundedSeq(Symbols, MaxBody)}
    \cup {One(<<Literal(body)>>) : body \in BoundedSeq(Symbols, MaxBody - 1)}
    \cup {One(<<Class(<<Esc("u", HI), Esc("u", LO), Raw(Dash), Esc("u", LO + 16)>>)>>)}
    \cup {One(<<t>>) : t \in {Class(<<s, Raw(lb)>>) : s \in Faulty} \cup {Literal(<<s>>) : s \in Faulty}}

Atoms ==
  {<<Literal(<<Raw(la)>>)>>, <<Literal(<< >>)>>, <<Class(<<Raw(Caret), Raw(la), Raw(Dash), Raw(lb)>>)>>,
   <<Dot>>, <<Name("x")>>}
Runs ==
  {<< >>} \cup {<<Post(ops)>> : ops \in {<<Op("*")>>, <<Op("+"), Op("?")>>, <<Braces(1, 1)>>,
     <<Braces(0, 1)>>, <<Braces(2, Infinity)>>, <<Braces(0, 2), Op("*")>>, <<Braces(2, 1)>>}}
Items == {at \o run : at \in Atoms, run \in Runs}
Few == {<<Literal(<<Raw(la)>>)>>, <<Literal(<< >>)>>, <<Name("x")>>, <<Dot, Post(<<Op("?")>>)>>}
Inner == {<< >>} \cup Items \cup {f \o g : f \in Few, g \in Few}
           \cup {f \o <<Bar>> \o g : f \in Few, g \in Few \cup {<< >>}}
Structures ==
  {Source(<<Line(Root, text), Line("x", <<Literal(<<Raw(lb)>>)>>)>>) :
     text \in Inner \cup {<<LP>> \o i \o <<RP>> \o run \o f : i \in Inner, run \in Runs, f \in {<< >>, <<Dot>>}}}

-----------------------------------------------------------------------------
(* From elsewhere.                                                         *)

Pat(symbols) == Regex(Bracketed(symbols), "u")
Foreign ==
  {Term(<<la>>, FALSE), Term(<<la, Dash, 65>>, FALSE), Term(<<Dash, lb>>, FALSE), Term(<<Dash>>, FALSE),
   Term(<<Eacute>>, FALSE), Term(<<la, Eacute>>, FALSE), Term(<<Eacute>>, TRUE),
   Term(<<HI, LO, Quote, 10>>, TRUE), Term(<< >>, FALSE), Term(<< >>, TRUE),
   Ref("x"), Ref("a b"), [kind |-> "token"], [kind |-> "prose"],
   Regex(AnyChar, "u"), Pat(<< >>), Pat(<<Raw(la), Raw(Dash), Raw(la)>>), Pat(<<Raw(lb), Raw(Dash), Raw(la)>>),
   Pat(<<Esc("simple", Dash), Raw(la)>>), Pat(<<Raw(Caret), Esc("simple", 110)>>),
   Pat(<<Esc("simple", 100)>>), Pat(<<Esc("u", NoDigits)>>), Pat(<<Raw(la), Raw(Caret), Raw(Dash)>>),
   Pat(<<Raw(la), Raw(Close), Raw(Open), Raw(lb)>>), Pat(<<Raw(Close)>>), Pat(<<Raw(Open), Raw(la)>>),
   Pat(<<Raw(la), Raw(Dash), Raw(lb), Raw(Dash), Raw(Caret)>>),
   Regex(<<Raw(la)>>, ""), Group(<<<<Term(<<la>>, TRUE)>>, << >>>>)}
Wrapped(el) ==
  {el, Group(<<<<el>>>>), Rep(0, 2, el), Rep(1, 1, el), Rep(2, Infinity, el), Wrap("star", Wrap("opt", el)),
   Wrap("plus", Group(<<<<Term(<<lb>>, TRUE), el>>>>))}

Given(g, s) == [source |-> << >>, grammar |-> g, start |-> s]
Others ==
  {Given(<<Production(Root, <<<<w, Term(<<lb>>, TRUE)>>>>), Production("x", <<<<>>>>)>>, NoStart) :
     w \in UNION {Wrapped(el) : el \in Foreign} \cup UNION {Wrapped(w) : w \in Wrapped(Term(<<la, lb>>, FALSE))}}
  \cup {Given(g, s) :
     g \in {<< >>} \cup {[i \in DOMAIN ns |-> Production(ns[i], <<<<Ref("x")>>>>)] :
              ns \in {<<"x">>, <<"x", "y">>, <<"x", "x">>, <<"y", "a b">>, <<"y", Root>>, <<Root, Root>>}},
     s \in {NoStart, "x", "y"}}

MCCases ==
  UNION {CASE k = "terminals" -> Terminals_
           [] k = "structures" -> Structures
           [] k = "others" -> Others
           [] k = "surrogates" ->
                {One(<<Class(body)>>) : body \in BoundedSeq({Esc("u", HI), Esc("u", LO), Raw(la)}, 2)} : k \in Kinds}
=============================================================================

------------------------------- MODULE MCCli -------------------------------
(***************************************************************************)
(* Vectors of up to MaxArgs arguments over two file names, which are also  *)
(* the texts of samples, and the worlds that tell the outcomes apart; and  *)
(* the vectors that only the reading of the arguments tells apart.         *)
(***************************************************************************)
EXTENDS Cli

CONSTANTS MaxArgs

T(n) == [body |-> "short", newlines |-> n]
MCTexts == {T(0), T(1), T(2)}
MCWords == {T(0), T(1)}

Some ==
  {Separator, Dash, Word(T(0)), Word(T(1)),
   LongOption("json", None), LongOption("stdin", None), LongOption("strip-final-newline", None),
   LongOption("text", None), LongOption("text", T(1)), LongOption("unknown", None),
   Short(<<"q">>), Short(<<"q", "-">>)}

RunArgvs ==
  BoundedSeq(Some, MaxArgs)
    \cup {<<LongOption("json", None), Short(<<c>>)>> : c \in {"h", "v"}}
    \cup {<<Word(T(0)), Short(<<"t", "q">>), LongOption("stdin", None), Word(T(1))>>}

\* Vectors that only their reading tells apart: up to MaxArgs arguments of
\* each kind, and groups of up to three letters with an argument on each
\* side. One world is enough for them.
Kinds ==
  {Separator, Dash, Word(T(0)),
   LongOption("unknown", None), LongOption("json", None), LongOption("json", T(0)),
   LongOption("text", None), LongOption("text", T(0)),
   Short(<<"q">>), Short(<<"t">>), Short(<<"t", "t">>), Short(<<"q", "t">>), Short(<<"q", "-">>)}

Groups == {Short(<<c>> \o s) : c \in Chars \ {"-"}, s \in BoundedSeq(Chars, 2)}
Around == {Word(T(0)), Short(<<"t">>), LongOption("json", None)}

ReadArgvs ==
  BoundedSeq(Kinds, MaxArgs)
    \cup {<<g>> : g \in Groups}
    \cup {<<a, g, b>> : a \in Around, g \in Groups, b \in Around}

MCArgvs == RunArgvs \cup ReadArgvs

\* T(0) is the grammar's file in most runs, T(1) a sample's.
MCWorlds ==
  [files : {f \in [MCWords -> MCTexts \cup {Unreadable}] : f[T(0)] \in {T(0), T(2), Unreadable}
                                                         /\ f[T(1)] \in {T(1), Unreadable}},
   stdin : {T(2), Unreadable},
   compiles : BOOLEAN,
   accepts : {{}, {T(0)}, {T(1)}, {T(0), T(2)}}]

PlainWorld ==
  [files |-> [f \in MCWords |-> f], stdin |-> T(2), compiles |-> TRUE, accepts |-> {T(1)}]
MCInit == \/ argv \in RunArgvs /\ world \in MCWorlds /\ Init
          \/ argv \in ReadArgvs /\ world = PlainWorld /\ Init
MCSpec == MCInit /\ [][Next]_vars
=============================================================================

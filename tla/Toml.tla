-------------------------------- MODULE Toml --------------------------------
(***************************************************************************)
(* parseToml of tools/port-deps.cjs: the reader of rs/Cargo.toml.          *)
(*                                                                         *)
(* The characters are taken as the tokens the reader makes of them: a      *)
(* newline (with the comment before it), a complete table header, a key    *)
(* with its "=", a scalar, the brackets and commas of arrays and inline    *)
(* tables, and Bad for anything `string`, `escape`, `key` or `value`       *)
(* refuses.  The recursive descent is a stack: a frame is the array or     *)
(* table a value is being read into and the key it will have there.        *)
(*                                                                         *)
(* `nodes` is the heap: nodes[1] is the root, and a node of type "table"   *)
(* maps keys to nodes, one of type "array" or "aot" lists nodes.           *)
(*                                                                         *)
(* `written` is a history variable: what the text says, as full paths, in  *)
(* the order it says it.  The reader never looks at it.                    *)
(***************************************************************************)
EXTENDS Naturals, Sequences, SequencesExt

VARIABLES toks, nodes, current, stack, mode, written, head
tomlVars == <<toks, nodes, current, stack, mode, written, head>>

\* mode: "statement", "value", "items", "entries", "separator", "eol", "done" or "refused".

Empty == [k \in {} |-> 0]
Node(type, text) ==
  [t |-> type, v |-> text, map |-> Empty, items |-> <<>>, defined |-> FALSE, inline |-> FALSE]
TableNode(defined) == [Node("table", "") EXCEPT !.defined = defined]

Root == 1
Tok == IF toks = <<>> THEN [k |-> "eof"] ELSE Head(toks)

TomlInit(text) ==
  /\ toks = text /\ nodes = <<TableNode(TRUE)>> /\ current = Root
  /\ stack = <<>> /\ mode = "statement" /\ written = <<>> /\ head = <<>>

Link(ns, at, key, n) ==
  [ns EXCEPT ![at].map = [k \in DOMAIN @ \cup {key} |-> IF k = key THEN n ELSE @[k]]]

\* Not in the code: an inline table is left open for later statements.
MHoldsKeys(n) == n.t = "table"
HoldsKeys(n) == n.t = "table" /\ ~n.inline

\* One step down a path, making the table that is not there: a dotted key's
\* tables count as defined, a header's await their own header, and only a
\* header goes through the last item of an array of tables.
Descend(s, part, header) ==
  IF ~s.ok THEN s
  ELSE LET map == s.ns[s.at].map IN
       IF part \notin DOMAIN map
       THEN [s EXCEPT !.ns = Append(Link(s.ns, s.at, part, Len(s.ns) + 1), TableNode(~header)),
                      !.at = Len(s.ns) + 1]
       ELSE LET seen == s.ns[map[part]]
                next == IF header /\ seen.t = "aot" THEN Last(seen.items) ELSE map[part]
            IN  [s EXCEPT !.at = next, !.ok = HoldsKeys(s.ns[next])]

Walk(ns, from, parts, header) ==
  FoldLeft(LAMBDA s, part : Descend(s, part, header),
           [ns |-> ns, at |-> from, ok |-> TRUE], Front(parts))

\* Not in the code: a key set twice takes the place of the first.
MassignOver(w, key, n) == [w EXCEPT !.ns = IF w.ok THEN Link(w.ns, w.at, key, n) ELSE w.ns]

\* assign, after its walk: the last key must be new.
assign(w, key, n) ==
  IF w.ok /\ key \notin DOMAIN w.ns[w.at].map
  THEN [w EXCEPT !.ns = Link(w.ns, w.at, key, n)]
  ELSE [w EXCEPT !.ok = FALSE]

Refuse == mode' = "refused" /\ UNCHANGED <<toks, nodes, current, stack, written, head>>
Eat == toks' = Tail(toks)

\* The full path of the value about to be read.
TextPath == head \o FoldLeft(LAMBDA p, f : p \o f.key, <<>>, stack)

\* The value n is complete: it goes where the top frame says.
Complete(ns, st, n) ==
  \E f \in {Last(st)} :
    IF ns[f.node].t = "array"
    THEN /\ nodes' = [ns EXCEPT ![f.node].items = Append(@, n)]
         /\ stack' = st /\ mode' = "separator" /\ Eat /\ UNCHANGED <<current, head>>
    ELSE \E w \in {assign(Walk(ns, f.node, f.key, FALSE), Last(f.key), n)} :
           IF w.ok
           THEN /\ nodes' = w.ns /\ Eat /\ UNCHANGED <<current, head>>
                /\ stack' = IF Len(st) = 1 THEN <<>> ELSE [st EXCEPT ![Len(st)].key = <<>>]
                /\ mode' = IF Len(st) = 1 THEN "eol" ELSE "separator"
           ELSE mode' = "refused" /\ UNCHANGED <<toks, nodes, current, stack, head>>

-----------------------------------------------------------------------------
(* Statements *)

Newline ==
  /\ Tok.k = "nl" /\ mode \in {"statement", "items", "entries", "separator", "eol"}
  /\ mode' = IF mode = "eol" THEN "statement" ELSE mode
  /\ Eat /\ UNCHANGED <<nodes, current, stack, written, head>>

EndOfFile ==
  /\ Tok.k = "eof" /\ mode \in {"statement", "eol"}
  /\ mode' = "done" /\ UNCHANGED <<toks, nodes, current, stack, written, head>>

\* `key =`: what is read next is set there.
Key ==
  /\ Tok.k = "key" /\ mode \in {"statement", "entries"}
  /\ stack' = IF mode = "statement" THEN <<[node |-> current, key |-> Tok.parts]>>
              ELSE [stack EXCEPT ![Len(stack)].key = Tok.parts]
  /\ mode' = "value" /\ Eat /\ UNCHANGED <<nodes, current, written, head>>

Opened(ns, at) ==
  /\ nodes' = ns /\ current' = at /\ head' = Tok.parts
  /\ written' = Append(written, [path |-> Tok.parts, t |-> "table", v |-> ""])
  /\ mode' = "eol" /\ Eat /\ UNCHANGED stack

\* [a.b]: a table of its own, new or made on the way to a deeper header.
HeaderTable(w, last) ==
  IF ~w.ok THEN Refuse
  ELSE IF last \notin DOMAIN w.ns[w.at].map
  THEN Opened(Append(Link(w.ns, w.at, last, Len(w.ns) + 1), TableNode(TRUE)), Len(w.ns) + 1)
  ELSE \E n \in {w.ns[w.at].map[last]} :
         IF w.ns[n].t = "table" /\ ~w.ns[n].defined
         THEN Opened([w.ns EXCEPT ![n].defined = TRUE], n)
         ELSE Refuse

\* [[a.b]]: one more item of an array of tables.
HeaderItem(w, last) ==
  IF ~w.ok THEN Refuse
  ELSE IF last \notin DOMAIN w.ns[w.at].map
  THEN Opened(Link(w.ns, w.at, last, Len(w.ns) + 2)
                \o <<TableNode(TRUE), [Node("aot", "") EXCEPT !.items = <<Len(w.ns) + 1>>]>>,
              Len(w.ns) + 1)
  ELSE \E n \in {w.ns[w.at].map[last]} :
         IF w.ns[n].t = "aot"
         THEN Opened(Append([w.ns EXCEPT ![n].items = Append(@, Len(w.ns) + 1)], TableNode(TRUE)),
                     Len(w.ns) + 1)
         ELSE Refuse

Header ==
  /\ Tok.k = "header" /\ mode = "statement"
  /\ \E w \in {Walk(nodes, Root, Tok.parts, TRUE)} :
       IF Tok.array THEN HeaderItem(w, Last(Tok.parts)) ELSE HeaderTable(w, Last(Tok.parts))

-----------------------------------------------------------------------------
(* Values *)

Says(type, text) == written' = Append(written, [path |-> TextPath, t |-> type, v |-> text])

Scalar ==
  /\ Tok.k = "scalar" /\ mode \in {"value", "items"}
  /\ Says(Tok.t, Tok.v)
  /\ Complete(Append(nodes, Node(Tok.t, Tok.v)), stack, Len(nodes) + 1)

Open ==
  /\ Tok.k \in {"[", "{"} /\ mode \in {"value", "items"}
  /\ nodes' = Append(nodes, IF Tok.k = "[" THEN Node("array", "")
                            ELSE [TableNode(TRUE) EXCEPT !.inline = TRUE])
  /\ stack' = Append(stack, [node |-> Len(nodes) + 1, key |-> <<>>])
  /\ mode' = IF Tok.k = "[" THEN "items" ELSE "entries"
  /\ Says(IF Tok.k = "[" THEN "array" ELSE "table", "")
  /\ Eat /\ UNCHANGED <<current, head>>

InArray == stack # <<>> /\ nodes[Last(stack).node].t = "array"

Close ==
  /\ \/ Tok.k = "]" /\ InArray /\ mode \in {"items", "separator"}
     \/ Tok.k = "}" /\ ~InArray /\ mode \in {"entries", "separator"}
  /\ Complete(nodes, Front(stack), Last(stack).node)
  /\ UNCHANGED written

Comma ==
  /\ Tok.k = "," /\ mode = "separator"
  /\ mode' = IF InArray THEN "items" ELSE "entries"
  /\ Eat /\ UNCHANGED <<nodes, current, stack, written, head>>

\* Every other token, where it stands, is refused with its file and line.
Understood ==
  \/ Tok.k = "nl" /\ mode # "value"
  \/ Tok.k = "eof" /\ mode \in {"statement", "eol"}
  \/ Tok.k = "key" /\ mode \in {"statement", "entries"}
  \/ Tok.k = "header" /\ mode = "statement"
  \/ Tok.k \in {"scalar", "[", "{"} /\ mode \in {"value", "items"}
  \/ Tok.k = "]" /\ InArray /\ mode \in {"items", "separator"}
  \/ Tok.k = "}" /\ ~InArray /\ mode \in {"entries", "separator"}
  \/ Tok.k = "," /\ mode = "separator"

Unreadable == mode \notin {"done", "refused"} /\ ~Understood /\ Refuse

parseToml == Newline \/ EndOfFile \/ Key \/ Header \/ Scalar \/ Open \/ Close \/ Comma \/ Unreadable

-----------------------------------------------------------------------------
(* Properties *)

\* The text is read as what it is: once a manifest is accepted, the tables
\* and values the reader holds are the ones the text writes, each where the
\* text puts it, none dropped, none taken for another, none set twice.
RECURSIVE Held(_, _)
Held(n, path) ==
  LET here == [path |-> path, t |-> nodes[n].t, v |-> nodes[n].v]
  IN  CASE nodes[n].t \in {"aot", "array"} ->
             FoldLeft(LAMBDA s, i : s \o Held(i, path),
                      IF nodes[n].t = "array" THEN <<here>> ELSE <<>>, nodes[n].items)
        [] nodes[n].t = "table" ->
             FoldLeft(LAMBDA s, k : s \o Held(nodes[n].map[k], Append(path, k)),
                      IF n = Root THEN <<>> ELSE <<here>>, SetToSeq(DOMAIN nodes[n].map))
        [] OTHER -> <<here>>

\* A table the text only passes through, on the way to a deeper one.
Implied(f) == f.t = "table" /\ \E i \in 1..Len(written) : IsStrictPrefix(f.path, written[i].path)

TextKept ==
  mode = "done" =>
    \E held \in {Held(Root, <<>>)} :
      /\ ToSet(written) \subseteq ToSet(held)
      /\ \A i \in 1..Len(held) : held[i] \in ToSet(written) \/ Implied(held[i])
      /\ \A f \in ToSet(written) : f.t \notin {"table", "array"} =>
           Len(SelectSeq(held, LAMBDA g : g = f)) = Len(SelectSeq(written, LAMBDA g : g = f))

\* What an inline table holds is settled at its closing brace: no later
\* statement, by a header or by a dotted key, adds to it.
Finished(n) == nodes[n].inline /\ \A i \in 1..Len(stack) : stack[i].node # n
InlineClosed ==
  [][\A n \in 1..Len(nodes) : Finished(n) => nodes'[n] = nodes[n]]_tomlVars
=============================================================================

----------------------------- MODULE MCValidate -----------------------------
(***************************************************************************)
(* Sequences of up to MaxLong productions with a leaf at most, and up to   *)
(* two with two leaves; every kind of leaf alone, in each wrapper, and in  *)
(* a wrapper in a group.                                                   *)
(***************************************************************************)
EXTENDS Validate, SequencesExt

CONSTANTS MaxLong, MaxWide

Leaf(kind, name, within) == [kind |-> kind, name |-> name, within |-> within]
\* Only a reference's name matters.
Marked(chains) ==
  UNION {{Leaf("ref", n, w) : n \in Names} \cup {Leaf(k, Root, w) : k \in {"tokterm", "term"}}
           : w \in chains}

Bare == Marked({<< >>})
Nested == Marked({<< >>} \cup {<<w>> : w \in Wrappers} \cup {<<"group", w>> : w \in Wrappers})

Rules(leaves, n) == [name : Names, leaves : BoundedSeq(leaves, n)]

MCGrammars ==
  BoundedSeq(Rules(Bare, 1), MaxLong)
    \cup BoundedSeq(Rules(Bare, 2), MaxWide)
    \cup BoundedSeq(Rules(Nested, 1), 1)
    \cup {<<p, q>> : p \in Rules(Nested, 1), q \in Rules(Bare, 1)}
\* Rules other than root are interchangeable.
Symmetry == Permutations(Names \ {Root})
=============================================================================

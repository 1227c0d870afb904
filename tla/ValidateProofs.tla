--------------------------- MODULE ValidateProofs ---------------------------
(***************************************************************************)
(* Proofs about the validation passes, for every set of grammars.          *)
(***************************************************************************)
EXTENDS Validate, SequenceTheorems, TLAPS

-----------------------------------------------------------------------------
(* What dedupeProductions knows after each turn of its loop.               *)

\* An entry points at the last definition so far of its name.
MapExact ==
  \A n \in Names :
    /\ byName[n] # 0 => raw[byName[n]].name = n /\ byName[n] <= taken
    /\ \A j \in 1 .. taken : raw[j].name = n => byName[n] # 0 /\ j <= byName[n]

\* `order` holds the names of the map, each once.
OrderExact ==
  /\ \A i, j \in DOMAIN order : order[i] = order[j] => i = j
  /\ \A i \in DOMAIN order : byName[order[i]] # 0
  /\ \A n \in Names : byName[n] # 0 => \E i \in DOMAIN order : order[i] = n

Deduped ==
  /\ taken = Len(raw)
  /\ productions = [i \in DOMAIN order |-> raw[byName[order[i]]]]

(* What a walk knows of the leaves behind it.                              *)

Clean(Good(_), upto, within) ==
  \A i \in DOMAIN productions : \A k \in DOMAIN productions[i].leaves :
    i < upto \/ (i = upto /\ k < within) => Good(productions[i].leaves[k])

NoToken(l) == l.kind # "tokterm"
Resolves(l) == l.kind = "ref" => l.name \in Defined
All(Good(_)) ==
  \A i \in DOMAIN productions : \A k \in DOMAIN productions[i].leaves :
    Good(productions[i].leaves[k])

Walked ==
  /\ pass \in {"tokens", "root", "refs"} => Deduped /\ verdict.reason = "none"
  /\ pass = "dedupe" => productions = << >> /\ verdict.reason = "none"
  /\ pass = "tokens" => Clean(NoToken, rule, leaf)
  /\ pass \in {"root", "refs"} => All(NoToken)
  /\ pass = "refs" => Root \in Defined /\ Clean(Resolves, rule, leaf)
  /\ verdict.reason = "accepted" => Deduped /\ All(NoToken) /\ Root \in Defined /\ All(Resolves)

IInv == TypeOK /\ MapExact /\ OrderExact /\ Walked

-----------------------------------------------------------------------------
LEMMA RawTyped ==
  ASSUME TypeOK, NEW i \in 1 .. Len(raw)
  PROVE  raw[i] \in Productions /\ raw[i].name \in Names
<1>1. raw[i] \in Productions
  BY ElementOfSeq DEF TypeOK
<1> QED BY <1>1 DEF Productions

LEMMA DedupedTyped ==
  ASSUME TypeOK, MapExact, OrderExact
  PROVE  /\ DOMAIN order = 1 .. Len(order)
         /\ \A i \in DOMAIN order : order[i] \in Names /\ byName[order[i]] \in 1 .. Len(raw)
         /\ [i \in DOMAIN order |-> raw[byName[order[i]]]] \in Seq(Productions)
<1>1. DOMAIN order = 1 .. Len(order) /\ Len(order) \in Nat
  BY LenProperties DEF TypeOK
<1>2. \A i \in DOMAIN order : order[i] \in Names /\ byName[order[i]] \in 1 .. Len(raw)
  BY <1>1, ElementOfSeq DEF TypeOK, OrderExact
<1>3. \A i \in DOMAIN order : raw[byName[order[i]]] \in Productions
  BY <1>2, RawTyped
<1>4. [i \in 1 .. Len(order) |-> raw[byName[order[i]]]] \in Seq(Productions)
  BY <1>1, <1>3, IsASeq
<1> QED BY <1>1, <1>2, <1>4

LEMMA ProductionsTyped ==
  ASSUME NEW ps \in Seq(Productions)
  PROVE  /\ DOMAIN ps = 1 .. Len(ps) /\ Len(ps) \in Nat
         /\ \A i \in DOMAIN ps :
              /\ ps[i].name \in Names
              /\ DOMAIN ps[i].leaves = 1 .. Len(ps[i].leaves)
              /\ Len(ps[i].leaves) \in Nat
              /\ \A k \in DOMAIN ps[i].leaves : ps[i].leaves[k] \in Leaves
<1>1. DOMAIN ps = 1 .. Len(ps) /\ Len(ps) \in Nat
  BY LenProperties
<1>2. ASSUME NEW i \in DOMAIN ps
      PROVE  ps[i].leaves \in Seq(Leaves) /\ ps[i].name \in Names
  <2>1. ps[i] \in Productions
    BY <1>1, ElementOfSeq
  <2> QED BY <2>1 DEF Productions
<1>3. ASSUME NEW i \in DOMAIN ps
      PROVE  /\ DOMAIN ps[i].leaves = 1 .. Len(ps[i].leaves)
             /\ Len(ps[i].leaves) \in Nat
             /\ \A k \in DOMAIN ps[i].leaves : ps[i].leaves[k] \in Leaves
  BY <1>2, LenProperties, ElementOfSeq
<1> QED BY <1>1, <1>2, <1>3

\* The walks descend into everything an element can stand in.
LEMMA EntersAll ==
  ASSUME NEW l \in Leaves
  PROVE  Enters(l)
<1>1. l.within \in Seq(Wrappers)
  BY DEF Leaves
<1>2. \A i \in DOMAIN l.within : l.within[i] \in Wrappers
  BY <1>1, LenProperties, ElementOfSeq
<1> QED BY <1>2 DEF Enters, Wrappers

-----------------------------------------------------------------------------
LEMMA InitHolds == Init => IInv
<1> SUFFICES ASSUME Init PROVE IInv
  OBVIOUS
<1>1. raw \in Seq(Productions)
  BY GrammarsAssumption DEF Init, Says
<1>2. Len(raw) \in Nat
  BY <1>1, LenProperties
<1>3. TypeOK
  <2>1. order \in Seq(Names) /\ productions \in Seq(Productions)
    BY EmptySeq DEF Init, Says
  <2>2. verdict \in Verdicts
    BY RootAssumption DEF Init, Verdicts, Says, Reasons, Classes
  <2>3. taken \in 0 .. Len(raw)
    BY <1>2 DEF Init, Says
  <2>4. byName \in [Names -> 0 .. Len(raw)]
    <3>1. 0 \in 0 .. Len(raw)
      BY <1>2
    <3> QED BY <3>1 DEF Init, Says
  <2>5. port \in Ports /\ pass \in Passes /\ rule \in Nat \ {0} /\ leaf \in Nat \ {0}
    BY DEF Init, Says, Passes
  <2> QED BY <1>1, <2>1, <2>2, <2>3, <2>4, <2>5 DEF TypeOK
<1>4. MapExact /\ OrderExact
  <2>1. \A n \in Names : byName[n] = 0
    BY DEF Init, Says
  <2>2. \A j \in 1 .. taken : FALSE
    BY DEF Init, Says
  <2>3. \A i \in DOMAIN order : FALSE
    BY DEF Init, Says
  <2> QED BY <2>1, <2>2, <2>3 DEF MapExact, OrderExact
<1>5. Walked
  BY DEF Init, Walked, Says
<1> QED BY <1>3, <1>4, <1>5 DEF IInv

LEMMA CollectHolds == IInv /\ Collect => IInv'
<1> SUFFICES ASSUME IInv, Collect PROVE IInv'
  OBVIOUS
<1> USE DEF IInv
<1> DEFINE name == raw[taken + 1].name
<1>0. Len(raw) \in Nat /\ taken + 1 \in 1 .. Len(raw) /\ taken' = taken + 1 /\ raw' = raw
  BY LenProperties DEF Collect, TypeOK
<1>1. name \in Names
  BY <1>0, RawTyped
<1>2. byName' = [byName EXCEPT ![name] = taken + 1]
      /\ order' = IF byName[name] = 0 THEN Append(order, name) ELSE order
  BY DEF Collect
<1>3. order' \in Seq(Names)
  BY <1>1, <1>2, AppendProperties DEF TypeOK
<1>4. byName' \in [Names -> 0 .. Len(raw)]
  BY <1>0, <1>1, <1>2 DEF TypeOK
<1>5. TypeOK'
  BY <1>0, <1>3, <1>4 DEF TypeOK, Collect
<1>6. MapExact'
  <2> SUFFICES ASSUME NEW n \in Names
               PROVE  /\ byName'[n] # 0 => raw[byName'[n]].name = n /\ byName'[n] <= taken + 1
                      /\ \A j \in 1 .. taken + 1 :
                           raw[j].name = n => byName'[n] # 0 /\ j <= byName'[n]
    BY <1>0 DEF MapExact
  <2>1. CASE n = name
    <3>1. byName'[n] = taken + 1
      BY <1>2, <2>1 DEF TypeOK
    <3> QED BY <1>0, <2>1, <3>1
  <2>2. CASE n # name
    <3>1. byName'[n] = byName[n] /\ byName[n] \in Nat /\ taken \in Nat
      BY <1>0, <1>2, <2>2 DEF TypeOK
    <3>2. byName[n] # 0 => raw[byName[n]].name = n /\ byName[n] <= taken + 1
      BY <3>1 DEF MapExact
    <3>3. ASSUME NEW j \in 1 .. taken + 1, raw[j].name = n PROVE byName[n] # 0 /\ j <= byName[n]
      <4>1. j \in 1 .. taken
        BY <2>2, <3>1, <3>3
      <4> QED BY <3>3, <4>1 DEF MapExact
    <3> QED BY <3>1, <3>2, <3>3
  <2> QED BY <2>1, <2>2
<1>7. OrderExact'
  <2>1. CASE byName[name] = 0
    <3>1. order' = Append(order, name)
      BY <1>2, <2>1
    <3>2. /\ DOMAIN order = 1 .. Len(order) /\ Len(order) \in Nat
          /\ DOMAIN order' = 1 .. Len(order) + 1
          /\ \A i \in 1 .. Len(order) : order'[i] = order[i]
          /\ order'[Len(order) + 1] = name
      BY <1>1, <3>1, AppendProperties, LenProperties DEF TypeOK
    <3>3. \A i \in DOMAIN order : order[i] \in Names /\ order[i] # name
      BY <2>1, <3>2, ElementOfSeq DEF TypeOK, OrderExact
    <3>4. \A i \in DOMAIN order : byName'[order[i]] = byName[order[i]]
      BY <1>2, <3>3 DEF TypeOK
    <3>5. byName'[name] = taken + 1 /\ taken + 1 # 0
      BY <1>0, <1>1, <1>2 DEF TypeOK
    <3>6. \A i, j \in DOMAIN order' : order'[i] = order'[j] => i = j
      BY <3>2, <3>3 DEF OrderExact
    <3>7. \A i \in DOMAIN order' : byName'[order'[i]] # 0
      BY <3>2, <3>4, <3>5 DEF OrderExact
    <3>8. ASSUME NEW n \in Names, byName'[n] # 0 PROVE \E i \in DOMAIN order' : order'[i] = n
      <4>1. CASE n = name
        BY <3>2, <4>1
      <4>2. CASE n # name
        <5>1. byName[n] # 0
          BY <1>2, <3>8, <4>2 DEF TypeOK
        <5> QED BY <3>2, <5>1 DEF OrderExact
      <4> QED BY <4>1, <4>2
    <3> QED BY <3>6, <3>7, <3>8 DEF OrderExact
  <2>2. CASE byName[name] # 0
    <3>1. order' = order
      BY <1>2, <2>2
    <3>2. \A n \in Names : byName'[n] # 0 <=> byName[n] # 0
      BY <1>0, <1>2, <2>2 DEF TypeOK
    <3>3. \A i \in DOMAIN order : order[i] \in Names
      BY LenProperties, ElementOfSeq DEF TypeOK
    <3> QED BY <3>1, <3>2, <3>3 DEF OrderExact
  <2> QED BY <2>1, <2>2
<1>8. Walked'
  BY DEF Walked, Collect
<1> QED BY <1>5, <1>6, <1>7, <1>8

LEMMA CollectedHolds == IInv /\ Collected => IInv'
<1> SUFFICES ASSUME IInv, Collected PROVE IInv'
  OBVIOUS
<1> USE DEF IInv
<1>1. productions' \in Seq(Productions)
  BY DedupedTyped DEF Collected
<1>2. TypeOK'
  BY <1>1 DEF TypeOK, Collected, Begins, Passes
<1>3. MapExact' /\ OrderExact'
  BY DEF MapExact, OrderExact, Collected
<1>4. pass' = "tokens" /\ rule' = 1 /\ leaf' = 1 /\ Deduped' /\ verdict'.reason = "none"
  BY DEF Collected, Begins, Deduped, Walked
<1>5. Clean(NoToken, rule, leaf)'
  BY <1>1, <1>4, ProductionsTyped DEF Clean
<1>6. Walked'
  BY <1>4, <1>5 DEF Walked
<1> QED BY <1>2, <1>3, <1>6

\* What a step of the passes after the first leaves alone.
LEMMA WalkKeeps ==
  ASSUME IInv, UNCHANGED <<port, raw, taken, byName, order, productions>>,
         pass' \in Passes, rule' \in Nat \ {0}, leaf' \in Nat \ {0}, verdict' \in Verdicts
  PROVE  TypeOK' /\ MapExact' /\ OrderExact' /\ (Deduped => Deduped')
BY DEF IInv, TypeOK, MapExact, OrderExact, Deduped

LEMMA PassLeafHolds == IInv /\ PassLeaf => IInv'
<1> SUFFICES ASSUME IInv, PassLeaf PROVE IInv'
  OBVIOUS
<1> DEFINE l == productions[rule].leaves[leaf]
<1>1. TypeOK' /\ MapExact' /\ OrderExact' /\ (Deduped => Deduped')
  BY WalkKeeps DEF PassLeaf, IInv, TypeOK
<1>2. /\ rule \in DOMAIN productions /\ leaf \in DOMAIN productions[rule].leaves
      /\ l \in Leaves
      /\ \A i \in DOMAIN productions : i \in Nat /\ \A k \in DOMAIN productions[i].leaves : k \in Nat
  BY ProductionsTyped DEF IInv, TypeOK, PassLeaf, AtLeaf
<1>3. Enters(l)
  BY <1>2, EntersAll
<1>4. CASE pass = "tokens"
  <2>1. NoToken(l)
    BY <1>3, <1>4 DEF PassLeaf, Offends, NoToken
  <2>2. Clean(NoToken, rule, leaf)
    BY <1>4 DEF IInv, Walked
  <2>3. Clean(NoToken, rule, leaf)'
    BY <1>2, <2>1, <2>2 DEF PassLeaf, Clean, NoToken, IInv, TypeOK
  <2> QED BY <1>1, <1>4, <2>3 DEF IInv, Walked, PassLeaf
<1>5. CASE pass = "refs"
  <2>1. Resolves(l)
    BY <1>3, <1>5 DEF PassLeaf, Offends, Resolves
  <2>2. Clean(Resolves, rule, leaf)
    BY <1>5 DEF IInv, Walked
  <2>3. Clean(Resolves, rule, leaf)'
    BY <1>2, <2>1, <2>2 DEF PassLeaf, Clean, Resolves, Defined, IInv, TypeOK
  <2>4. All(NoToken)' /\ (Root \in Defined)'
    BY <1>5 DEF IInv, Walked, PassLeaf, All, NoToken, Defined
  <2> QED BY <1>1, <1>5, <2>3, <2>4 DEF IInv, Walked, PassLeaf
<1> QED BY <1>4, <1>5 DEF PassLeaf, AtLeaf, Walking

LEMMA NextProductionHolds == IInv /\ NextProduction => IInv'
<1> SUFFICES ASSUME IInv, NextProduction PROVE IInv'
  OBVIOUS
<1>1. TypeOK' /\ MapExact' /\ OrderExact' /\ (Deduped => Deduped')
  BY WalkKeeps DEF NextProduction, IInv, TypeOK
<1>2. /\ rule \in DOMAIN productions
      /\ \A k \in DOMAIN productions[rule].leaves : k < leaf
      /\ \A i \in DOMAIN productions : i \in Nat /\ \A k \in DOMAIN productions[i].leaves : k \in Nat /\ k >= 1
  BY ProductionsTyped DEF IInv, TypeOK, NextProduction
<1>3. CASE pass = "tokens"
  <2>1. Clean(NoToken, rule, leaf)
    BY <1>3 DEF IInv, Walked
  <2>2. Clean(NoToken, rule, leaf)'
    BY <1>2, <2>1, SMTT(20) DEF NextProduction, Clean, NoToken, IInv, TypeOK
  <2> QED BY <1>1, <1>3, <2>2 DEF IInv, Walked, NextProduction
<1>4. CASE pass = "refs"
  <2>1. Clean(Resolves, rule, leaf)
    BY <1>4 DEF IInv, Walked
  <2>2. Clean(Resolves, rule, leaf)'
    <3>1. productions' = productions /\ Defined' = Defined
      BY DEF NextProduction, Defined
    <3> QED BY <1>2, <2>1, <3>1 DEF NextProduction, Clean, Resolves, IInv, TypeOK
  <2>3. All(NoToken)' /\ (Root \in Defined)'
    BY <1>4 DEF IInv, Walked, NextProduction, All, NoToken, Defined
  <2> QED BY <1>1, <1>4, <2>2, <2>3 DEF IInv, Walked, NextProduction
<1> QED BY <1>3, <1>4 DEF NextProduction, Walking

\* A walk that has come past the last production has seen every leaf.
LEMMA WalkEnds ==
  ASSUME TypeOK, rule > Len(productions)
  PROVE  /\ Clean(NoToken, rule, leaf) => All(NoToken)
         /\ Clean(Resolves, rule, leaf) => All(Resolves)
<1>1. \A i \in DOMAIN productions : i < rule
  BY ProductionsTyped DEF TypeOK
<1> QED BY <1>1 DEF Clean, All

LEMMA PassEndsHolds ==
  IInv /\ (NoProductions \/ RefuseLeaf \/ NoTokens \/ HasRoot \/ RefuseRoot \/ Accept) => IInv'
<1> SUFFICES ASSUME IInv,
                    NoProductions \/ RefuseLeaf \/ NoTokens \/ HasRoot \/ RefuseRoot \/ Accept
             PROVE  IInv'
  OBVIOUS
<1> USE DEF Ends, Begins
<1>1. CASE NoProductions
  <2>1. TypeOK' /\ MapExact' /\ OrderExact'
    BY <1>1, WalkKeeps, RootAssumption
       DEF NoProductions, IInv, TypeOK, Passes, Verdicts, Says, Reasons, Classes
  <2> QED BY <1>1, <2>1 DEF IInv, Walked, NoProductions, Says
<1>2. CASE RefuseLeaf
  <2>1. rule \in DOMAIN productions /\ productions[rule].name \in Names
    BY <1>2, ProductionsTyped DEF IInv, TypeOK, RefuseLeaf, AtLeaf
  <2>2. TypeOK' /\ MapExact' /\ OrderExact'
    BY <1>2, <2>1, WalkKeeps
       DEF RefuseLeaf, IInv, TypeOK, Passes, Verdicts, Says, Reasons, Classes
  <2> QED BY <1>2, <2>2 DEF IInv, Walked, RefuseLeaf, Says
<1>3. CASE NoTokens
  <2>1. TypeOK' /\ MapExact' /\ OrderExact' /\ (Deduped => Deduped')
    BY <1>3, WalkKeeps DEF NoTokens, IInv, TypeOK, Passes
  <2>2. All(NoToken)
    BY <1>3, WalkEnds DEF NoTokens, IInv, Walked
  <2>3. All(NoToken)'
    BY <1>3, <2>2 DEF NoTokens, All, NoToken
  <2> QED BY <1>3, <2>1, <2>3 DEF IInv, Walked, NoTokens
<1>4. CASE HasRoot
  <2>1. TypeOK' /\ MapExact' /\ OrderExact' /\ (Deduped => Deduped')
    BY <1>4, WalkKeeps DEF HasRoot, IInv, TypeOK, Passes
  <2>2. All(NoToken)' /\ (Root \in Defined)'
    BY <1>4 DEF HasRoot, All, NoToken, Defined, IInv, Walked
  <2>3. Clean(Resolves, rule, leaf)'
    BY <1>4, ProductionsTyped DEF HasRoot, Clean, IInv, TypeOK
  <2> QED BY <1>4, <2>1, <2>2, <2>3 DEF IInv, Walked, HasRoot
<1>5. CASE RefuseRoot
  <2>1. TypeOK' /\ MapExact' /\ OrderExact'
    BY <1>5, WalkKeeps, RootAssumption
       DEF RefuseRoot, IInv, TypeOK, Passes, Verdicts, Says, Reasons, Classes
  <2> QED BY <1>5, <2>1 DEF IInv, Walked, RefuseRoot, Says
<1>6. CASE Accept
  <2>1. TypeOK' /\ MapExact' /\ OrderExact' /\ (Deduped => Deduped')
    BY <1>6, WalkKeeps, RootAssumption
       DEF Accept, IInv, TypeOK, Passes, Verdicts, Says, Reasons, Classes
  <2>2. All(NoToken) /\ Root \in Defined /\ All(Resolves) /\ Deduped
    BY <1>6, WalkEnds DEF Accept, IInv, Walked
  <2>3. All(NoToken)' /\ (Root \in Defined)' /\ All(Resolves)'
    BY <1>6, <2>2 DEF Accept, All, NoToken, Resolves, Defined
  <2> QED BY <1>6, <2>1, <2>2, <2>3 DEF IInv, Walked, Accept
<1> QED BY <1>1, <1>2, <1>3, <1>4, <1>5, <1>6

LEMMA StutterHolds == IInv /\ UNCHANGED vars => IInv'
BY DEF vars, IInv, TypeOK, MapExact, OrderExact, Walked, Deduped, Clean, All,
       NoToken, Resolves, Defined

LEMMA Invariance == Spec => []IInv
<1>1. IInv /\ [Next]_vars => IInv'
  BY CollectHolds, CollectedHolds, PassLeafHolds, NextProductionHolds, PassEndsHolds, StutterHolds
     DEF Next, Over
<1> QED BY <1>1, InitHolds, PTL DEF Spec

-----------------------------------------------------------------------------
\* Every variable stays in its type, whatever the parse yielded.
THEOREM ValidateTypes == Spec => []TypeOK
<1>1. IInv => TypeOK
  BY DEF IInv
<1> QED BY <1>1, Invariance, PTL

\* What is accepted is what parseGbnf promises the shared compiler.
LEMMA IInvCompilable == IInv => Compilable
<1> SUFFICES ASSUME IInv, verdict.reason = "accepted" PROVE Compilable
  BY DEF Compilable
<1>1. Deduped /\ All(NoToken) /\ Root \in Defined /\ All(Resolves)
  BY DEF IInv, Walked
<1>2. /\ taken = Len(raw) /\ Len(raw) \in Nat
      /\ DOMAIN raw = 1 .. Len(raw)
      /\ productions = [i \in DOMAIN order |-> raw[byName[order[i]]]]
      /\ DOMAIN productions = DOMAIN order
  BY <1>1, LenProperties DEF Deduped, IInv, TypeOK
<1>3. \A i \in DOMAIN order : order[i] \in Names /\ byName[order[i]] \in DOMAIN raw
  BY <1>2, DedupedTyped DEF IInv
<1>4. \A i \in DOMAIN order :
        /\ productions[i] = raw[byName[order[i]]]
        /\ productions[i].name = order[i]
  BY <1>2, <1>3 DEF IInv, OrderExact, MapExact
<1>5. \A i, j \in DOMAIN productions : productions[i].name = productions[j].name => i = j
  BY <1>2, <1>4 DEF IInv, OrderExact
<1>6. ASSUME NEW i \in DOMAIN productions
      PROVE  \E k \in InForce : productions[i] = raw[k]
  <2> DEFINE k == byName[order[i]]
  <2>1. k \in DOMAIN raw /\ raw[k].name = order[i] /\ order[i] \in Names
    BY <1>2, <1>3, <1>4
  <2>2. \A j \in DOMAIN raw : raw[j].name = order[i] => j <= k
    BY <1>2, <2>1 DEF IInv, MapExact
  <2>3. k \in InForce
    BY <1>2, <2>1, <2>2 DEF InForce
  <2> QED BY <1>2, <1>4, <2>3
<1>7. ASSUME NEW k \in DOMAIN raw PROVE raw[k].name \in Defined
  <2>1. raw[k].name \in Names
    BY <1>2, RawTyped DEF IInv
  <2>2. byName[raw[k].name] # 0
    BY <1>2, <2>1 DEF IInv, MapExact
  <2>3. PICK i \in DOMAIN order : order[i] = raw[k].name
    BY <2>1, <2>2 DEF IInv, OrderExact
  <2> QED BY <1>2, <1>4, <2>3 DEF Defined
<1>8. \A i \in DOMAIN productions : \A k \in DOMAIN productions[i].leaves :
        LET l == productions[i].leaves[k] IN
          l.kind # "tokterm" /\ (l.kind = "ref" => l.name \in Defined)
  BY <1>1 DEF All, NoToken, Resolves
<1> QED BY <1>1, <1>5, <1>6, <1>7, <1>8 DEF Compilable

\* A grammar that passes holds each rule once and as last defined, has a
\* root, is closed under reference and free of tokenizer-token terminals.
THEOREM AcceptedCompiles == Spec => []Compilable
BY Invariance, IInvCompilable, PTL

-----------------------------------------------------------------------------
(* The order of the rules, and which of them is blamed.                    *)

\* `First`, said of a position rather than chosen.
IsFirst(k, n) ==
  k \in DOMAIN raw /\ raw[k].name = n /\ \A j \in 1 .. k - 1 : raw[j].name # n

\* `order` follows the first definitions, of which one is behind every entry.
Placed ==
  /\ \A n \in Names : byName[n] # 0 => \E k \in 1 .. taken : IsFirst(k, n)
  /\ \A i, j \in DOMAIN order : \A k, l \in DOMAIN raw :
       i < j /\ IsFirst(k, order[i]) /\ IsFirst(l, order[j]) => k < l

\* A walk that stopped did so at the first leaf that is not Good.
Stopped(Good(_)) ==
  /\ rule \in DOMAIN productions /\ leaf \in DOMAIN productions[rule].leaves
  /\ ~Good(productions[rule].leaves[leaf])
  /\ Clean(Good, rule, leaf)
  /\ verdict.rule = productions[rule].name

Judged ==
  /\ pass \in {"tokens", "root", "refs"} => raw # << >>
  /\ pass = "over" =>
       \/ verdict.reason = "empty" /\ raw = << >>
       \/ /\ raw # << >> /\ Deduped
          /\ \/ verdict.reason = "token" /\ Stopped(NoToken)
             \/ All(NoToken) /\ verdict.reason = "root" /\ Root \notin Defined
             \/ /\ All(NoToken) /\ Root \in Defined
                /\ \/ verdict.reason = "undefined" /\ Stopped(Resolves)
                   \/ verdict.reason = "accepted" /\ All(Resolves)

VInv == IInv /\ Placed /\ Judged

LEMMA FirstUnique ==
  ASSUME TypeOK, NEW n, NEW k, NEW l, IsFirst(k, n), IsFirst(l, n)
  PROVE  k = l
<1>1. k \in Nat \ {0} /\ l \in Nat \ {0}
  BY LenProperties DEF TypeOK, IsFirst
<1>2. ~(k < l) /\ ~(l < k)
  BY <1>1 DEF IsFirst
<1> QED BY <1>1, <1>2

LEMMA FirstIs ==
  ASSUME TypeOK, NEW n, NEW k, IsFirst(k, n)
  PROVE  First(n) = k
<1>1. First(n) = CHOOSE i \in DOMAIN raw : IsFirst(i, n)
  BY DEF First, IsFirst
<1>2. IsFirst(First(n), n)
  BY <1>1 DEF IsFirst
<1> QED BY <1>2, FirstUnique

LEMMA CollectPlaces == IInv /\ Placed /\ Collect => Placed'
<1> SUFFICES ASSUME IInv, Placed, Collect PROVE Placed'
  OBVIOUS
<1> DEFINE name == raw[taken + 1].name
<1>0. /\ Len(raw) \in Nat /\ DOMAIN raw = 1 .. Len(raw)
      /\ taken \in Nat /\ taken + 1 \in 1 .. Len(raw) /\ taken' = taken + 1 /\ raw' = raw
  BY LenProperties DEF Collect, TypeOK, IInv
<1>1. name \in Names
  BY <1>0, RawTyped DEF IInv
<1>2. byName' = [byName EXCEPT ![name] = taken + 1] /\ byName \in [Names -> Nat]
      /\ order' = IF byName[name] = 0 THEN Append(order, name) ELSE order
  BY <1>0 DEF Collect, IInv, TypeOK
<1>3. \A k, n : IsFirst(k, n)' <=> IsFirst(k, n)
  BY <1>0 DEF IsFirst
<1>4. ASSUME byName[name] = 0 PROVE IsFirst(taken + 1, name)
  <2>1. \A j \in 1 .. taken : raw[j].name # name
    BY <1>1, <1>4 DEF IInv, MapExact
  <2>2. (taken + 1) - 1 = taken
    BY <1>0
  <2> QED BY <1>0, <2>1, <2>2 DEF IsFirst
<1>5. ASSUME NEW n \in Names, byName'[n] # 0
      PROVE  \E k \in 1 .. taken' : IsFirst(k, n)
  <2>1. CASE byName[n] # 0
    <3>1. PICK k \in 1 .. taken : IsFirst(k, n)
      BY <2>1 DEF Placed
    <3> QED BY <1>0, <3>1
  <2>2. CASE byName[n] = 0
    <3>1. n = name
      BY <1>2, <1>5, <2>2
    <3> QED BY <1>0, <1>4, <2>2, <3>1
  <2> QED BY <2>1, <2>2
<1>6. ASSUME NEW i \in DOMAIN order', NEW j \in DOMAIN order', NEW k \in DOMAIN raw, NEW l \in DOMAIN raw,
             i < j, IsFirst(k, order'[i]), IsFirst(l, order'[j])
      PROVE  k < l
  <2>1. CASE byName[name] # 0
    <3>1. order' = order
      BY <1>2, <2>1
    <3> QED BY <1>6, <3>1 DEF Placed
  <2>2. CASE byName[name] = 0
    <3>1. order' = Append(order, name)
      BY <1>2, <2>2
    <3>2. /\ DOMAIN order = 1 .. Len(order) /\ Len(order) \in Nat
          /\ DOMAIN order' = 1 .. Len(order) + 1
          /\ \A m \in 1 .. Len(order) : order'[m] = order[m] /\ order[m] \in Names
          /\ order'[Len(order) + 1] = name
      BY <1>1, <3>1, AppendProperties, LenProperties, ElementOfSeq DEF IInv, TypeOK
    <3>3. CASE j # Len(order) + 1
      <4>1. i \in DOMAIN order /\ j \in DOMAIN order /\ order'[i] = order[i] /\ order'[j] = order[j]
        BY <1>6, <3>2, <3>3
      <4> QED BY <1>6, <4>1 DEF Placed
    <3>4. CASE j = Len(order) + 1
      <4>1. i \in DOMAIN order /\ order'[i] = order[i] /\ order[i] \in Names
        BY <1>6, <3>2, <3>4
      <4>2. byName[order[i]] # 0
        BY <4>1 DEF IInv, OrderExact
      <4>3. PICK f \in 1 .. taken : IsFirst(f, order[i])
        BY <4>1, <4>2 DEF Placed
      <4>4. k = f
        BY <1>6, <4>1, <4>3, FirstUnique DEF IInv
      <4>5. l = taken + 1
        BY <1>4, <1>6, <2>2, <3>2, <3>4, FirstUnique DEF IInv
      <4> QED BY <1>0, <4>3, <4>4, <4>5
    <3> QED BY <3>3, <3>4
  <2> QED BY <2>1, <2>2
<1> QED BY <1>0, <1>3, <1>5, <1>6 DEF Placed

LEMMA PlacedHolds == IInv /\ Placed /\ [Next]_vars => Placed'
<1> SUFFICES ASSUME IInv, Placed, [Next]_vars PROVE Placed'
  OBVIOUS
<1>1. CASE Collect
  BY <1>1, CollectPlaces
<1>2. CASE UNCHANGED <<raw, taken, byName, order>>
  BY <1>2 DEF Placed, IsFirst
<1>3. Collect \/ UNCHANGED <<raw, taken, byName, order>>
  BY DEF Next, vars, NoProductions, Collected, PassLeaf, RefuseLeaf, NextProduction, NoTokens,
         HasRoot, RefuseRoot, Accept, Over
<1> QED BY <1>1, <1>2, <1>3

LEMMA JudgedHolds == IInv /\ Judged /\ [Next]_vars => Judged'
<1> SUFFICES ASSUME IInv, Judged, [Next]_vars PROVE Judged'
  OBVIOUS
<1> USE DEF Ends, Begins
<1>1. CASE NoProductions
  BY <1>1 DEF NoProductions, Judged, Says
<1>2. CASE Collect
  BY <1>2 DEF Collect, Judged
<1>3. CASE Collected
  BY <1>3 DEF Collected, Judged
<1>4. CASE PassLeaf \/ NextProduction
  BY <1>4 DEF PassLeaf, NextProduction, AtLeaf, Walking, Judged
<1>5. CASE RefuseLeaf
  <2> DEFINE l == productions[rule].leaves[leaf]
  <2>1. /\ rule \in DOMAIN productions /\ leaf \in DOMAIN productions[rule].leaves
        /\ productions[rule].name \in Names
    BY <1>5, ProductionsTyped DEF IInv, TypeOK, RefuseLeaf, AtLeaf
  <2>2. pass \in {"tokens", "refs"} /\ pass' = "over" /\ Offends(l)
        /\ verdict' = Says(IF pass = "tokens" THEN "token" ELSE "undefined",
                           "CompileError", productions[rule].name)
        /\ UNCHANGED <<port, raw, taken, byName, order, productions, rule, leaf>>
    BY <1>5 DEF RefuseLeaf, AtLeaf, Walking
  <2>3. raw' # << >> /\ Deduped'
    BY <2>2 DEF Judged, IInv, Walked, Deduped
  <2>4. CASE pass = "tokens"
    <3>1. ~NoToken(l) /\ Clean(NoToken, rule, leaf)
      BY <2>2, <2>4 DEF Offends, NoToken, IInv, Walked
    <3>2. Stopped(NoToken)'
      BY <2>1, <2>2, <3>1 DEF Stopped, Clean, NoToken, Says
    <3> QED BY <2>2, <2>3, <2>4, <3>2 DEF Judged, Says
  <2>5. CASE pass = "refs"
    <3>1. ~Resolves(l) /\ Clean(Resolves, rule, leaf) /\ All(NoToken) /\ Root \in Defined
      BY <2>2, <2>5 DEF Offends, Resolves, IInv, Walked
    <3>2. Defined' = Defined
      BY <2>2 DEF Defined
    <3>3. Stopped(Resolves)'
      BY <2>1, <2>2, <3>1, <3>2 DEF Stopped, Clean, Resolves, Says
    <3>4. All(NoToken)'
      BY <2>2, <3>1 DEF All, NoToken
    <3> QED BY <2>2, <2>3, <2>5, <3>1, <3>2, <3>3, <3>4 DEF Judged, Says
  <2> QED BY <2>2, <2>4, <2>5
<1>6. CASE NoTokens \/ HasRoot
  BY <1>6 DEF NoTokens, HasRoot, Judged
<1>7. CASE RefuseRoot
  <2>1. raw # << >> /\ Deduped /\ All(NoToken) /\ Root \notin Defined
    BY <1>7 DEF RefuseRoot, Judged, IInv, Walked
  <2>2. Deduped' /\ All(NoToken)' /\ (Root \notin Defined)'
    BY <1>7, <2>1 DEF RefuseRoot, Deduped, All, NoToken, Defined
  <2> QED BY <1>7, <2>1, <2>2 DEF RefuseRoot, Judged, Says
<1>8. CASE Accept
  <2>1. raw # << >> /\ Deduped /\ All(NoToken) /\ Root \in Defined /\ All(Resolves)
    BY <1>8, WalkEnds DEF Accept, Judged, IInv, Walked
  <2>2. Deduped' /\ All(NoToken)' /\ (Root \in Defined)' /\ All(Resolves)'
    BY <1>8, <2>1, SMTT(20) DEF Accept, Deduped, All, NoToken, Resolves, Defined
  <2> QED BY <1>8, <2>1, <2>2 DEF Accept, Judged, Says
<1>9. CASE UNCHANGED vars
  BY <1>9 DEF vars, Judged, Deduped, Stopped, All, Clean, NoToken, Resolves, Defined
<1> QED BY <1>1, <1>2, <1>3, <1>4, <1>5, <1>6, <1>7, <1>8, <1>9 DEF Next, Over

LEMMA VInvariance == Spec => []VInv
<1>1. Init => VInv
  <2> SUFFICES ASSUME Init PROVE VInv
    OBVIOUS
  <2>1. IInv BY InitHolds
  <2>2. (\A n \in Names : byName[n] = 0) /\ DOMAIN order = {}
    BY DEF Init
  <2>3. Placed BY <2>2 DEF Placed
  <2>4. Judged BY DEF Init, Judged
  <2> QED BY <2>1, <2>3, <2>4 DEF VInv
<1>2. VInv /\ [Next]_vars => VInv'
  BY CollectHolds, CollectedHolds, PassLeafHolds, NextProductionHolds, PassEndsHolds, StutterHolds,
     PlacedHolds, JudgedHolds DEF VInv, Next, Over
<1> QED BY <1>1, <1>2, PTL DEF Spec

\* Once dedupeProductions is done, the productions are the definitions in
\* force, in the order of the first definitions of their names.
LEMMA InForceInOrder ==
  ASSUME IInv, Placed, Deduped
  PROVE  /\ \A i \in DOMAIN productions : \E k \in InForce : productions[i] = raw[k]
         /\ \A k \in InForce : \E i \in DOMAIN productions : productions[i] = raw[k]
         /\ \A k \in DOMAIN raw : raw[k].name \in Defined
         /\ \A i, j \in DOMAIN productions :
              i < j => First(productions[i].name) < First(productions[j].name)
         /\ DOMAIN productions = 1 .. Len(productions) /\ Len(productions) \in Nat
         /\ \A i \in DOMAIN productions : First(productions[i].name) \in Nat
<1>1. /\ taken = Len(raw) /\ Len(raw) \in Nat
      /\ DOMAIN raw = 1 .. Len(raw)
      /\ productions = [i \in DOMAIN order |-> raw[byName[order[i]]]]
      /\ DOMAIN productions = DOMAIN order
  BY LenProperties DEF Deduped, IInv, TypeOK
<1>2. \A i \in DOMAIN order : order[i] \in Names /\ byName[order[i]] \in DOMAIN raw
  BY <1>1, DedupedTyped DEF IInv
<1>3. \A i \in DOMAIN order :
        /\ productions[i] = raw[byName[order[i]]]
        /\ productions[i].name = order[i]
  BY <1>1, <1>2 DEF IInv, OrderExact, MapExact
<1>4. \A n \in Names : byName[n] # 0 => byName[n] \in InForce
  <2> SUFFICES ASSUME NEW n \in Names, byName[n] # 0 PROVE byName[n] \in InForce
    OBVIOUS
  <2>1. byName[n] \in DOMAIN raw /\ raw[byName[n]].name = n
    BY <1>1 DEF IInv, TypeOK, MapExact
  <2>2. \A j \in DOMAIN raw : raw[j].name = n => j <= byName[n]
    BY <1>1 DEF IInv, MapExact
  <2> QED BY <1>1, <2>1, <2>2 DEF InForce
<1>5. ASSUME NEW i \in DOMAIN productions PROVE \E k \in InForce : productions[i] = raw[k]
  BY <1>1, <1>2, <1>3, <1>4
<1>6. ASSUME NEW k \in DOMAIN raw
      PROVE  \E i \in DOMAIN order : order[i] = raw[k].name /\ k <= byName[order[i]]
  <2>1. raw[k].name \in Names
    BY <1>1, RawTyped DEF IInv
  <2>2. byName[raw[k].name] # 0 /\ k <= byName[raw[k].name]
    BY <1>1, <2>1 DEF IInv, MapExact
  <2> QED BY <2>1, <2>2 DEF IInv, OrderExact
<1>7. ASSUME NEW k \in InForce PROVE \E i \in DOMAIN productions : productions[i] = raw[k]
  <2>1. k \in DOMAIN raw BY DEF InForce
  <2>2. PICK i \in DOMAIN order : order[i] = raw[k].name /\ k <= byName[order[i]]
    BY <1>6, <2>1
  <2>3. byName[order[i]] \in DOMAIN raw /\ raw[byName[order[i]]].name = raw[k].name
    BY <1>2, <1>3, <2>2
  <2>4. ~(byName[order[i]] > k)
    BY <2>3 DEF InForce
  <2>5. k = byName[order[i]]
    BY <1>1, <2>1, <2>2, <2>3, <2>4
  <2> QED BY <1>1, <1>3, <2>2, <2>5
<1>8. ASSUME NEW k \in DOMAIN raw PROVE raw[k].name \in Defined
  BY <1>1, <1>3, <1>6 DEF Defined
<1>9. ASSUME NEW i \in DOMAIN productions
      PROVE  \E k \in DOMAIN raw : IsFirst(k, order[i]) /\ First(productions[i].name) = k
  <2>1. order[i] \in Names /\ byName[order[i]] # 0
    BY <1>1, <1>2
  <2>2. PICK k \in 1 .. taken : IsFirst(k, order[i])
    BY <2>1 DEF Placed
  <2> QED BY <1>1, <1>3, <2>2, FirstIs DEF IInv
<1>10. ASSUME NEW i \in DOMAIN productions, NEW j \in DOMAIN productions, i < j
       PROVE  First(productions[i].name) < First(productions[j].name)
  BY <1>1, <1>9, <1>10 DEF Placed
<1>11. DOMAIN productions = 1 .. Len(productions) /\ Len(productions) \in Nat
  BY LenProperties DEF IInv, TypeOK
<1>12. \A i \in DOMAIN productions : First(productions[i].name) \in Nat
  BY <1>1, <1>9
<1> QED BY <1>5, <1>7, <1>8, <1>10, <1>11, <1>12

\* The rule a walk stopped in is the one to be blamed.
LEMMA StoppedBlames ==
  ASSUME NEW offenders, NEW r \in DOMAIN productions,
         IInv, Placed, Deduped,
         productions[r].name \in offenders,
         \A m \in offenders : \E i \in DOMAIN productions : productions[i].name = m /\ r <= i
  PROVE  productions[r].name = CHOOSE n \in offenders : \A m \in offenders : First(n) <= First(m)
<1> DEFINE b == productions[r].name
<1>1. /\ \A i, j \in DOMAIN productions :
            i < j => First(productions[i].name) < First(productions[j].name)
      /\ DOMAIN productions = 1 .. Len(productions) /\ Len(productions) \in Nat
      /\ \A i \in DOMAIN productions : First(productions[i].name) \in Nat
  BY InForceInOrder
<1>2. ASSUME NEW m \in offenders PROVE First(b) <= First(m) /\ (m # b => First(b) < First(m))
  <2>1. PICK i \in DOMAIN productions : productions[i].name = m /\ r <= i
    OBVIOUS
  <2>2. i = r \/ r < i
    BY <1>1, <2>1
  <2> QED BY <1>1, <2>1, <2>2
<1>3. \A n \in offenders : (\A m \in offenders : First(n) <= First(m)) => n = b
  <2> SUFFICES ASSUME NEW n \in offenders, \A m \in offenders : First(n) <= First(m), n # b
               PROVE  FALSE
    OBVIOUS
  <2>1. First(n) <= First(b) /\ First(b) < First(n)
    BY <1>2
  <2>2. First(n) \in Nat /\ First(b) \in Nat
    BY <1>1
  <2> QED BY <2>1, <2>2
<1> QED BY <1>2, <1>3

LEMMA VInvVerdict == VInv => VerdictExact
<1> SUFFICES ASSUME VInv, pass = "over" PROVE VerdictExact
  BY DEF VerdictExact
<1> USE DEF VInv
<1>1. CASE verdict.reason = "empty" /\ raw = << >>
  BY <1>1 DEF VerdictExact
<1>2. CASE raw # << >> /\ Deduped
  <2>1. /\ \A i \in DOMAIN productions : \E k \in InForce : productions[i] = raw[k]
        /\ \A k \in InForce : \E i \in DOMAIN productions : productions[i] = raw[k]
        /\ \A k \in DOMAIN raw : raw[k].name \in Defined
        /\ DOMAIN productions = 1 .. Len(productions) /\ Len(productions) \in Nat
    BY <1>2, InForceInOrder
  <2>2. /\ DOMAIN raw = 1 .. Len(raw) /\ InForce \subseteq DOMAIN raw
        /\ \A k \in DOMAIN raw : raw[k].leaves \in Seq(Leaves)
    <3>1. \A k \in 1 .. Len(raw) : raw[k] \in Productions
      BY RawTyped DEF IInv
    <3>2. DOMAIN raw = 1 .. Len(raw)
      BY LenProperties DEF IInv, TypeOK
    <3> QED BY <3>1, <3>2 DEF Productions, InForce
  <2>3. Defined = {raw[k].name : k \in DOMAIN raw}
    <3>1. \A k \in DOMAIN raw : raw[k].name \in Defined
      BY <2>1
    <3>2. ASSUME NEW i \in DOMAIN productions
          PROVE  productions[i].name \in {raw[k].name : k \in DOMAIN raw}
      <4>1. PICK k \in InForce : productions[i] = raw[k]
        BY <2>1
      <4> QED BY <4>1, <2>2
    <3>3. Defined \subseteq {raw[k].name : k \in DOMAIN raw}
      BY <3>2 DEF Defined
    <3> QED BY <3>1, <3>3
  \* What is wrong with a leaf, said of the productions and of the source.
  <2>4. \A l : (IsToken(l) <=> ~NoToken(l)) /\ (Dangling(l) <=> ~Resolves(l))
    BY <2>3 DEF IsToken, NoToken, Dangling, Resolves
  <2>5. (\E i \in InForce : HasLeaf(i, IsToken)) <=> ~All(NoToken)
    BY <2>1, <2>4 DEF HasLeaf, All
  <2>6. (\E i \in InForce : HasLeaf(i, Dangling)) <=> ~All(Resolves)
    BY <2>1, <2>4 DEF HasLeaf, All
  <2>7. ASSUME Stopped(NoToken) PROVE verdict.rule = Blamed(IsToken)
    <3> DEFINE offenders == {raw[i].name : i \in {j \in InForce : HasLeaf(j, IsToken)}}
    <3>1. rule \in DOMAIN productions /\ leaf \in DOMAIN productions[rule].leaves
          /\ ~NoToken(productions[rule].leaves[leaf]) /\ Clean(NoToken, rule, leaf)
          /\ verdict.rule = productions[rule].name
      BY <2>7 DEF Stopped
    <3>2. productions[rule].name \in offenders
      <4>1. PICK k \in InForce : productions[rule] = raw[k]
        BY <2>1, <3>1
      <4>2. HasLeaf(k, IsToken)
        BY <2>4, <3>1, <4>1 DEF HasLeaf
      <4> QED BY <4>1, <4>2
    <3>3. ASSUME NEW m \in offenders
          PROVE  \E i \in DOMAIN productions : productions[i].name = m /\ rule <= i
      <4>1. PICK k \in InForce : HasLeaf(k, IsToken) /\ m = raw[k].name
        OBVIOUS
      <4>2. PICK i \in DOMAIN productions : productions[i] = raw[k]
        BY <2>1
      <4>3. \E n \in DOMAIN productions[i].leaves : ~NoToken(productions[i].leaves[n])
        BY <2>4, <4>1, <4>2 DEF HasLeaf
      <4>4. ~(i < rule)
        BY <3>1, <4>3 DEF Clean
      <4>5. i \in Nat /\ rule \in Nat
        BY <2>1 DEF IInv, TypeOK
      <4> QED BY <4>1, <4>2, <4>4, <4>5
    <3>4. verdict.rule = CHOOSE n \in offenders : \A m \in offenders : First(n) <= First(m)
      <4> HIDE DEF offenders
      <4> QED BY <1>2, <3>1, <3>2, <3>3, StoppedBlames
    <3> QED BY <3>4 DEF Blamed
  <2>8. ASSUME Stopped(Resolves) PROVE verdict.rule = Blamed(Dangling)
    <3> DEFINE offenders == {raw[i].name : i \in {j \in InForce : HasLeaf(j, Dangling)}}
    <3>1. rule \in DOMAIN productions /\ leaf \in DOMAIN productions[rule].leaves
          /\ ~Resolves(productions[rule].leaves[leaf]) /\ Clean(Resolves, rule, leaf)
          /\ verdict.rule = productions[rule].name
      BY <2>8 DEF Stopped
    <3>2. productions[rule].name \in offenders
      <4>1. PICK k \in InForce : productions[rule] = raw[k]
        BY <2>1, <3>1
      <4>2. HasLeaf(k, Dangling)
        BY <2>4, <3>1, <4>1 DEF HasLeaf
      <4> QED BY <4>1, <4>2
    <3>3. ASSUME NEW m \in offenders
          PROVE  \E i \in DOMAIN productions : productions[i].name = m /\ rule <= i
      <4>1. PICK k \in InForce : HasLeaf(k, Dangling) /\ m = raw[k].name
        OBVIOUS
      <4>2. PICK i \in DOMAIN productions : productions[i] = raw[k]
        BY <2>1
      <4>3. \E n \in DOMAIN productions[i].leaves : ~Resolves(productions[i].leaves[n])
        BY <2>4, <4>1, <4>2 DEF HasLeaf
      <4>4. ~(i < rule)
        BY <3>1, <4>3 DEF Clean
      <4>5. i \in Nat /\ rule \in Nat
        BY <2>1 DEF IInv, TypeOK
      <4> QED BY <4>1, <4>2, <4>4, <4>5
    <3>4. verdict.rule = CHOOSE n \in offenders : \A m \in offenders : First(n) <= First(m)
      <4> HIDE DEF offenders
      <4> QED BY <1>2, <3>1, <3>2, <3>3, StoppedBlames
    <3> QED BY <3>4 DEF Blamed
  <2>9. (\A i \in DOMAIN raw : raw[i].name # Root) <=> Root \notin Defined
    BY <2>3
  <2>10. Stopped(NoToken) => ~All(NoToken)
    BY DEF Stopped, All
  <2>11. Stopped(Resolves) => ~All(Resolves)
    BY DEF Stopped, All
  <2>12. CASE verdict.reason = "token" /\ Stopped(NoToken)
    BY <1>2, <2>5, <2>7, <2>10, <2>12 DEF VerdictExact
  <2>13. CASE All(NoToken) /\ verdict.reason = "root" /\ Root \notin Defined
    BY <1>2, <2>5, <2>9, <2>13 DEF VerdictExact
  <2>14. CASE All(NoToken) /\ Root \in Defined /\ verdict.reason = "undefined" /\ Stopped(Resolves)
    BY <1>2, <2>5, <2>6, <2>8, <2>9, <2>11, <2>14 DEF VerdictExact
  <2>15. CASE All(NoToken) /\ Root \in Defined /\ verdict.reason = "accepted" /\ All(Resolves)
    BY <1>2, <2>5, <2>6, <2>9, <2>15 DEF VerdictExact
  <2> QED BY <1>2, <2>12, <2>13, <2>14, <2>15 DEF Judged
<1> QED BY <1>1, <1>2 DEF Judged

\* Whatever the productions, and in whatever order, a refusal is the one the
\* order of the passes calls for and names the first rule at fault among the
\* definitions in force; a definition that was replaced has no part in it.
THEOREM VerdictsExact == Spec => []VerdictExact
BY VInvariance, VInvVerdict, PTL

\* A redefinition never moves a rule: dedupeProductions keeps the order of
\* the first definitions until the compiler sees the rules.
THEOREM RulesInOrder == Spec => []OrderKept
<1>1. VInv => OrderKept
  <2> SUFFICES ASSUME VInv, pass \in {"tokens", "root", "refs"} PROVE OrderKept
    BY DEF OrderKept
  <2>1. Deduped
    BY DEF VInv, IInv, Walked
  <2> QED BY <2>1, InForceInOrder DEF VInv, OrderKept
<1> QED BY <1>1, VInvariance, PTL
=============================================================================

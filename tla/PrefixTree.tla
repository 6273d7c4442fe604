----------------------------- MODULE PrefixTree -----------------------------
(* sfa/util/prefixTree.py: the names of the known registries in a tree, to   *)
(* find the one whose name begins a given name.  A name is the sequence of   *)
(* its characters; parts are separated by dots, which the search ignores.    *)
EXTENDS Integers, Sequences, SequencesExt

PrefixNode(prefix) == [prefix |-> prefix, children |-> <<>>]

\* The names of the authorities above a name, from the top.
Ancestors(name) ==
  LET dots == SetToSortSeq({i \in DOMAIN name : name[i] = "."}, LAMBDA i, j : i < j)
  IN  [k \in DOMAIN dots |-> SubSeq(name, 1, dots[k] - 1)]

\* The children whose prefix begins a name, of which a search follows the first.
Matching(node, name) == {i \in DOMAIN node.children : IsPrefix(node.children[i].prefix, name)}
First(S) == CHOOSE i \in S : \A j \in S : i <= j

RECURSIVE InsertBelow(_, _), IsIn(_, _), BestMatch(_, _)

InsertBelow(node, prefix) ==
  LET matching == Matching(node, prefix)
  IN  IF prefix = node.prefix THEN node
      ELSE IF matching = {} THEN [node EXCEPT !.children = Append(@, PrefixNode(prefix))]
      ELSE [node EXCEPT !.children =
              [i \in DOMAIN @ |-> IF i \in matching THEN InsertBelow(@[i], prefix) ELSE @[i]]]

IsIn(node, prefix) ==
  LET matching == Matching(node, prefix)
  IN  \/ node.prefix = prefix
      \/ matching # {} /\ IsIn(node.children[First(matching)], prefix)

\* A name gets into the tree after those of the authorities above it.
Insert(tree, prefix) ==
  LET Missing(t, name) == IF IsIn(t, name) THEN t ELSE InsertBelow(t, name)
  IN  InsertBelow(FoldLeft(Missing, tree, Ancestors(prefix)), prefix)

Load(prefixes) == FoldLeft(Insert, PrefixNode(<<>>), prefixes)

FirstMatch(node, name) ==
  LET matching == Matching(node, name)
  IN  IF matching = {} THEN node.prefix ELSE node.children[First(matching)].prefix
BestMatch(node, name) ==
  LET matching == Matching(node, name)
  IN  IF matching = {} THEN node.prefix ELSE BestMatch(node.children[First(matching)], name)
=============================================================================

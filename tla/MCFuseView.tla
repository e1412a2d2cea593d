----------------------------- MODULE MCFuseView -----------------------------
(* Instances of FuseView small enough for TLC.  Names are strings so that a  *)
(* folding can be written down: "N" and "n" are alike where one is used.     *)
EXTENDS FuseView, TLC

Symmetry == Permutations(Ids)

Tree(prefix) == [form |-> "tree", prefix |-> prefix, leaf |-> {}]
Static(prefix) == [form |-> "static", prefix |-> prefix, leaf |-> {}]
Splat(prefix, leaf) == [form |-> "splat", prefix |-> prefix, leaf |-> leaf]

\* Everything under a/ may be written, but for a/b; b itself is hidden.
TwoNames == {"a", "b"}
Exact == [n \in TwoNames |-> n]
UnderA == {Tree(<<{"a"}>>)}
ButAB == {Static(<<{"a"}, {"b"}>>)}

\* Everything may be written but what is called n, on a filesystem that folds N to n.
FoldedNames == {"n", "N"}
Folding == [m \in FoldedNames |-> "n"]
Everything == {Tree(<<>>)}
ButN == {Tree(<<{"n"}>>)}
Nothing == {}

Edits == {"make", "remove", "link"}
Meddles == Edits \union {"move"}
Churn == {"make", "remove"}
=============================================================================

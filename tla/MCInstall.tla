------------------------------ MODULE MCInstall ------------------------------
(* /a/b and /a-b share a bucket; both lie in /.                             *)
EXTENDS Install, TLC

RootsMC == {"/a/b", "/a-b", "/"}
MungeMC == "/a/b" :> "-a-b" @@ "/a-b" :> "-a-b" @@ "/" :> "-"
AboveMC == [r \in RootsMC |-> IF r = "/" THEN <<r>> ELSE <<r, "/">>]

Uses(c, pin) == [checker |-> c, pin |-> pin]
Ruleset(checks, apply) == [checks |-> checks, apply |-> apply]
Policy(root, checks, apply, base) ==
    [checks |-> checks, apply |-> apply, root |-> root, base |-> base]

\* GitPack pins the installed checker 1 and brings checker 2; NewPack replaces checker 1 and
\* the ruleset 3; the rulesets of LoopPack apply each other.
GitPack == [checkers |-> 2 :> "v1",
            rulesets |-> 2 :> Ruleset(<<Uses(1, "v1")>>, <<3>>) @@ 3 :> Ruleset(<<Uses(2, None)>>, <<>>)]
NewPack == [checkers |-> 1 :> "v2", rulesets |-> 3 :> Ruleset(<<Uses(1, None)>>, <<>>)]
LoopPack == [checkers |-> <<>>, rulesets |-> 2 :> Ruleset(<<>>, <<3>>) @@ 3 :> Ruleset(<<>>, <<2>>)]
\* BasePack brings the base ruleset and one it applies, which sorts behind it.
BasePack == [checkers |-> <<>>, rulesets |-> 1 :> Ruleset(<<>>, <<2>>) @@ 2 :> Ruleset(<<>>, <<>>)]

PacksMC == {GitPack, NewPack, LoopPack, BasePack}
PoliciesMC == {Policy("/a/b", <<>>, <<2>>, FALSE),
               Policy("/a/b", <<Uses(1, "v1"), Uses(2, None)>>, <<>>, TRUE),
               Policy("/a-b", <<>>, <<3>>, TRUE)}

Tree(checkers, rulesets, policies) ==
    [checkers |-> checkers @@ [c \in Checkers |-> None],
     rulesets |-> rulesets @@ [r \in Rulesets |-> None],
     policies |-> policies @@ [f \in Targets |-> None]]

\* A checker, and a policy that pins it and has a base, of which there is none yet.
TreeMC == Tree(1 :> "v1", <<>>, <<"-a-b", "p">> :> Policy("/a/b", <<Uses(1, "v1")>>, <<>>, TRUE))
=============================================================================

------------------------------ MODULE ViewLease ------------------------------
(***************************************************************************)
(* What the view daemon's protocol promises, with every file, process and  *)
(* mount taken away (the docstring of viewdaemon.py, lines 18-24): a view  *)
(* is shared by the runs holding a lease, a daemon retires only when no    *)
(* run does, and nobody is granted a lease while one is retiring.          *)
(***************************************************************************)
CONSTANT Runs

VARIABLES
    holders,    \* the runs holding the view's lease
    retiring    \* is a daemon on its way out by its own decision?

vars == <<holders, retiring>>

Init == holders = {} /\ retiring = FALSE

Grant(r) ==
    /\ ~retiring
    /\ holders' = holders \union {r}
    /\ UNCHANGED retiring

\* A lease ends with its run: closed, or released by the kernel when the run dies.
Release(r) ==
    /\ holders' = holders \ {r}
    /\ UNCHANGED retiring

BeginRetire ==
    /\ holders = {}
    /\ ~retiring
    /\ retiring' = TRUE
    /\ UNCHANGED holders

EndRetire ==
    /\ retiring
    /\ retiring' = FALSE
    /\ UNCHANGED holders

Next ==
    \/ \E r \in Runs : Grant(r) \/ Release(r)
    \/ BeginRetire
    \/ EndRetire

Spec == Init /\ [][Next]_vars
=============================================================================

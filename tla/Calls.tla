-------------------------------- MODULE Calls --------------------------------
(***************************************************************************)
(* What the broker's channel promises the program (broker.py, lines 17-22):*)
(* one call at a time, taken up by the host at most once, and every answer *)
(* is the answer to the call that waits for it.                            *)
(***************************************************************************)
EXTENDS Naturals

VARIABLES
    asked,     \* how many calls the program has made
    taken,     \* the last one the host took up
    answered   \* the last one the program has an answer to

vars == <<asked, taken, answered>>

Init == asked = 0 /\ taken = 0 /\ answered = 0

Ask ==
    /\ answered = asked
    /\ asked' = asked + 1
    /\ UNCHANGED <<taken, answered>>

Take ==
    /\ taken < asked
    /\ taken' = taken + 1
    /\ UNCHANGED <<asked, answered>>

Answer ==
    /\ taken = asked
    /\ answered < asked
    /\ answered' = asked
    /\ UNCHANGED <<asked, taken>>

Next == Ask \/ Take \/ Answer

Spec == Init /\ [][Next]_vars
=============================================================================

----------------------------- MODULE TokenChain -----------------------------
(***************************************************************************)
(* What a refresh token promises: it is current at most once, it is        *)
(* exchanged at most once, for one new token, and a token whose session    *)
(* was ended is never exchanged.  Identity implements it.                  *)
(***************************************************************************)
CONSTANT Tokens

VARIABLE life   \* "unused", "current", "exchanged" or "ended"

Init == life = [t \in Tokens |-> "unused"]

\* A login makes one token current.
Issue(t) == life[t] = "unused" /\ life' = [life EXCEPT ![t] = "current"]

\* A refresh gives one current token for one unused one.
Exchange(t, u) ==
    /\ life[t] = "current" /\ life[u] = "unused"
    /\ life' = [life EXCEPT ![t] = "exchanged", ![u] = "current"]

\* A logout or a detected reuse ends any number of current tokens.
End(T) ==
    /\ \A t \in T : life[t] = "current"
    /\ life' = [t \in Tokens |-> IF t \in T THEN "ended" ELSE life[t]]

Next == \/ \E t \in Tokens : Issue(t)
        \/ \E t, u \in Tokens : Exchange(t, u)
        \/ \E T \in SUBSET Tokens : End(T)

Spec == Init /\ [][Next]_life
=============================================================================

--------------------------- MODULE TokenRotation ---------------------------
(***************************************************************************)
(* What user-service promises about refresh tokens, whatever the            *)
(* transactions of its calls read and lock between each other's statements, *)
(* and whether or not anybody waits for the answer: a login puts one token  *)
(* into the table, a refresh replaces the very token that it was sent by a  *)
(* newer one of the same login, at one moment, and a call that is refused   *)
(* changes nothing.  Tokens of a login only become newer, so that none is   *)
(* exchanged twice.                                                         *)
(***************************************************************************)
EXTENDS Naturals

CONSTANTS Call, Login, Token

VARIABLES
    tokens, \* tokens[l]: the tokens of login l that are in the table
    stage,  \* stage[k]: what has become of call k
    old,    \* old[k]: the token that it was sent with, 0 for a login
    got     \* got[k]: the token that it was granted, 0 if none

rotationVars == <<stage, tokens, old, got>>

Init ==
    /\ tokens = [l \in Login |-> {}]
    /\ stage = [k \in Call |-> "none"]
    /\ got = [k \in Call |-> 0]

\* Only the call that takes a step asks for something else, or is granted something.
OthersStay(k) ==
    \A j \in Call \ {k} : old'[j] = old[j] /\ got'[j] = got[j]

Ask(k) ==
    /\ stage[k] = "none" /\ stage' = [stage EXCEPT ![k] = "asked"]
    /\ OthersStay(k) /\ got'[k] = 0
    /\ UNCHANGED tokens

\* The call is granted token n, which is now the one of login l.
Grant(k, l, n) ==
    /\ stage' = [stage EXCEPT ![k] = "granted"]
    /\ tokens' = [tokens EXCEPT ![l] = {n}]
    /\ got' = [got EXCEPT ![k] = n]
    /\ UNCHANGED old

\* The first token of a login has its number.
Open(k) ==
    /\ stage[k] = "asked" /\ old[k] = 0
    /\ \E l \in Login : tokens[l] = {} /\ Grant(k, l, l)

Exchange(k) ==
    /\ stage[k] = "asked" /\ old[k] # 0
    /\ \E l \in Login, n \in Token : tokens[l] = {old[k]} /\ n > old[k] /\ Grant(k, l, n)

Refuse(k) ==
    /\ stage[k] = "asked" /\ stage' = [stage EXCEPT ![k] = "refused"]
    /\ UNCHANGED <<tokens, old, got>>

\* The answer is read, or nobody is left to read it.
End(k) ==
    /\ stage[k] \in {"granted", "refused"} /\ stage' = [stage EXCEPT ![k] = "none"]
    /\ OthersStay(k) /\ got'[k] = 0
    /\ UNCHANGED tokens

\* Every step moves one call on.
Step(k) == Ask(k) \/ Open(k) \/ Exchange(k) \/ Refuse(k) \/ End(k)
Next == \E k \in Call : stage'[k] # stage[k] /\ Step(k)

Spec == Init /\ [][Next]_rotationVars
=============================================================================

----------------------------- MODULE ExactlyOnce -----------------------------
(***************************************************************************)
(* What an Idempotency-Key promises (ARCHITECTURE.md, section 11): a key   *)
(* stands for at most one committed operation, for ever.                   *)
(***************************************************************************)
CONSTANT Key
VARIABLE effects    \* the operations committed under each key

Init == effects = [k \in Key |-> {}]

IsSingleton(S) == \E e \in S : S = {e}

Perform(k) ==
    /\ effects[k] = {}
    /\ IsSingleton(effects'[k])
    /\ effects' = [effects EXCEPT ![k] = effects'[k]]

Next == \E k \in Key : Perform(k)

Spec == Init /\ [][Next]_effects
=============================================================================

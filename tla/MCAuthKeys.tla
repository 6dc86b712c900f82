----------------------------- MODULE MCAuthKeys -----------------------------
(* Two static keys, three API keys and colliding hashes, for TLC. *)
EXTENDS AuthKeys, TLC

CONSTANTS s1, s2, k1, k2, k3, c1, c2, a1, a2

SmallConfigs ==
    {[keys |-> <<>>, tokens |-> <<"old">>],
     [keys |-> <<s1, s2>>, tokens |-> <<"new", "old">>]}

\* A static key collides with an API key and two static keys collide.
SmallHash == s1 :> 1 @@ s2 :> 1 @@ k1 :> 1 @@ k2 :> 2 @@ k3 :> 3

OneAddress == c1 :> "ip" @@ c2 :> "ip"

Symmetry == Permutations({c1, c2}) \cup Permutations({a1, a2})

=============================================================================

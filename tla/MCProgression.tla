--------------------------- MODULE MCProgression ---------------------------
(* An ungated and a gated phase, then a curriculum that adds a requirement *)
(* to the first, retires its step and moves it to the second phase.        *)
EXTENDS Progression

Old == [phases |-> {3, 4},
        topics |-> (3 :> <<{}, {"s1"}>>) @@ (4 :> <<{"s2"}>>),
        requirements |-> (3 :> {"a"}) @@ (4 :> {"c"})]
New == [phases |-> {3, 4},
        topics |-> (3 :> <<{}>>) @@ (4 :> <<{"s1"}, {"s2"}>>),
        requirements |-> (3 :> {"a", "b"}) @@ (4 :> {"c"})]
OldAndNew == {Old, New}

(* For the community page, which has no steps: the requirement moves to    *)
(* another phase and becomes another one.                                  *)
Before == [phases |-> {0, 1},
           topics |-> [p \in {0, 1} |-> <<>>],
           requirements |-> (0 :> {"a"}) @@ (1 :> {})]
After == [Before EXCEPT !.requirements = (0 :> {}) @@ (1 :> {"b"})]
BeforeAndAfter == {Before, After}

Users == Permutations(User)
=============================================================================

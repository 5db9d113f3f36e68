------------------------ MODULE MCBackstopEmissions ------------------------
(***************************************************************************)
(* Values for the constants of BackstopEmissions that a .cfg cannot write. *)
(***************************************************************************)
EXTENDS BackstopEmissions, TLC

CONSTANTS p1, p2, u, v, w

(* u and v share a pool, whose shares come and go; w has another for       *)
(* itself, whose three shares stay there and do not divide the scalar.     *)
SomeDepositors == (p1 :> {u, v}) @@ (p2 :> {w})
SomeActive     == (p1 :> {u, v}) @@ (p2 :> {})
SomeFounding   == (p1 :> [x \in {u, v} |-> 0]) @@ (p2 :> [x \in {w} |-> 3])

(* u and v are alike.                                                      *)
Symmetry == Permutations({u, v})

(* The two cases of PaidForWhatWasDeposited.                               *)
ASSUME SharesComeOutEven(p1) /\ ~SharesComeOutEven(p2)
=============================================================================

----------------------------- MODULE MCSegQueue -----------------------------
(* Producers and consumers on blocks of two values.                        *)
EXTENDS SegQueue

CONSTANTS p1, p2, c1, c2

MCMenu == p1 :> {"push"} @@ p2 :> {"push"}
          @@ c1 :> {"pop", "len"} @@ c2 :> {"pop_final", "is_empty"}

MCCalls == p1 :> 3 @@ p2 :> 1 @@ c1 :> 3 @@ c2 :> 1

(* Two consumers empty a block and go on to the next; two producers cross  *)
(* from one block to the next beside a consumer; one consumer follows one  *)
(* producer into the second block.                                         *)
MCStarts == {p1 :> 0 @@ p2 :> 1 @@ c1 :> 1 @@ c2 :> 0,
             p1 :> 1 @@ p2 :> 0 @@ c1 :> 2 @@ c2 :> 1,
             p1 :> 0 @@ p2 :> 1 @@ c1 :> 0 @@ c2 :> 1}
=============================================================================

--------------------------- MODULE MCBoundedQueue ---------------------------
(* Two producers and two consumers; the single sides of a flavour make all *)
(* their calls from one thread.                                            *)
EXTENDS BoundedQueue

CONSTANTS p1, p2, c1, c2

MCMenu == [f \in Flavors |->
  CASE f \in {"one", "array"} ->
         p1 :> {"push"} @@ p2 :> {"push", "oneshot", "is_full"}
         @@ c1 :> {"pop"} @@ c2 :> {"pop", "is_empty", "len"}
    [] f \in {"one_mpsc", "array_mpsc"} ->
         p1 :> {"push"} @@ p2 :> {"push", "oneshot"}
         @@ c1 :> {"pop", "pop_cached", "len"} @@ c2 :> {}
    [] OTHER ->
         p1 :> {"push", "is_full"} @@ p2 :> {}
         @@ c1 :> {"pop", "pop_cached", "is_empty", "len"} @@ c2 :> {}]

MCCalls == [f \in Flavors |->
  CASE f \in {"one", "array"} -> p1 :> 2 @@ p2 :> 1 @@ c1 :> 1 @@ c2 :> 1
    [] f \in {"one_mpsc", "array_mpsc"} -> p1 :> 2 @@ p2 :> 1 @@ c1 :> 3 @@ c2 :> 0
    [] OTHER -> p1 :> 4 @@ p2 :> 0 @@ c1 :> 3 @@ c2 :> 0]
=============================================================================

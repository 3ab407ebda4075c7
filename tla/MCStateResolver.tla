-------------------------- MODULE MCStateResolver --------------------------
(* The finalized chain a <- e <- b, where e is empty, and a full candidate x on
   top of a that is not finalized. *)
EXTENDS StateResolver, TLC

CONSTANTS a, e, b, x

MCparent == a :> Genesis @@ e :> a @@ b :> e @@ x :> a
MCblock == a :> a @@ e :> a @@ b :> b @@ x :> x
MCslot == a :> 0 @@ e :> 1 @@ x :> 1 @@ b :> 2
MCorder == Genesis :> 0 @@ a :> 1 @@ x :> 2 @@ b :> 3 @@ e :> 1

=============================================================================

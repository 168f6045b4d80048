------------------------------- MODULE Slices -------------------------------
(***************************************************************************)
(* equal_slice: the n elements of a file dealt to p ranks in their order.  *)
(***************************************************************************)
EXTENDS Integers

(* Mutant: the offsets forget the elements that earlier ranks have more. *)
SliceOffsetEven(n, r, p) == r * (n \div p)
(* The first n % p ranks have one more than the others. *)
SliceOffset(n, r, p) == r * (n \div p) + IF r < n % p THEN r ELSE n % p
SliceCount(n, r, p) == n \div p + IF r < n % p THEN 1 ELSE 0
=============================================================================

-------------------------------- MODULE Sums --------------------------------
(***************************************************************************)
(* The total of a table of amounts: what the code adds up over the records *)
(* of a payment, the lines of a cart or the orders that hold a product.    *)
(***************************************************************************)
EXTENDS Integers, Functions

Plus(a, b) == a + b
Sum(f) == FoldFunction(Plus, 0, f)
=============================================================================

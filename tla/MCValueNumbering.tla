--------------------------- MODULE MCValueNumbering ---------------------------
(* The operands of the multiplication, and the arguments of the loop. *)
EXTENDS ValueNumbering

FourOperands == {<<4, 1>>, <<5, 1>>, <<4, 4>>, <<4, 5>>}
SomeInputs == {<<2, 5>>, <<0, 1>>}
=============================================================================

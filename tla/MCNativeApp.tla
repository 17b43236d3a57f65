---------------------------- MODULE MCNativeApp ----------------------------
(* Boards of two or three cells in a row, two in a row win. *)
EXTENDS NativeApp

CONSTANTS a, b, c, first, second

RowOfThree == {{a, b}, {b, c}}


OneOpening == {<<>>, <<b>>}
OneRecord == {<<a>>, <<a, a>>}

OneBook == {[config |-> second, evaluator |-> Pattern]}
=============================================================================

------------------------------ MODULE Nothing ------------------------------
(***************************************************************************)
(* The value that stands for nothing in the modules of the browser: null   *)
(* or undefined, an empty cookie jar, a form that is not mounted.          *)
(***************************************************************************)
CONSTANT None
=============================================================================

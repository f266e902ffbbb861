----------------------------- MODULE MCConsole ------------------------------
(* The page and the numbers that TLC explores. *)
EXTENDS Console

CONSTANTS a, b

Digits == {<<a>>, <<b, a>>, <<b, a, b>>}
=============================================================================

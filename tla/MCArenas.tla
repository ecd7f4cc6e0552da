------------------------------ MODULE MCArenas ------------------------------
(***************************************************************************)
(* The arenas that TLC explores, and the values their inputs are made of.  *)
(***************************************************************************)
EXTENDS Arenas, TLC

CONSTANTS a, b, c, d,       \* four teams, or members of a team
          k1, k2,           \* two classes
          x, y              \* two elements, two choices of an answer
=============================================================================

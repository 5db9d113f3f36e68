---------------------------- MODULE FixedPoint ----------------------------
(***************************************************************************)
(* Fixed point arithmetic as the contracts use it.  It stands for the      *)
(* library soroban_fixed_point_math, which multiplies before it divides    *)
(* and rounds the quotient down (floor) or up (ceil).  A scalar s is the   *)
(* representation of 1.                                                    *)
(***************************************************************************)
EXTENDS Integers

FloorDiv(n, d) == n \div d

CeilDiv(n, d) == -((-n) \div d)

(* x * y / s: the product of a number x and a ratio y of scalar s.         *)
MulFloor(x, y, s) == FloorDiv(x * y, s)
MulCeil(x, y, s)  == CeilDiv(x * y, s)

(* x * s / y: the ratio of x to y, with scalar s.                          *)
DivFloor(x, y, s) == FloorDiv(x * s, y)
DivCeil(x, y, s)  == CeilDiv(x * s, y)

MinOf(a, b) == IF a <= b THEN a ELSE b
MaxOf(a, b) == IF a >= b THEN a ELSE b
===========================================================================

-------------------------------- MODULE Money --------------------------------
(***************************************************************************)
(* The value object of common/Money.hpp: an integer count of minor units   *)
(* of one currency.  The code keeps 64 bits; here the units are unbounded, *)
(* so a wrapped sum is out of this module's sight.                         *)
(***************************************************************************)
EXTENDS Integers

Currency == {"INR", "USD", "EUR"}
Money    == [minor: Int, ccy: Currency]

IsPositive(m) == m.minor > 0
IsNegative(m) == m.minor < 0

\* assertSameCcy: the binary operators throw unless this holds.
SameCcy(m, n) == m.ccy = n.ccy

Plus(m, n)  == [m EXCEPT !.minor = @ + n.minor]
Minus(m, n) == [m EXCEPT !.minor = @ - n.minor]
Times(m, k) == [m EXCEPT !.minor = @ * k]

Exceeds(m, n) == m.minor > n.minor
AtLeast(m, n) == m.minor >= n.minor
=============================================================================

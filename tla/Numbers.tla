------------------------------ MODULE Numbers ------------------------------
(***************************************************************************)
(* Arithmetic on the numbers of a program.  They are doubles; the programs *)
(* of the checks use whole ones, so of a quotient only its whole part is   *)
(* kept, by the compiled program and by its source alike, and nothing is   *)
(* asked of what a division by zero gives (an infinity) but that it is a   *)
(* number.                                                                 *)
(***************************************************************************)
EXTENDS Integers

Magnitude(n) == IF n < 0 THEN 0 - n ELSE n

\* Rounded towards zero, and with the sign of what is divided: frem.
Quotient(l, r) ==
  LET size == IF r = 0 THEN 0 ELSE Magnitude(l) \div Magnitude(r)
  IN  IF (l < 0) = (r < 0) THEN size ELSE 0 - size
Remainder(l, r) == l - r * Quotient(l, r)

Power(l, r) ==
  LET product[n \in 0..Magnitude(r)] == IF n = 0 THEN 1 ELSE l * product[n - 1]
  IN  IF r < 0 THEN Quotient(1, product[Magnitude(r)]) ELSE product[Magnitude(r)]
=============================================================================

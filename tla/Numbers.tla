------------------------------ MODULE Numbers ------------------------------
(***************************************************************************)
(* Numbers as Go's float64 and int64 hold them and as encoding/json spells    *)
(* them. They are counted in halves: 3 is 1.5, and 4 the integer 2.           *)
(***************************************************************************)
EXTENDS Integers, FiniteSets

CONSTANTS
  Exact,    \* the last integer up to which every integer is a float64 (2^53)
  Spelling  \* the whole floats past Exact whose shortest decimal text has the digits
            \* of another integer, with that integer

ASSUME ExactAssumption == Exact \in Nat \ {0}

Magnitude(v) == IF v < 0 THEN -v ELSE v

\* Halves are float64s up to Exact halves; the spacing of the floats doubles there and
\* with every binade after it. A uint64 has at most eleven binades past Exact.
Spacings == {1, 2, 4, 8, 16, 32, 64, 128, 256, 512, 1024, 2048, 4096}

Spacing(v) ==
  LET wide == {s \in Spacings : Magnitude(v) <= Exact * s} \cup {4096}
  IN  CHOOSE s \in wide : \A t \in wide : s <= t

\* The nearest float64 of a number, of two the even one.
Rounded(v) ==
  LET s == Spacing(v)
      low == v - (v % s)
  IN  IF 2 * (v % s) < s \/ (2 * (v % s) = s /\ (low \div s) % 2 = 0) THEN low ELSE low + s

\* The text of a float reads back as that float.
ASSUME SpellingAssumption ==
  \A v \in DOMAIN Spelling :
    /\ v \in Int /\ v % 2 = 0 /\ Magnitude(v) > 2 * Exact
    /\ Spelling[v] \in Int /\ Spelling[v] % 2 = 0 /\ Rounded(Spelling[v]) = v

\* The shortest digits that read back as float v.
Digits(v) == IF v \in DOMAIN Spelling THEN Spelling[v] ELSE v
=============================================================================

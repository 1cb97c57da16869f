-------------------------- MODULE NumericVersions ---------------------------
(***************************************************************************)
(* Versions as the program compares and normalises them: strings of digits *)
(* between dots, of any length and with leading zeros.  A component is the *)
(* sequence of its digits, a version the sequence of its components.       *)
(*                                                                         *)
(* A behaviour looks at one pair of versions.  An operator whose comment   *)
(* begins with "Bug:" is the definition after it with a mistake that a     *)
(* property notices.                                                       *)
(***************************************************************************)
EXTENDS Integers, FiniteSetsExt, SequencesExt

CONSTANTS
  Base,      \* digits are 0 .. Base - 1
  MaxDigits, \* bound on the digits of a component
  MaxParts   \* bound on the components of a version

\* What the constants must be.
NumericAssumption == Base \in Nat \ {0} /\ MaxDigits \in Nat /\ MaxParts \in Nat \ {0}

Digit    == 0 .. (Base - 1)
Part     == UNION {[1 .. n -> Digit] : n \in 0 .. MaxDigits}
Versions == UNION {[1 .. n -> Part] : n \in 1 .. MaxParts}

VARIABLES left, right, compared

\* The right version has fewer components; the property is about both orders.
Init == left = <<<<>>>> /\ right = <<<<>>>> /\ compared = FALSE
Next ==
  /\ ~compared /\ compared' = TRUE
  /\ left' \in Versions /\ right' \in {v \in Versions : Len(v) < MaxParts}
Spec == Init /\ [][Next]_<<left, right, compared>>

---------------------------------------------------------------------------
Sign(n) == IF n < 0 THEN -1 ELSE IF n > 0 THEN 1 ELSE 0

\* strings.TrimLeft(part, "0")
TrimLeft(part) ==
  LET zeros == {k \in 0 .. Len(part) : \A i \in 1 .. k : part[i] = 0}
  IN SubSeq(part, Max(zeros) + 1, Len(part))

\* Where two strings differ first, or 0.
FirstDifference(x, y) ==
  LET differ == {i \in 1 .. Max({Len(x), Len(y)}) :
                   i > Len(x) \/ i > Len(y) \/ x[i] # y[i]}
  IN IF differ = {} THEN 0 ELSE Min(differ)

\* strings.Compare: a string is less than one it is a prefix of.
Compare(x, y) ==
  LET i == FirstDifference(x, y)
  IN CASE i = 0                                  -> 0
       [] i # 0 /\ (i > Len(x) \/ i > Len(y))    -> Sign(Len(x) - Len(y))
       [] i # 0 /\ i <= Len(x) /\ i <= Len(y)    -> Sign(x[i] - y[i])

\* Bug: components are compared as strings.
CompareComponentsLexically(x, y) == Compare(x, y)

CompareComponents(x, y) == IF Len(x) # Len(y) THEN Sign(Len(x) - Len(y)) ELSE Compare(x, y)

WellFormed(version) == \A i \in DOMAIN version : version[i] # <<>>

\* Components that are missing count as zero.
Component(version, i) == IF i <= Len(version) THEN TrimLeft(version[i]) ELSE <<>>

CompareNumericVersions(a, b) ==
  LET results == [i \in 1 .. Max({Len(a), Len(b)}) |-> CompareComponents(Component(a, i), Component(b, i))]
      differ  == {i \in DOMAIN results : results[i] # 0}
  IN IF differ = {} THEN 0 ELSE results[Min(differ)]

\* The three components of a mapped version lose their leading zeros.
NormalizeSemVerCore(version) ==
  IF Len(version) # 3 \/ ~WellFormed(version)
  THEN version
  ELSE [i \in DOMAIN version |->
          IF TrimLeft(version[i]) = <<>> THEN <<0>> ELSE TrimLeft(version[i])]

\* appversion.IsValid, of a version without prerelease and metadata.
IsValid(version) ==
  /\ Len(version) = 3 /\ WellFormed(version)
  /\ \A i \in DOMAIN version : Len(version[i]) > 1 => version[i][1] # 0

---------------------------------------------------------------------------
\* What the strings mean: the value of the first n digits, and of all.
Values(part) ==
  LET value[n \in 0 .. Len(part)] == IF n = 0 THEN 0 ELSE value[n - 1] * Base + part[n]
  IN value

Value(part) == Values(part)[Len(part)]

ValueAt(version, i) == IF i <= Len(version) THEN Value(version[i]) ELSE 0

Reference(a, b) ==
  LET differ == {i \in 1 .. MaxParts : ValueAt(a, i) # ValueAt(b, i)}
  IN IF differ = {} THEN 0 ELSE Sign(ValueAt(a, Min(differ)) - ValueAt(b, Min(differ)))

\* Every component counts with its full value: no lexical 9/10 ordering, no
\* truncation to three components, no difference by leading zeros (comment
\* of CompareNumericVersions).
ComparesValues ==
  WellFormed(left) /\ WellFormed(right) =>
    /\ CompareNumericVersions(left, right) = Reference(left, right)
    /\ CompareNumericVersions(right, left) = -Reference(left, right)

\* A mapped version of three components always becomes a valid one of the
\* same value, and one that is valid already is left alone.
NormalizesToValid ==
  /\ Len(left) = 3 /\ WellFormed(left) =>
       /\ IsValid(NormalizeSemVerCore(left))
       /\ Reference(NormalizeSemVerCore(left), left) = 0
  /\ IsValid(left) => NormalizeSemVerCore(left) = left
=============================================================================

-------------------------------- MODULE Text --------------------------------
(***************************************************************************)
(* The string methods and regular expressions the catalog packages use, on *)
(* TLA+ strings, which are sequences of characters.                        *)
(***************************************************************************)
EXTENDS Integers, Sequences, SequencesExt

Chars(s) == [i \in 1..Len(s) |-> SubSeq(s, i, i)]

Glue(pieces) == IF pieces = <<>> THEN "" ELSE FlattenSeq(pieces)

Includes(s, part) ==
  \E i \in 0..(Len(s) - Len(part)) : SubSeq(s, i + 1, i + Len(part)) = part

StartsWith(s, part) ==
  Len(part) <= Len(s) /\ SubSeq(s, 1, Len(part)) = part

Digit == ToSet(Chars("0123456789"))
LowerCase == Chars("abcdefghijklmnopqrstuvwxyz")
UpperCase == Chars("ABCDEFGHIJKLMNOPQRSTUVWXYZ")
Alphanumeric == Digit \cup ToSet(LowerCase)

DigitValue == [d \in Digit |-> CHOOSE n \in 0..9 : Chars("0123456789")[n + 1] = d]

LowerOf == [c \in ToSet(UpperCase) |->
              LowerCase[CHOOSE i \in 1..26 : UpperCase[i] = c]]

ToLower(s) ==
  Glue([i \in 1..Len(s) |-> LET c == SubSeq(s, i, i)
                            IN  IF c \in DOMAIN LowerOf THEN LowerOf[c] ELSE c])

\* The characters of s that are in keep, and c for each of the others.
Replace(s, keep, c) ==
  Glue([i \in 1..Len(s) |-> IF SubSeq(s, i, i) \in keep THEN SubSeq(s, i, i) ELSE c])

\* Every run of c becomes one c.
Squeeze(s, c) ==
  Glue([i \in 1..Len(s) |-> IF i > 1 /\ SubSeq(s, i - 1, i) = c \o c
                            THEN "" ELSE SubSeq(s, i, i)])

\* The characters \s of a regular expression, as far as files have them.
Whitespace == {" ", "\t", "\n", "\r"}

Trim(s) ==
  LET inner == {i \in 1..Len(s) : SubSeq(s, i, i) \notin Whitespace}
  IN  IF inner = {} THEN "" ELSE SubSeq(s, Min(inner), Max(inner))

Blank(s) == Trim(s) = ""

\* The pieces of s between the characters c.
Split(s, c) ==
  LET cuts == <<0>> \o SelectSeq([i \in 1..Len(s) |-> i], LAMBDA i : SubSeq(s, i, i) = c)
                \o <<Len(s) + 1>>
  IN  [n \in 1..(Len(cuts) - 1) |-> SubSeq(s, cuts[n] + 1, cuts[n + 1] - 1)]

Join(pieces, separator) ==
  Glue([i \in DOMAIN pieces |-> IF i = 1 THEN pieces[i] ELSE separator \o pieces[i]])

\* The value of a sequence of digits.
NumberOf(digits) ==
  LET value[n \in 0..Len(digits)] ==
        IF n = 0 THEN 0 ELSE 10 * value[n - 1] + DigitValue[digits[n]]
  IN  value[Len(digits)]

\* The longest run of digits at the beginning of cs.
LeadingDigits(cs) ==
  LET ends == {n \in 0..Len(cs) : \A i \in 1..n : cs[i] \in Digit}
  IN  SubSeq(cs, 1, Max(ends))
=============================================================================

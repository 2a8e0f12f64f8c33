------------------------------- MODULE Decimal -------------------------------
(***************************************************************************)
(* Decimal numerals as sequences of one-character strings: the conversion *)
(* std::to_string and operator<< make from an int, and the one            *)
(* boost::lexical_cast<int> and std::isdigit read back.                    *)
(***************************************************************************)
EXTENDS Naturals, SequencesExt

DigitChars == <<"0", "1", "2", "3", "4", "5", "6", "7", "8", "9">>

Digits == ToSet(DigitChars)

DigitValue(c) == CHOOSE v \in 0..9 : DigitChars[v + 1] = c

\* A nonempty string of decimal digits.
IsNumeral(s) == s # <<>> /\ \A i \in DOMAIN s : s[i] \in Digits

RECURSIVE NumeralValue(_)
NumeralValue(s) ==
  IF s = <<>> THEN 0 ELSE 10 * NumeralValue(Front(s)) + DigitValue(Last(s))

\* The decimal representation of a natural number.
RECURSIVE Numeral(_)
Numeral(n) ==
  IF n < 10 THEN <<DigitChars[n + 1]>>
  ELSE Numeral(n \div 10) \o <<DigitChars[(n % 10) + 1]>>

=============================================================================

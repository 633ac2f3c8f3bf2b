----------------------------- MODULE MCArithmetic -----------------------------
(* Limbs of two and four bits and the modulus 2^16 - 7; the curve               *)
(* y^2 = x^3 + 7 modulo 67; addresses of five characters over seven symbols,    *)
(* with a letter (L) that has one case and payloads of one network byte (10).   *)
EXTENDS NativeArithmetic

\* Every choice of the three limbs at whose sums and products a carry is or is not made.
MCFieldSamples ==
  {n \in {a + b * Base + c * Base ^ 2 + d * Base ^ 3 : a, b, c, d \in {0, 8, 15}} : n < PrimeNumber}
MCGenerator == [x |-> 2, y |-> 22, infinity |-> FALSE]

MCAlphabet == <<"9", "A", "L", "N", "T", "a", "n">>
MCLetters == {"A", "L", "N", "T", "a", "n", "l", "t"}
MCLower(c) == CASE c = "A" -> "a" [] c = "N" -> "n" [] c = "L" -> "l" [] c = "T" -> "t" [] OTHER -> c
MCSwapped(c) ==
  CASE c = "A" -> "a" [] c = "N" -> "n" [] c = "L" -> "l" [] c = "T" -> "t"
    [] c = "a" -> "A" [] c = "n" -> "N" [] OTHER -> c
MCAllowedFirst == {"9", "A", "L", "N", "T"}
MCPrefixes == {p \in [1..2 -> Characters] \cup [1..3 -> Characters] : ValidPrefix(p)}
MCSuffixes == {<<c>> : c \in Characters}
MCPayloads == 320..351
===============================================================================

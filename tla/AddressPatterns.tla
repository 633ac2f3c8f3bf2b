---------------------------- MODULE AddressPatterns ----------------------------
(* Which addresses a pattern names.  An address is the Base58 form of a payload *)
(* followed by its checksum; a pattern gives the characters after the fixed T   *)
(* and the last ones, letters in either case but for the first.  The GPU looks  *)
(* only at addresses whose payload lies in an interval of the prefix            *)
(* (populate_prefix_intervals, device_payload_may_match_prefix), then compares  *)
(* characters; native/src/tron.cpp compares them again, and the server once     *)
(* more with the options of services/patterns.py.  Characters are the symbols of  *)
(* Alphabet in the order of their digits, and numbers stand for byte arrays.    *)
EXTENDS Integers, Sequences, FiniteSets, SequencesExt

CONSTANTS
  Alphabet,        \* base58_alphabet: a sequence of characters
  Letters,         \* those std::isalpha and isalpha() accept
  Lower(_),        \* std::tolower
  Swapped(_),      \* swapcase: the letter in the other case, in Alphabet or not
  AllowedFirst,    \* allowed_first_custom
  AddressLength,   \* 34
  Checksums,       \* values of the four bytes of the checksum: 2^32
  MainnetT         \* "T"

Characters == ToSet(Alphabet)
Radix == Len(Alphabet)
DigitOf(c) == CHOOSE d \in 0..(Radix - 1) : Alphabet[d + 1] = c

\* No character has two digits, and a letter has one or two cases, as those of ASCII.
AlphabetAssumption ==
  /\ AddressLength \in Nat \ {0} /\ Checksums \in Nat \ {0}
  /\ Alphabet \in Seq(Characters) /\ MainnetT \in Characters
  /\ \A i, j \in 1..Radix : Alphabet[i] = Alphabet[j] => i = j
  /\ \A c \in Characters :
       IF c \in Letters
       THEN \A d \in Characters : d \in Letters /\ Lower(d) = Lower(c) <=> d \in {c, Swapped(c)}
       ELSE Swapped(c) = c

ASSUME AlphabetIsBase58 == AlphabetAssumption

\* What a digit is worth with n digits after it.
Place[n \in 0..AddressLength] == IF n = 0 THEN 1 ELSE Place[n - 1] * Radix

\* base58_encode and base58check_encode of an encoding with no leading zero byte.
AddressOf(encoded) ==
  [i \in 1..AddressLength |-> Alphabet[((encoded \div Place[AddressLength - i]) % Radix) + 1]]

\* validate_pattern, the lengths apart.
ValidPrefix(prefix) == ToSet(prefix) \subseteq Characters /\ prefix[1] \in AllowedFirst

--------------------------------------------------------------------------------
LooseEqual(left, right) ==
  left = right \/ (left \in Letters /\ right \in Letters /\ Lower(left) = Lower(right))

\* device_pattern_matches; matches_pattern of tron.cpp asks for the T and the length too,
\* which every payload has.
PatternMatches(address, prefix, suffix) ==
  /\ \A i \in 1..Len(prefix) :
       IF i = 1 THEN address[2] = prefix[1] ELSE LooseEqual(address[i + 1], prefix[i])
  /\ \A i \in 1..Len(suffix) :
       LooseEqual(address[AddressLength - Len(suffix) + i], suffix[i])

\* character_options, compile_match_spec and address_matches_spec of the server, whose prefix
\* begins with the T.
CharacterOptions(c, exact) ==
  {c} \cup (IF exact \/ c \notin Letters THEN {} ELSE {Swapped(c)} \cap Characters)

MatchesSpec(address, prefix, suffix) ==
  LET whole == <<MainnetT>> \o prefix
  IN  /\ \A i \in 1..Len(whole) : address[i] \in CharacterOptions(whole[i], i <= 2)
      /\ \A i \in 1..Len(suffix) :
           address[AddressLength - Len(suffix) + i] \in CharacterOptions(suffix[i], FALSE)

--------------------------------------------------------------------------------
\* Mutant: the last character of a prefix has one case.
VariablePositions_Short(prefix) ==
  {i \in 2..(Len(prefix) - 1) : Swapped(prefix[i]) # prefix[i] /\ Swapped(prefix[i]) \in Characters}
\* Letters after the first whose other case is a digit as well.
VariablePositions(prefix) ==
  {i \in 2..Len(prefix) : Swapped(prefix[i]) # prefix[i] /\ Swapped(prefix[i]) \in Characters}

\* One variant for each choice of case.
Variants(prefix) ==
  {<<MainnetT>> \o [i \in 1..Len(prefix) |-> IF i \in swapped THEN Swapped(prefix[i]) ELSE prefix[i]]
     : swapped \in SUBSET VariablePositions(prefix)}

\* host_prefix_bound: the least and the greatest number with these first digits.
PrefixBound(variant, upper) ==
  LET value == FoldLeft(LAMBDA acc, c : acc * Radix + DigitOf(c), 0, variant)
      room == Place[AddressLength - Len(variant)]
  IN  IF upper THEN (value + 1) * room - 1 ELSE value * room

\* The bounds without the bytes of the checksum.
PrefixIntervals(prefix) ==
  {[min |-> PrefixBound(v, FALSE) \div Checksums, max |-> PrefixBound(v, TRUE) \div Checksums]
     : v \in Variants(prefix)}

PayloadMayMatch(payload, intervals) == \E i \in intervals : payload >= i.min /\ payload <= i.max
================================================================================

----------------------------- MODULE AliasName ------------------------------
(***************************************************************************)
(* config.Alias: how a nickname, a sequence of runes, becomes a name for   *)
(* the hosts file.                                                         *)
(***************************************************************************)
EXTENDS Naturals, SequencesExt

CONSTANTS
  Rune,
  Letter,      \* the runes that may stay: lower case ASCII letters and digits
  Foreign,     \* letters and digits beyond ASCII: they may not
  Lower,       \* lower case, of the runes that have one
  MaxLength,   \* 63
  Fallback,    \* lan-machine
  Reserved,    \* localhost and the like
  Prefix       \* lan-

Hyphen == "-"

\* Of letters and hyphens, of which no two stand side by side.
Clean(word) ==
  /\ word \in Seq(Letter \cup {Hyphen})
  /\ \A i \in 1..(Len(word) - 1) : word[i] # Hyphen \/ word[i + 1] # Hyphen

\* With none of them at either end.
Bare(word) == word # <<>> /\ Hyphen \notin {word[1], word[Len(word)]}

ASSUME AliasNameAssumption ==
  /\ Letter \subseteq Rune /\ Foreign \subseteq Rune \ Letter
  /\ Hyphen \in Rune \ (Letter \cup Foreign)
  /\ DOMAIN Lower \subseteq Rune \ (Letter \cup {Hyphen})
  /\ \A r \in DOMAIN Lower : Lower[r] \in Rune
  /\ MaxLength \in Nat \ {0}
  /\ Clean(Fallback) /\ Bare(Fallback) /\ Len(Fallback) <= MaxLength
  /\ Clean(Prefix) /\ Prefix # <<>> /\ Prefix[1] # Hyphen
  /\ \A word \in Reserved :
       Len(Prefix \o word) <= MaxLength /\ Prefix \o word \notin Reserved

Lowered(runes) ==
  [i \in DOMAIN runes |->
     IF runes[i] \in DOMAIN Lower THEN Lower[runes[i]] ELSE runes[i]]

\* MUTANT: foreign letters separate.
NormalisedForeign(alias, r) ==
  IF r \in Letter \/ alias = <<>> \/ Last(alias) = Hyphen
    THEN IF r \in Letter THEN Append(alias, r) ELSE alias
    ELSE Append(alias, Hyphen)

\* Letters stay, foreign ones vanish, and all else between letters becomes a
\* hyphen.
Normalised(alias, r) ==
  CASE r \in Letter  -> Append(alias, r)
    [] r \in Foreign -> alias
    [] OTHER -> IF alias = <<>> \/ Last(alias) = Hyphen THEN alias
                ELSE Append(alias, Hyphen)

\* Trim and TrimRight: no hyphen comes first, nor two in a row.
Trimmed(alias) ==
  IF alias # <<>> /\ Last(alias) = Hyphen THEN Front(alias) ELSE alias

\* The loop over the runes of a nickname.
Result(low) ==
  LET result[i \in 0..Len(low)] ==
        IF i = 0 THEN <<>> ELSE Normalised(result[i - 1], low[i])
  IN  result[Len(low)]

Letters(runes) == Trimmed(Result(Lowered(runes)))

\* MUTANT: what was cut off is not trimmed again.
ShortenedOnly(alias) ==
  IF Len(alias) > MaxLength THEN SubSeq(alias, 1, MaxLength) ELSE alias

Shortened(alias) ==
  IF Len(alias) > MaxLength THEN Trimmed(SubSeq(alias, 1, MaxLength)) ELSE alias

\* MUTANT: a name that only ends in a reserved one is taken for it.
AliasForSuffix(runes) ==
  LET alias == Shortened(Letters(runes))
  IN  IF alias = <<>> THEN Fallback
      ELSE IF \E word \in Reserved : IsSuffix(word, alias)
        THEN Shortened(Prefix \o alias) ELSE alias

AliasFor(runes) ==
  LET letters == Letters(runes)
      alias == Shortened(IF letters = <<>> THEN Fallback ELSE letters)
  IN  IF alias \in Reserved THEN Prefix \o alias ELSE alias

-----------------------------------------------------------------------------
(* What to expect of an alias.                                             *)

\* An alias may stand in a hosts file: it is neither empty nor too long, of
\* letters and single hyphens between them, and none that every machine has for
\* itself.
Usable(alias) ==
  Clean(alias) /\ Bare(alias) /\ Len(alias) <= MaxLength /\ alias \notin Reserved

\* A machine that is renamed to its own alias keeps it.
Stable(alias) == AliasFor(alias) = alias

\* Anything but letters separates position i from the last letter before it.
Apart(low, i) ==
  \E j \in 1..(i - 1) :
    /\ low[j] \notin Letter \cup Foreign
    /\ \A k \in j..(i - 1) : low[k] \notin Letter
    /\ \E k \in 1..j : low[k] \in Letter

\* The definition by words: the letters that may stay, with a hyphen before
\* one that is set apart from the one before it.
Lettered(words, low, i) ==
  IF low[i] \notin Letter THEN words
  ELSE Append(IF Apart(low, i) THEN Append(words, Hyphen) ELSE words, low[i])

ByWords(low) ==
  LET words[i \in 0..Len(low)] ==
        IF i = 0 THEN <<>> ELSE Lettered(words[i - 1], low, i)
  IN  words[Len(low)]

\* An alias is that, where it may be.
Faithful(runes) ==
  LET words == ByWords(Lowered(runes))
  IN  words # <<>> /\ Len(words) <= MaxLength /\ words \notin Reserved
        => AliasFor(runes) = words
=============================================================================

----------------------------- MODULE AliasProofs ----------------------------
(***************************************************************************)
(* Theorems about aliases, for nicknames of any length over any alphabet,  *)
(* and about an agent whose hosts file has them.                           *)
(***************************************************************************)
EXTENDS AgentNames, AgentProofs, SequenceTheorems, WellFoundedInduction

-----------------------------------------------------------------------------
(* Recursion over the positions of a sequence.                             *)

\* A set of numbers that is not empty has a least element.
LEMMA MinLemma ==
  ASSUME NEW S \in SUBSET Nat, S # {}
  PROVE  Min(S) \in S /\ \A y \in S : Min(S) <= y
<1> DEFINE R == OpToRel(<, Nat)
<1>1. \A x, y \in Nat : y < x => <<y, x>> \in R
  BY DEF OpToRel
<1>2. IsWellFoundedOn(R, Nat)
  BY NatLessThanWellFounded
<1>3. \E x \in S : \A y \in S : ~(<<y, x>> \in R)
  <2> HIDE DEF R
  <2>. QED BY <1>2, WFMin
<1>4. PICK x \in S : \A y \in S : ~(<<y, x>> \in R)
  BY <1>3
<1>5. \A y \in S : ~(y < x)
  <2> HIDE DEF R
  <2>. QED BY <1>1, <1>4
<1>6. \E z \in S : \A y \in S : z <= y
  BY <1>5
<1>. QED BY <1>6 DEF Min

\* A set that has 0, and with each number below n the next one.
Inductive(S, n) == 0 \in S /\ \A i \in 1..n : i - 1 \in S => i \in S

\* It has every number up to n.
LEMMA UpwardLemma ==
  ASSUME NEW n \in Nat, NEW S, Inductive(S, n)
  PROVE  \A i \in 0..n : i \in S
<1> DEFINE bad == {i \in 0..n : i \notin S}
<1> SUFFICES ASSUME bad # {} PROVE FALSE
  OBVIOUS
<1>1. PICK m \in bad : \A y \in bad : m <= y
  <2>1. bad \in SUBSET Nat
    OBVIOUS
  <2> HIDE DEF bad
  <2>. QED BY <2>1, MinLemma
<1>2. m \in 1..n /\ m - 1 \in 0..n
  BY DEF Inductive
<1>3. m - 1 \in S
  BY <1>1, <1>2
<1>. QED BY <1>2, <1>3 DEF Inductive

\* f is computed step by step, from a.
Computed(f, n, a, step) ==
  f[0] = a /\ \A i \in 1..n : f[i] = step[<<f[i - 1], i>>]

\* What is computed step by step from runes of any number is defined.
LEMMA RecursionLemma ==
  ASSUME NEW n \in Nat, NEW S, NEW a \in S, NEW step \in [S \X (1..n) -> S]
  PROVE  \E f \in [0..n -> S] : Computed(f, n, a, step)
<1> DEFINE Good(m) == \E f \in [0..m -> S] : Computed(f, m, a, step)
           bad == {m \in 0..n : ~Good(m)}
<1> SUFFICES ASSUME bad # {} PROVE FALSE
  OBVIOUS
<1>1. PICK m \in bad : \A y \in bad : m <= y
  <2>1. bad \in SUBSET Nat
    OBVIOUS
  <2> HIDE DEF bad
  <2>. QED BY <2>1, MinLemma
<1>2. m \in 0..n /\ ~Good(m)
  OBVIOUS
<1>3. Good(0)
  <2> DEFINE f == [i \in 0..0 |-> a]
  <2>1. f \in [0..0 -> S] /\ Computed(f, 0, a, step)
    BY DEF Computed
  <2>. QED BY <2>1
<1>4. m \in 1..n /\ m - 1 \in 0..n
  <2> HIDE DEF bad, Good
  <2>1. m # 0
    BY <1>2, <1>3
  <2>. QED BY <1>2, <2>1
<1>5. Good(m - 1)
  <2> HIDE DEF Good
  <2>. QED BY <1>1, <1>4
<1>6. PICK g \in [0..(m - 1) -> S] :
             g[0] = a /\ \A i \in 1..(m - 1) : g[i] = step[<<g[i - 1], i>>]
  BY <1>5 DEF Computed
<1> DEFINE f == [i \in 0..m |-> IF i = m THEN step[<<g[m - 1], m>>] ELSE g[i]]
<1> HIDE DEF bad, Good
<1>7. f \in [0..m -> S]
  <2>1. m - 1 \in 0..(m - 1) /\ step[<<g[m - 1], m>>] \in S
    BY <1>4
  <2>. QED BY <1>4, <2>1
<1>8. f[0] = a /\ f[m] = step[<<g[m - 1], m>>] /\ \A i \in 0..(m - 1) : f[i] = g[i]
  BY <1>4, <1>6
<1> HIDE DEF f
<1>9. ASSUME NEW i \in 1..m PROVE f[i] = step[<<f[i - 1], i>>]
  <2>1. i - 1 \in 0..(m - 1) /\ f[i - 1] = g[i - 1]
    BY <1>4, <1>8, <1>9
  <2>2. CASE i = m
    BY <1>8, <2>1, <2>2
  <2>3. CASE i # m
    <3>1. i \in 1..(m - 1) /\ i \in 0..(m - 1)
      BY <1>4, <1>9, <2>3
    <3>. QED BY <1>6, <1>8, <2>1, <3>1
  <2>. QED BY <2>2, <2>3
<1>10. Good(m)
  BY <1>7, <1>8, <1>9 DEF Good, Computed
<1>. QED BY <1>2, <1>10

-----------------------------------------------------------------------------
(* The loop over the runes.                                                *)

Name == Seq(Letter \cup {Hyphen})

\* No hyphen comes first, nor two in a row.
Begun(alias) == Clean(alias) /\ (alias # <<>> => alias[1] # Hyphen)

\* The alias after each number of runes.
Growing(low, f) ==
  /\ f \in [0..Len(low) -> Name]
  /\ f[0] = <<>>
  /\ \A i \in 1..Len(low) : f[i] = Normalised(f[i - 1], low[i])

\* An alias with one more letter or hyphen.
LEMMA AppendLemma ==
  ASSUME NEW alias \in Name, NEW r \in Letter \cup {Hyphen}
  PROVE  /\ Append(alias, r) \in Name /\ Len(Append(alias, r)) = Len(alias) + 1
         /\ \A i \in 1..Len(alias) : Append(alias, r)[i] = alias[i]
         /\ Append(alias, r)[Len(alias) + 1] = r
         /\ Append(alias, r) # <<>>
<1> DEFINE S == Letter \cup {Hyphen}
<1>1. alias \in Seq(S) /\ r \in S
  BY DEF Name
<1> HIDE DEF S
<1>2. /\ Append(alias, r) \in Seq(S) /\ Len(Append(alias, r)) = Len(alias) + 1
      /\ \A i \in 1..Len(alias) : Append(alias, r)[i] = alias[i]
      /\ Append(alias, r)[Len(alias) + 1] = r
      /\ Append(alias, r) # <<>>
  BY <1>1, AppendProperties
<1>. QED BY <1>2 DEF Name, S

\* A rune keeps an alias a sequence of letters and hyphens, and the rules for these.
LEMMA NormalisedLemma ==
  ASSUME NEW alias \in Name, NEW r
  PROVE  /\ Normalised(alias, r) \in Name
         /\ Begun(alias) => Begun(Normalised(alias, r))
<1>1. PICK n \in Nat : n = Len(alias)
  BY DEF Name
<1>2. r \in Letter => r # Hyphen /\ r \notin Foreign
  BY AliasNameAssumption
<1>3. CASE r \in Letter
  <2> DEFINE new == Append(alias, r)
  <2>1. Normalised(alias, r) = new
    BY <1>2, <1>3 DEF Normalised
  <2>2. /\ new \in Name /\ Len(new) = n + 1
        /\ \A i \in 1..n : new[i] = alias[i]
        /\ new[n + 1] = r
    BY <1>1, <1>3, AppendLemma
  <2> HIDE DEF new
  <2>3. ASSUME Begun(alias) PROVE Begun(new)
    <3>1. new[1] # Hyphen
      <4>1. CASE n = 0
        BY <1>2, <1>3, <2>2, <4>1
      <4>2. CASE n # 0
        <5>1. alias # <<>> /\ 1 \in 1..n
          BY <1>1, <4>2
        <5>. QED BY <2>2, <2>3, <5>1 DEF Begun
      <4>. QED BY <4>1, <4>2
    <3>2. ASSUME NEW i \in 1..n PROVE new[i] # Hyphen \/ new[i + 1] # Hyphen
      <4>1. CASE i = n
        BY <1>2, <1>3, <2>2, <4>1
      <4>2. CASE i # n
        <5>1. i \in 1..(n - 1) /\ i + 1 \in 1..n
          BY <1>1, <4>2
        <5>. QED BY <1>1, <2>2, <2>3, <5>1 DEF Begun, Clean
      <4>. QED BY <4>1, <4>2
    <3>. QED BY <1>1, <2>2, <3>1, <3>2 DEF Begun, Clean, Name
  <2>. QED BY <2>1, <2>2, <2>3
<1>4. CASE r \notin Letter /\ (r \in Foreign \/ alias = <<>> \/ Last(alias) = Hyphen)
  <2>1. Normalised(alias, r) = alias
    BY <1>4 DEF Normalised
  <2>. QED BY <2>1
<1>5. CASE r \notin Letter /\ r \notin Foreign /\ alias # <<>> /\ Last(alias) # Hyphen
  <2> DEFINE new == Append(alias, Hyphen)
  <2>1. Normalised(alias, r) = new
    BY <1>5 DEF Normalised
  <2>2. /\ new \in Name /\ Len(new) = n + 1
        /\ \A i \in 1..n : new[i] = alias[i]
        /\ new[n + 1] = Hyphen
    BY <1>1, AppendLemma
  <2>3. n # 0 /\ alias[n] # Hyphen
    BY <1>1, <1>5 DEF Last, Name
  <2> HIDE DEF new
  <2>4. ASSUME Begun(alias) PROVE Begun(new)
    <3>1. new[1] # Hyphen
      <4>1. 1 \in 1..n
        BY <1>1, <2>3
      <4>. QED BY <1>5, <2>2, <2>4, <4>1 DEF Begun
    <3>2. ASSUME NEW i \in 1..n PROVE new[i] # Hyphen \/ new[i + 1] # Hyphen
      <4>1. CASE i = n
        BY <2>2, <2>3, <4>1
      <4>2. CASE i # n
        <5>1. i \in 1..(n - 1) /\ i + 1 \in 1..n
          BY <1>1, <4>2
        <5>. QED BY <1>1, <2>2, <2>4, <5>1 DEF Begun, Clean
      <4>. QED BY <4>1, <4>2
    <3>. QED BY <1>1, <2>2, <3>1, <3>2 DEF Begun, Clean, Name
  <2>. QED BY <2>1, <2>2, <2>4
<1>. QED BY <1>3, <1>4, <1>5

\* The loop runs through such aliases, from the empty one to its result.
LEMMA GrowingLemma ==
  ASSUME NEW low, Len(low) \in Nat
  PROVE  \E f : Growing(low, f) /\ Result(low) = f[Len(low)]
<1> DEFINE n == Len(low)
           step == [x \in Name \X (1..n) |-> Normalised(x[1], low[x[2]])]
           rec(f) == [i \in 0..n |-> IF i = 0 THEN <<>> ELSE Normalised(f[i - 1], low[i])]
           result == CHOOSE f : f = rec(f)
           none == <<>>
<1>1. Result(low) = result[n]
  BY DEF Result
<1>2. n \in Nat /\ none \in Name
  BY DEF Name
<1>3. step \in [Name \X (1..n) -> Name]
  <2>1. ASSUME NEW x \in Name \X (1..n) PROVE Normalised(x[1], low[x[2]]) \in Name
    <3>1. x[1] \in Name
      OBVIOUS
    <3>. QED BY <3>1, NormalisedLemma
  <2>. QED BY <2>1
<1>4. PICK f \in [0..n -> Name] : f[0] = none /\ \A i \in 1..n : f[i] = step[<<f[i - 1], i>>]
  <2> HIDE DEF step, n, none
  <2>1. \E f \in [0..n -> Name] : Computed(f, n, none, step)
    BY <1>2, <1>3, RecursionLemma
  <2>. QED BY <2>1 DEF Computed
<1>5. ASSUME NEW i \in 1..n PROVE f[i] = Normalised(f[i - 1], low[i])
  <2>1. <<f[i - 1], i>> \in Name \X (1..n)
    <3> HIDE DEF n
    <3>1. i - 1 \in 0..n
      BY <1>2
    <3>. QED BY <3>1
  <2>. QED BY <1>4, <2>1
<1> HIDE DEF step
<1>6. f = rec(f)
  <2>1. ASSUME NEW i \in 0..n
        PROVE  f[i] = IF i = 0 THEN <<>> ELSE Normalised(f[i - 1], low[i])
    <3>1. CASE i = 0
      BY <1>4, <3>1
    <3>2. CASE i # 0
      <4>1. i \in 1..n
        BY <1>2, <2>1, <3>2
      <4>. QED BY <1>5, <3>2, <4>1
    <3>. QED BY <3>1, <3>2
  <2>. QED BY <2>1
<1>7. result = rec(result)
  <2> HIDE DEF rec
  <2>. QED BY <1>6
<1> HIDE DEF result
<1>8. \A i \in 0..n :
        result[i] = IF i = 0 THEN <<>> ELSE Normalised(result[i - 1], low[i])
  <2> DEFINE g == rec(result)
  <2>1. \A i \in 0..n :
          g[i] = IF i = 0 THEN <<>> ELSE Normalised(result[i - 1], low[i])
    OBVIOUS
  <2> HIDE DEF g
  <2>2. result = g
    BY <1>7 DEF g
  <2>. QED BY <2>1, <2>2
<1>9. result[0] = <<>> /\ \A i \in 1..n : result[i] = Normalised(result[i - 1], low[i])
  <2>1. \A i \in 1..n : i \in 0..n /\ i # 0
    BY <1>2
  <2>. QED BY <1>2, <1>8, <2>1
<1>10. \A i \in 0..n : result[i] \in Name
  <2> DEFINE good == {i \in 0..n : result[i] \in Name}
  <2>1. 0 \in good
    BY <1>2, <1>9
  <2>2. ASSUME NEW i \in 1..n, i - 1 \in good PROVE i \in good
    <3>1. result[i - 1] \in Name /\ i \in 0..n
      BY <1>2, <2>2
    <3>. QED BY <1>9, <3>1, NormalisedLemma
  <2>3. Inductive(good, n)
    <3> HIDE DEF good
    <3>. QED BY <2>1, <2>2 DEF Inductive
  <2>4. \A i \in 0..n : i \in good
    <3> HIDE DEF good
    <3>. QED BY <1>2, <2>3, UpwardLemma
  <2>. QED BY <2>4
<1>11. result \in [0..n -> Name]
  <2>1. rec(result) = [i \in 0..n |-> rec(result)[i]]
    OBVIOUS
  <2>2. result = [i \in 0..n |-> result[i]]
    <3> HIDE DEF rec
    <3>. QED BY <1>7, <2>1
  <2>. QED BY <1>10, <2>2
<1>. QED BY <1>1, <1>9, <1>11 DEF Growing

\* No alias that the loop returns begins with a hyphen or has two in a row.
LEMMA ResultLemma ==
  ASSUME NEW low, Len(low) \in Nat
  PROVE  Begun(Result(low))
<1> DEFINE n == Len(low)
<1>1. PICK f : Growing(low, f) /\ Result(low) = f[n]
  BY GrowingLemma
<1> DEFINE good == {i \in 0..n : Begun(f[i])}
<1>2. 0 \in good
  <2>1. <<>> \in Seq(Letter \cup {Hyphen}) /\ Len(<<>>) = 0
    OBVIOUS
  <2>2. Begun(<<>>)
    BY <2>1 DEF Begun, Clean
  <2>. QED BY <1>1, <2>2 DEF Growing
<1>3. ASSUME NEW i \in 1..n, i - 1 \in good PROVE i \in good
  <2>1. i \in 0..n /\ i - 1 \in 0..n /\ Begun(f[i - 1])
    BY <1>3
  <2>2. f[i - 1] \in Name /\ f[i] = Normalised(f[i - 1], low[i])
    BY <1>1, <2>1 DEF Growing
  <2>. QED BY <2>1, <2>2, NormalisedLemma
<1>4. \A i \in 0..n : i \in good
  <2> HIDE DEF good, n
  <2>1. Inductive(good, n)
    BY <1>2, <1>3 DEF Inductive
  <2>. QED BY <1>1, <2>1, UpwardLemma DEF n
<1>. QED BY <1>1, <1>4

-----------------------------------------------------------------------------
(* Trimming and shortening.                                                *)

\* A beginning of a name.
LEMMA HeadLemma ==
  ASSUME NEW alias \in Name, NEW n \in 0..Len(alias)
  PROVE  /\ SubSeq(alias, 1, n) \in Name /\ Len(SubSeq(alias, 1, n)) = n
         /\ \A i \in 1..n : SubSeq(alias, 1, n)[i] = alias[i]
<1> DEFINE p == SubSeq(alias, 1, n)
           S == Letter \cup {Hyphen}
<1>1. 1 \in Int /\ n \in Int /\ \A i \in 1..n : alias[i] \in S
  BY DEF Name
<1> HIDE DEF S
<1>2. /\ p \in Seq(S) /\ Len(p) = IF 1 <= n THEN n - 1 + 1 ELSE 0
      /\ \A i \in 1..(n - 1 + 1) : p[i] = alias[1 + i - 1]
  BY <1>1, SubSeqProperties
<1> HIDE DEF p
<1>3. \A i \in 1..n : i \in 1..(n - 1 + 1) /\ 1 + i - 1 = i
  OBVIOUS
<1>4. Len(p) = n /\ \A i \in 1..n : p[i] = alias[i]
  BY <1>2, <1>3
<1>. QED BY <1>2, <1>4 DEF p, S, Name

\* Of an alias that has begun as it should, too.
LEMMA BegunHead ==
  ASSUME NEW alias, Begun(alias), NEW n \in 0..Len(alias)
  PROVE  Begun(SubSeq(alias, 1, n))
<1> DEFINE p == SubSeq(alias, 1, n)
<1>1. alias \in Name /\ Len(alias) \in Nat
  BY DEF Begun, Clean, Name
<1>2. p \in Name /\ Len(p) = n /\ \A i \in 1..n : p[i] = alias[i]
  BY <1>1, HeadLemma
<1> HIDE DEF p
<1>3. ASSUME NEW i \in 1..(n - 1) PROVE p[i] # Hyphen \/ p[i + 1] # Hyphen
  <2>1. i \in 1..n /\ i + 1 \in 1..n /\ i \in 1..(Len(alias) - 1)
    BY <1>1
  <2>. QED BY <1>2, <2>1 DEF Begun, Clean
<1>4. ASSUME p # <<>> PROVE p[1] # Hyphen
  <2>1. 1 \in 1..n /\ alias # <<>>
    BY <1>1, <1>2, <1>4 DEF Name
  <2>. QED BY <1>2, <2>1 DEF Begun
<1>5. Begun(p)
  BY <1>2, <1>3, <1>4 DEF Begun, Clean, Name
<1>. QED BY <1>5 DEF p

\* Trimmed, it is no name at all or has no hyphen at an end.
LEMMA TrimmedLemma ==
  ASSUME NEW alias, Begun(alias)
  PROVE  /\ Clean(Trimmed(alias)) /\ Len(Trimmed(alias)) <= Len(alias)
         /\ alias = <<>> => Trimmed(alias) = <<>>
         /\ alias # <<>> => Bare(Trimmed(alias))
<1>1. PICK n \in Nat : n = Len(alias)
  BY DEF Begun, Clean
<1>2. alias \in Name /\ alias \in Seq(Letter \cup {Hyphen})
  BY DEF Begun, Clean, Name
<1>3. CASE alias = <<>>
  BY <1>1, <1>3 DEF Trimmed, Begun
<1>4. CASE alias # <<>> /\ alias[n] # Hyphen
  <2>1. Trimmed(alias) = alias
    BY <1>1, <1>4 DEF Trimmed, Last
  <2>. QED BY <1>1, <1>4, <2>1 DEF Begun, Bare
<1>5. CASE alias # <<>> /\ alias[n] = Hyphen
  <2> DEFINE p == SubSeq(alias, 1, n - 1)
  <2>1. Trimmed(alias) = p
    BY <1>1, <1>5 DEF Trimmed, Last, Front
  <2>2. n # 0 /\ n # 1
    BY <1>1, <1>2, <1>5 DEF Begun
  <2>3. /\ p \in Name /\ Len(p) = n - 1 /\ \A i \in 1..(n - 1) : p[i] = alias[i]
        /\ Begun(p)
    <3>1. n - 1 \in 0..Len(alias)
      BY <1>1, <2>2
    <3>. QED BY <1>2, <3>1, HeadLemma, BegunHead
  <2> HIDE DEF p
  <2>4. p # <<>> /\ p[n - 1] # Hyphen /\ p[1] # Hyphen
    <3>1. n - 1 \in 1..(n - 1) /\ n - 1 \in 1..(Len(alias) - 1) /\ (n - 1) + 1 = n
      BY <1>1, <2>2
    <3>2. alias[n - 1] # Hyphen \/ alias[n] # Hyphen
      BY <3>1 DEF Begun, Clean
    <3>3. p # <<>>
      BY <1>1, <2>2, <2>3
    <3>. QED BY <1>5, <2>3, <3>1, <3>2, <3>3 DEF Begun
  <2>5. Bare(p) /\ Clean(p) /\ Len(p) <= n
    BY <1>1, <2>2, <2>3, <2>4 DEF Bare, Begun
  <2>. QED BY <1>1, <1>5, <2>1, <2>5
<1>. QED BY <1>3, <1>4, <1>5

\* An alias without a hyphen at an end stays one when it is shortened, if only
\* to one rune.
LEMMA ShortenedLemma ==
  ASSUME NEW alias, Clean(alias), Bare(alias)
  PROVE  /\ Clean(Shortened(alias)) /\ Bare(Shortened(alias))
         /\ Len(Shortened(alias)) <= MaxLength
         /\ Len(alias) <= MaxLength => Shortened(alias) = alias
<1>1. PICK n \in Nat : n = Len(alias)
  BY DEF Clean
<1>2. MaxLength \in Nat \ {0}
  BY AliasNameAssumption
<1>3. CASE n <= MaxLength
  <2>1. Shortened(alias) = alias
    BY <1>1, <1>2, <1>3 DEF Shortened
  <2>. QED BY <1>1, <1>3, <2>1
<1>4. CASE ~(n <= MaxLength)
  <2> DEFINE p == SubSeq(alias, 1, MaxLength)
  <2>1. Shortened(alias) = Trimmed(p)
    BY <1>1, <1>2, <1>4 DEF Shortened
  <2>2. Begun(alias) /\ alias \in Name /\ MaxLength \in 0..Len(alias)
    BY <1>1, <1>2, <1>4 DEF Begun, Bare, Clean, Name
  <2>3. Begun(p) /\ Len(p) = MaxLength /\ p \in Name
    BY <2>2, BegunHead, HeadLemma
  <2> HIDE DEF p
  <2>4. p # <<>>
    BY <1>2, <2>3
  <2>5. Clean(Trimmed(p)) /\ Bare(Trimmed(p)) /\ Len(Trimmed(p)) <= MaxLength
    BY <2>3, <2>4, TrimmedLemma
  <2>. QED BY <1>1, <1>4, <2>1, <2>5
<1>. QED BY <1>3, <1>4

-----------------------------------------------------------------------------
(* What is made of a nickname.                                             *)

\* A name behind the prefix.
LEMMA PrefixLemma ==
  ASSUME NEW alias, Clean(alias), Bare(alias)
  PROVE  Clean(Prefix \o alias) /\ Bare(Prefix \o alias)
<1> DEFINE new == Prefix \o alias
           S == Letter \cup {Hyphen}
<1>1. PICK m \in Nat, n \in Nat : m = Len(Prefix) /\ n = Len(alias)
  BY AliasNameAssumption DEF Clean
<1>2. /\ Prefix \in Seq(S) /\ m # 0 /\ Prefix[1] # Hyphen
      /\ \A i \in 1..(m - 1) : Prefix[i] # Hyphen \/ Prefix[i + 1] # Hyphen
  BY <1>1, AliasNameAssumption DEF Clean
<1>3. /\ alias \in Seq(S) /\ n # 0 /\ alias[1] # Hyphen /\ alias[n] # Hyphen
      /\ \A i \in 1..(n - 1) : alias[i] # Hyphen \/ alias[i + 1] # Hyphen
  BY <1>1 DEF Clean, Bare
<1> HIDE DEF S
<1>4. /\ new \in Seq(S) /\ Len(new) = m + n
      /\ \A i \in 1..(m + n) : new[i] = IF i <= m THEN Prefix[i] ELSE alias[i - m]
  BY <1>1, <1>2, <1>3, ConcatProperties
<1> HIDE DEF new
<1>5. new[1] # Hyphen /\ new[m + n] # Hyphen /\ new # <<>>
  <2>1. 1 \in 1..(m + n) /\ m + n \in 1..(m + n) /\ ~(m + n <= m) /\ (m + n) - m = n
    BY <1>1, <1>2, <1>3
  <2>2. new[1] = Prefix[1] /\ new[m + n] = alias[n]
    BY <1>1, <1>2, <1>4, <2>1
  <2>3. new # <<>>
    BY <1>1, <1>2, <1>4
  <2>. QED BY <1>2, <1>3, <2>2, <2>3
<1>6. ASSUME NEW i \in 1..(m + n - 1) PROVE new[i] # Hyphen \/ new[i + 1] # Hyphen
  <2>1. i \in 1..(m + n) /\ i + 1 \in 1..(m + n)
    BY <1>1
  <2>2. CASE i < m
    <3>1. i \in 1..(m - 1) /\ i <= m /\ i + 1 <= m
      BY <1>1, <2>2
    <3>. QED BY <1>2, <1>4, <2>1, <3>1
  <2>3. CASE i = m
    <3>1. ~(i + 1 <= m) /\ (i + 1) - m = 1
      BY <1>1, <2>3
    <3>. QED BY <1>3, <1>4, <2>1, <3>1
  <2>4. CASE i > m
    <3>1. /\ ~(i <= m) /\ ~(i + 1 <= m) /\ i - m \in 1..(n - 1)
          /\ (i + 1) - m = (i - m) + 1
      BY <1>1, <2>4
    <3>2. new[i] = alias[i - m] /\ new[i + 1] = alias[(i - m) + 1]
      BY <1>4, <2>1, <3>1
    <3>. QED BY <1>3, <3>1, <3>2
  <2>. QED BY <1>1, <2>2, <2>3, <2>4
<1>7. Clean(new) /\ Bare(new)
  BY <1>4, <1>5, <1>6 DEF Clean, Bare, S
<1>. QED BY <1>7 DEF new

\* A nickname in lower case.
LEMMA LoweredLemma ==
  ASSUME NEW runes \in Seq(Rune)
  PROVE  /\ Lowered(runes) \in Seq(Rune) /\ Len(Lowered(runes)) = Len(runes)
         /\ \A i \in 1..Len(runes) :
              Lowered(runes)[i] = IF runes[i] \in DOMAIN Lower THEN Lower[runes[i]]
                                  ELSE runes[i]
<1>1. PICK n \in Nat : n = Len(runes) /\ DOMAIN runes = 1..n
  OBVIOUS
<1>2. ASSUME NEW i \in 1..n
      PROVE  (IF runes[i] \in DOMAIN Lower THEN Lower[runes[i]] ELSE runes[i]) \in Rune
  BY <1>1, AliasNameAssumption
<1>3. Lowered(runes) =
        [i \in 1..n |-> IF runes[i] \in DOMAIN Lower THEN Lower[runes[i]] ELSE runes[i]]
  BY <1>1 DEF Lowered
<1>4. Lowered(runes) \in [1..n -> Rune]
  BY <1>2, <1>3
<1>. QED BY <1>1, <1>3, <1>4

\* Every nickname has an alias that may stand in a hosts file.
THEOREM AliasUsable ==
  ASSUME NEW runes \in Seq(Rune)
  PROVE  Usable(AliasFor(runes))
<1> DEFINE letters == Letters(runes)
           name == IF letters = <<>> THEN Fallback ELSE letters
           alias == Shortened(name)
<1>1. letters = <<>> \/ (Clean(letters) /\ Bare(letters))
  BY LoweredLemma, ResultLemma, TrimmedLemma DEF Letters
<1>2. Clean(name) /\ Bare(name)
  BY <1>1, AliasNameAssumption
<1> HIDE DEF name, letters
<1>3. Clean(alias) /\ Bare(alias) /\ Len(alias) <= MaxLength
  BY <1>2, ShortenedLemma
<1>4. AliasFor(runes) = IF alias \in Reserved THEN Prefix \o alias ELSE alias
  BY DEF AliasFor, name, letters
<1> HIDE DEF alias
<1>5. CASE alias \in Reserved
  <2>1. Len(Prefix \o alias) <= MaxLength /\ Prefix \o alias \notin Reserved
    BY <1>5, AliasNameAssumption
  <2>2. Clean(Prefix \o alias) /\ Bare(Prefix \o alias)
    BY <1>3, PrefixLemma
  <2>. QED BY <1>4, <1>5, <2>1, <2>2 DEF Usable
<1>6. CASE alias \notin Reserved
  BY <1>3, <1>4, <1>6 DEF Usable
<1>. QED BY <1>5, <1>6

\* A name that may stand in a hosts file is what the loop makes of it.
LEMMA UsableIsKept ==
  ASSUME NEW alias, Usable(alias)
  PROVE  AliasFor(alias) = alias
<1>1. PICK n \in Nat : n = Len(alias)
  BY DEF Usable, Clean
<1>2. /\ alias \in Name /\ alias \in Seq(Letter \cup {Hyphen}) /\ n # 0
      /\ alias[1] # Hyphen /\ alias[n] # Hyphen
      /\ \A i \in 1..(n - 1) : alias[i] # Hyphen \/ alias[i + 1] # Hyphen
  BY <1>1 DEF Usable, Clean, Bare, Name
<1>3. Lowered(alias) = alias
  <2>1. \A i \in DOMAIN alias : alias[i] \notin DOMAIN Lower
    BY <1>2, AliasNameAssumption
  <2>2. Lowered(alias) = [i \in DOMAIN alias |-> alias[i]]
    BY <2>1 DEF Lowered
  <2>. QED BY <1>2, <2>2
<1>4. PICK f : Growing(alias, f) /\ Result(alias) = f[n]
  BY <1>1, GrowingLemma
<1> DEFINE good == {i \in 0..n : f[i] = SubSeq(alias, 1, i)}
<1>5. 0 \in good
  <2>1. SubSeq(alias, 1, 0) = <<>>
    BY SubSeqEmpty
  <2>2. f[0] = <<>> /\ 0 \in 0..n
    BY <1>1, <1>4 DEF Growing
  <2>3. f[0] = SubSeq(alias, 1, 0)
    BY <2>1, <2>2, Zenon
  <2>. QED BY <2>2, <2>3
<1>6. ASSUME NEW i \in 1..n, i - 1 \in good PROVE i \in good
  <2> DEFINE p == SubSeq(alias, 1, i - 1)
  <2>1. f[i] = Normalised(p, alias[i]) /\ i \in 0..n
    <3>1. f[i - 1] = p
      BY <1>6
    <3> HIDE DEF p
    <3>2. f[i] = Normalised(f[i - 1], alias[i]) /\ i \in 0..n
      BY <1>1, <1>4 DEF Growing
    <3>. QED BY <3>1, <3>2
  <2>2. p \in Name /\ Len(p) = i - 1 /\ \A j \in 1..(i - 1) : p[j] = alias[j]
    <3>1. i - 1 \in 0..Len(alias)
      BY <1>1
    <3>. QED BY <1>2, <3>1, HeadLemma
  <2>3. SubSeq(alias, 1, i) = Append(p, alias[i])
    <3>1. 1 \in 1..Len(alias) /\ i \in 1..Len(alias)
      BY <1>1
    <3>2. SubSeq(alias, 1, i) = SubSeq(alias, 1, i - 1) \o <<alias[i]>>
      <4>1. i \in 1..Len(alias) /\ 1 \in 1..Len(alias)
        BY <1>1
      <4>2. alias \in Seq(Letter \cup {Hyphen})
        BY <1>2
      <4>. QED BY <4>1, <4>2, SubSeqRecursiveSecond
    <3>3. alias[i] \in Letter \cup {Hyphen} /\ p \in Seq(Letter \cup {Hyphen})
      BY <1>2, <2>2, <3>1 DEF Name
    <3>4. Append(p, alias[i]) = p \o <<alias[i]>>
      BY <3>3, AppendIsConcat
    <3>. QED BY <3>2, <3>4 DEF p
  <2> HIDE DEF p
  <2>4. Normalised(p, alias[i]) = Append(p, alias[i])
    <3>1. CASE alias[i] \in Letter
      <4>1. alias[i] \notin Foreign
        BY <3>1, AliasNameAssumption
      <4>. QED BY <3>1, <4>1 DEF Normalised
    <3>2. CASE alias[i] = Hyphen
      <4>1. i # 1 /\ i - 1 \in 1..(n - 1) /\ (i - 1) + 1 = i
        BY <1>1, <1>2, <3>2
      <4>2. alias[i - 1] # Hyphen
        BY <1>2, <3>2, <4>1
      <4>3. p # <<>> /\ Last(p) # Hyphen
        BY <2>2, <4>1, <4>2 DEF Last
      <4>4. Hyphen \notin Letter /\ Hyphen \notin Foreign
        BY AliasNameAssumption
      <4>. QED BY <3>2, <4>3, <4>4 DEF Normalised
    <3>3. alias[i] \in Letter \cup {Hyphen}
      BY <1>1, <1>2
    <3>. QED BY <3>1, <3>2, <3>3
  <2>5. f[i] = SubSeq(alias, 1, i)
    BY <2>1, <2>3, <2>4
  <2>. QED BY <2>1, <2>5
<1>7. f[n] = SubSeq(alias, 1, n)
  <2> HIDE DEF good
  <2>1. Inductive(good, n)
    BY <1>5, <1>6 DEF Inductive
  <2>2. n \in good
    BY <1>1, <2>1, UpwardLemma
  <2>. QED BY <2>2 DEF good
<1>8. Result(alias) = alias
  BY <1>1, <1>2, <1>4, <1>7, SubSeqFull
<1>9. Letters(alias) = alias
  BY <1>1, <1>2, <1>3, <1>8 DEF Letters, Trimmed, Last
<1>10. Shortened(alias) = alias /\ alias # <<>> /\ alias \notin Reserved
  BY ShortenedLemma DEF Usable, Bare
<1>. QED BY <1>9, <1>10 DEF AliasFor

\* A machine that is renamed to its own alias keeps it.
THEOREM AliasStable ==
  ASSUME NEW runes \in Seq(Rune)
  PROVE  Stable(AliasFor(runes))
  BY AliasUsable, UsableIsKept DEF Stable

-----------------------------------------------------------------------------
(* The definition by words.                                                *)

\* One more letter, with or without a hyphen.
LEMMA LetteredLemma ==
  ASSUME NEW words \in Name, NEW low, NEW i
  PROVE  /\ Lettered(words, low, i) \in Name
         /\ low[i] \in Letter =>
              /\ Lettered(words, low, i) # <<>>
              /\ Last(Lettered(words, low, i)) # Hyphen
         /\ low[i] \in Letter /\ Apart(low, i) =>
              Lettered(words, low, i) = Append(Append(words, Hyphen), low[i])
         /\ low[i] \in Letter /\ ~Apart(low, i) =>
              Lettered(words, low, i) = Append(words, low[i])
<1> DEFINE r == low[i]
           new == Lettered(words, low, i)
<1>1. CASE r \notin Letter
  BY <1>1 DEF Lettered
<1>2. ASSUME r \in Letter, Apart(low, i)
      PROVE  new = Append(Append(words, Hyphen), r)
  BY <1>2 DEF Lettered
<1>3. ASSUME r \in Letter, ~Apart(low, i)
      PROVE  new = Append(words, r)
  BY <1>3 DEF Lettered
<1>4. ASSUME r \in Letter PROVE new \in Name /\ new # <<>> /\ Last(new) # Hyphen
  <2>1. r # Hyphen /\ r \in Letter \cup {Hyphen} /\ Hyphen \in Letter \cup {Hyphen}
    BY <1>4, AliasNameAssumption
  <2>2. PICK old \in Name : new = Append(old, r)
    BY <1>2, <1>3, <1>4, <2>1, AppendLemma
  <2> HIDE DEF new, r
  <2>3. /\ Append(old, r) \in Name /\ Append(old, r) # <<>>
        /\ Len(Append(old, r)) = Len(old) + 1 /\ Append(old, r)[Len(old) + 1] = r
    BY <2>1, AppendLemma
  <2>. QED BY <2>1, <2>2, <2>3 DEF Last
<1>. QED BY <1>1, <1>2, <1>3, <1>4

\* The words after each number of runes.
Spelling(low, f) ==
  /\ f \in [0..Len(low) -> Name]
  /\ f[0] = <<>>
  /\ \A i \in 1..Len(low) : f[i] = Lettered(f[i - 1], low, i)

\* The definition by words is what they come to.
LEMMA WordsLemma ==
  ASSUME NEW low, Len(low) \in Nat
  PROVE  \E f : Spelling(low, f) /\ ByWords(low) = f[Len(low)]
<1> DEFINE n == Len(low)
           step == [x \in Name \X (1..n) |-> Lettered(x[1], low, x[2])]
           rec(f) == [i \in 0..n |-> IF i = 0 THEN <<>> ELSE Lettered(f[i - 1], low, i)]
           words == CHOOSE f : f = rec(f)
           none == <<>>
<1>1. ByWords(low) = words[n]
  BY DEF ByWords
<1>2. n \in Nat /\ none \in Name
  BY DEF Name
<1>3. step \in [Name \X (1..n) -> Name]
  <2>1. ASSUME NEW x \in Name \X (1..n) PROVE Lettered(x[1], low, x[2]) \in Name
    <3>1. x[1] \in Name
      OBVIOUS
    <3>. QED BY <3>1, LetteredLemma
  <2>. QED BY <2>1
<1>4. PICK f \in [0..n -> Name] : f[0] = none /\ \A i \in 1..n : f[i] = step[<<f[i - 1], i>>]
  <2> HIDE DEF step, n, none
  <2>1. \E f \in [0..n -> Name] : Computed(f, n, none, step)
    BY <1>2, <1>3, RecursionLemma
  <2>. QED BY <2>1 DEF Computed
<1>5. ASSUME NEW i \in 1..n PROVE f[i] = Lettered(f[i - 1], low, i)
  <2>1. <<f[i - 1], i>> \in Name \X (1..n)
    <3> HIDE DEF n
    <3>1. i - 1 \in 0..n
      BY <1>2
    <3>. QED BY <3>1
  <2>. QED BY <1>4, <2>1
<1> HIDE DEF step
<1>6. f = rec(f)
  <2>1. ASSUME NEW i \in 0..n
        PROVE  f[i] = IF i = 0 THEN <<>> ELSE Lettered(f[i - 1], low, i)
    <3>1. CASE i = 0
      BY <1>4, <3>1
    <3>2. CASE i # 0
      <4>1. i \in 1..n
        BY <1>2, <2>1, <3>2
      <4>. QED BY <1>5, <3>2, <4>1
    <3>. QED BY <3>1, <3>2
  <2>. QED BY <2>1
<1>7. words = rec(words)
  <2> HIDE DEF rec
  <2>. QED BY <1>6
<1> HIDE DEF words
<1>8. \A i \in 0..n :
        words[i] = IF i = 0 THEN <<>> ELSE Lettered(words[i - 1], low, i)
  <2> DEFINE g == rec(words)
  <2>1. \A i \in 0..n :
          g[i] = IF i = 0 THEN <<>> ELSE Lettered(words[i - 1], low, i)
    OBVIOUS
  <2> HIDE DEF g
  <2>2. words = g
    BY <1>7 DEF g
  <2>. QED BY <2>1, <2>2
<1>9. words[0] = <<>> /\ \A i \in 1..n : words[i] = Lettered(words[i - 1], low, i)
  <2>1. \A i \in 1..n : i \in 0..n /\ i # 0
    BY <1>2
  <2>. QED BY <1>2, <1>8, <2>1
<1>10. \A i \in 0..n : words[i] \in Name
  <2> DEFINE good == {i \in 0..n : words[i] \in Name}
  <2>1. 0 \in good
    BY <1>2, <1>9
  <2>2. ASSUME NEW i \in 1..n, i - 1 \in good PROVE i \in good
    <3>1. words[i - 1] \in Name /\ i \in 0..n
      BY <1>2, <2>2
    <3>. QED BY <1>9, <3>1, LetteredLemma
  <2>3. Inductive(good, n)
    <3> HIDE DEF good
    <3>. QED BY <2>1, <2>2 DEF Inductive
  <2>4. \A i \in 0..n : i \in good
    <3> HIDE DEF good
    <3>. QED BY <1>2, <2>3, UpwardLemma
  <2>. QED BY <2>4
<1>11. words \in [0..n -> Name]
  <2>1. rec(words) = [i \in 0..n |-> rec(words)[i]]
    OBVIOUS
  <2>2. words = [i \in 0..n |-> words[i]]
    <3> HIDE DEF rec
    <3>. QED BY <1>7, <2>1
  <2>. QED BY <1>10, <2>2
<1>. QED BY <1>1, <1>9, <1>11 DEF Spelling


\* Apart, as the loop sees it that has come to a rune between.
LEMMA ApartLemma ==
  ASSUME NEW low, NEW i \in Nat \ {0}
  PROVE  /\ low[i] \in Letter => ~Apart(low, i + 1)
         /\ low[i] \in Foreign => (Apart(low, i + 1) <=> Apart(low, i))
         /\ low[i] \notin Letter \cup Foreign =>
              (Apart(low, i + 1) <=> \E k \in 1..(i - 1) : low[k] \in Letter)
         /\ Apart(low, i) => \E k \in 1..(i - 1) : low[k] \in Letter
<1>1. (i + 1) - 1 = i /\ i \in 1..i
  OBVIOUS
<1>2. ASSUME low[i] \in Letter PROVE ~Apart(low, i + 1)
  <2>1. \A j \in 1..i : i \in j..i
    OBVIOUS
  <2>. QED BY <1>1, <1>2, <2>1 DEF Apart
<1>3. ASSUME low[i] \in Foreign PROVE Apart(low, i + 1) <=> Apart(low, i)
  <2>1. low[i] \notin Letter
    BY <1>3, AliasNameAssumption
  <2>2. ASSUME Apart(low, i) PROVE Apart(low, i + 1)
    <3>1. PICK j \in 1..(i - 1) :
                 /\ low[j] \notin Letter \cup Foreign
                 /\ \A k \in j..(i - 1) : low[k] \notin Letter
                 /\ \E k \in 1..j : low[k] \in Letter
      BY <2>2 DEF Apart
    <3>2. j \in 1..i /\ \A k \in j..i : k \in j..(i - 1) \/ k = i
      OBVIOUS
    <3>. QED BY <1>1, <2>1, <3>1, <3>2 DEF Apart
  <2>3. ASSUME Apart(low, i + 1) PROVE Apart(low, i)
    <3>1. PICK j \in 1..i :
                 /\ low[j] \notin Letter \cup Foreign
                 /\ \A k \in j..i : low[k] \notin Letter
                 /\ \E k \in 1..j : low[k] \in Letter
      BY <1>1, <2>3 DEF Apart
    <3>2. j \in 1..(i - 1) /\ \A k \in j..(i - 1) : k \in j..i
      BY <1>3, <3>1
    <3>. QED BY <3>1, <3>2 DEF Apart
  <2>. QED BY <2>2, <2>3
<1>4. ASSUME low[i] \notin Letter \cup Foreign, NEW k \in 1..(i - 1), low[k] \in Letter
      PROVE  Apart(low, i + 1)
  <2>1. k \in 1..i /\ \A l \in i..i : l = i
    OBVIOUS
  <2>. QED BY <1>1, <1>4, <2>1 DEF Apart
<1>5. ASSUME low[i] \notin Letter \cup Foreign, Apart(low, i + 1)
      PROVE  \E k \in 1..(i - 1) : low[k] \in Letter
  <2>1. PICK j \in 1..i : \E k \in 1..j : low[k] \in Letter
    BY <1>1, <1>5 DEF Apart
  <2>2. PICK k \in 1..j : low[k] \in Letter
    BY <2>1
  <2>3. k \in 1..(i - 1)
    BY <1>5, <2>2
  <2>. QED BY <2>2, <2>3
<1>6. ASSUME Apart(low, i) PROVE \E k \in 1..(i - 1) : low[k] \in Letter
  <2>1. PICK j \in 1..(i - 1) : \E k \in 1..j : low[k] \in Letter
    BY <1>6 DEF Apart
  <2>2. PICK k \in 1..j : low[k] \in Letter
    BY <2>1
  <2>3. k \in 1..(i - 1)
    OBVIOUS
  <2>. QED BY <2>2, <2>3
<1>. QED BY <1>2, <1>3, <1>4, <1>5, <1>6

\* The loop, alias, and the definition, words, after i runes: the loop may have
\* written a hyphen that no letter follows yet.
Agree(low, i, alias, words) ==
  /\ words = <<>> \/ Last(words) # Hyphen
  /\ words # <<>> <=> \E k \in 1..i : low[k] \in Letter
  /\ alias = IF Apart(low, i + 1) THEN Append(words, Hyphen) ELSE words

\* They still agree after one more.
LEMMA AgreeLemma ==
  ASSUME NEW low, NEW i \in Nat \ {0}, NEW alias \in Name, NEW words \in Name,
         Agree(low, i - 1, alias, words)
  PROVE  Agree(low, i, Normalised(alias, low[i]), Lettered(words, low, i))
<1> DEFINE r == low[i]
           next == Normalised(alias, r)
           more == Lettered(words, low, i)
<1>1. /\ words = <<>> \/ Last(words) # Hyphen
      /\ words # <<>> <=> \E k \in 1..(i - 1) : low[k] \in Letter
      /\ alias = IF Apart(low, i) THEN Append(words, Hyphen) ELSE words
  <2>1. (i - 1) + 1 = i
    OBVIOUS
  <2>. QED BY <2>1 DEF Agree
<1>2. \A k \in 1..i : k \in 1..(i - 1) \/ k = i
  OBVIOUS
<1>3. \A k \in 1..(i - 1) : k \in 1..i
  OBVIOUS
<1>4. Letter \cap Foreign = {}
  BY AliasNameAssumption
<1>5. CASE r \in Letter
  <2>1. ~Apart(low, i + 1)
    BY <1>5, ApartLemma
  <2>2. next = Append(alias, r)
    BY <1>4, <1>5 DEF Normalised
  <2>3. more = Append(alias, r)
    <3>1. more = Append(IF Apart(low, i) THEN Append(words, Hyphen) ELSE words, r)
      BY <1>5 DEF Lettered
    <3>. QED BY <1>1, <3>1
  <2>4. more # <<>> /\ Last(more) # Hyphen
    BY <1>5, LetteredLemma
  <2>5. i \in 1..i
    OBVIOUS
  <2>6. \E k \in 1..i : low[k] \in Letter
    BY <1>5, <2>5
  <2>7. next = more
    BY <2>2, <2>3
  <2>. QED BY <2>1, <2>4, <2>6, <2>7 DEF Agree
<1>6. CASE r \in Foreign
  <2>1. next = alias /\ r \notin Letter
    BY <1>4, <1>6 DEF Normalised
  <2>2. more = words
    BY <2>1 DEF Lettered
  <2>3. Apart(low, i + 1) <=> Apart(low, i)
    BY <1>6, ApartLemma
  <2>. QED BY <1>1, <1>2, <1>3, <2>1, <2>2, <2>3 DEF Agree
<1>7. CASE r \notin Letter \cup Foreign
  <2>1. more = words
    BY <1>7 DEF Lettered
  <2>2. Apart(low, i + 1) <=> words # <<>>
    BY <1>1, <1>7, ApartLemma
  <2>3. Apart(low, i) => words # <<>>
    BY <1>1, ApartLemma
  <2>4. next = IF words # <<>> THEN Append(words, Hyphen) ELSE words
    <3>1. CASE words = <<>>
      <4>1. alias = <<>>
        BY <1>1, <2>3, <3>1
      <4>. QED BY <1>7, <3>1, <4>1 DEF Normalised
    <3>2. CASE words # <<>> /\ Apart(low, i)
      <4>1. alias = Append(words, Hyphen)
        BY <1>1, <3>2
      <4>2. alias # <<>> /\ Last(alias) = Hyphen
        BY <4>1, AppendLemma DEF Last
      <4>. QED BY <1>7, <3>2, <4>1, <4>2 DEF Normalised
    <3>3. CASE words # <<>> /\ ~Apart(low, i)
      <4>1. alias = words /\ alias # <<>> /\ Last(alias) # Hyphen
        BY <1>1, <3>3
      <4>. QED BY <1>7, <3>3, <4>1 DEF Normalised
    <3>. QED BY <3>1, <3>2, <3>3
  <2>5. (\E k \in 1..i : low[k] \in Letter) <=> (\E k \in 1..(i - 1) : low[k] \in Letter)
    BY <1>2, <1>3, <1>7
  <2>. QED BY <1>1, <2>1, <2>2, <2>4, <2>5 DEF Agree
<1>. QED BY <1>5, <1>6, <1>7

\* The loop comes to the words, but for a hyphen at the end.
LEMMA LoopIsWords ==
  ASSUME NEW low, Len(low) \in Nat
  PROVE  Trimmed(Result(low)) = ByWords(low) /\ ByWords(low) \in Name
<1>1. PICK n \in Nat : n = Len(low)
  OBVIOUS
<1>2. PICK f : Growing(low, f) /\ Result(low) = f[n]
  BY <1>1, GrowingLemma
<1>3. PICK w : Spelling(low, w) /\ ByWords(low) = w[n]
  BY <1>1, WordsLemma
<1> DEFINE good == {i \in 0..n : Agree(low, i, f[i], w[i])}
<1>4. 0 \in good
  <2>1. f[0] = <<>> /\ w[0] = <<>> /\ 0 \in 0..n
    BY <1>1, <1>2, <1>3 DEF Growing, Spelling
  <2>2. ~Apart(low, 0 + 1)
    BY DEF Apart
  <2>. QED BY <2>1, <2>2 DEF Agree
<1>5. ASSUME NEW i \in 1..n, i - 1 \in good PROVE i \in good
  <2>1. Agree(low, i - 1, f[i - 1], w[i - 1]) /\ i \in 0..n /\ i \in Nat \ {0}
    BY <1>5
  <2> HIDE DEF good
  <2>2. i - 1 \in 0..n
    BY <1>1
  <2>3. f[i - 1] \in Name /\ f[i] = Normalised(f[i - 1], low[i])
    BY <1>1, <1>2, <2>2 DEF Growing
  <2>4. w[i - 1] \in Name /\ w[i] = Lettered(w[i - 1], low, i)
    BY <1>1, <1>3, <2>2 DEF Spelling
  <2>5. Agree(low, i, f[i], w[i])
    BY <2>1, <2>3, <2>4, AgreeLemma
  <2>. QED BY <2>1, <2>5 DEF good
<1>6. Agree(low, n, f[n], w[n])
  <2> HIDE DEF good
  <2>1. Inductive(good, n)
    BY <1>4, <1>5 DEF Inductive
  <2>2. n \in good
    BY <1>1, <2>1, UpwardLemma
  <2>. QED BY <2>2 DEF good
<1>7. w[n] \in Name
  BY <1>1, <1>3 DEF Spelling
<1>8. CASE Apart(low, n + 1)
  <2>1. f[n] = Append(w[n], Hyphen)
    BY <1>6, <1>8 DEF Agree
  <2> DEFINE new == Append(w[n], Hyphen)
  <2>2. /\ new \in Name /\ Len(new) = Len(w[n]) + 1 /\ new # <<>>
        /\ new[Len(w[n]) + 1] = Hyphen /\ Len(w[n]) \in Nat
        /\ \A i \in 1..Len(w[n]) : new[i] = w[n][i]
    BY <1>7, AppendLemma DEF Name
  <2> HIDE DEF new
  <2>3. Trimmed(new) = SubSeq(new, 1, Len(w[n]))
    <3>1. Len(new) - 1 = Len(w[n]) /\ Last(new) = Hyphen
      BY <2>2 DEF Last
    <3>. QED BY <2>2, <3>1 DEF Trimmed, Front
  <2>4. SubSeq(new, 1, Len(w[n])) = w[n]
    <3> DEFINE p == SubSeq(new, 1, Len(w[n]))
    <3>1. p \in Name /\ Len(p) = Len(w[n]) /\ \A i \in 1..Len(w[n]) : p[i] = new[i]
      <4>1. Len(w[n]) \in 0..Len(new)
        BY <2>2
      <4>. QED BY <2>2, <4>1, HeadLemma
    <3> HIDE DEF p
    <3>2. p = w[n]
      BY <1>7, <2>2, <3>1, SeqEqual DEF Name
    <3>. QED BY <3>2 DEF p
  <2>5. Trimmed(f[n]) = w[n]
    BY <2>1, <2>3, <2>4 DEF new
  <2>. QED BY <1>2, <1>3, <1>7, <2>5
<1>9. CASE ~Apart(low, n + 1)
  <2>1. f[n] = w[n] /\ (w[n] = <<>> \/ Last(w[n]) # Hyphen)
    BY <1>6, <1>9 DEF Agree
  <2>2. Trimmed(f[n]) = w[n]
    BY <2>1 DEF Trimmed
  <2>. QED BY <1>2, <1>3, <1>7, <2>2
<1>. QED BY <1>8, <1>9

\* Where the words may stand in a hosts file, the alias is just them.
THEOREM AliasFaithful ==
  ASSUME NEW runes \in Seq(Rune)
  PROVE  Faithful(runes)
<1> DEFINE words == ByWords(Lowered(runes))
<1> SUFFICES ASSUME words # <<>>, Len(words) <= MaxLength, words \notin Reserved
             PROVE  AliasFor(runes) = words
  BY DEF Faithful
<1>1. Letters(runes) = words /\ words \in Name
  BY LoweredLemma, LoopIsWords DEF Letters
<1> HIDE DEF words
<1>2. Shortened(words) = words
  <2>1. Len(words) \in Nat /\ MaxLength \in Nat
    BY <1>1, AliasNameAssumption DEF Name
  <2>. QED BY <2>1 DEF Shortened
<1>. QED BY <1>1, <1>2 DEF AliasFor

-----------------------------------------------------------------------------
(* The aliases of an agent.                                                *)

\* What stands in the hosts file is the alias of a nickname.
LEMMA HostsHaveAliases ==
  ASSUME TypeOK, NEW e \in hosts
  PROVE  \E n \in Nickname : Spelled[n] \in Seq(Rune) /\ e.alias = AliasFor(Spelled[n])
<1>1. e.alias \in SpelledAlias
  BY AgentNamesAssumption DEF TypeOK, HostsEntry
<1>2. PICK n \in Nickname : e.alias = SpelledAliasOf[n]
  BY <1>1 DEF SpelledAlias
<1>. QED BY <1>2, AgentNamesAssumption DEF SpelledAliasOf

\* Every alias may stand in a hosts file, and what stands there may.
THEOREM AliasesAlwaysUsable == Spec => []AliasesUsable
<1>1. TypeOK => AliasesUsable
  <2>1. AllUsable
    BY AliasUsable, AgentNamesAssumption DEF AllUsable
  <2>2. ASSUME TypeOK, NEW e \in hosts PROVE Usable(e.alias)
    BY <2>2, HostsHaveAliases, AliasUsable
  <2>. QED BY <2>1, <2>2 DEF AliasesUsable
<1>. QED BY <1>1, TypeCorrect, PTL

\* A machine may be renamed to its alias, or to one in the hosts file, and has it.
THEOREM AliasesAlwaysStable == Spec => []AliasesStable
<1>1. TypeOK => AliasesStable
  <2>1. AllStable
    BY AliasStable, AgentNamesAssumption DEF AllStable
  <2>2. ASSUME TypeOK, NEW e \in hosts PROVE Stable(e.alias)
    BY <2>2, HostsHaveAliases, AliasStable
  <2>. QED BY <2>1, <2>2 DEF AliasesStable
<1>. QED BY <1>1, TypeCorrect, PTL

\* Every alias is the one the definition by words gives, those of the machines
\* in the map included.
THEOREM AliasesAlwaysFaithful == Spec => []AliasesFaithful
<1>1. TypeOK => AliasesFaithful
  <2>1. AllFaithful
    BY AliasFaithful, AgentNamesAssumption DEF AllFaithful
  <2>2. ASSUME TypeOK, NEW id \in DOMAIN peers
        PROVE  Faithful(Spelled[peers[id].nickname])
    <3>1. peers[id].nickname \in Nickname
      BY <2>2 DEF TypeOK, IsStore, IsPeer
    <3>. QED BY <3>1, AliasFaithful, AgentNamesAssumption
  <2>. QED BY <2>1, <2>2 DEF AliasesFaithful
<1>. QED BY <1>1, TypeCorrect, PTL
=============================================================================

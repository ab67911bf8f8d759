-------------------------- MODULE ManagedFileProofs -------------------------
(***************************************************************************)
(* What a sync makes of a file, for files, sections and users' lines of    *)
(* any number and length.                                                  *)
(***************************************************************************)
EXTENDS ManagedFile, SequenceTheorems, WellFoundedInduction, TLAPS

Markers == {"begin", "end"}

\* The sections without a nickname that spells a marker.
PlainBody == {lines \in Body : Plain(lines)}

\* No line is a marker.
Free(text) == \A i \in 1..Len(text) : text[i] \notin Markers

\* No marker occurs twice: users may remove one, but never add one.
Single(text) ==
  \A i, j \in 1..Len(text) : text[i] \in Markers /\ text[i] = text[j] => i = j

\* It has the blank lines cut off that Rest cuts off.
Trimmed(text) ==
  text = <<>> \/ (text[Len(text)] # "blank" /\ (kind # "hosts" => text[1] # "blank"))

\* A text that a sync does not refuse.
Whole(text) == text \in Seq(Line) /\ Single(text) /\ ~Incomplete(text)

\* It has the section asked for, where it belongs.
Holds(text, lines) ==
  IF lines = <<>> /\ kind # "hosts" THEN Free(text)
  ELSE \E s \in 1..Len(text) :
         /\ s + Len(lines) + 1 <= Len(text)
         /\ text[s] = "begin" /\ text[s + Len(lines) + 1] = "end"
         /\ \A i \in 1..Len(lines) : text[s + i] = lines[i]
         /\ kind = "sshConfig" => s = 1

\* What a sync writes.
Written(text, lines) == Whole(text) /\ Holds(text, lines) /\ Rendered(text, lines) = text

\* What a sync keeps of a file, if there is one.
Kept(f) == Rest(IF f = Absent THEN <<>> ELSE f)

\* The text that is to be written to f is in order, and keeps of f what it
\* should, unless a user has edited f since.
Pending(text, lines, f) == Written(text, lines) /\ (~raced => Rest(text) = Kept(f))

Writing == pc \in {"open", "write", "rename"}

\* A sync that writes has not refused the file, which is as it was unless a user
\* has edited it since.
NotRefused == Writing /\ ~raced => file = Absent \/ ~Incomplete(file)

\* A section that was asked for stays as it was written until a user edits the
\* file, and what is about to replace the file has it.
SectionInv ==
  /\ body \in PlainBody /\ synced \in PlainBody \cup {Absent}
  /\ file # Absent => Single(file)
  /\ Writing => Pending(updated, body, file)
  /\ synced # Absent /\ file # Absent => Written(file, synced)

\* The users' lines of the file, and of what is about to replace it.
UsersInv ==
  /\ file # Absent /\ ~raced => Users(file) = intended
  /\ file = Absent => intended = <<>>
  /\ Writing => Users(updated) = read

\* The inductive invariant.
FileInv == TypeOK /\ NotRefused /\ (~spelled => SectionInv /\ UsersInv)

-----------------------------------------------------------------------------
(* The first and the last line of a kind.                                  *)

\* A set of numbers that is not empty has a least element.
LEMMA MinLemma ==
  ASSUME NEW S \in SUBSET Nat, S # {}
  PROVE  Min(S) \in S /\ \A y \in S : Min(S) <= y
<1> DEFINE R == OpToRel(<, Nat)
<1>1. \A x, y \in Nat : y < x => <<y, x>> \in R
  BY DEF OpToRel
<1>2. IsWellFoundedOn(R, Nat)
  BY NatLessThanWellFounded
<1>3. \E x \in S : \A y \in S : ~(<<y, x>> \in R)
  <2> HIDE DEF R
  <2>. QED BY <1>2, WFMin
<1>4. PICK x \in S : \A y \in S : ~(<<y, x>> \in R)
  BY <1>3
<1>5. \A y \in S : ~(y < x)
  <2> HIDE DEF R
  <2>. QED BY <1>1, <1>4
<1>6. \E z \in S : \A y \in S : z <= y
  BY <1>5
<1>. QED BY <1>6 DEF Min

\* One that has a bound also has a greatest.
LEMMA MaxLemma ==
  ASSUME NEW n \in Nat, NEW S \in SUBSET (1..n), S # {}
  PROVE  Max(S) \in S /\ \A y \in S : y <= Max(S)
<1> DEFINE T == {n - y : y \in S}
<1>1. T \in SUBSET Nat /\ T # {}
  <2>1. \A y \in S : n - y \in Nat
    OBVIOUS
  <2>. QED BY <2>1
<1>2. Min(T) \in T /\ \A t \in T : Min(T) <= t
  <2> HIDE DEF T
  <2>. QED BY <1>1, MinLemma
<1>3. PICK x \in S : Min(T) = n - x
  BY <1>2
<1>4. \A y \in S : n - x <= n - y
  BY <1>2, <1>3
<1>5. \A y \in S : y <= x
  BY <1>4
<1>6. \E z \in S : \A y \in S : z >= y
  BY <1>5
<1>7. Max(S) \in S /\ \A y \in S : Max(S) >= y
  BY <1>6 DEF Max
<1>. QED BY <1>7

\* Where the section starts.
LEMMA StartLemma ==
  ASSUME NEW text \in Seq(Line)
  PROVE  /\ Start(text) \in 0..Len(text)
         /\ Start(text) # 0 => text[Start(text)] = "begin"
         /\ \A i \in 1..Len(text) :
              text[i] = "begin" => Start(text) # 0 /\ Start(text) <= i
<1> DEFINE I == {i \in 1..Len(text) : text[i] = "begin"}
<1>1. Start(text) = IF I # {} THEN Min(I) ELSE 0
  BY DEF Start, SelectInSeq
<1>2. I \in SUBSET Nat /\ Len(text) \in Nat
  OBVIOUS
<1>3. CASE I = {}
  BY <1>1, <1>2, <1>3
<1>4. CASE I # {}
  <2>1. Min(I) \in I /\ \A i \in I : Min(I) <= i
    <3> HIDE DEF I
    <3>. QED BY <1>2, <1>4, MinLemma
  <2>2. Start(text) = Min(I)
    BY <1>1, <1>4
  <2>3. Start(text) \in I /\ \A i \in I : Start(text) <= i
    BY <2>1, <2>2
  <2>. QED BY <2>3
<1>. QED BY <1>3, <1>4

\* Where it ends.
LEMMA EndLemma ==
  ASSUME NEW text \in Seq(Line)
  PROVE  /\ End(text) \in 0..Len(text)
         /\ End(text) # 0 => text[End(text)] = "end"
         /\ \A i \in 1..Len(text) :
              text[i] = "end" => End(text) # 0 /\ End(text) <= i
<1> DEFINE I == {i \in 1..Len(text) : text[i] = "end"}
<1>1. End(text) = IF I # {} THEN Min(I) ELSE 0
  BY DEF End, SelectInSeq
<1>2. I \in SUBSET Nat /\ Len(text) \in Nat
  OBVIOUS
<1>3. CASE I = {}
  BY <1>1, <1>2, <1>3
<1>4. CASE I # {}
  <2>1. Min(I) \in I /\ \A i \in I : Min(I) <= i
    <3> HIDE DEF I
    <3>. QED BY <1>2, <1>4, MinLemma
  <2>2. End(text) = Min(I)
    BY <1>1, <1>4
  <2>3. End(text) \in I /\ \A i \in I : End(text) <= i
    BY <2>1, <2>2
  <2>. QED BY <2>3
<1>. QED BY <1>3, <1>4

\* A text without markers has no section.
LEMMA FreeLemma ==
  ASSUME NEW text \in Seq(Line), Free(text)
  PROVE  Start(text) = 0 /\ End(text) = 0
  BY StartLemma, EndLemma DEF Free, Markers

\* A text with one section.
Marked(text, s, e) ==
  /\ s \in 1..Len(text) /\ e \in 1..Len(text) /\ s < e
  /\ text[s] = "begin" /\ text[e] = "end"
  /\ \A i \in 1..Len(text) : i # s /\ i # e => text[i] \notin Markers

\* It is found where it is, and not refused.
LEMMA MarkedLemma ==
  ASSUME NEW text \in Seq(Line), NEW s, NEW e, Marked(text, s, e)
  PROVE  Start(text) = s /\ End(text) = e /\ Whole(text)
<1>1. Start(text) = s
  BY StartLemma DEF Marked, Markers
<1>2. End(text) = e
  BY EndLemma DEF Marked, Markers
<1>3. Single(text)
  BY DEF Single, Marked, Markers
<1>4. ~Incomplete(text)
  BY <1>1, <1>2 DEF Incomplete, Marked
<1>. QED BY <1>1, <1>2, <1>3, <1>4 DEF Whole

\* A text that is not refused has no marker or one section.
LEMMA WholeLemma ==
  ASSUME NEW text, Whole(text)
  PROVE  Free(text) \/ Marked(text, Start(text), End(text))
<1>1. text \in Seq(Line)
  BY DEF Whole
<1>2. CASE Start(text) = 0
  <2>1. End(text) = 0
    BY <1>2 DEF Whole, Incomplete
  <2>. QED BY <1>1, <1>2, <2>1, StartLemma, EndLemma DEF Free, Markers
<1>3. CASE Start(text) # 0
  <2>1. End(text) # 0 /\ ~(End(text) < Start(text))
    BY <1>3 DEF Whole, Incomplete
  <2>2. /\ Start(text) \in 1..Len(text) /\ text[Start(text)] = "begin"
        /\ End(text) \in 1..Len(text) /\ text[End(text)] = "end"
    BY <1>1, <1>3, <2>1, StartLemma, EndLemma
  <2>3. Start(text) < End(text)
    BY <2>1, <2>2
  <2>4. \A i \in 1..Len(text) :
          i # Start(text) /\ i # End(text) => text[i] \notin Markers
    BY <2>2 DEF Whole, Single, Markers
  <2>. QED BY <2>2, <2>3, <2>4 DEF Marked
<1>. QED BY <1>2, <1>3

\* A text without markers is not refused.
LEMMA FreeIsWhole ==
  ASSUME NEW text \in Seq(Line), Free(text)
  PROVE  Whole(text)
  BY FreeLemma DEF Whole, Single, Free, Incomplete

-----------------------------------------------------------------------------
(* What Rest leaves of a text.                                             *)

\* The lines that count outside a section from s to e.
Filled(text, s, e) == {i \in 1..Len(text) : (i < s \/ e < i) /\ text[i] # "blank"}

First(filled) == IF kind = "hosts" THEN 1 ELSE Min(filled)

\* Rest in terms of these.
LEMMA RestIs ==
  ASSUME NEW text \in Seq(Line), NEW F, F = Filled(text, Start(text), End(text))
  PROVE  /\ F = {} => Rest(text) = <<>>
         /\ F # {} /\ Start(text) = 0 => Rest(text) = SubSeq(text, First(F), Max(F))
         /\ F # {} /\ Start(text) # 0 =>
              Rest(text) = SubSeq(text, First(F), Min({Start(text) - 1, Max(F)}))
                             \o SubSeq(text, Max({End(text) + 1, First(F)}), Max(F))
<1> DEFINE s == Start(text)
           e == End(text)
<1>1. DOMAIN text = 1..Len(text) /\ s \in Nat /\ e \in Nat
  BY StartLemma, EndLemma
<1>2. F = {i \in DOMAIN text \ (s..e) : text[i] # "blank"}
  <2> HIDE DEF s, e
  <2>1. F = Filled(text, s, e)
    BY DEF s, e
  <2>. QED BY <1>1, <2>1 DEF Filled
<1>3. CASE F = {}
  BY <1>2, <1>3 DEF Rest
<1>4. CASE F # {} /\ s = 0
  BY <1>2, <1>4 DEF Rest, First
<1>5. CASE F # {} /\ s # 0
  BY <1>2, <1>5 DEF Rest, First
<1>. QED BY <1>3, <1>4, <1>5

\* Where what is left begins and ends.
LEMMA FilledLemma ==
  ASSUME NEW text \in Seq(Line), NEW s \in Nat, NEW e \in Nat,
         NEW F, F = Filled(text, s, e), F # {}
  PROVE  /\ Max(F) \in F /\ First(F) \in 1..Max(F)
         /\ kind # "hosts" => First(F) \in F
         /\ \A i \in F : First(F) <= i /\ i <= Max(F)
<1>1. Len(text) \in Nat /\ F \in SUBSET (1..Len(text)) /\ F \in SUBSET Nat
  BY DEF Filled
<1>2. Max(F) \in F /\ \A i \in F : i <= Max(F)
  BY <1>1, MaxLemma
<1>3. Min(F) \in F /\ \A i \in F : Min(F) <= i
  BY <1>1, MinLemma
<1>. QED BY <1>1, <1>2, <1>3 DEF First

\* The lesser and the greater of two numbers.
LEMMA PairLemma ==
  ASSUME NEW a \in Nat \ {0}, NEW b \in Nat \ {0}
  PROVE  /\ Max({a, b}) = IF a <= b THEN b ELSE a
         /\ Min({a - 1, b}) = IF a - 1 <= b THEN a - 1 ELSE b
<1>1. a + b \in Nat /\ {a, b} \in SUBSET (1..(a + b)) /\ {a - 1, b} \in SUBSET Nat
  OBVIOUS
<1>2. Max({a, b}) \in {a, b} /\ \A y \in {a, b} : y <= Max({a, b})
  BY <1>1, MaxLemma
<1>3. Min({a - 1, b}) \in {a - 1, b} /\ \A y \in {a - 1, b} : Min({a - 1, b}) <= y
  BY <1>1, MinLemma
<1>. QED BY <1>2, <1>3

\* A piece of a text.
LEMMA PieceLemma ==
  ASSUME NEW text \in Seq(Line), NEW m \in Nat \ {0}, NEW n \in 0..Len(text)
  PROVE  /\ SubSeq(text, m, n) \in Seq(Line)
         /\ Len(SubSeq(text, m, n)) = IF m <= n THEN n - m + 1 ELSE 0
         /\ \A i \in 1..(n - m + 1) : SubSeq(text, m, n)[i] = text[m + i - 1]
         /\ n < m => SubSeq(text, m, n) = <<>>
<1>1. m \in Int /\ n \in Int /\ \A i \in m..n : text[i] \in Line
  OBVIOUS
<1>. QED BY <1>1, SubSeqProperties, SubSeqEmpty

\* When all that counts stands on one side of the section, Rest is a piece.
LEMMA RestOnOneSide ==
  ASSUME NEW text \in Seq(Line), NEW s, NEW e, Marked(text, s, e),
         NEW F, F = Filled(text, s, e), F # {}, Max(F) < s \/ e < First(F)
  PROVE  Rest(text) = SubSeq(text, First(F), Max(F))
<1> DEFINE f == First(F)
           l == Max(F)
<1>1. /\ Len(text) \in Nat /\ s \in 1..Len(text) /\ e \in 1..Len(text) /\ s < e
      /\ Start(text) = s /\ End(text) = e
  <2>1. Start(text) = s /\ End(text) = e
    BY MarkedLemma
  <2>. QED BY <2>1 DEF Marked
<1>2. l \in 1..Len(text) /\ f \in 1..l
  <2>1. s \in Nat /\ e \in Nat
    BY <1>1
  <2>2. l \in F /\ f \in 1..l
    BY <2>1, FilledLemma
  <2>. QED BY <2>2 DEF Filled
<1>3. Rest(text) = SubSeq(text, f, Min({s - 1, l})) \o SubSeq(text, Max({e + 1, f}), l)
  <2>1. Start(text) # 0 /\ F = Filled(text, Start(text), End(text))
    BY <1>1
  <2>2. Rest(text) = SubSeq(text, f, Min({Start(text) - 1, l}))
                       \o SubSeq(text, Max({End(text) + 1, f}), l)
    BY <2>1, RestIs
  <2>. QED BY <1>1, <2>2
<1>4. l < s \/ e < f
  OBVIOUS
<1> HIDE DEF f, l
<1>5. /\ Max({e + 1, f}) = IF e + 1 <= f THEN f ELSE e + 1
      /\ Min({s - 1, l}) = IF s - 1 <= l THEN s - 1 ELSE l
  <2>1. e + 1 \in Nat \ {0} /\ f \in Nat \ {0} /\ s \in Nat \ {0} /\ l \in Nat \ {0}
    BY <1>1, <1>2
  <2>. QED BY <2>1, PairLemma
<1>6. SubSeq(text, f, l) \in Seq(Line)
  BY <1>1, <1>2, PieceLemma
<1>7. CASE l < s
  <2>1. Min({s - 1, l}) = l /\ l < Max({e + 1, f}) /\ Max({e + 1, f}) \in Nat \ {0}
    BY <1>1, <1>2, <1>5, <1>7
  <2>2. SubSeq(text, Max({e + 1, f}), l) = <<>>
    BY <1>1, <1>2, <2>1, PieceLemma
  <2>3. Rest(text) = SubSeq(text, f, l)
    BY <1>3, <1>6, <2>1, <2>2, ConcatEmptySeq
  <2>. QED BY <2>3 DEF f, l
<1>8. CASE e < f
  <2>1. Max({e + 1, f}) = f /\ Min({s - 1, l}) < f /\ Min({s - 1, l}) \in 0..Len(text)
    BY <1>1, <1>2, <1>5, <1>8
  <2>2. SubSeq(text, f, Min({s - 1, l})) = <<>>
    BY <1>1, <1>2, <2>1, PieceLemma
  <2>3. Rest(text) = SubSeq(text, f, l)
    BY <1>3, <1>6, <2>1, <2>2, ConcatEmptySeq
  <2>. QED BY <2>3 DEF f, l
<1>. QED BY <1>4, <1>7, <1>8

\* One that is free of markers, and ends and begins as Rest makes it.
OnePiece(text, f, l) ==
  /\ f \in 1..l /\ l \in 1..Len(text)
  /\ text[l] # "blank" /\ (kind # "hosts" => text[f] # "blank")
  /\ \A i \in f..l : text[i] \notin Markers

\* Two of them around a section from s to e.
TwoPieces(text, f, s, e, l) ==
  /\ f \in 1..s /\ s \in 1..(e - 1) /\ e \in 1..(l - 1) /\ l \in 1..Len(text)
  /\ text[l] # "blank" /\ (kind # "hosts" => f < s /\ text[f] # "blank")
  /\ \A i \in 1..Len(text) : i # s /\ i # e => text[i] \notin Markers

\* Rest is nothing, one piece of the text or two.
LEMMA RestForm ==
  ASSUME NEW text, Whole(text)
  PROVE  \/ Rest(text) = <<>>
         \/ \E f, l \in 1..Len(text) :
              OnePiece(text, f, l) /\ Rest(text) = SubSeq(text, f, l)
         \/ \E f, s, e, l \in 1..Len(text) :
              /\ TwoPieces(text, f, s, e, l)
              /\ Rest(text) = SubSeq(text, f, s - 1) \o SubSeq(text, e + 1, l)
<1> DEFINE s == Start(text)
           e == End(text)
           F == Filled(text, s, e)
           f == First(F)
           l == Max(F)
<1>1. text \in Seq(Line) /\ Len(text) \in Nat /\ s \in Nat /\ e \in Nat
  BY StartLemma, EndLemma DEF Whole
<1>2. CASE F = {}
  BY <1>1, <1>2, RestIs
<1>3. ASSUME F # {}
      PROVE  /\ l \in F /\ l \in 1..Len(text) /\ f \in 1..l
             /\ kind # "hosts" => f \in F
             /\ text[l] # "blank" /\ (kind # "hosts" => text[f] # "blank")
             /\ l < s \/ e < l
             /\ kind # "hosts" => f < s \/ e < f
  <2>1. l \in F /\ f \in 1..l /\ (kind # "hosts" => f \in F)
    BY <1>1, <1>3, FilledLemma
  <2>. QED BY <2>1 DEF Filled
<1>4. CASE F # {} /\ Free(text)
  <2>1. s = 0
    BY <1>1, <1>4, FreeLemma
  <2>2. Rest(text) = SubSeq(text, f, l)
    BY <1>1, <1>4, <2>1, RestIs
  <2>3. OnePiece(text, f, l) /\ f \in 1..Len(text) /\ l \in 1..Len(text)
    BY <1>1, <1>3, <1>4 DEF OnePiece, Free
  <2>. QED BY <2>2, <2>3
<1>5. CASE F # {} /\ Marked(text, s, e)
  <2>1. /\ s \in 1..Len(text) /\ e \in 1..Len(text) /\ s < e
        /\ \A i \in 1..Len(text) : i # s /\ i # e => text[i] \notin Markers
    BY <1>5 DEF Marked
  <2>2. /\ l \in 1..Len(text) /\ f \in 1..l /\ (l < s \/ e < l)
        /\ kind # "hosts" => f < s \/ e < f
        /\ text[l] # "blank" /\ (kind # "hosts" => text[f] # "blank")
    BY <1>3, <1>5
  <2>3. Rest(text) = SubSeq(text, f, Min({s - 1, l})) \o SubSeq(text, Max({e + 1, f}), l)
    <3>1. s # 0
      BY <2>1
    <3>. QED BY <1>1, <1>5, <3>1, RestIs
  <2>4. /\ Max({e + 1, f}) = IF e + 1 <= f THEN f ELSE e + 1
        /\ Min({s - 1, l}) = IF s - 1 <= l THEN s - 1 ELSE l
    <3> HIDE DEF f, l, s, e
    <3>1. e + 1 \in Nat \ {0} /\ f \in Nat \ {0} /\ s \in Nat \ {0} /\ l \in Nat \ {0}
      BY <1>1, <2>1, <2>2
    <3>. QED BY <3>1, PairLemma
  <2> HIDE DEF f, l, s, e, F
  <2>5. CASE l < s \/ e < f
    <3>1. Rest(text) = SubSeq(text, f, l)
      BY <1>1, <1>5, <2>5, RestOnOneSide DEF F, f, l
    <3>2. OnePiece(text, f, l) /\ f \in 1..Len(text)
      BY <1>1, <2>1, <2>2, <2>5 DEF OnePiece
    <3>. QED BY <2>2, <3>1, <3>2
  <2>6. CASE ~(l < s) /\ ~(e < f)
    <3>1. e < l
      BY <2>2, <2>6
    <3>2. f <= s
      <4>1. CASE kind = "hosts"
        BY <2>1, <4>1 DEF f, First
      <4>2. CASE kind # "hosts"
        BY <1>1, <2>1, <2>2, <2>6, <4>2
      <4>. QED BY <4>1, <4>2
    <3>3. Max({e + 1, f}) = e + 1 /\ Min({s - 1, l}) = s - 1
      BY <1>1, <2>1, <2>2, <2>4, <2>6
    <3>4. TwoPieces(text, f, s, e, l) /\ f \in 1..Len(text)
      BY <1>1, <2>1, <2>2, <2>6, <3>1, <3>2 DEF TwoPieces
    <3>. QED BY <2>1, <2>2, <2>3, <3>3, <3>4
  <2>. QED BY <2>5, <2>6
<1>. QED BY <1>2, <1>4, <1>5, WholeLemma

\* What is left is free of markers, and of blank lines where Rest cuts them off.
LEMMA RestShape ==
  ASSUME NEW text, Whole(text)
  PROVE  Rest(text) \in Seq(Line) /\ Free(Rest(text)) /\ Trimmed(Rest(text))
<1>1. text \in Seq(Line) /\ Len(text) \in Nat
  BY DEF Whole
<1>2. CASE Rest(text) = <<>>
  BY <1>2 DEF Free, Trimmed
<1>3. ASSUME NEW f \in 1..Len(text), NEW l \in 1..Len(text),
             OnePiece(text, f, l), Rest(text) = SubSeq(text, f, l)
      PROVE  Rest(text) \in Seq(Line) /\ Free(Rest(text)) /\ Trimmed(Rest(text))
  <2>1. /\ Rest(text) \in Seq(Line) /\ Len(Rest(text)) = l - f + 1
        /\ \A i \in 1..(l - f + 1) : Rest(text)[i] = text[f + i - 1]
    BY <1>1, <1>3, PieceLemma DEF OnePiece
  <2>2. \A i \in 1..(l - f + 1) : f + i - 1 \in f..l
    BY <1>1
  <2>3. Free(Rest(text))
    BY <1>3, <2>1, <2>2 DEF Free, OnePiece
  <2>4. Rest(text)[1] = text[f] /\ Rest(text)[l - f + 1] = text[l]
    BY <1>3, <2>1 DEF OnePiece
  <2>. QED BY <1>3, <2>1, <2>3, <2>4 DEF Trimmed, OnePiece
<1>4. ASSUME NEW f \in 1..Len(text), NEW s \in 1..Len(text),
             NEW e \in 1..Len(text), NEW l \in 1..Len(text), TwoPieces(text, f, s, e, l),
             Rest(text) = SubSeq(text, f, s - 1) \o SubSeq(text, e + 1, l)
      PROVE  Rest(text) \in Seq(Line) /\ Free(Rest(text)) /\ Trimmed(Rest(text))
  <2> DEFINE a == SubSeq(text, f, s - 1)
             b == SubSeq(text, e + 1, l)
  <2>1. f <= s /\ s < e /\ e < l
    BY <1>4 DEF TwoPieces
  <2>2. /\ a \in Seq(Line) /\ Len(a) = s - f
        /\ \A i \in 1..(s - f) : a[i] = text[f + i - 1]
    BY <1>1, <2>1, PieceLemma
  <2>3. /\ b \in Seq(Line) /\ Len(b) = l - e
        /\ \A i \in 1..(l - e) : b[i] = text[e + i]
    BY <1>1, <2>1, PieceLemma
  <2> HIDE DEF a, b
  <2>4. /\ a \o b \in Seq(Line) /\ Len(a \o b) = s - f + (l - e)
        /\ \A i \in 1..(s - f + (l - e)) :
             (a \o b)[i] = IF i <= s - f THEN a[i] ELSE b[i - (s - f)]
    <3>1. /\ a \o b \in Seq(Line) /\ Len(a \o b) = Len(a) + Len(b)
          /\ \A i \in 1..(Len(a) + Len(b)) :
               (a \o b)[i] = IF i <= Len(a) THEN a[i] ELSE b[i - Len(a)]
      BY <2>2, <2>3, ConcatProperties
    <3>. QED BY <2>2, <2>3, <3>1
  <2>5. \A i \in 1..(s - f) : a[i] \notin Markers
    <3>1. \A i \in 1..(s - f) : /\ f + i - 1 \in 1..Len(text)
                               /\ f + i - 1 # s /\ f + i - 1 # e
      BY <1>1, <2>1
    <3>. QED BY <1>4, <2>2, <3>1 DEF TwoPieces
  <2>6. \A i \in 1..(l - e) : b[i] \notin Markers
    <3>1. \A i \in 1..(l - e) : /\ e + i \in 1..Len(text)
                               /\ e + i # s /\ e + i # e
      BY <1>1, <2>1
    <3>. QED BY <1>4, <2>3, <3>1 DEF TwoPieces
  <2>7. Free(a \o b)
    <3>1. ASSUME NEW i \in 1..(s - f + (l - e)) PROVE (a \o b)[i] \notin Markers
      <4>1. CASE i <= s - f
        <5>1. i \in 1..(s - f) /\ (a \o b)[i] = a[i]
          BY <1>1, <2>1, <2>4, <3>1, <4>1
        <5>. QED BY <2>5, <5>1
      <4>2. CASE ~(i <= s - f)
        <5>1. i - (s - f) \in 1..(l - e) /\ (a \o b)[i] = b[i - (s - f)]
          BY <1>1, <2>1, <2>4, <3>1, <4>2
        <5>. QED BY <2>6, <5>1
      <4>. QED BY <4>1, <4>2
    <3>. QED BY <2>4, <3>1 DEF Free
  <2>8. (a \o b)[Len(a \o b)] # "blank"
    <3>1. (a \o b)[Len(a \o b)] = text[l]
      BY <2>1, <2>3, <2>4
    <3>. QED BY <1>4, <3>1 DEF TwoPieces
  <2>9. ASSUME kind # "hosts" PROVE (a \o b)[1] # "blank"
    <3>1. f < s /\ text[f] # "blank"
      BY <1>4, <2>9 DEF TwoPieces
    <3>2. (a \o b)[1] = text[f]
      BY <2>1, <2>2, <2>4, <3>1
    <3>. QED BY <3>1, <3>2
  <2>10. Rest(text) = a \o b
    BY <1>4 DEF a, b
  <2>. QED BY <2>4, <2>7, <2>8, <2>9, <2>10 DEF Trimmed
<1>. QED BY <1>2, <1>3, <1>4, RestForm

\* Of a text like that it leaves everything.
LEMMA RestOfTrimmed ==
  ASSUME NEW r \in Seq(Line), Free(r), Trimmed(r)
  PROVE  Rest(r) = r
<1> DEFINE F == Filled(r, 0, 0)
<1>1. Start(r) = 0 /\ End(r) = 0 /\ Len(r) \in Nat
  BY FreeLemma
<1>2. CASE r = <<>>
  <2>1. F = {}
    BY <1>2 DEF Filled
  <2>. QED BY <1>1, <1>2, <2>1, RestIs
<1>3. CASE r # <<>>
  <2>1. Len(r) \in 1..Len(r)
    BY <1>3, EmptySeq
  <2>2. Len(r) \in F /\ F \in SUBSET (1..Len(r)) /\ (kind # "hosts" => 1 \in F)
    BY <1>3, <2>1 DEF Filled, Trimmed
  <2>3. /\ Max(F) \in F /\ First(F) \in 1..Max(F)
        /\ \A i \in F : First(F) <= i /\ i <= Max(F)
    BY <2>2, FilledLemma
  <2>4. Max(F) = Len(r)
    <3>1. Len(r) <= Max(F) /\ Max(F) \in 1..Len(r)
      <4> HIDE DEF F
      <4>. QED BY <2>2, <2>3
    <3>. QED BY <1>1, <3>1
  <2>5. First(F) = 1
    <3>1. CASE kind = "hosts"
      BY <3>1 DEF First
    <3>2. CASE kind # "hosts"
      <4> HIDE DEF F
      <4>. QED BY <2>2, <2>3, <3>2
    <3>. QED BY <3>1, <3>2
  <2>6. Rest(r) = SubSeq(r, First(F), Max(F))
    BY <1>1, <2>2, RestIs
  <2>. QED BY <2>4, <2>5, <2>6, SubSeqFull
<1>. QED BY <1>2, <1>3

-----------------------------------------------------------------------------
(* What Rendered makes of a text.                                          *)

\* A section is its lines between the markers.
LEMMA SectionLemma ==
  ASSUME NEW lines \in PlainBody
  PROVE  /\ lines \in Seq(Line) /\ Section(lines) \in Seq(Line)
         /\ Len(Section(lines)) = Len(lines) + 2
         /\ Section(lines)[1] = "begin" /\ Section(lines)[Len(lines) + 2] = "end"
         /\ \A i \in 1..Len(lines) :
              Section(lines)[i + 1] = lines[i] /\ lines[i] \notin Markers
<1>1. lines \in Seq(Line) /\ Len(lines) \in Nat
  BY ManagedFileAssumption DEF PlainBody
<1>2. \A i \in 1..Len(lines) : lines[i] \notin Markers
  BY <1>1 DEF Markers, PlainBody, Plain
<1>3. <<"begin">> \in Seq(Line) /\ <<"end">> \in Seq(Line)
  BY DEF Line
<1> DEFINE a == <<"begin">> \o lines
<1>4. /\ a \in Seq(Line) /\ Len(a) = 1 + Len(lines)
      /\ a[1] = "begin" /\ \A i \in 1..Len(lines) : a[i + 1] = lines[i]
  <2>1. /\ a \in Seq(Line) /\ Len(a) = Len(<<"begin">>) + Len(lines)
        /\ \A i \in 1..(Len(<<"begin">>) + Len(lines)) :
             a[i] = IF i <= Len(<<"begin">>) THEN <<"begin">>[i]
                    ELSE lines[i - Len(<<"begin">>)]
    BY <1>1, <1>3, ConcatProperties
  <2>2. Len(<<"begin">>) = 1 /\ <<"begin">>[1] = "begin"
    OBVIOUS
  <2>3. \A i \in 1..Len(lines) : i + 1 \in 1..(1 + Len(lines)) /\ (i + 1) - 1 = i
    BY <1>1
  <2> HIDE DEF a
  <2>. QED BY <1>1, <2>1, <2>2, <2>3
<1>5. /\ a \o <<"end">> \in Seq(Line) /\ Len(a \o <<"end">>) = Len(lines) + 2
      /\ (a \o <<"end">>)[Len(lines) + 2] = "end"
      /\ \A i \in 1..(Len(lines) + 1) : (a \o <<"end">>)[i] = a[i]
  <2> HIDE DEF a
  <2>1. /\ a \o <<"end">> \in Seq(Line) /\ Len(a \o <<"end">>) = Len(a) + Len(<<"end">>)
        /\ \A i \in 1..(Len(a) + Len(<<"end">>)) :
             (a \o <<"end">>)[i] = IF i <= Len(a) THEN a[i] ELSE <<"end">>[i - Len(a)]
    BY <1>3, <1>4, ConcatProperties
  <2>2. Len(<<"end">>) = 1 /\ <<"end">>[1] = "end"
    OBVIOUS
  <2>. QED BY <1>1, <1>4, <2>1, <2>2
<1>6. Section(lines) = a \o <<"end">>
  BY DEF Section
<1> HIDE DEF a
<1>. QED BY <1>1, <1>2, <1>4, <1>5, <1>6

\* A section with something before and after it.
Placed(a, lines, b) == a \o Section(lines) \o b

Between(text, a, lines, b) ==
  /\ text \in Seq(Line) /\ Len(text) = Len(a) + Len(lines) + 2 + Len(b)
  /\ Marked(text, Len(a) + 1, Len(a) + Len(lines) + 2)
  /\ \A i \in 1..Len(a) : text[i] = a[i]
  /\ \A i \in 1..Len(lines) : text[Len(a) + 1 + i] = lines[i]
  /\ \A i \in 1..Len(b) : text[Len(a) + Len(lines) + 2 + i] = b[i]

\* The section is found between the two.
LEMMA PlacedLemma ==
  ASSUME NEW a \in Seq(Line), NEW b \in Seq(Line), Free(a), Free(b),
         NEW lines \in PlainBody
  PROVE  Between(Placed(a, lines, b), a, lines, b)
<1> DEFINE text == Placed(a, lines, b)
           S == Section(lines)
           n == Len(lines)
<1>1. /\ S \in Seq(Line) /\ Len(S) = n + 2 /\ S[1] = "begin" /\ S[n + 2] = "end"
      /\ \A i \in 1..n : S[i + 1] = lines[i] /\ lines[i] \notin Markers
      /\ lines \in Seq(Line)
  BY SectionLemma
<1>2. n \in Nat /\ Len(a) \in Nat /\ Len(b) \in Nat
  BY <1>1
<1> HIDE DEF S, n
<1>3. /\ a \o S \in Seq(Line) /\ Len(a \o S) = Len(a) + n + 2
      /\ \A i \in 1..(Len(a) + n + 2) :
           (a \o S)[i] = IF i <= Len(a) THEN a[i] ELSE S[i - Len(a)]
  <2>1. /\ a \o S \in Seq(Line) /\ Len(a \o S) = Len(a) + Len(S)
        /\ \A i \in 1..(Len(a) + Len(S)) :
             (a \o S)[i] = IF i <= Len(a) THEN a[i] ELSE S[i - Len(a)]
    <3>1. S \in Seq(Line)
      BY <1>1
    <3>. QED BY <3>1, ConcatProperties
  <2>. QED BY <1>1, <1>2, <2>1
<1>4. /\ text \in Seq(Line) /\ Len(text) = Len(a) + n + 2 + Len(b)
      /\ \A i \in 1..(Len(a) + n + 2 + Len(b)) :
           text[i] = IF i <= Len(a) + n + 2 THEN (a \o S)[i] ELSE b[i - (Len(a) + n + 2)]
  <2>1. /\ (a \o S) \o b \in Seq(Line) /\ Len((a \o S) \o b) = Len(a \o S) + Len(b)
        /\ \A i \in 1..(Len(a \o S) + Len(b)) :
             ((a \o S) \o b)[i] = IF i <= Len(a \o S) THEN (a \o S)[i]
                                  ELSE b[i - Len(a \o S)]
    BY <1>3, ConcatProperties
  <2>2. text = (a \o S) \o b
    BY DEF S, Placed
  <2> HIDE DEF text
  <2>. QED BY <1>2, <1>3, <2>1, <2>2
<1> HIDE DEF text
<1>5. \A i \in 1..Len(a) : text[i] = a[i]
  BY <1>2, <1>3, <1>4
<1>6. \A i \in 1..(n + 2) : text[Len(a) + i] = S[i]
  <2>1. ASSUME NEW i \in 1..(n + 2) PROVE text[Len(a) + i] = S[i]
    <3>1. /\ Len(a) + i \in 1..(Len(a) + n + 2) /\ ~(Len(a) + i <= Len(a))
          /\ Len(a) + i <= Len(a) + n + 2
          /\ Len(a) + i \in 1..(Len(a) + n + 2 + Len(b)) /\ (Len(a) + i) - Len(a) = i
      BY <1>2, <2>1
    <3>. QED BY <1>3, <1>4, <3>1
  <2>. QED BY <2>1
<1>7. \A i \in 1..Len(b) : text[Len(a) + n + 2 + i] = b[i]
  <2>1. ASSUME NEW i \in 1..Len(b) PROVE text[Len(a) + n + 2 + i] = b[i]
    <3>1. /\ Len(a) + n + 2 + i \in 1..(Len(a) + n + 2 + Len(b))
          /\ ~(Len(a) + n + 2 + i <= Len(a) + n + 2)
          /\ (Len(a) + n + 2 + i) - (Len(a) + n + 2) = i
      BY <1>2, <2>1
    <3>. QED BY <1>4, <3>1
  <2>. QED BY <2>1
<1>8. \A i \in 1..n : text[Len(a) + 1 + i] = lines[i]
  <2>1. ASSUME NEW i \in 1..n PROVE text[Len(a) + 1 + i] = lines[i]
    <3>1. i + 1 \in 1..(n + 2) /\ Len(a) + (i + 1) = Len(a) + 1 + i
      BY <1>2, <2>1
    <3>. QED BY <1>1, <1>6, <3>1
  <2>. QED BY <2>1
<1>9. text[Len(a) + 1] = "begin" /\ text[Len(a) + n + 2] = "end"
  <2>1. 1 \in 1..(n + 2) /\ n + 2 \in 1..(n + 2) /\ Len(a) + (n + 2) = Len(a) + n + 2
    BY <1>2
  <2>2. text[Len(a) + 1] = S[1] /\ text[Len(a) + (n + 2)] = S[n + 2]
    BY <1>6, <2>1
  <2>. QED BY <1>1, <2>1, <2>2
<1>10. ASSUME NEW i \in 1..Len(text), i # Len(a) + 1, i # Len(a) + n + 2
       PROVE  text[i] \notin Markers
  <2>1. CASE i <= Len(a)
    <3>1. i \in 1..Len(a)
      BY <1>2, <1>4, <1>10, <2>1
    <3>. QED BY <1>5, <3>1 DEF Free
  <2>2. CASE Len(a) < i /\ i <= Len(a) + n + 2
    <3>1. i - Len(a) - 1 \in 1..n /\ Len(a) + 1 + (i - Len(a) - 1) = i
      <4>1. i \in Nat /\ i # Len(a) + 1 /\ i # Len(a) + n + 2
        BY <1>2, <1>4, <1>10
      <4>2. Len(a) + 1 < i /\ i < Len(a) + n + 2
        BY <1>2, <2>2, <4>1
      <4>. QED BY <1>2, <4>1, <4>2
    <3>2. text[i] = lines[i - Len(a) - 1]
      BY <1>8, <3>1
    <3>. QED BY <1>1, <3>1, <3>2
  <2>3. CASE Len(a) + n + 2 < i
    <3>1. /\ i - (Len(a) + n + 2) \in 1..Len(b)
          /\ Len(a) + n + 2 + (i - (Len(a) + n + 2)) = i
      BY <1>2, <1>4, <1>10, <2>3
    <3>2. text[i] = b[i - (Len(a) + n + 2)]
      BY <1>7, <3>1
    <3>. QED BY <3>1, <3>2 DEF Free
  <2>. QED BY <1>2, <1>4, <2>1, <2>2, <2>3
<1>11. Marked(text, Len(a) + 1, Len(a) + n + 2)
  <2>1. /\ Len(a) + 1 \in 1..Len(text) /\ Len(a) + n + 2 \in 1..Len(text)
        /\ Len(a) + 1 < Len(a) + n + 2
    BY <1>2, <1>4
  <2>. QED BY <1>9, <1>10, <2>1 DEF Marked
<1>12. Between(text, a, lines, b)
  BY <1>4, <1>5, <1>7, <1>8, <1>11 DEF n, Between
<1>. QED BY <1>12 DEF text

\* A text in which another stands, after k lines.
Stands(text, r, k) ==
  /\ text \in Seq(Line) /\ r \in Seq(Line) /\ k \in Nat
  /\ k + Len(r) <= Len(text) /\ \A i \in 1..Len(r) : text[k + i] = r[i]

\* SubSeq returns it.
LEMMA PieceIs ==
  ASSUME NEW text, NEW r, NEW k, Stands(text, r, k)
  PROVE  SubSeq(text, k + 1, k + Len(r)) = r
<1> DEFINE p == SubSeq(text, k + 1, k + Len(r))
<1>1. /\ text \in Seq(Line) /\ r \in Seq(Line) /\ k \in Nat
      /\ Len(r) \in Nat /\ Len(text) \in Nat
      /\ k + Len(r) <= Len(text) /\ \A i \in 1..Len(r) : text[k + i] = r[i]
  BY DEF Stands
<1>2. /\ p \in Seq(Line)
      /\ Len(p) = IF k + 1 <= k + Len(r) THEN k + Len(r) - (k + 1) + 1 ELSE 0
      /\ \A i \in 1..(k + Len(r) - (k + 1) + 1) : p[i] = text[k + 1 + i - 1]
  <2>1. k + 1 \in Nat \ {0} /\ k + Len(r) \in 0..Len(text)
    BY <1>1
  <2>. QED BY <1>1, <2>1, PieceLemma
<1> HIDE DEF p
<1>3. Len(p) = Len(r)
  BY <1>1, <1>2
<1>4. ASSUME NEW i \in 1..Len(r) PROVE p[i] = r[i]
  <2>1. i \in 1..(k + Len(r) - (k + 1) + 1) /\ k + 1 + i - 1 = k + i
    BY <1>1
  <2>2. p[i] = text[k + i]
    BY <1>2, <2>1
  <2>. QED BY <1>1, <2>2
<1>5. p = r
  BY <1>1, <1>2, <1>3, <1>4, SeqEqual
<1>. QED BY <1>5 DEF p

\* Nothing is left of a section alone.
LEMMA RestOfSection ==
  ASSUME NEW lines \in PlainBody
  PROVE  /\ Rest(Section(lines)) = <<>> /\ Section(lines) \in Seq(Line)
         /\ Marked(Section(lines), 1, Len(lines) + 2)
         /\ Len(Section(lines)) = Len(lines) + 2
         /\ \A i \in 1..Len(lines) : Section(lines)[1 + i] = lines[i]
<1> DEFINE text == Section(lines)
           F == Filled(text, 1, Len(lines) + 2)
           none == <<>>
<1>1. Len(lines) \in Nat /\ text \in Seq(Line) /\ Len(text) = Len(lines) + 2
  BY SectionLemma
<1>2. text = Placed(none, lines, none)
  <2>1. text = none \o text \o none
    <3> HIDE DEF text
    <3>. QED BY <1>1, ConcatEmptySeq
  <2>. QED BY <2>1 DEF Placed
<1>3. none \in Seq(Line) /\ Len(none) = 0 /\ Free(none)
  BY EmptySeq DEF Free
<1> HIDE DEF none
<1>4. Between(text, none, lines, none)
  <2> HIDE DEF text
  <2>. QED BY <1>2, <1>3, PlacedLemma
<1>5. Marked(text, 1, Len(lines) + 2) /\ \A i \in 1..Len(lines) : text[1 + i] = lines[i]
  <2>1. /\ Marked(text, Len(none) + 1, Len(none) + Len(lines) + 2)
        /\ \A i \in 1..Len(lines) : text[Len(none) + 1 + i] = lines[i]
    BY <1>4 DEF Between
  <2>2. Len(none) + 1 = 1 /\ Len(none) + Len(lines) + 2 = Len(lines) + 2
    BY <1>1, <1>3
  <2>. QED BY <2>1, <2>2
<1>6. Start(text) = 1 /\ End(text) = Len(lines) + 2
  BY <1>1, <1>5, MarkedLemma
<1>7. F = {}
  BY <1>1 DEF Filled
<1>8. Rest(text) = <<>>
  <2>1. 1 \in Nat /\ Len(lines) + 2 \in Nat
    BY <1>1
  <2> HIDE DEF text
  <2>. QED BY <1>1, <1>6, <1>7, <2>1, RestIs
<1>. QED BY <1>1, <1>5, <1>8

\* A text before a section, or after it.
SectionLast(r, lines) == r \o <<"blank">> \o Section(lines)
SectionFirst(lines, r) == Section(lines) \o <<"blank">> \o r

\* What stands before a section is left, without the blank line between them.
LEMMA RestBeforeSection ==
  ASSUME NEW r \in Seq(Line), Free(r), Trimmed(r), r # <<>>, NEW lines \in PlainBody,
         NEW text, text = SectionLast(r, lines)
  PROVE  /\ Rest(text) = r /\ text \in Seq(Line)
         /\ Marked(text, Len(r) + 2, Len(r) + Len(lines) + 3)
         /\ \A i \in 1..Len(lines) : text[Len(r) + 2 + i] = lines[i]
<1> DEFINE a == r \o <<"blank">>
           m == Len(r)
           n == Len(lines)
           F == Filled(text, m + 2, m + n + 3)
           none == <<>>
<1>1. m \in Nat \ {0} /\ n \in Nat
  <2>1. n \in Nat
    BY SectionLemma
  <2>. QED BY <2>1, EmptySeq
<1>2. a \in Seq(Line) /\ Len(a) = m + 1 /\ a[m + 1] = "blank" /\ \A i \in 1..m : a[i] = r[i]
  <2>1. <<"blank">> \in Seq(Line) /\ Len(<<"blank">>) = 1 /\ <<"blank">>[1] = "blank"
    BY DEF Line
  <2>2. /\ a \in Seq(Line) /\ Len(a) = m + Len(<<"blank">>)
        /\ \A i \in 1..(m + Len(<<"blank">>)) :
             a[i] = IF i <= m THEN r[i] ELSE <<"blank">>[i - m]
    BY <2>1, ConcatProperties
  <2> HIDE DEF a, m
  <2>. QED BY <1>1, <2>1, <2>2
<1>3. Free(a)
  <2>1. \A i \in 1..(m + 1) : i \in 1..m \/ i = m + 1
    BY <1>1
  <2> HIDE DEF a
  <2>. QED BY <1>2, <2>1 DEF Free, Markers
<1>4. none \in Seq(Line) /\ Len(none) = 0 /\ Free(none)
  BY EmptySeq DEF Free
<1>5. text = Placed(a, lines, none)
  <2>1. a \o Section(lines) \in Seq(Line)
    <3> HIDE DEF a
    <3>. QED BY <1>2, SectionLemma, ConcatProperties
  <2>2. (a \o Section(lines)) \o <<>> = a \o Section(lines)
    <3> HIDE DEF a
    <3>. QED BY <2>1, ConcatEmptySeq
  <2>. QED BY <2>2 DEF Placed, SectionLast
<1> HIDE DEF a, m, n, F, none
<1>6. /\ text \in Seq(Line) /\ Len(text) = m + 1 + n + 2
      /\ Marked(text, m + 2, m + n + 3)
      /\ \A i \in 1..m : text[i] = r[i]
      /\ \A i \in 1..n : text[m + 2 + i] = lines[i]
      /\ text[m + 1] = "blank"
  <2>1. /\ text \in Seq(Line) /\ Len(text) = Len(a) + n + 2 + Len(none)
        /\ Marked(text, Len(a) + 1, Len(a) + n + 2)
        /\ \A i \in 1..Len(a) : text[i] = a[i]
        /\ \A i \in 1..n : text[Len(a) + 1 + i] = lines[i]
    <3>1. Between(text, a, lines, none)
      BY <1>2, <1>3, <1>4, <1>5, PlacedLemma
    <3>. QED BY <3>1 DEF Between, n
  <2>2. Len(a) + 1 = m + 2 /\ Len(a) + n + 2 = m + n + 3
    BY <1>1, <1>2
  <2>3. Marked(text, m + 2, m + n + 3) /\ \A i \in 1..n : text[m + 2 + i] = lines[i]
    BY <2>1, <2>2
  <2>4. text[m + 1] = "blank" /\ \A i \in 1..m : text[i] = r[i]
    BY <1>1, <1>2, <2>1
  <2>. QED BY <1>1, <1>2, <1>4, <2>1, <2>3, <2>4
<1>7. Start(text) = m + 2 /\ End(text) = m + n + 3
  BY <1>6, MarkedLemma
<1>8. m \in F /\ (kind # "hosts" => 1 \in F) /\ F \in SUBSET (1..m)
  <2>1. r[m] # "blank" /\ (kind # "hosts" => r[1] # "blank")
    BY DEF Trimmed, m
  <2>2. m \in 1..m /\ 1 \in 1..m
    BY <1>1
  <2>3. text[m] # "blank" /\ (kind # "hosts" => text[1] # "blank")
    BY <1>6, <2>1, <2>2
  <2>4. \A i \in F : i \in 1..m
    BY <1>1, <1>6 DEF F, Filled
  <2>. QED BY <1>1, <1>6, <2>3, <2>4 DEF F, Filled
<1>9. Max(F) = m /\ First(F) = 1
  <2>1. /\ Max(F) \in F /\ First(F) \in 1..Max(F)
        /\ \A i \in F : First(F) <= i /\ i <= Max(F)
    <3>1. m + 2 \in Nat /\ m + n + 3 \in Nat /\ F # {}
      BY <1>1, <1>8
    <3>. QED BY <1>6, <3>1, FilledLemma DEF F
  <2>2. Max(F) = m
    <3>1. m <= Max(F) /\ Max(F) \in 1..m
      BY <1>8, <2>1
    <3>. QED BY <1>1, <3>1
  <2>3. First(F) = 1
    <3>1. CASE kind = "hosts"
      BY <3>1 DEF First
    <3>2. CASE kind # "hosts"
      BY <1>1, <1>8, <2>1, <3>2
    <3>. QED BY <3>1, <3>2
  <2>. QED BY <2>2, <2>3
<1>10. SubSeq(text, 1, m) = r
  <2>1. Stands(text, r, 0)
    BY <1>1, <1>6 DEF Stands, m
  <2>2. 1 = 0 + 1 /\ m = 0 + m
    BY <1>1
  <2>3. SubSeq(text, 0 + 1, 0 + Len(r)) = r
    BY <2>1, PieceIs
  <2>. QED BY <2>2, <2>3, Zenon DEF m
<1>11. Rest(text) = r
  <2>1. F # {} /\ Max(F) < m + 2
    BY <1>1, <1>8, <1>9
  <2>2. Rest(text) = SubSeq(text, First(F), Max(F))
    BY <1>6, <2>1, RestOnOneSide DEF F
  <2>. QED BY <1>9, <1>10, <2>2
<1>. QED BY <1>6, <1>11 DEF m, n

\* What stands after a section at the start is left, without the blank line
\* between them.
LEMMA RestAfterSection ==
  ASSUME kind # "hosts", NEW r \in Seq(Line), Free(r), Trimmed(r), r # <<>>,
         NEW lines \in PlainBody, NEW text, text = SectionFirst(lines, r)
  PROVE  /\ Rest(text) = r /\ text \in Seq(Line)
         /\ Marked(text, 1, Len(lines) + 2)
         /\ \A i \in 1..Len(lines) : text[1 + i] = lines[i]
<1>1. PICK m \in Nat, n \in Nat : 0 < m /\ m = Len(r) /\ n = Len(lines)
  <2>1. Len(lines) \in Nat
    BY SectionLemma
  <2>2. Len(r) \in Nat /\ 0 < Len(r)
    BY EmptySeq
  <2>. QED BY <2>1, <2>2
<1> DEFINE b == <<"blank">> \o r
           F == Filled(text, 1, n + 2)
           none == <<>>
<1>2. b \in Seq(Line) /\ Len(b) = m + 1 /\ b[1] = "blank" /\ \A i \in 1..m : b[1 + i] = r[i]
  <2>1. <<"blank">> \in Seq(Line) /\ Len(<<"blank">>) = 1 /\ <<"blank">>[1] = "blank"
    BY DEF Line
  <2>2. /\ b \in Seq(Line) /\ Len(b) = Len(<<"blank">>) + m
        /\ \A i \in 1..(Len(<<"blank">>) + m) :
             b[i] = IF i <= Len(<<"blank">>) THEN <<"blank">>[i]
                    ELSE r[i - Len(<<"blank">>)]
    BY <1>1, <2>1, ConcatProperties
  <2> HIDE DEF b
  <2>3. \A i \in 1..m : 1 + i \in 1..(1 + m) /\ ~(1 + i <= 1) /\ (1 + i) - 1 = i
    BY <1>1
  <2>. QED BY <1>1, <2>1, <2>2, <2>3
<1>3. Free(b)
  <2>1. \A i \in 1..(m + 1) : i = 1 \/ (i - 1 \in 1..m /\ 1 + (i - 1) = i)
    BY <1>1
  <2>2. ASSUME NEW i \in 1..(m + 1) PROVE b[i] \notin Markers
    <3>1. CASE i = 1
      <4> HIDE DEF b
      <4>. QED BY <1>2, <3>1 DEF Markers
    <3>2. CASE i - 1 \in 1..m /\ 1 + (i - 1) = i
      <4> HIDE DEF b
      <4>1. b[i] = r[i - 1]
        BY <1>2, <3>2
      <4>. QED BY <1>1, <3>2, <4>1 DEF Free
    <3>. QED BY <2>1, <2>2, <3>1, <3>2
  <2> HIDE DEF b
  <2>. QED BY <1>2, <2>2 DEF Free
<1>4. none \in Seq(Line) /\ Len(none) = 0 /\ Free(none)
  BY EmptySeq DEF Free
<1>5. text = Placed(none, lines, b)
  <2> DEFINE S == Section(lines)
             w == <<"blank">>
  <2>1. S \in Seq(Line) /\ w \in Seq(Line)
    BY SectionLemma DEF Line
  <2>2. (S \o w) \o r = S \o b
    <3> HIDE DEF S, w
    <3>. QED BY <2>1, ConcatAssociative DEF w
  <2>3. none \o S = S
    <3> HIDE DEF S
    <3>. QED BY <2>1, ConcatEmptySeq
  <2>. QED BY <2>2, <2>3 DEF Placed, SectionFirst
<1> HIDE DEF b, F, none
<1>6. /\ text \in Seq(Line) /\ Len(text) = n + 3 + m
      /\ Marked(text, 1, n + 2)
      /\ \A i \in 1..n : text[1 + i] = lines[i]
      /\ text[n + 3] = "blank"
      /\ \A i \in 1..m : text[n + 3 + i] = r[i]
  <2>1. /\ text \in Seq(Line) /\ Len(text) = Len(none) + n + 2 + Len(b)
        /\ Marked(text, Len(none) + 1, Len(none) + n + 2)
        /\ \A i \in 1..n : text[Len(none) + 1 + i] = lines[i]
        /\ \A i \in 1..Len(b) : text[Len(none) + n + 2 + i] = b[i]
    <3>1. Between(text, none, lines, b)
      BY <1>2, <1>3, <1>4, <1>5, PlacedLemma
    <3>. QED BY <1>1, <3>1 DEF Between
  <2>2. Marked(text, 1, n + 2) /\ \A i \in 1..n : text[1 + i] = lines[i]
    <3>1. Len(none) + 1 = 1 /\ Len(none) + n + 2 = n + 2
      BY <1>1, <1>4
    <3>. QED BY <2>1, <3>1
  <2>3. text[n + 3] = "blank"
    <3>1. 1 \in 1..Len(b) /\ Len(none) + n + 2 + 1 = n + 3
      BY <1>1, <1>2, <1>4
    <3>. QED BY <1>2, <2>1, <3>1
  <2>4. ASSUME NEW i \in 1..m PROVE text[n + 3 + i] = r[i]
    <3>1. 1 + i \in 1..Len(b) /\ Len(none) + n + 2 + (1 + i) = n + 3 + i
      BY <1>1, <1>2, <1>4
    <3>2. text[Len(none) + n + 2 + (1 + i)] = b[1 + i]
      BY <2>1, <3>1
    <3>. QED BY <1>2, <3>1, <3>2
  <2>5. Len(text) = n + 3 + m
    BY <1>1, <1>2, <1>4, <2>1
  <2>. QED BY <2>1, <2>2, <2>3, <2>4, <2>5
<1>7. Start(text) = 1 /\ End(text) = n + 2
  BY <1>6, MarkedLemma
<1>8. n + 3 + m \in F /\ n + 4 \in F /\ F \in SUBSET ((n + 4)..(n + 3 + m))
  <2>1. r[m] # "blank" /\ r[1] # "blank"
    BY <1>1 DEF Trimmed
  <2>2. m \in 1..m /\ 1 \in 1..m /\ n + 3 + 1 = n + 4
    BY <1>1
  <2>3. text[n + 3 + m] # "blank" /\ text[n + 3 + 1] # "blank"
    BY <1>6, <2>1, <2>2
  <2>4. /\ n + 3 + m \in 1..Len(text) /\ n + 4 \in 1..Len(text)
        /\ n + 2 < n + 3 + m /\ n + 2 < n + 4
    BY <1>1, <1>6
  <2>5. ASSUME NEW i \in F PROVE i \in (n + 4)..(n + 3 + m)
    <3>1. /\ i \in Nat /\ 1 <= i /\ i <= n + 3 + m
          /\ i < 1 \/ n + 2 < i
          /\ text[i] # "blank"
      BY <1>1, <1>6 DEF F, Filled
    <3>2. i # n + 3
      BY <1>6, <3>1
    <3>. QED BY <1>1, <3>1, <3>2
  <2>6. n + 3 + m \in F /\ n + 4 \in F
    BY <2>2, <2>3, <2>4 DEF F, Filled
  <2>. QED BY <2>5, <2>6
<1>9. Max(F) = n + 3 + m /\ First(F) = n + 4
  <2>1. /\ Max(F) \in F /\ First(F) \in F
        /\ \A i \in F : First(F) <= i /\ i <= Max(F)
    <3>1. 1 \in Nat /\ n + 2 \in Nat /\ F # {}
      BY <1>1, <1>8
    <3>. QED BY <1>6, <3>1, FilledLemma DEF F
  <2>2. Max(F) \in (n + 4)..(n + 3 + m) /\ First(F) \in (n + 4)..(n + 3 + m)
    BY <1>8, <2>1
  <2>3. n + 3 + m <= Max(F) /\ First(F) <= n + 4
    BY <1>8, <2>1
  <2>4. Max(F) = n + 3 + m
    BY <1>1, <2>2, <2>3
  <2>5. First(F) = n + 4
    BY <1>1, <2>2, <2>3
  <2>. QED BY <2>4, <2>5
<1>10. SubSeq(text, n + 4, n + 3 + m) = r
  <2>1. n + 3 \in Nat /\ n + 3 + m <= Len(text) /\ n + 4 = (n + 3) + 1
    BY <1>1, <1>6
  <2>2. Stands(text, r, n + 3)
    BY <1>1, <1>6, <2>1 DEF Stands
  <2>3. n + 4 = (n + 3) + 1 /\ n + 3 + m = (n + 3) + Len(r)
    BY <1>1
  <2>4. SubSeq(text, (n + 3) + 1, (n + 3) + Len(r)) = r
    BY <2>2, PieceIs
  <2>. QED BY <2>3, <2>4, Zenon
<1>11. Rest(text) = r
  <2>1. F # {} /\ n + 2 < First(F)
    BY <1>1, <1>8, <1>9
  <2>2. Rest(text) = SubSeq(text, First(F), Max(F))
    BY <1>6, <2>1, RestOnOneSide DEF F
  <2>. QED BY <1>9, <1>10, <2>2
<1>. QED BY <1>1, <1>6, <1>11

\* A section in its place is the one asked for.
LEMMA HoldsLemma ==
  ASSUME NEW text \in Seq(Line), NEW lines \in PlainBody, NEW s \in Nat,
         Marked(text, s, s + Len(lines) + 1),
         \A i \in 1..Len(lines) : text[s + i] = lines[i],
         kind = "sshConfig" => s = 1, lines # <<>> \/ kind = "hosts"
  PROVE  Holds(text, lines)
<1>1. /\ s \in 1..Len(text) /\ s + Len(lines) + 1 \in 1..Len(text)
      /\ text[s] = "begin" /\ text[s + Len(lines) + 1] = "end"
  BY DEF Marked
<1>2. s + Len(lines) + 1 <= Len(text)
  BY <1>1
<1>. QED BY <1>1, <1>2 DEF Holds

\* Rendered case by case.
LEMMA RenderedCases ==
  ASSUME NEW text, NEW lines
  PROVE  /\ lines = <<>> /\ kind # "hosts" => Rendered(text, lines) = Rest(text)
         /\ Rest(text) = <<>> /\ (lines # <<>> \/ kind = "hosts") =>
              Rendered(text, lines) = Section(lines)
         /\ Rest(text) # <<>> /\ kind = "sshConfig" /\ lines # <<>> =>
              Rendered(text, lines) = Section(lines) \o <<"blank">> \o Rest(text)
         /\ Rest(text) # <<>> /\ kind # "sshConfig" /\ (lines # <<>> \/ kind = "hosts") =>
              Rendered(text, lines) = Rest(text) \o <<"blank">> \o Section(lines)
<1>1. ASSUME lines = <<>>, kind # "hosts"
      PROVE  Rendered(text, lines) = Rest(text)
  BY <1>1 DEF Rendered
<1>2. ASSUME Rest(text) = <<>>, lines # <<>> \/ kind = "hosts"
      PROVE  Rendered(text, lines) = Section(lines)
  BY <1>2 DEF Rendered
<1>3. ASSUME Rest(text) # <<>>, kind = "sshConfig", lines # <<>>
      PROVE  Rendered(text, lines) = Section(lines) \o <<"blank">> \o Rest(text)
  BY <1>3 DEF Rendered
<1>4. ASSUME Rest(text) # <<>>, kind # "sshConfig", lines # <<>> \/ kind = "hosts"
      PROVE  Rendered(text, lines) = Rest(text) \o <<"blank">> \o Section(lines)
  BY <1>4 DEF Rendered
<1>. QED BY <1>1, <1>2, <1>3, <1>4, Zenon

\* Rendering keeps what is outside the section, and to do it again changes
\* nothing.
LEMMA RenderedLemma ==
  ASSUME kind \in {"hosts", "knownHosts", "sshConfig"}, NEW text, Whole(text),
         NEW lines \in PlainBody
  PROVE  Written(Rendered(text, lines), lines) /\ Rest(Rendered(text, lines)) = Rest(text)
<1> DEFINE r == Rest(text)
           out == Rendered(text, lines)
<1>1. r \in Seq(Line) /\ Free(r) /\ Trimmed(r)
  BY RestShape
<1>2. /\ lines = <<>> /\ kind # "hosts" => out = r
      /\ r = <<>> /\ (lines # <<>> \/ kind = "hosts") => out = Section(lines)
      /\ r # <<>> /\ kind = "sshConfig" /\ lines # <<>> => out = SectionFirst(lines, r)
      /\ r # <<>> /\ kind # "sshConfig" /\ (lines # <<>> \/ kind = "hosts") =>
           out = SectionLast(r, lines)
  BY RenderedCases DEF SectionFirst, SectionLast
<1>3. Len(lines) \in Nat
  BY SectionLemma
<1> HIDE DEF r, out
<1>4. Rest(out) = r /\ Whole(out) /\ Holds(out, lines)
  <2>1. CASE lines = <<>> /\ kind # "hosts"
    <3>1. out = r
      BY <1>2, <2>1
    <3>2. Rest(r) = r /\ Whole(r)
      BY <1>1, RestOfTrimmed, FreeIsWhole
    <3>3. Holds(r, lines)
      BY <1>1, <2>1 DEF Holds
    <3>. QED BY <3>1, <3>2, <3>3
  <2>2. CASE r = <<>> /\ (lines # <<>> \/ kind = "hosts")
    <3>1. out = Section(lines)
      BY <1>2, <2>2
    <3>2. /\ Rest(out) = <<>> /\ out \in Seq(Line)
          /\ Marked(out, 1, Len(lines) + 2)
          /\ \A i \in 1..Len(lines) : out[1 + i] = lines[i]
      BY <3>1, RestOfSection
    <3>3. 1 \in Nat /\ Len(lines) + 2 = 1 + Len(lines) + 1
      BY <1>3
    <3>4. Marked(out, 1, 1 + Len(lines) + 1)
      BY <3>2, <3>3, Zenon
    <3>5. Holds(out, lines)
      BY <2>2, <3>2, <3>3, <3>4, HoldsLemma
    <3>6. Whole(out)
      BY <3>2, MarkedLemma
    <3>. QED BY <2>2, <3>2, <3>5, <3>6
  <2>3. CASE r # <<>> /\ kind = "sshConfig" /\ lines # <<>>
    <3>1. out = SectionFirst(lines, r)
      BY <1>2, <2>3
    <3>2. /\ Rest(out) = r /\ out \in Seq(Line)
          /\ Marked(out, 1, Len(lines) + 2)
          /\ \A i \in 1..Len(lines) : out[1 + i] = lines[i]
      BY <1>1, <2>3, <3>1, RestAfterSection
    <3>3. 1 \in Nat /\ Len(lines) + 2 = 1 + Len(lines) + 1
      BY <1>3
    <3>4. Marked(out, 1, 1 + Len(lines) + 1)
      BY <3>2, <3>3, Zenon
    <3>5. Holds(out, lines)
      BY <2>3, <3>2, <3>3, <3>4, HoldsLemma
    <3>6. Whole(out)
      BY <3>2, MarkedLemma
    <3>. QED BY <3>2, <3>5, <3>6
  <2>4. CASE r # <<>> /\ kind # "sshConfig" /\ (lines # <<>> \/ kind = "hosts")
    <3>1. out = SectionLast(r, lines)
      BY <1>2, <2>4
    <3>2. /\ Rest(out) = r /\ out \in Seq(Line)
          /\ Marked(out, Len(r) + 2, Len(r) + Len(lines) + 3)
          /\ \A i \in 1..Len(lines) : out[Len(r) + 2 + i] = lines[i]
      BY <1>1, <2>4, <3>1, RestBeforeSection
    <3>3. Len(r) + 2 \in Nat /\ Len(r) + Len(lines) + 3 = Len(r) + 2 + Len(lines) + 1
      BY <1>1, <1>3
    <3>4. Marked(out, Len(r) + 2, Len(r) + 2 + Len(lines) + 1)
      BY <3>2, <3>3, Zenon
    <3>5. Holds(out, lines)
      BY <2>4, <3>2, <3>3, <3>4, HoldsLemma
    <3>6. Whole(out)
      BY <3>2, MarkedLemma
    <3>. QED BY <3>2, <3>5, <3>6
  <2>. QED BY <2>1, <2>2, <2>3, <2>4
<1>5. Rendered(out, lines) = out
  <2>1. Rest(out) = Rest(text)
    BY <1>4 DEF r
  <2>2. Rendered(out, lines) = Rendered(text, lines)
    BY <2>1 DEF Rendered
  <2>. QED BY <2>2 DEF out
<1>. QED BY <1>4, <1>5 DEF Written, r, out

\* A text that is damaged is one that a sync refuses.
LEMMA DamagedLemma ==
  ASSUME NEW text \in Seq(Line), ~Incomplete(text)
  PROVE  ~Damaged(text)
<1>1. DOMAIN text = 1..Len(text)
  OBVIOUS
<1>2. CASE Start(text) = 0
  <2>1. End(text) = 0
    BY <1>2 DEF Incomplete
  <2>2. \A i \in DOMAIN text : text[i] # "begin" /\ text[i] # "end"
    BY <1>1, <1>2, <2>1, StartLemma, EndLemma
  <2>. QED BY <2>2 DEF Damaged
<1>3. CASE Start(text) # 0
  <2>1. End(text) # 0 /\ ~(End(text) < Start(text))
    BY <1>3 DEF Incomplete
  <2>2. /\ Start(text) \in DOMAIN text /\ text[Start(text)] = "begin"
        /\ End(text) \in DOMAIN text /\ text[End(text)] = "end"
        /\ Start(text) \in Nat /\ End(text) \in Nat
    BY <1>1, <1>3, <2>1, StartLemma, EndLemma
  <2>3. Start(text) < End(text)
    BY <2>1, <2>2
  <2>4. \A j \in DOMAIN text : text[j] = "end" => ~(j <= Start(text))
    <3>1. \A j \in DOMAIN text : text[j] = "end" => j \in Nat /\ End(text) <= j
      BY <1>1, EndLemma
    <3>. QED BY <2>2, <2>3, <3>1
  <2>. QED BY <2>2, <2>3, <2>4 DEF Damaged
<1>. QED BY <1>2, <1>3

-----------------------------------------------------------------------------
(* What an edit makes of a text.                                           *)

\* A user who adds a line adds no marker.
LEMMA InsertLemma ==
  ASSUME NEW text \in Seq(Line), NEW i \in 1..(Len(text) + 1),
         NEW line \in UserLine \cup {"blank"}
  PROVE  /\ InsertAt(text, i, line) \in Seq(Line)
         /\ Single(text) => Single(InsertAt(text, i, line))
<1> DEFINE p == SubSeq(text, 1, i - 1)
           w == <<line>>
           q == SubSeq(text, i, Len(text))
           head == p \o w
           new == InsertAt(text, i, line)
<1>1. PICK n \in Nat : n = Len(text)
  OBVIOUS
<1>2. line \in Line /\ line \notin Markers
  BY ManagedFileAssumption DEF Line, Markers
<1>3. p \in Seq(Line) /\ Len(p) = i - 1 /\ \A j \in 1..(i - 1) : p[j] = text[j]
  <2>1. i - 1 \in 0..Len(text) /\ 1 \in Nat \ {0}
    BY <1>1
  <2>2. /\ p \in Seq(Line) /\ Len(p) = IF 1 <= i - 1 THEN (i - 1) - 1 + 1 ELSE 0
        /\ \A j \in 1..((i - 1) - 1 + 1) : p[j] = text[1 + j - 1]
    <3> HIDE DEF p
    <3>. QED BY <2>1, PieceLemma DEF p
  <2> HIDE DEF p
  <2>3. \A j \in 1..(i - 1) : j \in 1..((i - 1) - 1 + 1) /\ 1 + j - 1 = j
    BY <1>1
  <2>. QED BY <1>1, <2>2, <2>3
<1>4. /\ q \in Seq(Line) /\ Len(q) = n + 1 - i
      /\ \A j \in 1..(n + 1 - i) : q[j] = text[i + j - 1]
  <2>1. n \in 0..Len(text) /\ i \in Nat \ {0}
    BY <1>1
  <2>2. /\ q \in Seq(Line) /\ Len(q) = IF i <= n THEN n - i + 1 ELSE 0
        /\ \A j \in 1..(n - i + 1) : q[j] = text[i + j - 1]
    <3> HIDE DEF q
    <3>. QED BY <1>1, <2>1, PieceLemma DEF q
  <2> HIDE DEF q
  <2>3. n - i + 1 = n + 1 - i
    BY <1>1
  <2>. QED BY <1>1, <2>2, <2>3
<1>5. w \in Seq(Line) /\ Len(w) = 1 /\ w[1] = line
  BY <1>2
<1>6. new = head \o q
  BY DEF InsertAt
<1> HIDE DEF p, q, w, head, new
<1>7. /\ head \in Seq(Line) /\ Len(head) = i
      /\ \A j \in 1..i : head[j] = IF j < i THEN text[j] ELSE line
  <2>1. /\ head \in Seq(Line) /\ Len(head) = Len(p) + Len(w)
        /\ \A j \in 1..(Len(p) + Len(w)) :
             head[j] = IF j <= Len(p) THEN p[j] ELSE w[j - Len(p)]
    BY <1>3, <1>5, ConcatProperties DEF head
  <2>2. Len(p) + Len(w) = i
    BY <1>3, <1>5
  <2>3. ASSUME NEW j \in 1..i PROVE head[j] = IF j < i THEN text[j] ELSE line
    <3>1. head[j] = IF j <= i - 1 THEN p[j] ELSE w[j - (i - 1)]
      BY <1>3, <2>1, <2>2
    <3>2. CASE j < i
      <4>1. j <= i - 1 /\ j \in 1..(i - 1)
        BY <3>2
      <4>. QED BY <1>3, <3>1, <3>2, <4>1
    <3>3. CASE j = i
      <4>1. ~(j <= i - 1) /\ j - (i - 1) = 1 /\ ~(j < i)
        BY <3>3
      <4>2. head[j] = w[j - (i - 1)]
        BY <3>1, <4>1
      <4>3. head[j] = w[1]
        BY <4>1, <4>2, Zenon
      <4>. QED BY <1>5, <4>1, <4>3
    <3>. QED BY <3>2, <3>3
  <2>. QED BY <2>1, <2>2, <2>3
<1>8. /\ new \in Seq(Line) /\ Len(new) = n + 1
      /\ \A j \in 1..(n + 1) :
           new[j] = IF j <= i THEN head[j] ELSE q[j - i]
  <2>1. /\ new \in Seq(Line) /\ Len(new) = Len(head) + Len(q)
        /\ \A j \in 1..(Len(head) + Len(q)) :
             new[j] = IF j <= Len(head) THEN head[j] ELSE q[j - Len(head)]
    BY <1>4, <1>6, <1>7, ConcatProperties
  <2>2. Len(head) + Len(q) = n + 1
    BY <1>1, <1>4, <1>7
  <2>. QED BY <1>7, <2>1, <2>2
<1>9. ASSUME NEW j \in 1..(n + 1), new[j] \in Markers
      PROVE  /\ j # i
             /\ j < i => j \in 1..n /\ new[j] = text[j]
             /\ i < j => j - 1 \in 1..n /\ new[j] = text[j - 1]
  <2>1. CASE j <= i
    <3>1. new[j] = IF j < i THEN text[j] ELSE line
      <4>1. new[j] = head[j] /\ j \in 1..i
        BY <1>8, <2>1
      <4>. QED BY <1>7, <4>1
    <3>2. j < i
      BY <1>2, <1>9, <3>1
    <3>. QED BY <1>1, <3>1, <3>2
  <2>2. CASE i < j
    <3>1. new[j] = q[j - i] /\ j - i \in 1..(n + 1 - i) /\ i + (j - i) - 1 = j - 1
      BY <1>1, <1>8, <2>2
    <3>2. new[j] = text[j - 1]
      BY <1>4, <3>1
    <3>. QED BY <1>1, <2>2, <3>2
  <2>. QED BY <1>1, <2>1, <2>2
<1>10. ASSUME Single(text) PROVE Single(new)
  <2> SUFFICES ASSUME NEW j \in 1..(n + 1), NEW k \in 1..(n + 1),
                      new[j] \in Markers, new[j] = new[k]
               PROVE  j = k
    BY <1>1, <1>8 DEF Single
  <2> DEFINE back(x) == IF x < i THEN x ELSE x - 1
  <2>1. /\ j # i /\ back(j) \in 1..n /\ text[back(j)] = new[j]
        /\ k # i /\ back(k) \in 1..n /\ text[back(k)] = new[k]
    BY <1>1, <1>9
  <2>2. back(j) = back(k)
    <3> HIDE DEF back
    <3>. QED BY <1>1, <1>10, <2>1 DEF Single
  <2>. QED BY <1>1, <2>1, <2>2
<1>. QED BY <1>8, <1>10 DEF new

\* One who removes a line leaves no marker twice.
LEMMA RemoveLemma ==
  ASSUME NEW text \in Seq(Line), NEW i \in 1..Len(text)
  PROVE  /\ RemoveAt(text, i) \in Seq(Line)
         /\ Single(text) => Single(RemoveAt(text, i))
<1> DEFINE p == SubSeq(text, 1, i - 1)
           q == SubSeq(text, i + 1, Len(text))
           new == RemoveAt(text, i)
<1>1. PICK n \in Nat : n = Len(text)
  OBVIOUS
<1>2. p \in Seq(Line) /\ Len(p) = i - 1 /\ \A j \in 1..(i - 1) : p[j] = text[j]
  <2>1. i - 1 \in 0..Len(text) /\ 1 \in Nat \ {0}
    BY <1>1
  <2>2. /\ p \in Seq(Line) /\ Len(p) = IF 1 <= i - 1 THEN (i - 1) - 1 + 1 ELSE 0
        /\ \A j \in 1..((i - 1) - 1 + 1) : p[j] = text[1 + j - 1]
    <3> HIDE DEF p
    <3>. QED BY <2>1, PieceLemma DEF p
  <2> HIDE DEF p
  <2>3. \A j \in 1..(i - 1) : j \in 1..((i - 1) - 1 + 1) /\ 1 + j - 1 = j
    BY <1>1
  <2>. QED BY <1>1, <2>2, <2>3
<1>3. /\ q \in Seq(Line) /\ Len(q) = n - i
      /\ \A j \in 1..(n - i) : q[j] = text[i + j]
  <2>1. n \in 0..Len(text) /\ i + 1 \in Nat \ {0}
    BY <1>1
  <2>2. /\ q \in Seq(Line) /\ Len(q) = IF i + 1 <= n THEN n - (i + 1) + 1 ELSE 0
        /\ \A j \in 1..(n - (i + 1) + 1) : q[j] = text[(i + 1) + j - 1]
    <3> HIDE DEF q
    <3>. QED BY <1>1, <2>1, PieceLemma DEF q
  <2> HIDE DEF q
  <2>3. \A j \in 1..(n - i) : j \in 1..(n - (i + 1) + 1) /\ (i + 1) + j - 1 = i + j
    BY <1>1
  <2>. QED BY <1>1, <2>2, <2>3
<1>4. new = p \o q
  BY DEF RemoveAt
<1> HIDE DEF p, q, new
<1>5. /\ new \in Seq(Line) /\ Len(new) = n - 1
      /\ \A j \in 1..(n - 1) : new[j] = IF j < i THEN text[j] ELSE text[j + 1]
  <2>1. /\ new \in Seq(Line) /\ Len(new) = Len(p) + Len(q)
        /\ \A j \in 1..(Len(p) + Len(q)) :
             new[j] = IF j <= Len(p) THEN p[j] ELSE q[j - Len(p)]
    BY <1>2, <1>3, <1>4, ConcatProperties
  <2>2. Len(p) + Len(q) = n - 1
    BY <1>1, <1>2, <1>3
  <2>3. ASSUME NEW j \in 1..(n - 1)
        PROVE  new[j] = IF j < i THEN text[j] ELSE text[j + 1]
    <3>1. new[j] = IF j <= i - 1 THEN p[j] ELSE q[j - (i - 1)]
      BY <1>2, <2>1, <2>2
    <3>2. CASE j < i
      <4>1. j <= i - 1 /\ j \in 1..(i - 1)
        BY <3>2
      <4>. QED BY <1>2, <3>1, <3>2, <4>1
    <3>3. CASE ~(j < i)
      <4>1. ~(j <= i - 1) /\ j - (i - 1) \in 1..(n - i) /\ i + (j - (i - 1)) = j + 1
        BY <1>1, <3>3
      <4>. QED BY <1>3, <3>1, <3>3, <4>1
    <3>. QED BY <3>2, <3>3
  <2>. QED BY <2>1, <2>2, <2>3
<1>6. ASSUME Single(text) PROVE Single(new)
  <2> SUFFICES ASSUME NEW j \in 1..(n - 1), NEW k \in 1..(n - 1),
                      new[j] \in Markers, new[j] = new[k]
               PROVE  j = k
    BY <1>1, <1>5 DEF Single
  <2> DEFINE back(x) == IF x < i THEN x ELSE x + 1
  <2>1. /\ back(j) \in 1..n /\ text[back(j)] = new[j]
        /\ back(k) \in 1..n /\ text[back(k)] = new[k]
    BY <1>1, <1>5
  <2>2. back(j) = back(k)
    <3> HIDE DEF back
    <3>. QED BY <1>1, <1>6, <2>1 DEF Single
  <2>. QED BY <1>1, <2>2
<1>. QED BY <1>5, <1>6 DEF new

-----------------------------------------------------------------------------
(* The users' lines of a text, which are found line by line.               *)

\* A set that has 0, and with each number below n the next one.
Inductive(S, n) == 0 \in S /\ \A i \in 1..n : i - 1 \in S => i \in S

\* It has every number up to n.
LEMMA UpwardLemma ==
  ASSUME NEW n \in Nat, NEW S, Inductive(S, n)
  PROVE  \A i \in 0..n : i \in S
<1> DEFINE bad == {i \in 0..n : i \notin S}
<1> SUFFICES ASSUME bad # {} PROVE FALSE
  OBVIOUS
<1>1. PICK m \in bad : \A y \in bad : m <= y
  <2>1. bad \in SUBSET Nat
    OBVIOUS
  <2> HIDE DEF bad
  <2>. QED BY <2>1, MinLemma
<1>2. m \in 1..n /\ m - 1 \in 0..n
  BY DEF Inductive
<1>3. m - 1 \in S
  BY <1>1, <1>2
<1>. QED BY <1>2, <1>3 DEF Inductive

\* f is computed step by step, from a.
Computed(f, n, a, step) ==
  f[0] = a /\ \A i \in 1..n : f[i] = step[<<f[i - 1], i>>]

\* What is computed line by line from lines of any number is defined.
LEMMA RecursionLemma ==
  ASSUME NEW n \in Nat, NEW S, NEW a \in S, NEW step \in [S \X (1..n) -> S]
  PROVE  \E f \in [0..n -> S] : Computed(f, n, a, step)
<1> DEFINE Good(m) == \E f \in [0..m -> S] : Computed(f, m, a, step)
           bad == {m \in 0..n : ~Good(m)}
<1> SUFFICES ASSUME bad # {} PROVE FALSE
  OBVIOUS
<1>1. PICK m \in bad : \A y \in bad : m <= y
  <2>1. bad \in SUBSET Nat
    OBVIOUS
  <2> HIDE DEF bad
  <2>. QED BY <2>1, MinLemma
<1>2. m \in 0..n /\ ~Good(m)
  OBVIOUS
<1>3. Good(0)
  <2> DEFINE f == [i \in 0..0 |-> a]
  <2>1. f \in [0..0 -> S] /\ Computed(f, 0, a, step)
    BY DEF Computed
  <2>. QED BY <2>1
<1>4. m \in 1..n /\ m - 1 \in 0..n
  <2> HIDE DEF bad, Good
  <2>1. m # 0
    BY <1>2, <1>3
  <2>. QED BY <1>2, <2>1
<1>5. Good(m - 1)
  <2> HIDE DEF Good
  <2>. QED BY <1>1, <1>4
<1>6. PICK g \in [0..(m - 1) -> S] :
             g[0] = a /\ \A i \in 1..(m - 1) : g[i] = step[<<g[i - 1], i>>]
  BY <1>5 DEF Computed
<1> DEFINE f == [i \in 0..m |-> IF i = m THEN step[<<g[m - 1], m>>] ELSE g[i]]
<1> HIDE DEF bad, Good
<1>7. f \in [0..m -> S]
  <2>1. m - 1 \in 0..(m - 1) /\ step[<<g[m - 1], m>>] \in S
    BY <1>4
  <2>. QED BY <1>4, <2>1
<1>8. f[0] = a /\ f[m] = step[<<g[m - 1], m>>] /\ \A i \in 0..(m - 1) : f[i] = g[i]
  BY <1>4, <1>6
<1> HIDE DEF f
<1>9. ASSUME NEW i \in 1..m PROVE f[i] = step[<<f[i - 1], i>>]
  <2>1. i - 1 \in 0..(m - 1) /\ f[i - 1] = g[i - 1]
    BY <1>4, <1>8, <1>9
  <2>2. CASE i = m
    BY <1>8, <2>1, <2>2
  <2>3. CASE i # m
    <3>1. i \in 1..(m - 1) /\ i \in 0..(m - 1)
      BY <1>4, <1>9, <2>3
    <3>. QED BY <1>6, <1>8, <2>1, <3>1
  <2>. QED BY <2>2, <2>3
<1>10. Good(m)
  BY <1>7, <1>8, <1>9 DEF Good, Computed
<1>. QED BY <1>2, <1>10

\* The users' lines among the first ones of a text, for every number of these.
Growing(text, f) ==
  /\ f \in [0..Len(text) -> Seq(UserLine)]
  /\ f[0] = <<>>
  /\ \A i \in 1..Len(text) :
       f[i] = IF text[i] \in UserLine THEN Append(f[i - 1], text[i]) ELSE f[i - 1]

LEMMA GrowingLemma ==
  ASSUME NEW text \in Seq(Line)
  PROVE  \E f : Growing(text, f) /\ UserLines(text) = f[Len(text)]
<1> DEFINE n == Len(text)
           S == Seq(UserLine)
           step == [x \in S \X (1..n) |->
                      IF text[x[2]] \in UserLine THEN Append(x[1], text[x[2]]) ELSE x[1]]
           rec(f) == [i \in 0..n |->
                        IF i = 0 THEN <<>>
                        ELSE IF text[i] \in UserLine THEN Append(f[i - 1], text[i])
                        ELSE f[i - 1]]
           upTo == CHOOSE f : f = rec(f)
<1>1. UserLines(text) = upTo[n]
  BY DEF UserLines
<1>2. n \in Nat /\ <<>> \in S
  OBVIOUS
<1>3. step \in [S \X (1..n) -> S]
  <2>1. ASSUME NEW x \in S \X (1..n)
        PROVE  (IF text[x[2]] \in UserLine THEN Append(x[1], text[x[2]]) ELSE x[1]) \in S
    <3>1. x[1] \in Seq(UserLine)
      OBVIOUS
    <3>2. CASE text[x[2]] \in UserLine
      BY <3>1, <3>2, AppendProperties
    <3>. QED BY <3>1, <3>2
  <2>. QED BY <2>1
<1> HIDE DEF S
<1>4. PICK f \in [0..n -> S] :
             f[0] = <<>> /\ \A i \in 1..n : f[i] = step[<<f[i - 1], i>>]
  <2> DEFINE none == <<>>
  <2>1. none \in S
    BY <1>2
  <2> HIDE DEF step, n, none
  <2>2. \E f \in [0..n -> S] : Computed(f, n, none, step)
    BY <1>2, <1>3, <2>1, RecursionLemma
  <2>. QED BY <2>2 DEF none, Computed
<1>5. ASSUME NEW i \in 1..n
      PROVE  f[i] = IF text[i] \in UserLine THEN Append(f[i - 1], text[i]) ELSE f[i - 1]
  <2>1. <<f[i - 1], i>> \in S \X (1..n)
    <3> HIDE DEF n
    <3>1. i - 1 \in 0..n
      BY <1>2
    <3>. QED BY <3>1
  <2>. QED BY <1>4, <2>1
<1> HIDE DEF step
<1>6. f = rec(f)
  <2>1. ASSUME NEW i \in 0..n
        PROVE  f[i] = IF i = 0 THEN <<>>
                      ELSE IF text[i] \in UserLine THEN Append(f[i - 1], text[i])
                      ELSE f[i - 1]
    <3>1. CASE i = 0
      BY <1>4, <3>1
    <3>2. CASE i # 0
      <4>1. i \in 1..n
        BY <1>2, <2>1, <3>2
      <4>. QED BY <1>5, <3>2, <4>1
    <3>. QED BY <3>1, <3>2
  <2>. QED BY <2>1
<1>7. upTo = rec(upTo)
  <2> HIDE DEF rec
  <2>. QED BY <1>6
<1> HIDE DEF upTo
<1>8. /\ upTo[0] = <<>>
      /\ \A i \in 1..n :
           upTo[i] = IF text[i] \in UserLine THEN Append(upTo[i - 1], text[i])
                     ELSE upTo[i - 1]
  <2>1. \A i \in 0..n :
          upTo[i] = IF i = 0 THEN <<>>
                    ELSE IF text[i] \in UserLine THEN Append(upTo[i - 1], text[i])
                    ELSE upTo[i - 1]
    <3> DEFINE g == rec(upTo)
    <3>1. \A i \in 0..n :
            g[i] = IF i = 0 THEN <<>>
                   ELSE IF text[i] \in UserLine THEN Append(upTo[i - 1], text[i])
                   ELSE upTo[i - 1]
      OBVIOUS
    <3> HIDE DEF g
    <3>2. upTo = g
      BY <1>7 DEF g
    <3>. QED BY <3>1, <3>2
  <2>2. \A i \in 1..n : i \in 0..n /\ i # 0
    BY <1>2
  <2>. QED BY <1>2, <2>1, <2>2
<1>9. \A i \in 0..n : upTo[i] \in S
  <2> DEFINE good == {i \in 0..n : upTo[i] \in S}
  <2>1. 0 \in good
    BY <1>2, <1>8
  <2>2. ASSUME NEW i \in 1..n, i - 1 \in good PROVE i \in good
    <3>1. upTo[i - 1] \in S /\ i \in 0..n
      BY <1>2, <2>2
    <3>2. CASE text[i] \in UserLine
      <4>1. upTo[i] = Append(upTo[i - 1], text[i])
        BY <1>8, <3>2
      <4>2. Append(upTo[i - 1], text[i]) \in S
        BY <3>1, <3>2, AppendProperties DEF S
      <4>. QED BY <3>1, <4>1, <4>2
    <3>3. CASE text[i] \notin UserLine
      BY <1>8, <3>1, <3>3
    <3>. QED BY <3>2, <3>3
  <2>3. Inductive(good, n)
    <3> HIDE DEF good
    <3>. QED BY <2>1, <2>2 DEF Inductive
  <2>4. \A i \in 0..n : i \in good
    <3> HIDE DEF good
    <3>. QED BY <1>2, <2>3, UpwardLemma
  <2>. QED BY <2>4
<1>10. upTo \in [0..n -> S]
  <2>1. rec(upTo) = [i \in 0..n |-> rec(upTo)[i]]
    OBVIOUS
  <2>2. upTo = [i \in 0..n |-> upTo[i]]
    <3> HIDE DEF rec
    <3>. QED BY <1>7, <2>1
  <2>. QED BY <1>9, <2>2
<1>. QED BY <1>1, <1>8, <1>10 DEF Growing, S

\* The users' lines of a text are lines of users.
LEMMA UserLinesType ==
  ASSUME NEW text \in Seq(Line)
  PROVE  UserLines(text) \in Seq(UserLine)
<1>1. PICK f : Growing(text, f) /\ UserLines(text) = f[Len(text)]
  BY GrowingLemma
<1>2. Len(text) \in 0..Len(text)
  OBVIOUS
<1>. QED BY <1>1, <1>2 DEF Growing

\* A text without users' lines has none.
LEMMA NoUserLines ==
  ASSUME NEW text \in Seq(Line), \A i \in 1..Len(text) : text[i] \notin UserLine
  PROVE  UserLines(text) = <<>>
<1>1. PICK f : Growing(text, f) /\ UserLines(text) = f[Len(text)]
  BY GrowingLemma
<1> DEFINE n == Len(text)
           good == {i \in 0..n : f[i] = <<>>}
<1>2. n \in Nat /\ 0 \in good
  BY <1>1 DEF Growing
<1>3. ASSUME NEW i \in 1..n, i - 1 \in good PROVE i \in good
  <2>1. i \in 0..n /\ f[i - 1] = <<>>
    BY <1>2, <1>3
  <2>. QED BY <1>1, <2>1 DEF Growing
<1>4. \A i \in 0..n : i \in good
  <2> HIDE DEF good, n
  <2>1. Inductive(good, n)
    BY <1>2, <1>3 DEF Inductive
  <2>. QED BY <1>2, <2>1, UpwardLemma
<1>. QED BY <1>1, <1>2, <1>4

\* Those of two texts are those of the one, then those of the other.
LEMMA UserLinesConcat ==
  ASSUME NEW a \in Seq(Line), NEW b \in Seq(Line)
  PROVE  UserLines(a \o b) = UserLines(a) \o UserLines(b)
<1> DEFINE c == a \o b
<1>1. PICK n \in Nat, m \in Nat : n = Len(a) /\ m = Len(b)
  OBVIOUS
<1>2. /\ c \in Seq(Line) /\ Len(c) = n + m
      /\ \A i \in 1..(n + m) : c[i] = IF i <= n THEN a[i] ELSE b[i - n]
  BY <1>1, ConcatProperties
<1> HIDE DEF c
<1>3. PICK f : Growing(a, f) /\ UserLines(a) = f[n]
  BY <1>1, GrowingLemma
<1>4. PICK g : Growing(b, g) /\ UserLines(b) = g[m]
  BY <1>1, GrowingLemma
<1>5. PICK h : Growing(c, h) /\ UserLines(c) = h[n + m]
  BY <1>2, GrowingLemma
<1>6. h[n] = f[n]
  <2> DEFINE good == {i \in 0..n : h[i] = f[i]}
  <2>1. 0 \in good
    BY <1>1, <1>3, <1>5 DEF Growing
  <2>2. ASSUME NEW i \in 1..n, i - 1 \in good PROVE i \in good
    <3>1. i \in 0..n /\ i \in 1..(n + m) /\ h[i - 1] = f[i - 1] /\ c[i] = a[i]
      BY <1>1, <1>2, <2>2
    <3>2. f[i] = IF a[i] \in UserLine THEN Append(f[i - 1], a[i]) ELSE f[i - 1]
      BY <1>1, <1>3 DEF Growing
    <3>3. h[i] = IF c[i] \in UserLine THEN Append(h[i - 1], c[i]) ELSE h[i - 1]
      BY <1>2, <1>5, <3>1 DEF Growing
    <3>. QED BY <3>1, <3>2, <3>3
  <2>3. \A i \in 0..n : i \in good
    <3> HIDE DEF good
    <3>1. Inductive(good, n)
      BY <2>1, <2>2 DEF Inductive
    <3>. QED BY <1>1, <3>1, UpwardLemma
  <2>. QED BY <1>1, <2>3
<1>7. /\ f[n] \in Seq(UserLine) /\ g \in [0..m -> Seq(UserLine)] /\ g[0] = <<>>
  BY <1>1, <1>3, <1>4 DEF Growing
<1>8. h[n + m] = f[n] \o g[m]
  <2> DEFINE good == {j \in 0..m : h[n + j] = f[n] \o g[j]}
  <2>1. 0 \in good
    <3>1. h[n + 0] = f[n] /\ 0 \in 0..m
      BY <1>1, <1>6
    <3>2. f[n] \o <<>> = f[n]
      BY <1>7, ConcatEmptySeq
    <3>. QED BY <1>7, <3>1, <3>2
  <2>2. ASSUME NEW j \in 1..m, j - 1 \in good PROVE j \in good
    <3>1. /\ j \in 0..m /\ j - 1 \in 0..m /\ n + j \in 1..(n + m)
          /\ (n + j) - 1 = n + (j - 1) /\ h[n + (j - 1)] = f[n] \o g[j - 1]
          /\ ~(n + j <= n) /\ (n + j) - n = j
      <4>1. h[n + (j - 1)] = f[n] \o g[j - 1]
        BY <2>2
      <4>2. /\ j \in 0..m /\ j - 1 \in 0..m /\ n + j \in 1..(n + m)
            /\ (n + j) - 1 = n + (j - 1) /\ ~(n + j <= n) /\ (n + j) - n = j
        BY <1>1
      <4>. QED BY <4>1, <4>2
    <3>2. c[n + j] = b[j]
      BY <1>2, <3>1
    <3>3. g[j] = IF b[j] \in UserLine THEN Append(g[j - 1], b[j]) ELSE g[j - 1]
      BY <1>1, <1>4 DEF Growing
    <3>4. h[n + j] = IF c[n + j] \in UserLine THEN Append(h[(n + j) - 1], c[n + j])
                     ELSE h[(n + j) - 1]
      BY <1>2, <1>5, <3>1 DEF Growing
    <3>5. h[n + j] = IF b[j] \in UserLine THEN Append(f[n] \o g[j - 1], b[j])
                     ELSE f[n] \o g[j - 1]
      BY <3>1, <3>2, <3>4
    <3>6. CASE b[j] \in UserLine
      <4>1. g[j - 1] \in Seq(UserLine)
        BY <1>7, <3>1
      <4>2. Append(f[n] \o g[j - 1], b[j]) = (f[n] \o g[j - 1]) \o <<b[j]>>
        <5>1. f[n] \o g[j - 1] \in Seq(UserLine)
          BY <1>7, <4>1, ConcatProperties
        <5>. QED BY <3>6, <5>1, AppendIsConcat
      <4>3. Append(g[j - 1], b[j]) = g[j - 1] \o <<b[j]>>
        BY <3>6, <4>1, AppendIsConcat
      <4>4. (f[n] \o g[j - 1]) \o <<b[j]>> = f[n] \o (g[j - 1] \o <<b[j]>>)
        <5> DEFINE x == f[n]
                   y == g[j - 1]
                   z == <<b[j]>>
        <5>1. x \in Seq(UserLine) /\ y \in Seq(UserLine) /\ z \in Seq(UserLine)
          BY <1>7, <3>6, <4>1
        <5> HIDE DEF x, y, z
        <5>2. (x \o y) \o z = x \o (y \o z)
          BY <5>1, ConcatAssociative
        <5>. QED BY <5>2 DEF x, y, z
      <4>5. h[n + j] = (f[n] \o g[j - 1]) \o <<b[j]>> /\ g[j] = g[j - 1] \o <<b[j]>>
        BY <3>3, <3>5, <3>6, <4>2, <4>3
      <4>6. h[n + j] = f[n] \o g[j]
        BY <4>4, <4>5, Zenon
      <4>. QED BY <3>1, <4>6
    <3>7. CASE b[j] \notin UserLine
      <4>1. h[n + j] = f[n] \o g[j]
        BY <3>3, <3>5, <3>7
      <4>. QED BY <3>1, <4>1
    <3>. QED BY <3>6, <3>7
  <2>3. \A j \in 0..m : j \in good
    <3> HIDE DEF good
    <3>1. Inductive(good, m)
      BY <2>1, <2>2 DEF Inductive
    <3>. QED BY <1>1, <3>1, UpwardLemma
  <2>4. m \in good
    <3> HIDE DEF good
    <3>. QED BY <1>1, <2>3
  <2>. QED BY <2>4
<1>9. UserLines(c) = UserLines(a) \o UserLines(b)
  BY <1>3, <1>4, <1>5, <1>8, Zenon
<1>. QED BY <1>9 DEF c

\* The empty text has none.
LEMMA EmptyHasNone == UserLines(<<>>) = <<>>
<1> DEFINE none == <<>>
<1>1. none \in Seq(Line) /\ Len(none) = 0
  OBVIOUS
<1> HIDE DEF none
<1>2. \A i \in 1..Len(none) : none[i] \notin UserLine
  BY <1>1
<1>3. UserLines(none) = <<>>
  BY <1>1, <1>2, NoUserLines
<1>. QED BY <1>3 DEF none

\* A piece without users' lines.
LEMMA NoneInPiece ==
  ASSUME NEW text \in Seq(Line), NEW m \in Nat \ {0}, NEW n \in 0..Len(text),
         \A i \in m..n : text[i] \notin UserLine
  PROVE  UserLines(SubSeq(text, m, n)) = <<>>
<1> DEFINE p == SubSeq(text, m, n)
<1>1. /\ p \in Seq(Line) /\ Len(p) = IF m <= n THEN n - m + 1 ELSE 0
      /\ \A i \in 1..(n - m + 1) : p[i] = text[m + i - 1]
  BY PieceLemma
<1> HIDE DEF p
<1>2. ASSUME NEW i \in 1..Len(p) PROVE p[i] \notin UserLine
  <2>1. i \in 1..(n - m + 1) /\ m + i - 1 \in m..n
    BY <1>1
  <2>. QED BY <1>1, <2>1
<1>3. UserLines(p) = <<>>
  BY <1>1, <1>2, NoUserLines
<1>. QED BY <1>3 DEF p

\* All users' lines from m to n stand from f to l.
Inside(text, m, n, f, l) ==
  /\ m \in 1..(Len(text) + 1) /\ n \in (m - 1)..Len(text)
  /\ f \in Nat /\ l \in Nat /\ m <= f /\ l <= n
  /\ \A i \in m..n : text[i] \in UserLine => f <= i /\ i <= l

\* The one piece has those of the other.
LEMMA InsideLemma ==
  ASSUME NEW text \in Seq(Line), NEW m, NEW n, NEW f, NEW l, Inside(text, m, n, f, l)
  PROVE  UserLines(SubSeq(text, f, l)) = UserLines(SubSeq(text, m, n))
<1>1. PICK len \in Nat : len = Len(text)
  OBVIOUS
<1>2. /\ m \in 1..(len + 1) /\ n \in (m - 1)..len /\ m \in Nat /\ n \in Nat
      /\ f \in Nat /\ l \in Nat /\ m <= f /\ l <= n
      /\ \A i \in m..n : text[i] \in UserLine => f <= i /\ i <= l
  BY <1>1 DEF Inside
<1>3. CASE l < f
  <2>1. \A i \in m..n : text[i] \notin UserLine
    BY <1>2, <1>3
  <2>2. m \in Nat \ {0} /\ n \in 0..Len(text)
    BY <1>1, <1>2
  <2>3. UserLines(SubSeq(text, m, n)) = <<>>
    BY <2>1, <2>2, NoneInPiece
  <2>4. f \in Nat \ {0} /\ l \in 0..Len(text) /\ \A i \in f..l : text[i] \notin UserLine
    BY <1>1, <1>2, <1>3
  <2>5. UserLines(SubSeq(text, f, l)) = <<>>
    BY <2>4, NoneInPiece
  <2>. QED BY <2>3, <2>5
<1>4. CASE f <= l
  <2> DEFINE a == SubSeq(text, m, f - 1)
             b == SubSeq(text, f, l)
             c == SubSeq(text, l + 1, n)
             all == SubSeq(text, m, n)
  <2>1. /\ m \in 1..(Len(text) + 1) /\ f - 1 \in (m - 1)..Len(text)
        /\ l \in (f - 1)..Len(text) /\ (f - 1) + 1 = f
        /\ l \in (m - 1)..Len(text) /\ n \in l..Len(text)
    BY <1>1, <1>2, <1>4
  <2>2. a \o b = SubSeq(text, m, l)
    BY <2>1, ConcatAdjacentSubSeq
  <2>3. SubSeq(text, m, l) \o c = all
    BY <2>1, ConcatAdjacentSubSeq
  <2>4. a \in Seq(Line) /\ UserLines(a) = <<>>
    <3>1. m \in Nat \ {0} /\ f - 1 \in 0..Len(text)
      BY <1>1, <1>2, <1>4
    <3>2. \A i \in m..(f - 1) : text[i] \notin UserLine
      BY <1>2, <1>4
    <3>. QED BY <3>1, <3>2, PieceLemma, NoneInPiece
  <2>5. c \in Seq(Line) /\ UserLines(c) = <<>>
    <3>1. l + 1 \in Nat \ {0} /\ n \in 0..Len(text)
      BY <1>1, <1>2
    <3>2. \A i \in (l + 1)..n : text[i] \notin UserLine
      BY <1>2, <1>4
    <3>. QED BY <3>1, <3>2, PieceLemma, NoneInPiece
  <2>6. b \in Seq(Line) /\ UserLines(b) \in Seq(UserLine)
    <3>1. f \in Nat \ {0} /\ l \in 0..Len(text)
      BY <1>1, <1>2
    <3>. QED BY <3>1, PieceLemma, UserLinesType
  <2> HIDE DEF a, b, c, all
  <2>7. (a \o b) \o c = all
    BY <2>2, <2>3, Zenon
  <2>8. a \o b \in Seq(Line) /\ UserLines(a \o b) = UserLines(b)
    <3>1. a \o b \in Seq(Line)
      BY <2>4, <2>6, ConcatProperties
    <3>2. UserLines(a \o b) = <<>> \o UserLines(b)
      BY <2>4, <2>6, UserLinesConcat
    <3>. QED BY <2>6, <3>1, <3>2, ConcatEmptySeq
  <2>9. UserLines((a \o b) \o c) = UserLines(b)
    <3>1. UserLines((a \o b) \o c) = UserLines(a \o b) \o UserLines(c)
      BY <2>5, <2>8, UserLinesConcat
    <3>2. UserLines((a \o b) \o c) = UserLines(b) \o <<>>
      BY <2>5, <2>8, <3>1, Zenon
    <3>. QED BY <2>6, <3>2, ConcatEmptySeq
  <2>. QED BY <2>7, <2>9 DEF b, all
<1>. QED BY <1>2, <1>3, <1>4

\* What Rest cuts off is none of the users' lines.
LEMMA RestKeepsUsers ==
  ASSUME NEW text, Whole(text)
  PROVE  UserLines(Rest(text)) = Users(text) /\ Users(text) \in Seq(UserLine)
<1> DEFINE s == Start(text)
           e == End(text)
           F == Filled(text, s, e)
           f == First(F)
           l == Max(F)
<1>1. text \in Seq(Line) /\ s \in Nat /\ e \in Nat /\ ~Damaged(text)
  BY StartLemma, EndLemma, DamagedLemma DEF Whole
<1>2. PICK n \in Nat : n = Len(text)
  BY <1>1
<1>3. "blank" \notin UserLine
  BY ManagedFileAssumption
<1>4. ASSUME NEW i \in 1..n, i < s \/ e < i, text[i] \in UserLine PROVE i \in F
  BY <1>2, <1>3, <1>4 DEF Filled
<1>5. ASSUME F # {}
      PROVE  /\ l \in 1..n /\ f \in Nat /\ f \in 1..l
             /\ \A i \in F : f <= i /\ i <= l
  <2> HIDE DEF s, e
  <2>1. /\ l \in F /\ f \in 1..l
        /\ \A i \in F : f <= i /\ i <= l
    BY <1>1, <1>5, FilledLemma
  <2>2. l \in 1..n
    BY <1>2, <2>1 DEF Filled
  <2>. QED BY <2>1, <2>2
<1>6. CASE s = 0
  <2>1. Users(text) = UserLines(text) /\ e = 0
    BY <1>6 DEF Users, Whole, Incomplete
  <2>2. CASE F = {}
    <3>1. Rest(text) = <<>>
      BY <1>1, <2>2, RestIs
    <3>2. \A i \in 1..n : text[i] \notin UserLine
      <4> HIDE DEF F, s, e
      <4>. QED BY <1>4, <2>1, <2>2
    <3>3. UserLines(text) = <<>>
      BY <1>1, <1>2, <3>2, NoUserLines
    <3>4. UserLines(<<>>) = <<>> /\ <<>> \in Seq(UserLine)
      BY EmptyHasNone
    <3>. QED BY <2>1, <3>1, <3>3, <3>4
  <2>3. CASE F # {}
    <3>1. Rest(text) = SubSeq(text, f, l)
      BY <1>1, <1>6, <2>3, RestIs
    <3> HIDE DEF F, s, e, f, l
    <3>2. Inside(text, 1, n, f, l)
      BY <1>2, <1>4, <1>5, <2>1, <2>3 DEF Inside
    <3>3. UserLines(SubSeq(text, f, l)) = UserLines(SubSeq(text, 1, n))
      BY <1>1, <3>2, InsideLemma
    <3>4. SubSeq(text, 1, n) = text
      BY <1>1, <1>2, SubSeqFull
    <3>. QED BY <1>1, <2>1, <3>1, <3>3, <3>4, UserLinesType
  <2>. QED BY <2>2, <2>3
<1>7. CASE s # 0
  <2> DEFINE before == SubSeq(text, 1, s - 1)
             after == SubSeq(text, e + 1, n)
  <2>1. Users(text) = UserLines(before \o after)
    BY <1>1, <1>2, <1>7 DEF Users
  <2>2. s \in 1..n /\ e \in 1..n /\ s < e
    BY <1>1, <1>2, <1>7, WholeLemma, FreeLemma DEF Marked
  <2>3. before \in Seq(Line) /\ after \in Seq(Line)
    <3> HIDE DEF s, e
    <3>1. /\ 1 \in Nat \ {0} /\ s - 1 \in 0..Len(text)
          /\ e + 1 \in Nat \ {0} /\ n \in 0..Len(text)
      BY <1>2, <2>2
    <3>. QED BY <1>1, <3>1, PieceLemma
  <2>4. /\ Users(text) = UserLines(before) \o UserLines(after)
        /\ Users(text) \in Seq(UserLine)
    <3> HIDE DEF before, after
    <3>1. Users(text) = UserLines(before) \o UserLines(after)
      BY <2>1, <2>3, UserLinesConcat
    <3>2. UserLines(before) \in Seq(UserLine) /\ UserLines(after) \in Seq(UserLine)
      BY <2>3, UserLinesType
    <3>. QED BY <3>1, <3>2, ConcatProperties
  <2>5. CASE F = {}
    <3>1. Rest(text) = <<>>
      BY <1>1, <2>5, RestIs
    <3> HIDE DEF F, s, e
    <3>2. UserLines(before) = <<>>
      <4>1. \A i \in 1..(s - 1) : text[i] \notin UserLine
        BY <1>4, <2>2, <2>5
      <4>2. 1 \in Nat \ {0} /\ s - 1 \in 0..Len(text)
        BY <1>2, <2>2
      <4>. QED BY <1>1, <4>1, <4>2, NoneInPiece
    <3>3. UserLines(after) = <<>>
      <4>1. \A i \in (e + 1)..n : text[i] \notin UserLine
        BY <1>4, <2>2, <2>5
      <4>2. e + 1 \in Nat \ {0} /\ n \in 0..Len(text)
        BY <1>2, <2>2
      <4>. QED BY <1>1, <4>1, <4>2, NoneInPiece
    <3>4. UserLines(<<>>) = <<>>
      BY EmptyHasNone
    <3>5. Users(text) = <<>> \o <<>>
      BY <2>4, <3>2, <3>3, Zenon
    <3>6. <<>> \o <<>> = <<>>
      <4>1. <<>> \in Seq(Line)
        OBVIOUS
      <4>. QED BY <4>1, ConcatEmptySeq
    <3>. QED BY <2>4, <3>1, <3>4, <3>5, <3>6
  <2>6. CASE F # {}
    <3> DEFINE p == Min({s - 1, l})
               q == Max({e + 1, f})
               head == SubSeq(text, f, p)
               tail == SubSeq(text, q, l)
    <3>1. Rest(text) = head \o tail
      BY <1>1, <1>7, <2>6, RestIs
    <3> HIDE DEF F, s, e, f, l
    <3>2. /\ q = IF e + 1 <= f THEN f ELSE e + 1
          /\ p = IF s - 1 <= l THEN s - 1 ELSE l
      <4>1. e + 1 \in Nat \ {0} /\ f \in Nat \ {0} /\ s \in Nat \ {0} /\ l \in Nat \ {0}
        BY <1>5, <2>2, <2>6
      <4>. QED BY <4>1, PairLemma
    <3> HIDE DEF p, q
    <3>3. /\ p \in Nat /\ p <= s - 1 /\ p <= l /\ (s - 1 <= p \/ l <= p)
          /\ q \in Nat \ {0} /\ e + 1 <= q /\ f <= q /\ (q <= e + 1 \/ q <= f)
          /\ f \in Nat \ {0} /\ l \in 1..n
      <4>1. f \in Nat /\ f \in 1..l /\ l \in 1..n
        BY <1>5, <2>6
      <4>2. /\ q \in Nat \ {0} /\ e + 1 <= q /\ f <= q /\ (q <= e + 1 \/ q <= f)
        BY <1>2, <2>2, <3>2, <4>1
      <4>3. p \in Nat /\ p <= s - 1 /\ p <= l /\ (s - 1 <= p \/ l <= p)
        BY <1>2, <2>2, <3>2, <4>1
      <4>. QED BY <4>1, <4>2, <4>3
    <3>4. UserLines(head) = UserLines(before)
      <4>1. Inside(text, 1, s - 1, f, p)
        BY <1>2, <1>4, <1>5, <2>2, <2>6, <3>3 DEF Inside
      <4>. QED BY <1>1, <4>1, InsideLemma
    <3>5. UserLines(tail) = UserLines(after)
      <4>1. Inside(text, e + 1, n, q, l)
        BY <1>2, <1>4, <1>5, <2>2, <2>6, <3>3 DEF Inside
      <4>. QED BY <1>1, <4>1, InsideLemma
    <3>6. head \in Seq(Line) /\ tail \in Seq(Line)
      <4>1. p \in 0..Len(text) /\ l \in 0..Len(text)
        BY <1>2, <2>2, <3>3
      <4>. QED BY <1>1, <3>3, <4>1, PieceLemma
    <3> HIDE DEF head, tail, before, after
    <3>7. UserLines(head \o tail) = UserLines(head) \o UserLines(tail)
      BY <3>6, UserLinesConcat
    <3>. QED BY <2>4, <3>1, <3>4, <3>5, <3>7, Zenon
  <2>. QED BY <2>5, <2>6
<1>. QED BY <1>6, <1>7

-----------------------------------------------------------------------------
(* The types.                                                              *)

\* The users' lines of any text are lines of users.
LEMMA UsersType ==
  ASSUME NEW text \in Seq(Line)
  PROVE  Users(text) \in Seq(UserLine)
<1>1. CASE Start(text) # 0 /\ ~Damaged(text)
  <2> DEFINE before == SubSeq(text, 1, Start(text) - 1)
             after == SubSeq(text, End(text) + 1, Len(text))
  <2>1. /\ 1 \in Nat \ {0} /\ Start(text) - 1 \in 0..Len(text)
        /\ End(text) + 1 \in Nat \ {0} /\ Len(text) \in 0..Len(text)
    <3>1. Start(text) \in 1..Len(text) /\ End(text) \in Nat
      BY <1>1, StartLemma, EndLemma
    <3>. QED BY <3>1
  <2>2. before \in Seq(Line) /\ after \in Seq(Line)
    BY <2>1, PieceLemma
  <2>3. Users(text) = UserLines(before \o after)
    BY <1>1 DEF Users
  <2> HIDE DEF before, after
  <2>4. before \o after \in Seq(Line)
    BY <2>2, ConcatProperties
  <2>. QED BY <2>3, <2>4, UserLinesType
<1>2. CASE ~(Start(text) # 0 /\ ~Damaged(text))
  <2>1. Users(text) = UserLines(text)
    BY <1>2 DEF Users
  <2>. QED BY <2>1, UserLinesType
<1>. QED BY <1>1, <1>2

\* Rest leaves lines of the text.
LEMMA RestType ==
  ASSUME NEW text \in Seq(Line)
  PROVE  Rest(text) \in Seq(Line)
<1> DEFINE s == Start(text)
           e == End(text)
           F == Filled(text, s, e)
           f == First(F)
           l == Max(F)
<1>1. PICK n \in Nat : n = Len(text)
  OBVIOUS
<1>2. s \in 0..n /\ e \in 0..n
  BY <1>1, StartLemma, EndLemma
<1>3. CASE F = {}
  <2>1. Rest(text) = <<>>
    BY <1>3, RestIs
  <2>2. <<>> \in Seq(Line)
    OBVIOUS
  <2>. QED BY <2>1, <2>2
<1>4. ASSUME F # {} PROVE l \in 1..n /\ f \in 1..l
  <2> HIDE DEF s, e
  <2>1. l \in F /\ f \in 1..l
    BY <1>2, <1>4, FilledLemma
  <2>2. l \in 1..n
    BY <1>1, <2>1 DEF Filled
  <2>. QED BY <2>1, <2>2
<1>5. CASE F # {} /\ s = 0
  <2>1. Rest(text) = SubSeq(text, f, l)
    BY <1>5, RestIs
  <2>2. l \in 1..n /\ f \in 1..l
    BY <1>4, <1>5
  <2> HIDE DEF f, l, s, e, F
  <2>3. f \in Nat \ {0} /\ l \in 0..Len(text)
    BY <1>1, <2>2
  <2>. QED BY <2>1, <2>3, PieceLemma
<1>6. CASE F # {} /\ s # 0
  <2> DEFINE p == Min({s - 1, l})
             q == Max({e + 1, f})
             head == SubSeq(text, f, p)
             tail == SubSeq(text, q, l)
  <2>1. Rest(text) = head \o tail
    BY <1>6, RestIs
  <2>2. l \in 1..n /\ f \in 1..l
    BY <1>4, <1>6
  <2> HIDE DEF F, s, e, f, l
  <2>3. /\ q = IF e + 1 <= f THEN f ELSE e + 1
        /\ p = IF s - 1 <= l THEN s - 1 ELSE l
    <3>1. e + 1 \in Nat \ {0} /\ f \in Nat \ {0} /\ s \in Nat \ {0} /\ l \in Nat \ {0}
      BY <1>2, <1>6, <2>2
    <3>. QED BY <3>1, PairLemma
  <2> HIDE DEF p, q
  <2>4. /\ f \in Nat \ {0} /\ p \in 0..Len(text)
        /\ q \in Nat \ {0} /\ l \in 0..Len(text)
    BY <1>1, <1>2, <1>6, <2>2, <2>3
  <2>5. head \in Seq(Line) /\ tail \in Seq(Line)
    BY <2>4, PieceLemma
  <2> HIDE DEF head, tail
  <2>. QED BY <2>1, <2>5, ConcatProperties
<1>. QED BY <1>3, <1>5, <1>6

\* What is written is lines, whatever the nicknames in it spell.
LEMMA RenderedType ==
  ASSUME NEW text \in Seq(Line), NEW lines \in Body
  PROVE  Rendered(text, lines) \in Seq(Line)
<1> DEFINE r == Rest(text)
           a == <<"begin">>
           b == <<"end">>
           w == <<"blank">>
           S == Section(lines)
<1>1. r \in Seq(Line) /\ lines \in Seq(Line)
  BY RestType, ManagedFileAssumption
<1>2. a \in Seq(Line) /\ b \in Seq(Line) /\ w \in Seq(Line)
  BY DEF Line
<1>3. S = (a \o lines) \o b
  BY DEF Section
<1>4. \/ Rendered(text, lines) = r
      \/ Rendered(text, lines) = S
      \/ Rendered(text, lines) = (S \o w) \o r
      \/ Rendered(text, lines) = (r \o w) \o S
  BY DEF Rendered
<1> HIDE DEF r, a, b, w, S
<1>5. a \o lines \in Seq(Line)
  BY <1>1, <1>2, ConcatProperties
<1>6. S \in Seq(Line)
  BY <1>2, <1>3, <1>5, ConcatProperties
<1>7. S \o w \in Seq(Line) /\ r \o w \in Seq(Line)
  BY <1>1, <1>2, <1>6, ConcatProperties
<1>8. (S \o w) \o r \in Seq(Line) /\ (r \o w) \o S \in Seq(Line)
  BY <1>1, <1>6, <1>7, ConcatProperties
<1>. QED BY <1>1, <1>4, <1>6, <1>8

\* At first no line of the file is a marker.
LEMMA FoundLemma ==
  ASSUME NEW text \in Found
  PROVE  text \in Seq(Line) /\ text # Absent /\ Free(text) /\ Single(text)
<1>1. text \in Seq(UserLine \cup {"blank"})
  BY ManagedFileAssumption
<1>2. UserLine \cup {"blank"} \subseteq Line
  BY DEF Line
<1>3. \A i \in 1..Len(text) : text[i] \in UserLine \cup {"blank"}
  BY <1>1
<1>4. text \in Seq(Line)
  BY <1>1, <1>2
<1>5. (UserLine \cup {"blank"}) \cap Markers = {}
  BY ManagedFileAssumption DEF Markers
<1>. QED BY <1>3, <1>4, <1>5, ManagedFileAssumption DEF Free, Single

\* Every variable has its type at first.
LEMMA TypeInit == Init => TypeOK
<1> SUFFICES ASSUME Init PROVE TypeOK
  OBVIOUS
<1>1. /\ kind \in {"hosts", "knownHosts", "sshConfig"} /\ temp = Absent /\ pc = "idle"
      /\ want \in Bodies /\ body = <<>> /\ updated = <<>> /\ read = <<>>
      /\ raced = FALSE /\ spelled = FALSE /\ synced = Absent /\ edits = 0 /\ faults = 0
      /\ file \in Found \/ file = Absent
      /\ intended = IF file = Absent THEN <<>> ELSE UserLines(file)
  BY DEF Init
<1>2. <<>> \in Seq(Line) /\ <<>> \in Seq(UserLine) /\ <<>> \in Bodies
  <2>1. Plain(<<>>)
    BY DEF Plain
  <2>. QED BY <2>1, ManagedFileAssumption DEF Bodies
<1>3. 0 \in 0..MaxEdits /\ 0 \in 0..MaxFaults
  BY ManagedFileAssumption
<1>4. file = Absent \/ file \in Seq(Line)
  BY <1>1, FoundLemma
<1>5. intended \in Seq(UserLine)
  BY <1>1, <1>2, <1>4, UserLinesType
<1>. QED BY <1>1, <1>2, <1>3, <1>4, <1>5 DEF TypeOK

\* What a snapshot is rendered to depends on which file it is.
LEMMA BodiesLemma == kind' = kind => Bodies' = Bodies
  BY DEF Bodies

\* A nickname is written only to the hosts file.
LEMMA BeginType == TypeOK /\ Begin => TypeOK'
<1> SUFFICES ASSUME TypeOK, Begin PROVE TypeOK'
  OBVIOUS
<1>1. /\ pc' = "read" /\ body' = want /\ spelled' = (spelled \/ ~Plain(want))
      /\ UNCHANGED <<kind, file, temp, want, updated, intended, read, raced, synced,
                     edits, faults>>
  BY DEF Begin, SyncStep
<1>2. ~Plain(want) => kind = "hosts"
  BY DEF TypeOK, Bodies
<1>3. spelled' \in BOOLEAN /\ (spelled' => kind = "hosts")
  BY <1>1, <1>2 DEF TypeOK
<1>. QED BY <1>1, <1>3, BodiesLemma DEF TypeOK

\* What is read is a text, and so is what is made of it.
LEMMA ReadType == TypeOK /\ Read => TypeOK'
<1> SUFFICES ASSUME TypeOK, Read PROVE TypeOK'
  OBVIOUS
<1> DEFINE text == IF file = Absent THEN <<>> ELSE file
<1>1. /\ pc' \in {"idle", "open"} /\ synced' \in {synced, body}
      /\ UNCHANGED <<kind, file, temp, want, body, intended, raced, spelled, edits, faults>>
      /\ updated' = updated \/ updated' = Rendered(text, body)
      /\ read' = read \/ read' = Users(text)
  BY DEF Read, SyncStep
<1>2. text \in Seq(Line)
  <2>1. <<>> \in Seq(Line)
    OBVIOUS
  <2>. QED BY <2>1 DEF TypeOK
<1>3. body \in Body
  BY DEF TypeOK, Bodies
<1>4. Rendered(text, body) \in Seq(Line) /\ Users(text) \in Seq(UserLine)
  BY <1>2, <1>3, RenderedType, UsersType
<1> HIDE DEF text
<1>5. updated' \in Seq(Line) /\ read' \in Seq(UserLine)
  BY <1>1, <1>4 DEF TypeOK
<1>6. pc' # "rename"
  BY <1>1
<1>. QED BY <1>1, <1>5, <1>6, BodiesLemma DEF TypeOK

\* A part of what is to be written is a text.
LEMMA PartType ==
  ASSUME TypeOK, NEW k \in 0..Len(updated)
  PROVE  SubSeq(updated, 1, k) \in Seq(Line)
<1>1. updated \in Seq(Line) /\ 1 \in Nat \ {0}
  BY DEF TypeOK
<1>. QED BY <1>1, PieceLemma

\* So is what a user has edited.
LEMMA EditedType ==
  ASSUME TypeOK, Edit
  PROVE  /\ file' \in Seq(Line) /\ file' # Absent
         /\ Single(file) => Single(file')
<1>1. file \in Seq(Line)
  BY DEF TypeOK, Edit
<1>2. ASSUME NEW i \in 1..(Len(file) + 1), NEW l \in UserLine \cup {"blank"},
             file' = InsertAt(file, i, l)
      PROVE  file' \in Seq(Line) /\ (Single(file) => Single(file'))
  BY <1>1, <1>2, InsertLemma
<1>3. ASSUME NEW i \in DOMAIN file, file' = RemoveAt(file, i)
      PROVE  file' \in Seq(Line) /\ (Single(file) => Single(file'))
  <2>1. i \in 1..Len(file)
    BY <1>1
  <2>. QED BY <1>1, <1>3, <2>1, RemoveLemma
<1>4. file' \in Seq(Line) /\ (Single(file) => Single(file'))
  BY <1>2, <1>3 DEF Edit
<1>. QED BY <1>4, ManagedFileAssumption

LEMMA EditType == TypeOK /\ Edit => TypeOK'
<1> SUFFICES ASSUME TypeOK, Edit PROVE TypeOK'
  OBVIOUS
<1>1. /\ UNCHANGED <<kind, temp, pc, body, updated, want, read, spelled, faults>>
      /\ synced' = Absent /\ edits < MaxEdits /\ edits' = edits + 1
      /\ raced' = (raced \/ pc \in {"open", "write", "rename"})
      /\ intended' = Users(file')
  BY DEF Edit, sync
<1>2. file' \in Seq(Line)
  BY EditedType
<1>3. intended' \in Seq(UserLine)
  BY <1>1, <1>2, UsersType
<1>4. edits' \in 0..MaxEdits
  BY <1>1, ManagedFileAssumption DEF TypeOK
<1>5. raced' \in BOOLEAN
  BY <1>1
<1>. QED BY <1>1, <1>2, <1>3, <1>4, <1>5, BodiesLemma DEF TypeOK

\* The other steps write what is there, or change the snapshot.
LEMMA TypeQuiet ==
  ASSUME TypeOK, UNCHANGED <<kind, body, updated, intended, read, raced, spelled>>,
         file' = file \/ file' = updated, temp' = Absent \/ temp' \in Seq(Line),
         pc' \in {"idle", "read", "open", "write", "rename"},
         pc' = "rename" => temp' = updated,
         want' \in Bodies, synced' \in Bodies \cup {Absent},
         edits' \in 0..MaxEdits, faults' \in 0..MaxFaults
  PROVE  TypeOK'
  BY BodiesLemma DEF TypeOK

\* Every step keeps the types.
LEMMA TypeStep == TypeOK /\ [Next]_vars => TypeOK'
<1> SUFFICES ASSUME TypeOK, [Next]_vars PROVE TypeOK'
  OBVIOUS
<1>1. /\ file = Absent \/ file \in Seq(Line)
      /\ temp = Absent \/ temp \in Seq(Line)
      /\ pc \in {"idle", "read", "open", "write", "rename"} /\ updated \in Seq(Line)
      /\ pc = "rename" => temp = updated
      /\ want \in Bodies /\ body \in Bodies /\ synced \in Bodies \cup {Absent}
      /\ edits \in 0..MaxEdits /\ faults \in 0..MaxFaults
      /\ MaxEdits \in Nat /\ MaxFaults \in Nat
  BY ManagedFileAssumption DEF TypeOK
<1>2. CASE Begin
  BY <1>2, BeginType
<1>3. CASE Read
  BY <1>3, ReadType
<1>4. CASE Open
  <2>1. <<>> \in Seq(Line)
    OBVIOUS
  <2>. QED BY <1>1, <1>4, <2>1, TypeQuiet DEF Open, SyncStep, history
<1>5. CASE Write
  BY <1>1, <1>5, TypeQuiet DEF Write, SyncStep, history
<1>6. CASE Rename
  BY <1>1, <1>6, TypeQuiet DEF Rename, SyncStep
<1>7. CASE Fails
  <2>1. temp' = Absent \/ temp' \in Seq(Line)
    BY <1>1, <1>7, PartType DEF Fails
  <2>2. faults' \in 0..MaxFaults
    BY <1>1, <1>7 DEF Fails, Fault
  <2>. QED BY <1>1, <1>7, <2>1, <2>2, TypeQuiet DEF Fails, Returns, history
<1>8. CASE Kill
  <2>1. faults' \in 0..MaxFaults
    BY <1>1, <1>8 DEF Kill, Fault
  <2>. QED BY <1>1, <1>8, <2>1, TypeQuiet DEF Kill, Returns, history
<1>9. CASE Change
  <2>1. edits' \in 0..MaxEdits
    BY <1>1, <1>9 DEF Change
  <2>. QED BY <1>1, <1>9, <2>1, TypeQuiet DEF Change, sync, history
<1>10. CASE Edit
  BY <1>10, EditType
<1>11. CASE UNCHANGED vars
  BY <1>1, <1>11, TypeQuiet DEF vars, sync, history
<1>. QED BY <1>2, <1>3, <1>4, <1>5, <1>6, <1>7, <1>8, <1>9, <1>10, <1>11 DEF Next, Sync

\* Every variable has its type, whatever nicknames spell, and only a temporary
\* that is complete is renamed.
THEOREM FileType == Spec => []TypeOK
  BY TypeInit, TypeStep, PTL DEF Spec

-----------------------------------------------------------------------------
(* The section, action by action.                                          *)

\* What is rendered depends on the text and on which file it is.
LEMMA KindLemma ==
  ASSUME kind' = kind, NEW text, NEW lines
  PROVE  /\ Written(text, lines)' = Written(text, lines)
         /\ Rest(text)' = Rest(text)
<1>1. Rest(text)' = Rest(text)
  BY DEF Rest
<1>2. Rendered(text, lines)' = Rendered(text, lines)
  BY <1>1 DEF Rendered
<1>3. Holds(text, lines)' = Holds(text, lines)
  BY DEF Holds
<1>. QED BY <1>1, <1>2, <1>3 DEF Written

\* A step that changes neither keeps what is to be written in order.
LEMMA PendingLemma ==
  ASSUME kind' = kind, raced' = raced, NEW text, NEW lines, NEW f, Pending(text, lines, f)
  PROVE  Pending(text, lines, f)'
<1>1. Rest(text)' = Rest(text) /\ Kept(f)' = Kept(f)
  BY KindLemma DEF Kept
<1>. QED BY <1>1, KindLemma DEF Pending

\* At first nothing has been written, and there is no section.
LEMMA SectionInit == Init => SectionInv
<1> SUFFICES ASSUME Init PROVE SectionInv
  OBVIOUS
<1>1. /\ pc = "idle" /\ body = <<>> /\ synced = Absent
      /\ file = Absent \/ file \in Found
  BY DEF Init
<1>2. <<>> \in PlainBody
  BY ManagedFileAssumption DEF PlainBody, Plain
<1>. QED BY <1>1, <1>2, FoundLemma DEF SectionInv, Writing

\* A sync is called with the present snapshot.
LEMMA SectionBegin ==
  ASSUME TypeOK, SectionInv, Begin, ~spelled'
  PROVE  SectionInv'
<1>1. /\ kind' = kind /\ file' = file /\ body' = want /\ synced' = synced
      /\ pc' = "read" /\ Plain(want)
  BY DEF Begin, SyncStep
<1>2. body' \in PlainBody
  BY <1>1 DEF TypeOK, Bodies, PlainBody
<1>3. synced # Absent /\ file # Absent => Written(file, synced)'
  BY <1>1, KindLemma DEF SectionInv
<1>4. file # Absent => Single(file)'
  BY <1>1 DEF SectionInv, Single
<1>. QED BY <1>1, <1>2, <1>3, <1>4 DEF SectionInv, Writing

\* What a sync reads, if it does not refuse it.
LEMMA ReadLemma ==
  ASSUME TypeOK, SectionInv, Read, pc' = "open" \/ synced' # synced,
         NEW text, text = IF file = Absent THEN <<>> ELSE file
  PROVE  /\ Whole(text) /\ updated' = Rendered(text, body) /\ read' = Users(text)
         /\ Written(updated', body) /\ Rest(updated') = Rest(text)
<1>1. ~Incomplete(text) /\ updated' = Rendered(text, body) /\ read' = Users(text)
  BY DEF Read, SyncStep
<1>2. text \in Seq(Line) /\ Single(text)
  <2>1. <<>> \in Seq(Line) /\ Single(<<>>)
    BY EmptySeq DEF Single
  <2>. QED BY <2>1 DEF TypeOK, SectionInv
<1>3. Whole(text)
  BY <1>1, <1>2 DEF Whole
<1>4. kind \in {"hosts", "knownHosts", "sshConfig"} /\ body \in PlainBody
  BY DEF TypeOK, SectionInv
<1>5. Written(Rendered(text, body), body) /\ Rest(Rendered(text, body)) = Rest(text)
  BY <1>3, <1>4, RenderedLemma
<1>. QED BY <1>1, <1>3, <1>5

\* What it makes of it is in order.
LEMMA SectionRead ==
  ASSUME TypeOK, SectionInv, Read
  PROVE  SectionInv'
<1> DEFINE text == IF file = Absent THEN <<>> ELSE file
<1>1. kind' = kind /\ file' = file /\ body' = body /\ raced' = raced
  BY DEF Read, SyncStep
<1>2. \/ pc' = "idle" /\ synced' = synced
      \/ pc' = "idle" /\ synced' = body /\ updated' = file
      \/ pc' = "open" /\ synced' = synced
  BY DEF Read, SyncStep
<1>3. ASSUME pc' = "open" PROVE Pending(updated, body, file)'
  <2>1. Written(updated', body) /\ Rest(updated') = Rest(text)
    BY <1>3, ReadLemma
  <2>2. Pending(updated', body, file)
    BY <2>1 DEF Pending, Kept
  <2>3. Pending(updated', body', file')
    BY <1>1, <2>2
  <2>. QED BY <1>1, <2>3, PendingLemma
<1>4. ASSUME synced' # Absent, file' # Absent PROVE Written(file, synced)'
  <2>1. CASE synced' = synced
    <3>1. Written(file, synced)
      BY <1>1, <1>4, <2>1 DEF SectionInv
    <3>. QED BY <1>1, <2>1, <3>1, KindLemma
  <2>2. CASE synced' # synced
    <3>1. Written(updated', body) /\ updated' = file /\ synced' = body
      BY <1>2, <2>2, ReadLemma
    <3>2. Written(file, synced')
      BY <3>1
    <3>. QED BY <1>1, <3>2, KindLemma
  <2>. QED BY <2>1, <2>2
<1>5. synced' \in PlainBody \cup {Absent} /\ body' \in PlainBody
  BY <1>1, <1>2 DEF SectionInv
<1>6. pc' # "rename" /\ pc' # "write"
  BY <1>2
<1>7. file # Absent => Single(file)'
  BY <1>1 DEF SectionInv, Single
<1>. QED BY <1>1, <1>3, <1>4, <1>5, <1>6, <1>7 DEF SectionInv, Writing

\* A step that leaves the file alone, and does not begin to write, keeps it.
LEMMA SectionQuiet ==
  ASSUME SectionInv, UNCHANGED <<kind, file, body, updated, raced, synced>>,
         Writing' => Writing
  PROVE  SectionInv'
<1>1. synced # Absent /\ file # Absent => Written(file, synced)'
  BY KindLemma DEF SectionInv
<1>2. Writing' => Pending(updated, body, file)'
  BY PendingLemma DEF SectionInv
<1>3. file # Absent => Single(file)'
  BY DEF SectionInv, Single
<1>. QED BY <1>1, <1>2, <1>3 DEF SectionInv

\* What replaces the file has the section.
LEMMA SectionRename ==
  ASSUME TypeOK, SectionInv, Rename
  PROVE  SectionInv'
<1>1. /\ kind' = kind /\ body' = body
      /\ file' = updated /\ synced' = body /\ pc' = "idle"
  BY DEF TypeOK, Rename, SyncStep
<1>2. Written(updated, body)
  BY DEF SectionInv, Writing, Rename, SyncStep, Pending
<1>3. Single(file')
  BY <1>1, <1>2 DEF Written, Whole
<1>4. Written(file, synced)'
  BY <1>1, <1>2, KindLemma
<1>5. Single(file)'
  BY <1>3 DEF Single
<1>. QED BY <1>1, <1>4, <1>5 DEF SectionInv, Writing

\* A user may damage the file, but adds no marker.
LEMMA SectionEdit ==
  ASSUME TypeOK, SectionInv, Edit
  PROVE  SectionInv'
<1>1. /\ kind' = kind /\ pc' = pc /\ body' = body /\ updated' = updated
      /\ synced' = Absent /\ raced' = (raced \/ Writing)
  BY DEF Edit, sync, Writing
<1>2. Single(file')
  BY EditedType DEF SectionInv, Edit
<1>3. ASSUME Writing PROVE Pending(updated, body, file)'
  <2>1. raced'
    BY <1>1, <1>3
  <2>2. Written(updated, body)'
    BY <1>1, <1>3, KindLemma DEF SectionInv, Pending
  <2>. QED BY <2>1, <2>2 DEF Pending
<1>4. Single(file)'
  BY <1>2 DEF Single
<1>5. Writing' => Writing
  BY <1>1 DEF Writing
<1>. QED BY <1>1, <1>3, <1>4, <1>5 DEF SectionInv

-----------------------------------------------------------------------------
(* The users' lines, action by action.                                     *)

LEMMA UsersInit == Init => UsersInv
<1> SUFFICES ASSUME Init PROVE UsersInv
  OBVIOUS
<1>1. /\ pc = "idle"
      /\ file \in Found \/ file = Absent
      /\ intended = IF file = Absent THEN <<>> ELSE UserLines(file)
  BY DEF Init
<1>2. ASSUME file # Absent PROVE Users(file) = intended
  <2>1. file \in Seq(Line) /\ Free(file)
    BY <1>1, <1>2, FoundLemma
  <2>. QED BY <1>1, <1>2, <2>1, FreeLemma DEF Users
<1>. QED BY <1>1, <1>2 DEF UsersInv, Writing

\* What is to replace the file has the users' lines that were read.
LEMMA UsersRead ==
  ASSUME TypeOK, SectionInv, UsersInv, Read
  PROVE  UsersInv'
<1> DEFINE text == IF file = Absent THEN <<>> ELSE file
<1>1. UNCHANGED <<file, intended, raced>> /\ pc' \in {"idle", "open"}
  BY DEF Read, SyncStep
<1>2. ASSUME pc' = "open" PROVE Users(updated') = read'
  <2>1. /\ Whole(text) /\ read' = Users(text)
        /\ Written(updated', body) /\ Rest(updated') = Rest(text)
    BY <1>2, ReadLemma
  <2> HIDE DEF text
  <2>2. Whole(updated')
    BY <2>1 DEF Written
  <2>3. UserLines(Rest(text)) = Users(text) /\ UserLines(Rest(updated')) = Users(updated')
    BY <2>1, <2>2, RestKeepsUsers
  <2>. QED BY <2>1, <2>3
<1>3. Users(file)' = Users(file) /\ Users(updated)' = Users(updated')
  BY <1>1
<1>. QED BY <1>1, <1>2, <1>3 DEF UsersInv, Writing

\* A step that leaves the file alone, and does not begin to write, keeps them.
LEMMA UsersQuiet ==
  ASSUME UsersInv, UNCHANGED <<file, updated, intended, read, raced>>,
         Writing' => Writing
  PROVE  UsersInv'
<1>1. Users(file)' = Users(file) /\ Users(updated)' = Users(updated)
  OBVIOUS
<1>. QED BY <1>1 DEF UsersInv

\* What replaces the file has the users' lines of the file.
LEMMA UsersRename ==
  ASSUME TypeOK, NotRefused, SectionInv, UsersInv, Rename
  PROVE  UsersInv'
<1>1. /\ UNCHANGED <<intended, raced>> /\ pc' = "idle"
      /\ file' = updated
  BY DEF TypeOK, Rename, SyncStep
<1>2. Writing /\ Pending(updated, body, file) /\ Whole(updated)
  BY DEF SectionInv, Writing, Rename, SyncStep, Pending, Written
<1>3. updated # Absent
  BY ManagedFileAssumption DEF TypeOK
<1>4. ASSUME ~raced PROVE Users(updated) = intended
  <2>1. UserLines(Rest(updated)) = Users(updated) /\ Rest(updated) = Kept(file)
    BY <1>2, <1>4, RestKeepsUsers DEF Pending
  <2>2. CASE file = Absent
    <3> DEFINE none == <<>>
    <3>1. none \in Seq(Line) /\ Free(none)
      BY DEF Free
    <3>2. UserLines(none) = none
      BY EmptyHasNone
    <3>3. Kept(file) = Rest(none)
      BY <2>2 DEF Kept
    <3>4. intended = none
      BY <2>2 DEF UsersInv
    <3> HIDE DEF none
    <3>5. UserLines(Rest(none)) = Users(none)
      BY <3>1, FreeIsWhole, RestKeepsUsers
    <3>6. Users(none) = UserLines(none)
      BY <3>1, FreeLemma DEF Users
    <3>. QED BY <2>1, <3>2, <3>3, <3>4, <3>5, <3>6
  <2>3. CASE file # Absent
    <3>1. Whole(file)
      BY <1>2, <1>4, <2>3 DEF TypeOK, SectionInv, NotRefused, Whole
    <3>2. UserLines(Rest(file)) = Users(file)
      BY <3>1, RestKeepsUsers
    <3>3. Kept(file) = Rest(file)
      BY <2>3 DEF Kept
    <3>4. Users(file) = intended
      BY <1>4, <2>3 DEF UsersInv
    <3>. QED BY <2>1, <3>2, <3>3, <3>4
  <2>. QED BY <2>2, <2>3
<1>5. Users(file)' = Users(updated)
  BY <1>1
<1>. QED BY <1>1, <1>3, <1>4, <1>5 DEF UsersInv, Writing

\* After an edit they are as the user has left them.
LEMMA UsersEdit ==
  ASSUME TypeOK, UsersInv, Edit
  PROVE  UsersInv'
<1>1. /\ UNCHANGED <<pc, updated, read>> /\ intended' = Users(file')
  BY DEF Edit, sync
<1>2. file' # Absent
  BY EditedType
<1>3. Users(file)' = Users(file') /\ Users(updated)' = Users(updated)
  BY <1>1
<1>4. Writing' => Writing
  BY <1>1 DEF Writing
<1>. QED BY <1>1, <1>2, <1>3, <1>4 DEF UsersInv

-----------------------------------------------------------------------------
(* The inductive invariant.                                                *)

LEMMA FileInit == Init => FileInv
<1>1. Init => NotRefused
  BY DEF Init, NotRefused, Writing
<1>. QED BY <1>1, TypeInit, SectionInit, UsersInit DEF FileInv

\* A sync writes only what it has not refused.
LEMMA NotRefusedStep == NotRefused /\ [Next]_vars => NotRefused'
<1> SUFFICES ASSUME NotRefused, [Next]_vars PROVE NotRefused'
  OBVIOUS
<1> DEFINE fine == file = Absent \/ ~Incomplete(file)
<1>1. CASE UNCHANGED <<file, raced>> /\ (Writing' => Writing)
  <2>1. fine' = fine
    BY <1>1
  <2> HIDE DEF fine
  <2>2. NotRefused <=> (Writing /\ ~raced => fine)
    BY DEF NotRefused, fine
  <2>3. NotRefused' <=> (Writing' /\ ~raced' => fine')
    BY DEF NotRefused, fine
  <2>. QED BY <1>1, <2>1, <2>2, <2>3, Zenon
<1>2. CASE UNCHANGED <<file, raced>> /\ Read
  <2>1. Writing' => fine
    BY <1>2 DEF Read, SyncStep, Writing
  <2>2. fine' = fine
    BY <1>2
  <2> HIDE DEF fine
  <2>3. NotRefused' <=> (Writing' /\ ~raced' => fine')
    BY DEF NotRefused, fine
  <2>. QED BY <2>1, <2>2, <2>3
<1>3. CASE Edit
  BY <1>3 DEF Edit, sync, NotRefused, Writing
<1>4. CASE ~Writing'
  BY <1>4 DEF NotRefused
<1>. QED
  BY <1>1, <1>2, <1>3, <1>4
  DEF Next, Sync, Begin, Read, Open, Write, Rename, Fails, Kill, Change, SyncStep, Returns,
      Writing, vars, sync, history

\* What syncs make of the file stays in order until one is to write a nickname
\* that spells a marker.
LEMMA SectionStep ==
  ASSUME TypeOK, NotRefused, SectionInv, UsersInv, [Next]_vars, ~spelled'
  PROVE  SectionInv' /\ UsersInv'
<1>1. CASE Begin
  <2>1. Writing' => Writing
    BY <1>1 DEF Begin, SyncStep, Writing
  <2>. QED BY <1>1, <2>1, SectionBegin, UsersQuiet DEF Begin, SyncStep
<1>2. CASE Read
  BY <1>2, SectionRead, UsersRead
<1>3. CASE Rename
  BY <1>3, SectionRename, UsersRename
<1>4. CASE Edit
  BY <1>4, SectionEdit, UsersEdit
<1>5. CASE Open \/ Write \/ Fails \/ Kill \/ Change \/ UNCHANGED vars
  <2>1. /\ UNCHANGED <<kind, file, body, updated, intended, read, raced, synced>>
        /\ Writing' => Writing
    BY <1>5 DEF Open, Write, Fails, Kill, Change, SyncStep, Returns, Writing, vars, sync, history
  <2>. QED BY <2>1, SectionQuiet, UsersQuiet
<1>. QED BY <1>1, <1>2, <1>3, <1>4, <1>5 DEF Next, Sync

\* A nickname that was to be written stays so.
LEMMA SpelledStep == [Next]_vars /\ ~spelled' => ~spelled
  BY DEF Next, Sync, Begin, Read, Open, Write, Rename, Fails, Kill, Change, Edit, vars, history

LEMMA FileStep == FileInv /\ [Next]_vars => FileInv'
  BY TypeStep, NotRefusedStep, SectionStep, SpelledStep DEF FileInv

\* Whatever a user has done to the file, what is to be written is in order.
THEOREM FileAlways == Spec => []FileInv
  BY FileInit, FileStep, PTL DEF Spec

-----------------------------------------------------------------------------
(* The properties.                                                         *)

\* No user's line is lost, changed or moved by a sync, at any moment, wherever it
\* fails or is killed, unless an edit came between its read and its rename or a
\* nickname spells a marker.
THEOREM FileUserLines == Spec => []UserLinesSurvive
<1>1. FileInv => UserLinesSurvive
  BY DEF FileInv, UsersInv, UserLinesSurvive
<1>. QED BY <1>1, FileAlways, PTL

\* To sync what has been synced changes nothing.
THEOREM FileIdempotent == Spec => []Idempotent
<1>1. FileInv => Idempotent
  BY DEF FileInv, SectionInv, Written, Idempotent
<1>. QED BY <1>1, FileAlways, PTL

\* After a sync the file has the one section asked for, where it belongs.
THEOREM FileSynced == Spec => []SyncedAsAsked
<1>1. ASSUME FileInv PROVE SyncedAsAsked
  <2> DEFINE at(mark) == {i \in DOMAIN file : file[i] = mark}
  <2> SUFFICES ASSUME synced # Absent, file # Absent, ~spelled
               PROVE  IF synced = <<>> /\ kind # "hosts"
                        THEN at("begin") \cup at("end") = {}
                      ELSE \E i \in DOMAIN file :
                             /\ at("begin") = {i} /\ at("end") = {i + Len(synced) + 1}
                             /\ SubSeq(file, i + 1, i + Len(synced)) = synced
                             /\ kind = "sshConfig" => i = 1
    BY DEF SyncedAsAsked
  <2>1. /\ file \in Seq(Line) /\ Single(file) /\ Holds(file, synced)
        /\ DOMAIN file = 1..Len(file) /\ Len(file) \in Nat
    BY <1>1 DEF FileInv, TypeOK, SectionInv, Written
  <2>2. synced \in Seq(Line) /\ Len(synced) \in Nat
    BY <1>1, ManagedFileAssumption DEF FileInv, SectionInv, PlainBody
  <2>3. CASE synced = <<>> /\ kind # "hosts"
    <3>1. Free(file)
      BY <2>1, <2>3 DEF Holds
    <3>. QED BY <2>1, <2>3, <3>1 DEF Free, Markers
  <2>4. CASE ~(synced = <<>> /\ kind # "hosts")
    <3>1. PICK s \in 1..Len(file) :
                 /\ s + Len(synced) + 1 <= Len(file)
                 /\ file[s] = "begin" /\ file[s + Len(synced) + 1] = "end"
                 /\ \A i \in 1..Len(synced) : file[s + i] = synced[i]
                 /\ kind = "sshConfig" => s = 1
      BY <2>1, <2>4 DEF Holds
    <3>2. s + Len(synced) + 1 \in 1..Len(file)
      BY <2>2, <3>1
    <3>3. at("begin") = {s} /\ at("end") = {s + Len(synced) + 1}
      BY <2>1, <3>1, <3>2 DEF Single, Markers
    <3>4. SubSeq(file, s + 1, s + Len(synced)) = synced
      <4>1. s \in Nat /\ s + Len(synced) <= Len(file)
        BY <2>1, <2>2, <3>1
      <4>2. Stands(file, synced, s)
        BY <2>1, <2>2, <3>1, <4>1 DEF Stands
      <4>. QED BY <4>2, PieceIs
    <3> HIDE DEF at
    <3>. QED BY <2>1, <2>4, <3>1, <3>3, <3>4
  <2>. QED BY <2>3, <2>4
<1>. QED BY <1>1, FileAlways, PTL

\* Only the rename of a sync and a user change the file.
LEMMA FileChange ==
  ASSUME [Next]_vars, edits' = edits, file' # file, TypeOK
  PROVE  pc = "rename" /\ file' = updated
<1>1. edits \in Nat
  BY ManagedFileAssumption DEF TypeOK
<1>2. edits + 1 # edits
  BY <1>1
<1>. QED
  BY <1>2 DEF TypeOK, Next, Sync, Begin, Read, Open, Write, Rename, Fails, Kill, Change, Edit,
     SyncStep, Returns, vars

\* No sync touches a file whose markers are damaged, by a user or a nickname.
THEOREM FileDamaged == Spec => DamagedLeftAlone
<1>1. FileInv /\ [Next]_vars =>
        [file # Absent /\ Damaged(file) /\ file' # file /\ ~raced => edits' # edits]_vars
  <2> SUFFICES ASSUME FileInv, [Next]_vars, file # Absent, Damaged(file), file' # file,
                      ~raced, edits' = edits
               PROVE  FALSE
    OBVIOUS
  <2>1. pc = "rename"
    BY FileChange DEF FileInv
  <2>2. file \in Seq(Line) /\ ~Incomplete(file)
    BY <2>1 DEF FileInv, TypeOK, NotRefused, Writing
  <2>. QED BY <2>2, DamagedLemma
<1>. QED BY <1>1, FileAlways, PTL DEF Spec, DamagedLeftAlone

\* What a sync puts in place has the users' lines that it has read, an edit in the
\* middle of it or not.
THEOREM FileReplacedWhole == Spec => ReplacedWhole
<1>1. FileInv /\ [Next]_vars =>
        [edits' = edits /\ file' # file /\ ~spelled => Users(file') = read]_vars
  <2> SUFFICES ASSUME FileInv, [Next]_vars, edits' = edits, file' # file, ~spelled
               PROVE  Users(file') = read
    OBVIOUS
  <2>1. pc = "rename" /\ file' = updated
    BY FileChange DEF FileInv
  <2>. QED BY <2>1 DEF FileInv, UsersInv, Writing
<1>. QED BY <1>1, FileAlways, PTL DEF Spec, ReplacedWhole
=============================================================================

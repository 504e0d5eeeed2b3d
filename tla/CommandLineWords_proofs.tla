----------------------- MODULE CommandLineWords_proofs ------------------------
(***************************************************************************)
(* The request that reaches the server says what the typed line says, for  *)
(* all lines, blanks and spellings: words are found where they begin, a    *)
(* blank and a word after a text are one more word of it, and so the words *)
(* of a message that was taken apart and joined are those of the line.     *)
(***************************************************************************)
EXTENDS CommandLineBox_proofs

----------------------------------------------------------------------------
(* Positions in a line.                                                    *)

Rank(S, i) == Cardinality({j \in S : j <= i})

(* Positions up to m are finitely many, and so are those up to one of them. *)
LEMMA Positions ==
  ASSUME NEW m \in Nat, NEW S, S \subseteq 1 .. m
  PROVE  /\ IsFiniteSet(S) /\ Cardinality(S) \in Nat
         /\ \A T : T \subseteq S => /\ IsFiniteSet(T) /\ Cardinality(T) \in Nat
                                    /\ Cardinality(T) <= Cardinality(S)
                                    /\ Cardinality(T) = Cardinality(S) => T = S
<1>1. IsFiniteSet(1 .. m)
  <2>1. 1 \in Int /\ m \in Int
    OBVIOUS
  <2> QED BY <2>1, FS_Interval
<1>2. S \in SUBSET (1 .. m)
  OBVIOUS
<1>3. IsFiniteSet(S)
  BY <1>1, <1>2, FS_Subset
<1>4. ASSUME NEW T, T \subseteq S
      PROVE  /\ IsFiniteSet(T) /\ Cardinality(T) <= Cardinality(S)
             /\ Cardinality(T) = Cardinality(S) => T = S
  <2>1. T \in SUBSET S
    BY <1>4
  <2> QED BY <1>3, <2>1, FS_Subset
<1> QED BY <1>3, <1>4, FS_CardinalityType

(* The ranks of different positions differ.                                *)
LEMMA RanksDiffer ==
  ASSUME NEW m \in Nat, NEW S, S \subseteq 1 .. m, NEW i \in S, NEW j \in S, i < j
  PROVE  Rank(S, i) # Rank(S, j)
<1> DEFINE I == {k \in S : k <= i}
           J == {k \in S : k <= j}
<1>1. S \subseteq Nat
  OBVIOUS
<1>2. I \subseteq J
  <2> SUFFICES ASSUME NEW k \in I PROVE k \in J
    OBVIOUS
  <2>1. k \in Nat /\ i \in Nat /\ j \in Nat /\ k <= i
    BY <1>1
  <2>2. k <= j
    BY <2>1
  <2> QED BY <2>2
<1>3. j \in J /\ j \notin I
  <2>1. i \in Nat /\ j \in Nat
    BY <1>1
  <2>2. ~(j <= i) /\ j <= j
    BY <2>1
  <2> QED BY <2>2
<1>4. J \subseteq 1 .. m
  OBVIOUS
<1> HIDE DEF I, J
<1>5. Cardinality(I) # Cardinality(J)
  BY <1>2, <1>3, <1>4, Positions
<1> QED BY <1>5 DEF Rank, I, J

(* Every rank up to their number is that of a position.                    *)
LEMMA RankTaken ==
  ASSUME NEW m \in Nat, NEW S, S \subseteq 1 .. m, NEW n \in 1 .. Cardinality(S)
  PROVE  \E i \in S : Rank(S, i) = n
<1>1. S \subseteq Nat /\ S \subseteq 0 .. m
  OBVIOUS
<1>2. /\ IsFiniteSet(S) /\ Cardinality(S) \in Nat
      /\ \A T : T \subseteq S => IsFiniteSet(T) /\ Cardinality(T) \in Nat
  BY Positions
<1>3. n \in Nat /\ n # 0 /\ n <= Cardinality(S)
  BY <1>2
<1>4. \A i : Rank(S, i) \in Nat
  BY <1>2 DEF Rank
<1> DEFINE T == {i \in S : n <= Rank(S, i)}
<1>5. T # {}
  <2>1. S # {}
    BY <1>2, <1>3, FS_EmptySet
  <2>2. Max(S) \in S /\ \A y \in S : y <= Max(S)
    BY <1>1, <2>1, GreatestOf
  <2>3. {j \in S : j <= Max(S)} = S
    BY <2>2
  <2>4. Rank(S, Max(S)) = Cardinality(S)
    BY <2>3 DEF Rank
  <2> QED BY <1>3, <2>2, <2>4
<1>6. PICK i \in T : \A j \in T : i <= j
  <2>1. T \subseteq Nat
    BY <1>1
  <2> HIDE DEF T
  <2> QED BY <1>5, <2>1, LeastOf
<1>7. i \in S /\ i \in Nat /\ n <= Rank(S, i)
  BY <1>1, <1>6
<1>8. ~(n < Rank(S, i))
  <2> SUFFICES ASSUME n < Rank(S, i) PROVE FALSE
    OBVIOUS
  <2> DEFINE I == {j \in S : j <= i}
             B == {j \in S : j < i}
  <2>1. B = I \ {i} /\ i \in I
    <3>1. \A j \in S : j \in Nat
      BY <1>1
    <3>2. \A j \in S : j < i <=> (j <= i /\ j # i)
      BY <1>7, <3>1
    <3>3. i \in I
      <4>1. i <= i
        BY <1>7
      <4> QED BY <1>7, <4>1
    <3>4. B = I \ {i}
      BY <3>2
    <3> QED BY <3>3, <3>4
  <2>2. IsFiniteSet(I) /\ Cardinality(I) = Rank(S, i)
    BY <1>2 DEF Rank
  <2>3. B \subseteq S /\ B \subseteq 0 .. m
    BY <1>1
  <2> HIDE DEF I, B
  <2>4. Cardinality(B) = Rank(S, i) - 1
    BY <2>1, <2>2, FS_RemoveElement
  <2>5. n <= Cardinality(B) /\ Cardinality(B) # 0
    BY <1>3, <1>4, <2>4
  <2>6. B # {}
    BY <2>5, FS_EmptySet
  <2>7. Max(B) \in B /\ \A y \in B : y <= Max(B)
    BY <2>3, <2>6, GreatestOf
  <2>8. Max(B) \in S /\ Max(B) < i /\ Max(B) \in Nat
    BY <1>1, <2>7 DEF B
  <2>9. {j \in S : j <= Max(B)} = B
    <3>1. ASSUME NEW j \in S PROVE j <= Max(B) <=> j < i
      <4>1. j \in Nat
        BY <1>1
      <4>2. j < i => j \in B
        BY DEF B
      <4> QED BY <1>7, <2>7, <2>8, <4>1, <4>2
    <3> QED BY <3>1 DEF B
  <2>10. Rank(S, Max(B)) = Cardinality(B)
    BY <2>9 DEF Rank
  <2>11. Max(B) \in T
    BY <2>5, <2>8, <2>10
  <2>12. i <= Max(B)
    BY <1>6, <2>11
  <2> QED BY <1>7, <2>8, <2>12
<1>9. Rank(S, i) = n
  BY <1>3, <1>4, <1>7, <1>8
<1> QED BY <1>7, <1>9

(* Nth is the position of that rank, and the only one.                     *)
LEMMA NthOf ==
  ASSUME NEW m \in Nat, NEW S, S \subseteq 1 .. m, NEW n \in 1 .. Cardinality(S)
  PROVE  /\ Nth(S, n) \in S /\ Rank(S, Nth(S, n)) = n
         /\ \A i \in S : Rank(S, i) = n => i = Nth(S, n)
<1>1. \E i \in S : Cardinality({j \in S : j <= i}) = n
  BY RankTaken DEF Rank
<1>2. Nth(S, n) \in S /\ Cardinality({j \in S : j <= Nth(S, n)}) = n
  BY <1>1 DEF Nth
<1>3. Nth(S, n) \in S /\ Rank(S, Nth(S, n)) = n
  BY <1>2 DEF Rank
<1>4. ASSUME NEW i \in S, Rank(S, i) = n PROVE i = Nth(S, n)
  <2>0. \A j \in S : j \in Nat
    OBVIOUS
  <2>1. i \in Nat /\ Nth(S, n) \in Nat
    BY <1>3, <2>0
  <2>2. ~(i < Nth(S, n)) /\ ~(Nth(S, n) < i)
    BY <1>3, <1>4, RanksDiffer
  <2> QED BY <2>1, <2>2
<1> QED BY <1>3, <1>4

(* A position after the others is the last one, and moves none of them.    *)
LEMMA NthLast ==
  ASSUME NEW m \in Nat, NEW S, S \subseteq 1 .. m, NEW e \in Nat, m < e
  PROVE  /\ Cardinality(S \cup {e}) = Cardinality(S) + 1
         /\ \A n \in 1 .. Cardinality(S) : Nth(S \cup {e}, n) = Nth(S, n)
         /\ Nth(S \cup {e}, Cardinality(S) + 1) = e
<1> DEFINE S2 == S \cup {e}
<1>1. IsFiniteSet(S) /\ Cardinality(S) \in Nat
  BY Positions
<1>2. \A i \in S : i \in Nat /\ i <= m /\ i < e
  <2> TAKE i \in S
  <2>1. i \in 1 .. m
    OBVIOUS
  <2> QED BY <2>1
<1>3. e \notin S
  <2>1. ~(e < e)
    OBVIOUS
  <2> QED BY <1>2, <2>1
<1>4. Cardinality(S2) = Cardinality(S) + 1
  BY <1>1, <1>3, FS_AddElement
<1>5. S2 \subseteq 1 .. e
  <2>1. \A i \in S : i \in 1 .. e
    <3> TAKE i \in S
    <3>1. i \in 1 .. m
      OBVIOUS
    <3> QED BY <3>1
  <2>2. e \in 1 .. e
    OBVIOUS
  <2> QED BY <2>1, <2>2
<1>6. \A i \in S : Rank(S2, i) = Rank(S, i)
  <2> TAKE i \in S
  <2>1. ~(e <= i)
    BY <1>2
  <2>2. {j \in S2 : j <= i} = {j \in S : j <= i}
    BY <2>1
  <2> QED BY <2>2 DEF Rank
<1>7. Rank(S2, e) = Cardinality(S) + 1
  <2>1. e <= e
    OBVIOUS
  <2>2. \A i \in S : i <= e
    BY <1>2
  <2>3. {j \in S2 : j <= e} = S2
    BY <2>1, <2>2
  <2> QED BY <1>4, <2>3 DEF Rank
<1> HIDE DEF S2
<1>8. S \subseteq S2 /\ e \in S2
  BY DEF S2
<1>9. ASSUME NEW n \in 1 .. Cardinality(S) PROVE Nth(S2, n) = Nth(S, n)
  <2>1. Nth(S, n) \in S /\ Rank(S, Nth(S, n)) = n
    BY NthOf
  <2>2. n \in 1 .. Cardinality(S2)
    BY <1>1, <1>4
  <2>3. \A i \in S2 : Rank(S2, i) = n => i = Nth(S2, n)
    BY <1>5, <2>2, NthOf
  <2> QED BY <1>6, <1>8, <2>1, <2>3
<1>10. Nth(S2, Cardinality(S) + 1) = e
  <2>1. Cardinality(S) + 1 \in 1 .. Cardinality(S2)
    BY <1>1, <1>4
  <2> QED BY <1>5, <1>7, <1>8, <2>1, NthOf
<1> QED BY <1>4, <1>9, <1>10 DEF S2

----------------------------------------------------------------------------
(* Words.                                                                  *)

(* The words over some characters.                                         *)
WordOf(C) == {w \in Seq(C) : w # <<>> /\ \A k \in 1 .. Len(w) : w[k] \notin Blank}

(* How far the word goes that begins at a position.                        *)
Reach(text, i) == {j \in i .. Len(text) : \A k \in i .. j : text[k] \notin Blank}

(* Words begin in the line.                                                *)
LEMMA StartsIn ==
  ASSUME NEW C, NEW text \in Seq(C)
  PROVE  /\ Len(text) \in Nat /\ Starts(text) \subseteq 1 .. Len(text)
         /\ Cardinality(Starts(text)) \in Nat
<1>1. Starts(text) \subseteq 1 .. Len(text) /\ Len(text) \in Nat
  BY DEF Starts
<1> QED BY <1>1, Positions

(* A word is what is read from where one begins.                           *)
LEMMA WordAtIs ==
  ASSUME NEW C, NEW text \in Seq(C), NEW i \in Starts(text)
  PROVE  WordAt(text, i) \in WordOf(C)
<1>1. PICK m \in Nat : m = Len(text)
  OBVIOUS
<1>2. i \in 1 .. m /\ text[i] \notin Blank
  BY <1>1 DEF Starts
<1>3. i \in Reach(text, i)
  <2>1. i \in i .. Len(text) /\ \A k \in i .. i : k = i
    BY <1>1, <1>2
  <2> QED BY <1>2, <2>1 DEF Reach
<1>4. Reach(text, i) \subseteq 0 .. m
  BY <1>1, <1>2 DEF Reach
<1> DEFINE e == Max(Reach(text, i))
<1>5. e \in Reach(text, i)
  BY <1>3, <1>4, GreatestOf
<1>6. WordAt(text, i) = SubSeq(text, i, e)
  BY DEF WordAt, Reach
<1> HIDE DEF e
<1>7. e \in i .. m /\ \A k \in i .. e : text[k] \notin Blank
  BY <1>1, <1>5 DEF Reach
<1> DEFINE w == SubSeq(text, i, e)
<1>8. /\ w \in Seq(C) /\ Len(w) = e - i + 1
      /\ \A k \in 1 .. e - i + 1 : w[k] = text[i + k - 1]
  <2>1. i \in 1 .. Len(text) + 1 /\ e \in i - 1 .. Len(text)
    BY <1>1, <1>2, <1>7
  <2> QED BY <2>1, PartOf
<1> HIDE DEF w
<1>9. w # <<>>
  <2>1. Len(w) # 0
    BY <1>2, <1>7, <1>8
  <2> QED BY <2>1
<1>10. ASSUME NEW k \in 1 .. Len(w) PROVE w[k] \notin Blank
  <2>1. k \in 1 .. e - i + 1 /\ i + k - 1 \in i .. e
    BY <1>2, <1>7, <1>8
  <2> QED BY <1>7, <1>8, <2>1
<1> QED BY <1>6, <1>8, <1>9, <1>10 DEF w, WordOf

(* A line is split into words.                                             *)
LEMMA WordsAre ==
  ASSUME NEW C, NEW text \in Seq(C)
  PROVE  /\ Words(text) \in Seq(WordOf(C))
         /\ Len(Words(text)) = Cardinality(Starts(text))
         /\ \A n \in 1 .. Cardinality(Starts(text)) :
              Words(text)[n] = WordAt(text, Nth(Starts(text), n))
<1> DEFINE S == Starts(text)
           r == Cardinality(S)
<1>1. Len(text) \in Nat /\ S \subseteq 1 .. Len(text) /\ r \in Nat
  BY StartsIn
<1>2. \A n \in 1 .. r : WordAt(text, Nth(S, n)) \in WordOf(C)
  <2> TAKE n \in 1 .. r
  <2>1. Nth(S, n) \in S
    BY <1>1, NthOf
  <2> QED BY <2>1, WordAtIs
<1> HIDE DEF S
<1>3. Words(text) = [n \in 1 .. r |-> WordAt(text, Nth(S, n))]
  BY DEF Words, S
<1> HIDE DEF r
<1>4. Words(text) \in Seq(WordOf(C)) /\ Len(Words(text)) = r
  BY <1>1, <1>2, <1>3
<1> QED BY <1>3, <1>4 DEF r, S

(* A word by itself.                                                       *)
LEMMA WordsOfOne ==
  ASSUME NEW C, NEW w \in WordOf(C)
  PROVE  Words(w) = <<w>>
<1>1. PICK m \in Nat : m = Len(w)
  BY DEF WordOf
<1>2. w \in Seq(C) /\ m # 0 /\ \A k \in 1 .. m : w[k] \notin Blank
  BY <1>1 DEF WordOf
<1>3. 1 \in 1 .. m /\ DOMAIN w = 1 .. m
  BY <1>1, <1>2
<1>4. Starts(w) = {1}
  <2>1. ASSUME NEW i \in 1 .. m, i > 1 PROVE w[i - 1] \notin Blank
    <3>1. i - 1 \in 1 .. m
      BY <1>1, <2>1
    <3> QED BY <1>2, <3>1
  <2>2. ASSUME NEW i \in 1 .. m PROVE i \in Starts(w) <=> i = 1
    <3>1. i = 1 \/ i > 1
      OBVIOUS
    <3>2. ~(1 > 1)
      OBVIOUS
    <3> QED BY <1>2, <1>3, <2>1, <3>1, <3>2 DEF Starts
  <2>3. Starts(w) \subseteq 1 .. m
    BY <1>3 DEF Starts
  <2> QED BY <1>3, <2>2, <2>3
<1>5. Cardinality({1}) = 1
  BY FS_Singleton
<1>6. Nth({1}, 1) = 1
  <2>1. 1 \in Nat /\ {1} \subseteq 1 .. 1 /\ 1 \in 1 .. Cardinality({1})
    BY <1>5
  <2>2. Nth({1}, 1) \in {1}
    BY <2>1, NthOf
  <2> QED BY <2>2
<1>7. WordAt(w, 1) = w
  <2>1. Reach(w, 1) = 1 .. m
    <3>1. \A j \in 1 .. m : \A k \in 1 .. j : k \in 1 .. m
      OBVIOUS
    <3> QED BY <1>1, <1>2, <3>1 DEF Reach
  <2>2. Max(1 .. m) = m
    <3>1. m \in 1 .. m
      BY <1>2
    <3> QED BY <3>1, UpTo
  <2>3. SubSeq(w, 1, m) = w
    BY <1>1, <1>2, SubSeqFull
  <2> QED BY <2>1, <2>2, <2>3 DEF WordAt, Reach
<1>8. /\ Words(w) \in Seq(WordOf(C)) /\ Len(Words(w)) = 1
      /\ Words(w)[1] = WordAt(w, Nth({1}, 1))
  <2>1. /\ Words(w) \in Seq(WordOf(C)) /\ Len(Words(w)) = Cardinality(Starts(w))
        /\ \A n \in 1 .. Cardinality(Starts(w)) :
             Words(w)[n] = WordAt(w, Nth(Starts(w), n))
    BY <1>2, WordsAre
  <2>2. 1 \in 1 .. 1
    OBVIOUS
  <2> QED BY <1>4, <1>5, <2>1, <2>2
<1> QED BY <1>6, <1>7, <1>8

(* A blank and a word after a text are one more word.                      *)
LEMMA WordsOfMore ==
  ASSUME NEW C, Space \in C, NEW t \in Seq(C), NEW w \in WordOf(C)
  PROVE  /\ t \o <<Space>> \o w \in Seq(C)
         /\ Words(t \o <<Space>> \o w) = Append(Words(t), w)
<1>1. PICK m \in Nat, n \in Nat : m = Len(t) /\ n = Len(w)
  BY DEF WordOf
<1>2. w \in Seq(C) /\ n # 0 /\ \A k \in 1 .. n : w[k] \notin Blank
  BY <1>1 DEF WordOf
<1> DEFINE ts == t \o <<Space>>
           text == ts \o w
           e == m + 2
           S == Starts(t)
<1>3. /\ ts \in Seq(C) /\ Len(ts) = m + 1
      /\ \A k \in 1 .. m : ts[k] = t[k]
      /\ ts[m + 1] = Space
  BY <1>1
<1> HIDE DEF ts
<1>4. /\ text \in Seq(C) /\ Len(text) = (m + 1) + n
      /\ SubSeq(text, (m + 1) + 1, Len(text)) = w
      /\ \A k \in 1 .. (m + 1) + n :
           text[k] = IF k <= m + 1 THEN ts[k] ELSE w[k - (m + 1)]
  <2>0. ts \in Seq(C) /\ w \in Seq(C)
    BY <1>2, <1>3
  <2>1. /\ text \in Seq(C) /\ Len(text) = Len(ts) + Len(w)
        /\ SubSeq(text, Len(ts) + 1, Len(text)) = w
    BY <2>0, TwoParts
  <2>2. \A k \in 1 .. Len(ts) + Len(w) :
          text[k] = IF k <= Len(ts) THEN ts[k] ELSE w[k - Len(ts)]
    BY <1>2, <1>3, ConcatProperties
  <2> HIDE DEF text
  <2> QED BY <1>1, <1>3, <2>1, <2>2
<1> HIDE DEF text
<1>5. PICK L \in Nat : L = (m + 1) + n /\ Len(text) = L /\ m + 1 < L
  <2>1. n > 0 /\ (m + 1) + n \in Nat
    BY <1>1, <1>2
  <2> QED BY <1>1, <1>4, <2>1
<1>6. \A k \in 1 .. m : k \in 1 .. L /\ text[k] = t[k]
  <2> TAKE k \in 1 .. m
  <2>1. k \in 1 .. (m + 1) + n /\ k <= m + 1
    BY <1>1
  <2> QED BY <1>3, <1>4, <1>5, <2>1
<1>7. m + 1 \in 1 .. L /\ text[m + 1] \in Blank
  <2>1. m + 1 \in 1 .. (m + 1) + n /\ m + 1 <= m + 1
    BY <1>1
  <2> QED BY <1>3, <1>4, <1>5, <2>1, CommandAssumption
<1>8. \A k \in e .. L : text[k] \notin Blank
  <2> TAKE k \in e .. L
  <2>1. k \in 1 .. (m + 1) + n /\ ~(k <= m + 1) /\ k - (m + 1) \in 1 .. n
    BY <1>1, <1>5
  <2> QED BY <1>2, <1>4, <2>1
<1>9. e \in 1 .. L /\ e \in Nat /\ m < e /\ e = m + 2
  BY <1>1, <1>5
<1>10. Starts(text) = S \cup {e}
  <2>1. DOMAIN text = 1 .. L /\ DOMAIN t = 1 .. m
    BY <1>1, <1>4, <1>5
  <2>2. ASSUME NEW i \in 1 .. m PROVE i \in Starts(text) <=> i \in S
    <3>1. i > 1 => i - 1 \in 1 .. m
      BY <1>1
    <3>2. i > 1 => text[i - 1] = t[i - 1]
      BY <1>6, <3>1
    <3> QED BY <1>6, <2>1, <3>2 DEF Starts
  <2>3. m + 1 \notin Starts(text)
    BY <1>7 DEF Starts
  <2>4. e \in Starts(text)
    <3>1. e \in e .. L /\ e - 1 = m + 1
      BY <1>1, <1>5, <1>9
    <3> QED BY <1>7, <1>8, <1>9, <2>1, <3>1 DEF Starts
  <2>5. ASSUME NEW i \in e + 1 .. L PROVE i \notin Starts(text)
    <3>1. i - 1 \in e .. L /\ i > 1
      BY <1>1, <1>9
    <3> QED BY <1>8, <3>1 DEF Starts
  <2>6. \A i \in 1 .. L : i \in 1 .. m \/ i = m + 1 \/ i = e \/ i \in e + 1 .. L
    BY <1>1, <1>9
  <2>7. Starts(text) \subseteq 1 .. L /\ S \subseteq 1 .. m
    BY <2>1 DEF Starts
  <2>8. \A i \in 1 .. m : i # e
    BY <1>9
  <2> HIDE DEF S, e
  <2> QED BY <2>2, <2>3, <2>4, <2>5, <2>6, <2>7
<1>11. S \subseteq 1 .. m /\ Cardinality(S) \in Nat
  BY <1>1, StartsIn
<1>12. ASSUME NEW i \in S PROVE WordAt(text, i) = WordAt(t, i)
  <2>1. i \in 1 .. m
    BY <1>11
  <2>2. Reach(text, i) = Reach(t, i)
    <3>1. ASSUME NEW j \in i .. m
          PROVE  /\ j \in i .. L
                 /\ \A k \in i .. j : text[k] = t[k]
      <4>1. \A k \in i .. j : k \in 1 .. m
        BY <1>1, <2>1
      <4> QED BY <1>1, <1>5, <1>6, <2>1, <4>1
    <3>2. ASSUME NEW j \in i .. L, j \notin i .. m
          PROVE  \E k \in i .. j : text[k] \in Blank
      <4>1. m + 1 \in i .. j
        BY <1>1, <2>1, <3>2
      <4> QED BY <1>7, <4>1
    <3>3. Reach(text, i) \subseteq i .. m
      BY <1>5, <3>2 DEF Reach
    <3>4. ASSUME NEW j \in i .. m PROVE j \in Reach(text, i) <=> j \in Reach(t, i)
      BY <1>1, <1>5, <3>1 DEF Reach
    <3>5. Reach(t, i) \subseteq i .. m
      BY <1>1 DEF Reach
    <3> QED BY <3>3, <3>4, <3>5
  <2> DEFINE f == Max(Reach(t, i))
  <2>3. i \in Reach(t, i) /\ Reach(t, i) \subseteq 0 .. m
    <3>1. t[i] \notin Blank /\ i \in i .. m /\ \A k \in i .. i : k = i
      BY <1>1, <2>1 DEF Starts
    <3> QED BY <1>1, <2>1, <3>1 DEF Reach
  <2>4. f \in Reach(t, i)
    BY <2>3, GreatestOf
  <2>5. f \in i .. m
    BY <1>1, <2>4 DEF Reach
  <2>6. WordAt(text, i) = SubSeq(text, i, f) /\ WordAt(t, i) = SubSeq(t, i, f)
    BY <2>2 DEF WordAt, Reach
  <2> HIDE DEF f
  <2> DEFINE u == SubSeq(text, i, f)
             v == SubSeq(t, i, f)
  <2>7. /\ u \in Seq(C) /\ Len(u) = f - i + 1
        /\ \A k \in 1 .. f - i + 1 : u[k] = text[i + k - 1]
    <3>1. i \in 1 .. Len(text) + 1 /\ f \in i - 1 .. Len(text)
      BY <1>1, <1>5, <2>1, <2>5
    <3> QED BY <1>4, <3>1, PartOf
  <2>8. /\ v \in Seq(C) /\ Len(v) = f - i + 1
        /\ \A k \in 1 .. f - i + 1 : v[k] = t[i + k - 1]
    <3>1. i \in 1 .. Len(t) + 1 /\ f \in i - 1 .. Len(t)
      BY <1>1, <2>1, <2>5
    <3> QED BY <3>1, PartOf
  <2> HIDE DEF u, v
  <2>9. ASSUME NEW k \in 1 .. f - i + 1 PROVE u[k] = v[k]
    <3>1. i + k - 1 \in 1 .. m
      BY <1>1, <2>1, <2>5
    <3> QED BY <1>6, <2>7, <2>8, <3>1
  <2>10. u = v
    BY <2>7, <2>8, <2>9, SeqEqual
  <2> QED BY <2>6, <2>10 DEF u, v
<1>13. WordAt(text, e) = w
  <2>1. Reach(text, e) = e .. L
    <3>1. \A j \in e .. L : \A k \in e .. j : k \in e .. L
      BY <1>5, <1>9
    <3> QED BY <1>5, <1>8, <3>1 DEF Reach
  <2>2. Max(e .. L) = L
    <3>1. L \in e .. L /\ e .. L \subseteq 0 .. L /\ \A y \in e .. L : y <= L
      BY <1>5, <1>9
    <3> QED BY <1>5, <3>1, GreatestIs
  <2>3. (m + 1) + 1 = e
    BY <1>1, <1>9
  <2> QED BY <1>4, <1>5, <2>1, <2>2, <2>3 DEF WordAt, Reach
<1> DEFINE r == Cardinality(S)
           W == Words(t)
           X == Words(text)
<1>14. /\ Cardinality(S \cup {e}) = r + 1
       /\ \A k \in 1 .. r : Nth(S \cup {e}, k) = Nth(S, k)
       /\ Nth(S \cup {e}, r + 1) = e
  BY <1>9, <1>11, NthLast
<1>15. /\ W \in Seq(WordOf(C)) /\ Len(W) = r
       /\ \A k \in 1 .. r : W[k] = WordAt(t, Nth(S, k))
  BY WordsAre
<1>16. /\ X \in Seq(WordOf(C)) /\ Len(X) = r + 1
       /\ \A k \in 1 .. r + 1 : X[k] = WordAt(text, Nth(S \cup {e}, k))
  BY <1>4, <1>10, <1>14, WordsAre
<1>17. ASSUME NEW k \in 1 .. r PROVE X[k] = W[k]
  <2>1. k \in 1 .. r + 1
    BY <1>11
  <2>2. Nth(S, k) \in S
    BY <1>11, NthOf
  <2> QED BY <1>12, <1>14, <1>15, <1>16, <2>1, <2>2
<1>18. X[r + 1] = w
  <2>1. r + 1 \in 1 .. r + 1
    BY <1>11
  <2> QED BY <1>13, <1>14, <1>16, <2>1
<1>19. r \in Nat
  BY <1>11
<1> HIDE DEF r, W, X
<1>20. X = Append(W, w)
  <2> DEFINE A == Append(W, w)
  <2>1. /\ A \in Seq(WordOf(C)) /\ Len(A) = r + 1
        /\ \A k \in 1 .. r : A[k] = W[k]
        /\ A[r + 1] = w
    BY <1>15, <1>19, AppendProperties
  <2> HIDE DEF A
  <2>2. \A k \in 1 .. r + 1 : X[k] = A[k]
    <3> TAKE k \in 1 .. r + 1
    <3>1. k \in 1 .. r \/ k = r + 1
      BY <1>19
    <3> QED BY <1>17, <1>18, <2>1, <3>1
  <2>3. X = A
    BY <1>16, <2>1, <2>2, SeqEqual
  <2> QED BY <2>3 DEF A
<1> QED BY <1>4, <1>20 DEF X, W, text, ts

----------------------------------------------------------------------------
(* A message is taken apart and put together again.                        *)

(* The function that Joined applies to the positions of the words after    *)
(* the first.                                                              *)
JoinedAt(words) ==
  CHOOSE f : f = [s \in SUBSET (DOMAIN Tail(words)) |->
                    IF s = {} THEN Head(words)
                    ELSE f[s \ {Max(s)}] \o <<Space>> \o Tail(words)[Max(s)]]

(* Joined adds the words, each after a blank, from left to right.          *)
LEMMA JoinedUnfold ==
  ASSUME NEW C, Space \in C, NEW words \in Seq(Seq(C)), words # <<>>
  PROVE  /\ Joined(words) = JoinedAt(words)[1 .. Len(words) - 1]
         /\ JoinedAt(words)[1 .. 0] = words[1]
         /\ \A k \in 1 .. Len(words) - 1 :
              JoinedAt(words)[1 .. k] = JoinedAt(words)[1 .. k - 1] \o <<Space>> \o words[k + 1]
<1> DEFINE tail == Tail(words)
           head == Head(words)
           D == Seq(C)
<1>1. PICK m \in Nat : m = Len(words) - 1
  OBVIOUS
<1>2. /\ head = words[1] /\ head \in D
      /\ DOMAIN tail = 1 .. m /\ tail \in [1 .. m -> D]
      /\ \A k \in 1 .. m : tail[k] = words[k + 1]
  <2>1. /\ Tail(words) \in Seq(Seq(C)) /\ Len(Tail(words)) = Len(words) - 1
        /\ \A i \in 1 .. Len(Tail(words)) : Tail(words)[i] = words[i + 1]
    BY HeadTailProperties
  <2>2. Head(words) = words[1] /\ Head(words) \in Seq(C)
    BY HeadTailProperties
  <2>3. DOMAIN Tail(words) = 1 .. m /\ Tail(words) \in [1 .. m -> Seq(C)]
    BY <1>1, <2>1, LenProperties
  <2> QED BY <1>1, <2>1, <2>2, <2>3
<1>3. Joined(words) = JoinedAt(words)[DOMAIN tail]
  BY DEF Joined, FoldLeft, MapThenFoldSet, JoinedAt
<1> DEFINE join == [p \in D \X D |-> p[1] \o <<Space>> \o p[2]]
<1>4. join \in [D \X D -> D]
  <2>1. ASSUME NEW p \in D \X D PROVE p[1] \o <<Space>> \o p[2] \in D
    <3>1. p[1] \in Seq(C) /\ p[2] \in Seq(C) /\ <<Space>> \in Seq(C)
      OBVIOUS
    <3>2. p[1] \o <<Space>> \in Seq(C)
      BY <3>1, ConcatProperties
    <3> QED BY <3>1, <3>2, ConcatProperties
  <2> QED BY <2>1
<1> HIDE DEF tail, head
<1>5. PICK f \in [SUBSET (1 .. m) -> D] : Folded(f, head, join, tail, m)
  <2> HIDE DEF D, join
  <2> QED BY <1>1, <1>2, <1>4, FoldExists
<1>6. \A s \in SUBSET (1 .. m) :
        f[s] = IF s = {} THEN head ELSE f[s \ {Max(s)}] \o <<Space>> \o tail[Max(s)]
  <2> SUFFICES ASSUME NEW s \in SUBSET (1 .. m), s # {}
               PROVE  f[s] = f[s \ {Max(s)}] \o <<Space>> \o tail[Max(s)]
    BY <1>5 DEF Folded
  <2> HIDE DEF D
  <2>1. Max(s) \in 1 .. m
    <3>1. s \subseteq 0 .. m /\ s \subseteq 1 .. m
      OBVIOUS
    <3> QED BY <1>1, <3>1, GreatestOf
  <2>2. f[s \ {Max(s)}] \in D /\ tail[Max(s)] \in D
    BY <2>1, <1>2, <1>5
  <2>3. join[<<f[s \ {Max(s)}], tail[Max(s)]>>] = f[s \ {Max(s)}] \o <<Space>> \o tail[Max(s)]
    BY <2>2
  <2> QED BY <1>5, <2>3 DEF Folded
<1>7. f = [s \in SUBSET (DOMAIN tail) |->
             IF s = {} THEN head ELSE f[s \ {Max(s)}] \o <<Space>> \o tail[Max(s)]]
  BY <1>2, <1>6
<1>8. JoinedAt(words) = [s \in SUBSET (DOMAIN tail) |->
        IF s = {} THEN head
        ELSE JoinedAt(words)[s \ {Max(s)}] \o <<Space>> \o tail[Max(s)]]
  BY <1>7 DEF JoinedAt, tail, head
<1>9. 1 .. 0 = {} /\ {} \in SUBSET (1 .. m)
  OBVIOUS
<1>10. ASSUME NEW k \in 1 .. m
       PROVE  JoinedAt(words)[1 .. k] = JoinedAt(words)[1 .. k - 1] \o <<Space>> \o words[k + 1]
  <2>1. /\ 1 .. k \in SUBSET (DOMAIN tail) /\ 1 .. k # {}
        /\ Max(1 .. k) = k
        /\ (1 .. k) \ {Max(1 .. k)} = 1 .. k - 1
    BY <1>1, <1>2, UpTo
  <2>2. tail[k] = words[k + 1]
    BY <1>2
  <2> DEFINE J == JoinedAt(words)
  <2>3. J[1 .. k] = J[(1 .. k) \ {Max(1 .. k)}] \o <<Space>> \o tail[Max(1 .. k)]
    <3> HIDE DEF J
    <3>1. J = [s \in SUBSET (DOMAIN tail) |->
                 IF s = {} THEN head ELSE J[s \ {Max(s)}] \o <<Space>> \o tail[Max(s)]]
      BY <1>8 DEF J
    <3> QED BY <2>1, <3>1
  <2> QED BY <2>1, <2>2, <2>3
<1>11. JoinedAt(words)[1 .. 0] = head
  BY <1>2, <1>8, <1>9
<1>12. Joined(words) = JoinedAt(words)[1 .. m]
  BY <1>2, <1>3
<1> QED BY <1>1, <1>2, <1>10, <1>11, <1>12

(* The words of joined words are those words.                              *)
LEMMA JoinedWords ==
  ASSUME NEW C, Space \in C, NEW words \in Seq(WordOf(C)), words # <<>>
  PROVE  Words(Joined(words)) = words
<1>1. PICK m \in Nat : m + 1 = Len(words)
  <2>1. Len(words) \in Nat /\ Len(words) # 0
    OBVIOUS
  <2>2. Len(words) - 1 \in Nat /\ (Len(words) - 1) + 1 = Len(words)
    BY <2>1
  <2> QED BY <2>2
<1>2. words \in Seq(Seq(C))
  <2>1. WordOf(C) \subseteq Seq(C)
    BY DEF WordOf
  <2> QED BY <2>1, SeqMonotonic
<1> DEFINE J == JoinedAt(words)
           Right(k) == J[1 .. k] \in Seq(C) /\ Words(J[1 .. k]) = SubSeq(words, 1, k + 1)
           T == {k \in 0 .. m : ~Right(k)}
<1>3. /\ Joined(words) = J[1 .. m]
      /\ J[1 .. 0] = words[1]
      /\ \A k \in 1 .. m : J[1 .. k] = J[1 .. k - 1] \o <<Space>> \o words[k + 1]
  <2>1. Len(words) - 1 = m
    BY <1>1
  <2> QED BY <1>2, <2>1, JoinedUnfold
<1> HIDE DEF J
<1>4. \A k \in 0 .. m : k + 1 \in 1 .. Len(words) /\ words[k + 1] \in WordOf(C)
  <2> TAKE k \in 0 .. m
  <2>1. k + 1 \in 1 .. Len(words)
    BY <1>1
  <2> QED BY <2>1, ElementOfSeq
<1>5. Right(0)
  <2>1. words[1] \in WordOf(C) /\ 1 \in 1 .. Len(words) /\ 0 + 1 = 1
    <3>1. 0 \in 0 .. m /\ 0 + 1 = 1
      BY <1>1
    <3> QED BY <1>4, <3>1
  <2>2. Words(words[1]) = <<words[1]>>
    BY <2>1, WordsOfOne
  <2>3. SubSeq(words, 1, 1) = <<words[1]>>
    <3> DEFINE u == SubSeq(words, 1, 1)
    <3>1. u \in Seq(WordOf(C)) /\ Len(u) = 1 /\ u[1] = words[1]
      BY <2>1
    <3> HIDE DEF u
    <3>2. u = <<words[1]>>
      BY <3>1
    <3> QED BY <3>2 DEF u
  <2>4. words[1] \in Seq(C)
    BY <2>1 DEF WordOf
  <2> QED BY <1>3, <2>1, <2>2, <2>3, <2>4
<1>6. ASSUME NEW k \in 1 .. m, Right(k - 1) PROVE Right(k)
  <2>1. k \in 0 .. m /\ (k - 1) + 1 = k
    BY <1>1
  <2>2. words[k + 1] \in WordOf(C) /\ k + 1 \in 1 .. Len(words)
    BY <1>4, <2>1
  <2>3. J[1 .. k - 1] \in Seq(C) /\ Words(J[1 .. k - 1]) = SubSeq(words, 1, k)
    BY <1>6, <2>1
  <2>4. J[1 .. k] = J[1 .. k - 1] \o <<Space>> \o words[k + 1]
    BY <1>3
  <2>5. /\ J[1 .. k] \in Seq(C)
        /\ Words(J[1 .. k]) = Append(SubSeq(words, 1, k), words[k + 1])
    BY <2>2, <2>3, <2>4, WordsOfMore
  <2>6. SubSeq(words, 1, k + 1) = SubSeq(words, 1, k) \o <<words[k + 1]>>
    <3>1. 1 \in 1 .. Len(words) /\ k + 1 \in 1 .. Len(words) /\ (k + 1) - 1 = k
      BY <1>1, <2>1, <2>2
    <3> QED BY <3>1, SubSeqRecursiveSecond
  <2>7. SubSeq(words, 1, k) \in Seq(WordOf(C))
    BY <1>1, <2>1
  <2>8. Append(SubSeq(words, 1, k), words[k + 1]) = SubSeq(words, 1, k) \o <<words[k + 1]>>
    BY <2>2, <2>7, AppendIsConcat
  <2> QED BY <2>5, <2>6, <2>8
<1> HIDE DEF Right
<1>7. T = {}
  <2> SUFFICES ASSUME T # {} PROVE FALSE
    OBVIOUS
  <2>1. T \subseteq Nat
    BY <1>1
  <2>2. PICK k \in T : \A j \in T : k <= j
    <3> HIDE DEF T
    <3> QED BY <2>1, LeastOf
  <2>3. k \in 1 .. m /\ k - 1 \in 0 .. m /\ ~(k <= k - 1)
    <3>1. k \in 0 .. m /\ k # 0
      BY <1>5
    <3> QED BY <1>1, <3>1
  <2>4. Right(k - 1)
    BY <2>2, <2>3
  <2> QED BY <1>6, <2>2, <2>3, <2>4
<1>8. Right(m)
  <2>1. m \in 0 .. m
    BY <1>1
  <2> QED BY <1>7, <2>1
<1>9. Words(J[1 .. m]) = SubSeq(words, 1, Len(words))
  BY <1>1, <1>8 DEF Right
<1>10. SubSeq(words, 1, Len(words)) = words
  BY SubSeqFull
<1> QED BY <1>3, <1>9, <1>10

----------------------------------------------------------------------------
(* What the request says.                                                  *)

(* A sequence is the beginning of another whose elements it has.           *)
LEMMA SubSeqIs ==
  ASSUME NEW T, NEW words \in Seq(T), NEW u \in Seq(T), Len(u) <= Len(words),
         \A k \in 1 .. Len(u) : u[k] = words[k]
  PROVE  u = SubSeq(words, 1, Len(u))
<1> DEFINE v == SubSeq(words, 1, Len(u))
<1>1. PICK n \in Nat : n = Len(u)
  OBVIOUS
<1>2. v \in Seq(T) /\ Len(v) = n /\ \A k \in 1 .. n : v[k] = words[k]
  BY <1>1
<1> HIDE DEF v
<1>3. u = v
  BY <1>1, <1>2, SeqEqual
<1> QED BY <1>3 DEF v

(* And it is a prefix in the sense of the library.                         *)
LEMMA PrefixOf ==
  ASSUME NEW T, NEW words \in Seq(T), NEW u \in Seq(T), Len(u) <= Len(words),
         \A k \in 1 .. Len(u) : u[k] = words[k]
  PROVE  IsPrefix(u, words)
<1>1. u = SubSeq(words, 1, Len(u))
  BY SubSeqIs
<1>2. SubSeq(u, 1, Len(u)) = u
  BY SubSeqFull
<1> QED BY <1>1, <1>2 DEF IsPrefix

(* An action says what its line says.                                      *)
SaysLine(a, text) ==
  LET words == Words(text) IN
  /\ a.type \in WithArgument =>
       /\ Len(words) > 1
       /\ words[1] = <<Slash>> \o Keyword[a.type]
       /\ a.arg = Some(words[2]) /\ a.content = None
  /\ a.type \in WithMessage =>
       /\ Len(words) > 2
       /\ words[1] = <<Slash>> \o Keyword[a.type]
       /\ a.arg = Some(words[2])
       /\ a.content = Some(Joined(SubSeq(words, 3, Len(words))))

(* The parser takes the action from the line.                              *)
LEMMA ParsedSays ==
  ASSUME NEW text
  PROVE  SaysLine(ParseCommand(text), text)
<1> DEFINE words == Words(text)
           Says(c) == words # <<>> /\ words[1] = <<Slash>> \o Keyword[c]
           Parsed(c, arg, content) == [type |-> c, arg |-> arg, content |-> content]
           message == Joined(SubSeq(words, 3, Len(words)))
<1> HIDE DEF words, message
<1>1. Bare \cap (WithArgument \cup WithMessage) = {} /\ WithArgument \cap WithMessage = {}
  BY DEF Bare, WithArgument, WithMessage
<1>2. CASE \E c \in Bare : Says(c)
  <2> DEFINE c == CHOOSE c \in Bare : Says(c)
  <2>1. c \in Bare
    BY <1>2
  <2>2. ParseCommand(text) = Parsed(c, None, None)
    BY <1>2 DEF ParseCommand, words
  <2> QED BY <1>1, <2>1, <2>2 DEF SaysLine
<1>3. CASE ~(\E c \in Bare : Says(c)) /\ \E c \in WithArgument : Says(c) /\ Len(words) > 1
  <2> DEFINE c == CHOOSE c \in WithArgument : Says(c)
  <2>1. c \in WithArgument /\ Says(c) /\ Len(words) > 1
    BY <1>3
  <2>2. ParseCommand(text) = Parsed(c, Some(words[2]), None)
    BY <1>3 DEF ParseCommand, words
  <2> HIDE DEF c
  <2> QED BY <1>1, <2>1, <2>2 DEF SaysLine, words
<1>4. CASE /\ ~(\E c \in Bare : Says(c))
           /\ ~(\E c \in WithArgument : Says(c) /\ Len(words) > 1)
           /\ \E c \in WithMessage : Says(c) /\ Len(words) > 2
  <2> DEFINE c == CHOOSE c \in WithMessage : Says(c)
  <2>1. c \in WithMessage /\ Says(c) /\ Len(words) > 2
    BY <1>4
  <2>2. ParseCommand(text) = Parsed(c, Some(words[2]), Some(message))
    BY <1>4 DEF ParseCommand, words, message
  <2> HIDE DEF c
  <2> QED BY <1>1, <2>1, <2>2 DEF SaysLine, words, message
<1>5. CASE /\ ~(\E c \in Bare : Says(c))
           /\ ~(\E c \in WithArgument : Says(c) /\ Len(words) > 1)
           /\ ~(\E c \in WithMessage : Says(c) /\ Len(words) > 2)
  <2>1. ParseCommand(text) = Invalid
    BY <1>5 DEF ParseCommand, words
  <2>2. Invalid.type \notin WithArgument \cup WithMessage
    BY DEF Invalid, WithArgument, WithMessage
  <2> QED BY <2>1, <2>2 DEF SaysLine
<1> QED BY <1>2, <1>3, <1>4, <1>5

(* What a request says of the action it was built from.                    *)
SaysAction(request, a) ==
  /\ CommandOf(request.type) = a.type
  /\ request.type = "Register" => request.content = None
  /\ request.type # "Register" =>
       request.arg = a.arg /\ request.content = a.content

(* Every request tells the command; a request other than the first takes   *)
(* its fields from the action.                                             *)
LEMMA RequestSays ==
  ASSUME NEW name, ActionFormed(action), action.type \in WithArgument \cup WithMessage
  PROVE  SaysAction(RequestOf(name), action)
<1> USE DEF MessageType, ContentOnly, ArgumentOnly, ArgumentAndContent
<1>1. CASE action.type = "Connect"
  <2>1. RequestOf(name) = Build("Register", Some(name), None) /\ Some(name) # None
    BY <1>1, SomeIsThere DEF RequestOf
  <2>2. RequestOf(name) = [type |-> "Register", arg |-> Some(name), content |-> None]
    BY <2>1, BuildForms
  <2> QED BY <1>1, <2>2 DEF SaysAction, CommandOf
<1>2. CASE action.type = "SetName"
  <2>1. /\ RequestOf(name) = Build("ChangeName", action.arg, None)
        /\ action.arg # None /\ action.content = None
    BY <1>2 DEF RequestOf, ActionFormed, Bare, WithMessage
  <2>2. RequestOf(name) = [type |-> "ChangeName", arg |-> action.arg, content |-> None]
    BY <2>1, BuildForms
  <2> QED BY <1>2, <2>1, <2>2 DEF SaysAction, CommandOf
<1>3. CASE action.type \in {"List", "Join", "Leave", "Create"}
  <2>1. /\ RequestOf(name) = Build(action.type, action.arg, action.content)
        /\ action.arg # None /\ action.content = None
    BY <1>3 DEF RequestOf, ActionFormed, Bare, WithMessage
  <2>2. RequestOf(name) =
          [type |-> action.type, arg |-> action.arg, content |-> action.content]
    BY <1>3, <2>1, BuildForms
  <2> QED BY <1>3, <2>2 DEF SaysAction, CommandOf
<1>4. CASE action.type \in WithMessage
  <2>1. /\ RequestOf(name) = Build(action.type, action.arg, action.content)
        /\ action.arg # None /\ action.content # None
        /\ action.type \in {"SendTo", "PrivMsg"}
    BY <1>4 DEF RequestOf, ActionFormed, Bare, WithArgument, WithMessage
  <2>2. RequestOf(name) =
          [type |-> action.type, arg |-> action.arg, content |-> action.content]
    BY <2>1, BuildForms
  <2> QED BY <2>1, <2>2 DEF SaysAction, CommandOf
<1> QED BY <1>1, <1>2, <1>3, <1>4 DEF WithArgument

(* The inductive invariant: the action is that of the line, and the        *)
(* request is that of the action.                                          *)
SaidInv ==
  /\ LineInv /\ BoxInv
  /\ at \in {"channel", "to_server"} => line \in Seq(Char) /\ action = ParseCommand(line)
  /\ at = "to_server" =>
       /\ action.type \in WithArgument \cup WithMessage
       /\ SaysAction(socket, action)

(* SaidInv holds at first.                                                 *)
LEMMA SaidInvInit == Init => SaidInv
BY LineInvInit DEF Init, BoxInit, BoxInv, SaidInv

(* SaidInv is preserved by every step.                                     *)
LEMMA SaidInvNext == SaidInv /\ [LineNext]_lineVars => SaidInv'
<1> SUFFICES ASSUME SaidInv, [LineNext]_lineVars PROVE SaidInv'
  OBVIOUS
<1>1. LineInv' /\ BoxInv'
  BY LineInvNext, BoxInvNext DEF SaidInv
<1>2. CASE Key
  BY <1>1, <1>2 DEF Key, SaidInv
<1>3. CASE Submit
  <2>1. at' = "channel" /\ line' = input /\ action' = ParseCommand(input)
    BY <1>3 DEF Submit
  <2>2. input \in Seq(Char)
    BY DEF SaidInv, BoxInv
  <2> QED BY <1>1, <2>1, <2>2 DEF SaidInv
<1>4. ASSUME NEW name \in Usernames, SendRequest(name) PROVE SaidInv'
  <2>1. /\ at = "channel" /\ action.type \in WithArgument \cup WithMessage
        /\ socket' = RequestOf(name) /\ at' \in {"lost", "to_server"}
        /\ line' = line /\ action' = action
    BY <1>4 DEF SendRequest
  <2>2. ActionFormed(action)
    BY <2>1 DEF SaidInv, LineInv
  <2>3. SaysAction(RequestOf(name), action)
    BY <2>1, <2>2, RequestSays
  <2>4. SaysAction(socket', action')
    BY <2>1, <2>3
  <2> QED BY <1>1, <2>1, <2>4 DEF SaidInv
<1>5. CASE NotSent
  BY <1>1, <1>5 DEF NotSent, Through, SaidInv
<1>6. CASE ServerReads
  <2>1. at' \in {"lost", "panicked", "to_client"}
    BY <1>6 DEF ServerReads
  <2> QED BY <1>1, <2>1 DEF SaidInv
<1>7. CASE ClientReads
  <2>1. at' \in {"box", "panicked"}
    BY <1>7 DEF ClientReads, Through
  <2> QED BY <1>1, <2>1 DEF SaidInv
<1>8. CASE UNCHANGED lineVars
  BY <1>1, <1>8 DEF lineVars, SaidInv
<1> QED BY <1>2, <1>3, <1>4, <1>5, <1>6, <1>7, <1>8 DEF LineNext

(* The request that reaches the server says what the line says, word for   *)
(* word: for lines of any length, all characters, blanks and spellings.    *)
THEOREM RequestArrivesAsTyped == LineSpec => []ArrivesAsTyped
<1>1. SaidInv => ArrivesAsTyped
  <2> DEFINE words == Words(line)
             C == Char \cup {Space}
             W == WordOf(C)
             said == <<words[1], words[2]>>
  <2> SUFFICES ASSUME SaidInv, at = "to_server"
               PROVE  LET told == IF socket.type = "Register"
                                  THEN <<<<Slash>> \o Keyword[CommandOf(socket.type)]>>
                                  ELSE <<<<Slash>> \o Keyword[CommandOf(socket.type)],
                                         Unwrap(socket.arg)>>
                      IN
                      IF socket.content = None THEN IsPrefix(told, words)
                      ELSE words = told \o Words(Unwrap(socket.content))
    BY DEF ArrivesAsTyped
  <2>1. /\ line \in Seq(Char) /\ SaysLine(action, line)
        /\ action.type \in WithArgument \cup WithMessage
        /\ SaysAction(socket, action)
    BY ParsedSays DEF SaidInv
  <2>2. words \in Seq(W)
    <3>1. line \in Seq(C)
      BY <2>1, SeqMonotonic
    <3> HIDE DEF C
    <3> QED BY <3>1, WordsAre
  <2>3. Space \in C
    OBVIOUS
  <2> HIDE DEF W, words, C
  <2>4. /\ Len(words) > 1
        /\ words[1] = <<Slash>> \o Keyword[CommandOf(socket.type)]
    BY <2>1 DEF SaysLine, SaysAction, words
  <2>5. words[1] \in W /\ words[2] \in W
    <3>1. PICK n \in Nat : n = Len(words)
      BY <2>2
    <3>2. 1 \in 1 .. Len(words) /\ 2 \in 1 .. Len(words)
      BY <2>4, <3>1
    <3> QED BY <2>2, <3>2, ElementOfSeq
  <2>6. CASE socket.type = "Register"
    <3> DEFINE first == <<words[1]>>
    <3>1. socket.content = None
      BY <2>1, <2>6 DEF SaysAction
    <3>2. first \in Seq(W) /\ Len(first) = 1 /\ \A k \in 1 .. 1 : first[k] = words[k]
      BY <2>5
    <3>3. 1 <= Len(words)
      BY <2>2, <2>4
    <3> HIDE DEF first
    <3>4. IsPrefix(first, words)
      BY <2>2, <3>2, <3>3, PrefixOf
    <3> QED BY <2>4, <2>6, <3>1, <3>4 DEF first
  <2>7. CASE socket.type # "Register"
    <3>1. socket.arg = action.arg /\ socket.content = action.content
      BY <2>1, <2>7 DEF SaysAction
    <3>2. Unwrap(socket.arg) = words[2]
      BY <2>1, <3>1, SomeIsThere DEF SaysLine, words
    <3>3. said \in Seq(W) /\ Len(said) = 2 /\ \A k \in 1 .. 2 : said[k] = words[k]
      BY <2>5
    <3>4. CASE action.type \in WithArgument
      <4>1. socket.content = None
        BY <2>1, <3>1, <3>4 DEF SaysLine
      <4>2. 2 <= Len(words)
        BY <2>2, <2>4
      <4>3. IsPrefix(said, words)
        BY <2>2, <3>3, <4>2, PrefixOf
      <4> QED BY <2>4, <2>7, <3>2, <4>1, <4>3
    <3>5. CASE action.type \in WithMessage
      <4> DEFINE rest == SubSeq(words, 3, Len(words))
      <4>1. Len(words) > 2 /\ socket.content = Some(Joined(rest))
        BY <2>1, <3>1, <3>5 DEF SaysLine, words
      <4>2. 2 \in 0 .. Len(words) /\ 2 + 1 = 3 /\ Len(words) - 2 # 0
        <5>1. PICK n \in Nat : n = Len(words)
          BY <2>2
        <5> QED BY <4>1, <5>1
      <4>3. /\ rest \in Seq(W) /\ Len(rest) = Len(words) - 2
            /\ SubSeq(words, 1, 2) \o rest = words
        BY <2>2, <4>2, SplitWhole
      <4>4. said = SubSeq(words, 1, 2)
        BY <2>2, <2>4, <3>3, SubSeqIs
      <4> HIDE DEF rest
      <4>5. rest # <<>>
        BY <4>2, <4>3
      <4>6. Words(Joined(rest)) = rest
        BY <2>3, <4>3, <4>5, JoinedWords DEF W
      <4>7. socket.content # None /\ Unwrap(socket.content) = Joined(rest)
        BY <4>1, SomeIsThere
      <4> QED BY <2>4, <2>7, <3>2, <4>3, <4>4, <4>6, <4>7
    <3> QED BY <2>1, <3>4, <3>5
  <2> QED BY <2>6, <2>7
<1> QED BY <1>1, SaidInvInit, SaidInvNext, PTL DEF LineSpec
=============================================================================

------------------------ MODULE CommandLineBox_proofs -------------------------
(***************************************************************************)
(* The input box is a line editor, for lines of any length and characters  *)
(* of any widths. The box counts characters and String::insert counts      *)
(* bytes: the two agree because every character takes some bytes, which is *)
(* an induction over the line, made with least counterexamples.            *)
(***************************************************************************)
EXTENDS CommandLine_proofs, FiniteSetTheorems, SequenceTheorems

----------------------------------------------------------------------------
(* Numbers.                                                                *)

(* A set of natural numbers that is not empty has a least member.          *)
LEMMA LeastOf ==
  ASSUME NEW T, T \subseteq Nat, T # {}
  PROVE  \E x \in T : \A y \in T : x <= y
<1> DEFINE Less == {p \in Nat \X Nat : p[1] < p[2]}
<1>0. IsWellFoundedOn(Less, Nat)
  BY NatLessThanWellFounded DEF OpToRel
<1> HIDE DEF Less
<1>1. PICK x \in T : \A y \in T : ~(<<y, x>> \in Less)
  BY <1>0, WFMin
<1>2. \A y \in T : ~(y < x)
  BY <1>1 DEF Less
<1>3. \A y \in T : x <= y
  BY <1>2
<1> QED BY <1>3

(* Max is the greatest member of a set of numbers up to m.                 *)
LEMMA GreatestOf ==
  ASSUME NEW m \in Nat, NEW T, T \subseteq 0 .. m, T # {}
  PROVE  Max(T) \in T /\ \A y \in T : y <= Max(T)
<1> DEFINE U == {m - y : y \in T}
<1>1. PICK u \in U : \A y \in U : u <= y
  <2>1. U \subseteq Nat /\ U # {}
    <3>1. \A y \in T : y \in 0 .. m
      OBVIOUS
    <3>2. \A y \in 0 .. m : m - y \in Nat
      OBVIOUS
    <3> QED BY <3>1, <3>2
  <2> HIDE DEF U
  <2> QED BY <2>1, LeastOf
<1>2. PICK x \in T : u = m - x
  BY <1>1
<1>3. \A y \in T : y <= x
  <2> TAKE y \in T
  <2>1. m - x <= m - y
    BY <1>1, <1>2
  <2> QED BY <2>1
<1>4. \E z \in T : \A y \in T : z >= y
  BY <1>3
<1>5. Max(T) \in T /\ \A y \in T : Max(T) >= y
  BY <1>4 DEF Max
<1>6. \A y \in T : y \in Nat
  OBVIOUS
<1>7. Max(T) \in Nat
  BY <1>5, <1>6
<1> QED BY <1>5, <1>6, <1>7

(* It is the only member that none exceeds.                                *)
LEMMA GreatestIs ==
  ASSUME NEW m \in Nat, NEW T, T \subseteq 0 .. m, NEW x \in T, \A y \in T : y <= x
  PROVE  Max(T) = x
<1>1. Max(T) \in T /\ x <= Max(T) /\ Max(T) <= x
  BY GreatestOf
<1>2. \A y \in T : y \in Nat
  OBVIOUS
<1>3. x \in Nat /\ Max(T) \in Nat
  BY <1>1, <1>2
<1> QED BY <1>1, <1>3

----------------------------------------------------------------------------
(* Folds.                                                                  *)

(* f folds op over the sets of positions up to m, the greatest last.       *)
Folded(f, base, op, seq, m) ==
  \A s \in SUBSET (1 .. m) :
    f[s] = IF s = {} THEN base ELSE op[<<f[s \ {Max(s)}], seq[Max(s)]>>]

(* There is such a function.                                               *)
LEMMA FoldExists ==
  ASSUME NEW D, NEW E, NEW base \in D, NEW op \in [D \X E -> D],
         NEW m \in Nat, NEW seq \in [1 .. m -> E]
  PROVE  \E f \in [SUBSET (1 .. m) -> D] : Folded(f, base, op, seq, m)
<1> DEFINE Folds(f, k) == Folded(f, base, op, seq, k)
           T == {k \in 0 .. m : ~\E f \in [SUBSET (1 .. k) -> D] : Folds(f, k)}
<1>1. SUFFICES ASSUME T # {} PROVE FALSE
  <2>1. m \in 0 .. m
    OBVIOUS
  <2>2. m \notin T => \E f \in [SUBSET (1 .. m) -> D] : Folds(f, m)
    <3> HIDE DEF Folds
    <3> QED BY <2>1
  <2> QED BY <2>2
<1>2. PICK k \in T : \A j \in T : k <= j
  <2>1. T \subseteq Nat
    <3> HIDE DEF Folds
    <3> QED OBVIOUS
  <2> HIDE DEF T
  <2> QED BY <1>1, <2>1, LeastOf
<1>3. k # 0
  <2>1. SUFFICES ASSUME k = 0 PROVE FALSE
    OBVIOUS
  <2> DEFINE f == [s \in SUBSET (1 .. 0) |-> base]
  <2>2. \A s \in SUBSET (1 .. 0) : s = {}
    OBVIOUS
  <2>3. f \in [SUBSET (1 .. 0) -> D] /\ Folds(f, 0)
    BY <2>2 DEF Folded
  <2> QED BY <2>1, <2>3
<1>4. k - 1 \in 0 .. m /\ k - 1 \notin T
  <2> HIDE DEF Folds
  <2>1. k \in 0 .. m
    BY <1>2
  <2>2. k - 1 \in 0 .. m /\ ~(k <= k - 1)
    BY <2>1, <1>3
  <2> QED BY <2>2, <1>2
<1>5. PICK g \in [SUBSET (1 .. k - 1) -> D] : Folds(g, k - 1)
  BY <1>4
<1> DEFINE f == [s \in SUBSET (1 .. k) |->
                   IF k \in s THEN op[<<g[s \ {k}], seq[k]>>] ELSE g[s]]
<1>6. k \in 1 .. m /\ seq[k] \in E
  <2> HIDE DEF Folds
  <2>1. k \in 0 .. m
    BY <1>2
  <2> QED BY <2>1, <1>3
<1>7. \A s \in SUBSET (1 .. k) : s \ {k} \in SUBSET (1 .. k - 1)
  BY <1>6
<1>8. f \in [SUBSET (1 .. k) -> D]
  <2>1. ASSUME NEW s \in SUBSET (1 .. k)
        PROVE  (IF k \in s THEN op[<<g[s \ {k}], seq[k]>>] ELSE g[s]) \in D
    <3>1. g[s \ {k}] \in D
      BY <1>7
    <3>2. op[<<g[s \ {k}], seq[k]>>] \in D
      BY <3>1, <1>6
    <3>3. k \notin s => s = s \ {k}
      OBVIOUS
    <3> QED BY <3>1, <3>2, <3>3
  <2> QED BY <2>1
<1>9. Folds(f, k)
  <2> SUFFICES ASSUME NEW s \in SUBSET (1 .. k)
               PROVE  f[s] = IF s = {} THEN base ELSE op[<<f[s \ {Max(s)}], seq[Max(s)]>>]
    BY DEF Folded
  <2>1. CASE k \in s
    <3>1. Max(s) = k
      <4>1. k \in Nat /\ s \subseteq 0 .. k /\ \A y \in s : y <= k
        BY <1>6
      <4> QED BY <2>1, <4>1, <1>6, GreatestIs
    <3>2. s \ {k} \in SUBSET (1 .. k) /\ k \notin s \ {k}
      OBVIOUS
    <3>3. f[s \ {k}] = g[s \ {k}]
      BY <3>2
    <3> QED BY <2>1, <3>1, <3>3
  <2>2. CASE k \notin s
    <3>1. s \in SUBSET (1 .. k - 1) /\ f[s] = g[s]
      BY <2>2, <1>7
    <3>2. s \ {Max(s)} \in SUBSET (1 .. k) /\ k \notin s \ {Max(s)}
      BY <2>2
    <3>3. f[s \ {Max(s)}] = g[s \ {Max(s)}]
      BY <3>2
    <3> QED BY <3>1, <3>3, <1>5 DEF Folded
  <2> QED BY <2>1, <2>2
<1> HIDE DEF Folds, f
<1>10. \E h \in [SUBSET (1 .. k) -> D] : Folds(h, k)
  BY <1>8, <1>9
<1> QED BY <1>2, <1>10

(* Such a function, on the positions up to k.                              *)
LEMMA UpTo ==
  ASSUME NEW m \in Nat, NEW k \in 1 .. m
  PROVE  /\ 1 .. k \in SUBSET (1 .. m) /\ 1 .. k # {}
         /\ Max(1 .. k) = k
         /\ (1 .. k) \ {Max(1 .. k)} = 1 .. k - 1
<1>1. Max(1 .. k) = k
  <2>1. k \in Nat /\ 1 .. k \subseteq 0 .. k /\ k \in 1 .. k /\ \A y \in 1 .. k : y <= k
    OBVIOUS
  <2> QED BY <2>1, GreatestIs
<1>2. (1 .. k) \ {k} = 1 .. k - 1
  OBVIOUS
<1> QED BY <1>1, <1>2

----------------------------------------------------------------------------
(* The length of a text in bytes.                                          *)

(* A character has a width.                                                *)
LEMMA WidthIs == \A c \in Char : Width[c] \in Nat /\ Width[c] > 0
<1> SUFFICES ASSUME NEW c \in Char PROVE Width[c] \in Nat /\ Width[c] > 0
  OBVIOUS
<1>1. Width[c] \in 1 .. 4
  BY InputAssumption
<1> QED BY <1>1

(* The function that Bytes applies to the positions of a text.             *)
BytesAt(text) ==
  CHOOSE f : f = [s \in SUBSET (DOMAIN text) |->
                    IF s = {} THEN 0 ELSE f[s \ {Max(s)}] + Width[text[Max(s)]]]

(* Bytes adds up the widths, from left to right.                           *)
LEMMA BytesUnfold ==
  ASSUME NEW text \in Seq(Char)
  PROVE  /\ Bytes(text) = BytesAt(text)[1 .. Len(text)]
         /\ BytesAt(text)[1 .. 0] = 0
         /\ \A k \in 1 .. Len(text) :
              BytesAt(text)[1 .. k] = BytesAt(text)[1 .. k - 1] + Width[text[k]]
<1>1. PICK m \in Nat : m = Len(text)
  OBVIOUS
<1>2. DOMAIN text = 1 .. m /\ \A i \in 1 .. m : text[i] \in Char
  BY <1>1
<1>3. Bytes(text) = BytesAt(text)[DOMAIN text]
  BY DEF Bytes, FoldLeft, MapThenFoldSet, BytesAt
<1> DEFINE seq == [i \in 1 .. m |-> Width[text[i]]]
           plus == [p \in Nat \X Nat |-> p[1] + p[2]]
<1>4. seq \in [1 .. m -> Nat] /\ plus \in [Nat \X Nat -> Nat]
  BY <1>2, WidthIs
<1>5. PICK f \in [SUBSET (1 .. m) -> Nat] : Folded(f, 0, plus, seq, m)
  <2> DEFINE D == Nat
  <2>1. 0 \in D /\ m \in Nat /\ seq \in [1 .. m -> D] /\ plus \in [D \X D -> D]
    BY <1>1, <1>4
  <2> HIDE DEF seq, plus, D
  <2>2. \E f \in [SUBSET (1 .. m) -> D] : Folded(f, 0, plus, seq, m)
    BY <2>1, FoldExists
  <2> QED BY <2>2 DEF D
<1>6. \A s \in SUBSET (1 .. m) :
        f[s] = IF s = {} THEN 0 ELSE f[s \ {Max(s)}] + Width[text[Max(s)]]
  <2> SUFFICES ASSUME NEW s \in SUBSET (1 .. m), s # {}
               PROVE  f[s] = f[s \ {Max(s)}] + Width[text[Max(s)]]
    BY <1>5 DEF Folded
  <2>1. Max(s) \in 1 .. m
    <3>1. s \subseteq 0 .. m /\ s \subseteq 1 .. m
      OBVIOUS
    <3> QED BY <1>1, <3>1, GreatestOf
  <2>2. f[s \ {Max(s)}] \in Nat /\ Width[text[Max(s)]] \in Nat
    BY <2>1, <1>2, <1>5, WidthIs
  <2>3. seq[Max(s)] = Width[text[Max(s)]]
    BY <2>1
  <2>4. plus[<<f[s \ {Max(s)}], seq[Max(s)]>>] = f[s \ {Max(s)}] + seq[Max(s)]
    BY <2>2, <2>3
  <2> QED BY <1>5, <2>3, <2>4 DEF Folded
<1>7. f = [s \in SUBSET (DOMAIN text) |->
             IF s = {} THEN 0 ELSE f[s \ {Max(s)}] + Width[text[Max(s)]]]
  BY <1>2, <1>6
<1>8. BytesAt(text) = [s \in SUBSET (DOMAIN text) |->
        IF s = {} THEN 0 ELSE BytesAt(text)[s \ {Max(s)}] + Width[text[Max(s)]]]
  BY <1>7 DEF BytesAt
<1>9. 1 .. 0 = {} /\ {} \in SUBSET (1 .. m)
  OBVIOUS
<1>10. ASSUME NEW k \in 1 .. m
       PROVE  BytesAt(text)[1 .. k] = BytesAt(text)[1 .. k - 1] + Width[text[k]]
  BY <1>1, <1>2, <1>8, UpTo
<1> QED BY <1>1, <1>2, <1>3, <1>8, <1>9, <1>10

(* A prefix is as long as the whole text is up to there.                   *)
LEMMA BytesOfPrefix ==
  ASSUME NEW text \in Seq(Char), NEW n \in 0 .. Len(text)
  PROVE  Bytes(Prefix(text, n)) = BytesAt(text)[1 .. n]
<1>1. PICK m \in Nat : m = Len(text)
  OBVIOUS
<1> DEFINE short == Prefix(text, n)
           F == BytesAt(short)
           G == BytesAt(text)
           T == {k \in 0 .. n : F[1 .. k] # G[1 .. k]}
<1>2. /\ short \in Seq(Char) /\ Len(short) = n
      /\ \A k \in 1 .. n : short[k] = text[k]
  BY <1>1 DEF Prefix
<1>3. /\ Bytes(short) = F[1 .. n]
      /\ F[1 .. 0] = 0
      /\ \A k \in 1 .. n : F[1 .. k] = F[1 .. k - 1] + Width[short[k]]
  BY <1>2, BytesUnfold
<1>4. /\ G[1 .. 0] = 0
      /\ \A k \in 1 .. n : G[1 .. k] = G[1 .. k - 1] + Width[text[k]]
  BY <1>1, BytesUnfold
<1> HIDE DEF short, F, G
<1>5. CASE T = {}
  <2>1. n \in 0 .. n /\ n \notin T
    BY <1>1, <1>5
  <2>2. F[1 .. n] = G[1 .. n]
    BY <2>1
  <2> QED BY <1>3, <2>2 DEF short, G
<1>6. CASE T # {}
  <2>1. T \subseteq Nat
    BY <1>1
  <2>2. PICK k \in T : \A j \in T : k <= j
    <3> HIDE DEF T
    <3> QED BY <1>6, <2>1, LeastOf
  <2>3. k \in 1 .. n /\ k - 1 \in 0 .. n /\ ~(k <= k - 1)
    <3>1. k \in 0 .. n /\ k # 0
      BY <1>3, <1>4
    <3> QED BY <1>1, <3>1
  <2>4. F[1 .. k - 1] = G[1 .. k - 1]
    BY <2>2, <2>3
  <2> QED BY <1>2, <1>3, <1>4, <2>3, <2>4
<1> QED BY <1>5, <1>6

(* A longer prefix takes more bytes: an offset is that of one character.   *)
LEMMA BytesGrow ==
  ASSUME NEW text \in Seq(Char), NEW i \in 0 .. Len(text), NEW n \in 0 .. Len(text), i < n
  PROVE  /\ Bytes(Prefix(text, i)) \in Nat
         /\ Bytes(Prefix(text, i)) < Bytes(Prefix(text, n))
<1>1. PICK m \in Nat : m = Len(text)
  OBVIOUS
<1> DEFINE G == BytesAt(text)
           T == {k \in 0 .. m :
                   ~(G[1 .. k] \in Nat /\ \A j \in 0 .. k : j < k => G[1 .. j] < G[1 .. k])}
<1>2. /\ G[1 .. 0] = 0
      /\ \A k \in 1 .. m : G[1 .. k] = G[1 .. k - 1] + Width[text[k]]
  BY <1>1, BytesUnfold
<1>3. \A k \in 1 .. m : Width[text[k]] \in Nat /\ Width[text[k]] > 0
  <2>1. \A k \in 1 .. m : text[k] \in Char
    BY <1>1
  <2> QED BY <2>1, WidthIs
<1> HIDE DEF G
<1>4. ASSUME T # {} PROVE FALSE
  <2>1. T \subseteq Nat
    BY <1>1
  <2>2. PICK k \in T : \A j \in T : k <= j
    <3> HIDE DEF T
    <3> QED BY <1>4, <2>1, LeastOf
  <2>3. k # 0
    BY <1>2
  <2>4. k \in 1 .. m /\ k - 1 \in 0 .. m /\ ~(k <= k - 1)
    BY <1>1, <2>3
  <2>5. k - 1 \notin T
    BY <2>2, <2>4
  <2>6. /\ G[1 .. k - 1] \in Nat
        /\ \A j \in 0 .. k - 1 : j < k - 1 => G[1 .. j] < G[1 .. k - 1]
    BY <2>4, <2>5
  <2>7. G[1 .. k] = G[1 .. k - 1] + Width[text[k]] /\ Width[text[k]] \in Nat /\ Width[text[k]] > 0
    BY <1>2, <1>3, <2>4
  <2>8. G[1 .. k] \in Nat /\ G[1 .. k - 1] < G[1 .. k]
    BY <2>6, <2>7
  <2>9. ASSUME NEW j \in 0 .. k, j < k PROVE G[1 .. j] < G[1 .. k]
    <3>1. CASE j = k - 1
      BY <3>1, <2>8
    <3>2. CASE j # k - 1
      <4>1. j \in 0 .. k - 1 /\ j < k - 1
        BY <2>4, <2>9, <3>2
      <4>2. j \in 0 .. m /\ j \notin T
        BY <2>2, <2>4, <4>1
      <4>3. G[1 .. j] \in Nat
        BY <4>2
      <4> QED BY <2>6, <2>8, <4>1, <4>3
    <3> QED BY <3>1, <3>2
  <2> QED BY <2>2, <2>8, <2>9
<1>5. i \in 0 .. m /\ n \in 0 .. m /\ i \in 0 .. n
  BY <1>1
<1>6. G[1 .. i] \in Nat /\ G[1 .. i] < G[1 .. n]
  BY <1>4, <1>5
<1> QED BY <1>6, BytesOfPrefix DEF G

----------------------------------------------------------------------------
(* Texts.                                                                  *)

(* A part of a text.                                                       *)
LEMMA PartOf ==
  ASSUME NEW C, NEW s \in Seq(C), NEW i \in 1 .. Len(s) + 1, NEW j \in i - 1 .. Len(s)
  PROVE  /\ SubSeq(s, i, j) \in Seq(C)
         /\ Len(SubSeq(s, i, j)) = j - i + 1
         /\ \A k \in 1 .. j - i + 1 : SubSeq(s, i, j)[k] = s[i + k - 1]
<1>1. PICK m \in Nat : m = Len(s)
  OBVIOUS
<1> QED BY <1>1

(* Two texts after each other come apart again.                            *)
LEMMA TwoParts ==
  ASSUME NEW C, NEW b \in Seq(C), NEW a \in Seq(C)
  PROVE  /\ b \o a \in Seq(C) /\ Len(b \o a) = Len(b) + Len(a)
         /\ SubSeq(b \o a, 1, Len(b)) = b
         /\ SubSeq(b \o a, Len(b) + 1, Len(b \o a)) = a
<1> DEFINE t == b \o a
<1>1. PICK m \in Nat, n \in Nat : m = Len(b) /\ n = Len(a)
  OBVIOUS
<1>2. /\ t \in Seq(C) /\ Len(t) = m + n
      /\ \A i \in 1 .. m + n : t[i] = IF i <= m THEN b[i] ELSE a[i - m]
  BY <1>1, ConcatProperties
<1> HIDE DEF t
<1>3. SubSeq(t, 1, m) = b
  <2> DEFINE u == SubSeq(t, 1, m)
  <2>1. u \in Seq(C) /\ Len(u) = m /\ \A k \in 1 .. m : u[k] = t[k]
    BY <1>1, <1>2
  <2> HIDE DEF u
  <2>2. \A k \in 1 .. m : u[k] = b[k]
    BY <1>1, <1>2, <2>1
  <2>3. u = b
    BY <1>1, <2>1, <2>2, SeqEqual
  <2> QED BY <2>3 DEF u
<1>4. SubSeq(t, m + 1, m + n) = a
  <2> DEFINE u == SubSeq(t, m + 1, m + n)
  <2>1. u \in Seq(C) /\ Len(u) = n /\ \A k \in 1 .. n : u[k] = t[m + k]
    BY <1>1, <1>2
  <2> HIDE DEF u
  <2>2. \A k \in 1 .. n : u[k] = a[k]
    <3> TAKE k \in 1 .. n
    <3>1. m + k \in 1 .. m + n /\ ~(m + k <= m) /\ (m + k) - m = k
      BY <1>1
    <3> QED BY <1>2, <2>1, <3>1
  <2>3. u = a
    BY <1>1, <2>1, <2>2, SeqEqual
  <2> QED BY <2>3 DEF u
<1> QED BY <1>1, <1>2, <1>3, <1>4 DEF t

(* What is before a position and what is after it make up the text.        *)
LEMMA SplitWhole ==
  ASSUME NEW C, NEW s \in Seq(C), NEW i \in 0 .. Len(s)
  PROVE  /\ SubSeq(s, 1, i) \in Seq(C) /\ Len(SubSeq(s, 1, i)) = i
         /\ SubSeq(s, i + 1, Len(s)) \in Seq(C)
         /\ Len(SubSeq(s, i + 1, Len(s))) = Len(s) - i
         /\ SubSeq(s, 1, i) \o SubSeq(s, i + 1, Len(s)) = s
<1>1. PICK m \in Nat : m = Len(s)
  OBVIOUS
<1>2. 1 \in 1 .. Len(s) + 1 /\ i \in 1 - 1 .. Len(s) /\ Len(s) \in i .. Len(s)
  BY <1>1
<1>3. SubSeq(s, 1, i) \o SubSeq(s, i + 1, Len(s)) = SubSeq(s, 1, Len(s))
  BY <1>2, ConcatAdjacentSubSeq
<1>4. SubSeq(s, 1, Len(s)) = s
  BY SubSeqFull
<1>5. SubSeq(s, 1, i) \in Seq(C) /\ Len(SubSeq(s, 1, i)) = i
  BY <1>1
<1>6. /\ SubSeq(s, i + 1, Len(s)) \in Seq(C)
      /\ Len(SubSeq(s, i + 1, Len(s))) = Len(s) - i
  BY <1>1
<1>7. SubSeq(s, 1, i) \o SubSeq(s, i + 1, Len(s)) = s
  BY <1>3, <1>4, Zenon
<1> QED BY <1>5, <1>6, <1>7

(* A character is inserted.                                                *)
LEMMA SplitInsert ==
  ASSUME NEW C, NEW s \in Seq(C), NEW i \in 0 .. Len(s), NEW c \in C
  PROVE  LET t == InsertAt(s, i + 1, c) IN
         /\ t \in Seq(C) /\ Len(t) = Len(s) + 1
         /\ SubSeq(t, 1, i + 1) = Append(SubSeq(s, 1, i), c)
         /\ SubSeq(t, i + 2, Len(t)) = SubSeq(s, i + 1, Len(s))
<1> DEFINE b == SubSeq(s, 1, i)
           a == SubSeq(s, i + 1, Len(s))
           bc == Append(b, c)
           t == bc \o a
<1>1. PICK m \in Nat : m = Len(s)
  OBVIOUS
<1>2. b \in Seq(C) /\ Len(b) = i /\ a \in Seq(C) /\ Len(a) = m - i
  BY <1>1, SplitWhole
<1> HIDE DEF a, b
<1>3. bc \in Seq(C) /\ Len(bc) = i + 1 /\ bc = b \o <<c>>
  BY <1>1, <1>2
<1>4. InsertAt(s, i + 1, c) = t
  <2>1. (i + 1) - 1 = i
    BY <1>1
  <2> QED BY <1>3, <2>1 DEF InsertAt, a, b
<1> HIDE DEF bc
<1>5. /\ t \in Seq(C) /\ Len(t) = Len(bc) + Len(a)
      /\ SubSeq(t, 1, Len(bc)) = bc
      /\ SubSeq(t, Len(bc) + 1, Len(t)) = a
  <2>1. bc \in Seq(C) /\ a \in Seq(C)
    BY <1>2, <1>3
  <2> QED BY <2>1, TwoParts
<1> HIDE DEF t
<1>6. Len(t) = m + 1 /\ Len(bc) = i + 1 /\ Len(bc) + 1 = i + 2
  <2>1. Len(t) = Len(bc) + Len(a) /\ Len(bc) = i + 1 /\ Len(a) = m - i
    BY <1>2, <1>3, <1>5
  <2> QED BY <1>1, <2>1
<1> QED BY <1>1, <1>4, <1>5, <1>6 DEF a, b, bc

(* The character before a position is the last of the text before it.      *)
LEMMA SplitBefore ==
  ASSUME NEW C, NEW s \in Seq(C), NEW i \in 1 .. Len(s)
  PROVE  /\ SubSeq(s, 1, i) # <<>>
         /\ SubSeq(s, 1, i - 1) = Front(SubSeq(s, 1, i))
         /\ SubSeq(s, i, Len(s)) = <<Last(SubSeq(s, 1, i))>> \o SubSeq(s, i + 1, Len(s))
<1> DEFINE b == SubSeq(s, 1, i)
<1>1. PICK m \in Nat : m = Len(s)
  OBVIOUS
<1>2. b \in Seq(C) /\ Len(b) = i /\ b[i] = s[i]
  BY <1>1
<1>3. SubSeq(b, 1, i - 1) = SubSeq(s, 1, i - 1)
  BY <1>1
<1> HIDE DEF b
<1>4. b # <<>> /\ Last(b) = s[i] /\ Front(b) = SubSeq(s, 1, i - 1)
  BY <1>1, <1>2, <1>3 DEF Last, Front
<1>5. SubSeq(s, i, Len(s)) = <<s[i]>> \o SubSeq(s, i + 1, Len(s))
  <2>1. i \in 1 .. Len(s) /\ Len(s) \in i .. Len(s)
    BY <1>1
  <2> QED BY <2>1, SubSeqRecursiveFirst
<1> QED BY <1>4, <1>5 DEF b

(* The cursor moves over the character after a position.                   *)
LEMMA SplitAfter ==
  ASSUME NEW C, NEW s \in Seq(C), NEW i \in 0 .. Len(s), i < Len(s)
  PROVE  /\ SubSeq(s, i + 1, Len(s)) # <<>>
         /\ SubSeq(s, 1, i + 1) = Append(SubSeq(s, 1, i), Head(SubSeq(s, i + 1, Len(s))))
         /\ SubSeq(s, i + 2, Len(s)) = Tail(SubSeq(s, i + 1, Len(s)))
<1>1. PICK m \in Nat : m = Len(s)
  OBVIOUS
<1>2. /\ i + 1 \in 1 .. Len(s) /\ Len(s) \in i + 1 .. Len(s)
      /\ 1 \in 1 .. Len(s) /\ i + 1 \in 1 .. Len(s)
      /\ (i + 1) + 1 = i + 2 /\ (i + 1) - 1 = i
  BY <1>1
<1>3. /\ Head(SubSeq(s, i + 1, Len(s))) = s[i + 1]
      /\ Tail(SubSeq(s, i + 1, Len(s))) = SubSeq(s, i + 2, Len(s))
  BY <1>2, HeadTailOfSubSeq
<1>4. SubSeq(s, 1, i + 1) = SubSeq(s, 1, i) \o <<s[i + 1]>>
  BY <1>2, SubSeqRecursiveSecond
<1>5. SubSeq(s, 1, i) \in Seq(C) /\ s[i + 1] \in C
  BY <1>1, <1>2
<1>6. SubSeq(s, 1, i) \o <<s[i + 1]>> = Append(SubSeq(s, 1, i), s[i + 1])
  BY <1>5, AppendIsConcat
<1>7. SubSeq(s, i + 1, Len(s)) # <<>>
  <2> DEFINE a == SubSeq(s, i + 1, Len(s))
  <2>1. Len(a) # 0
    BY <1>1
  <2> HIDE DEF a
  <2>2. a # <<>>
    BY <2>1
  <2> QED BY <2>2 DEF a
<1> QED BY <1>3, <1>4, <1>6, <1>7

(* A character is erased.                                                  *)
LEMMA SplitErase ==
  ASSUME NEW C, NEW s \in Seq(C), NEW i \in 1 .. Len(s)
  PROVE  LET t == Prefix(s, i - 1) \o SubSeq(s, i + 1, Len(s)) IN
         /\ t \in Seq(C) /\ Len(t) = Len(s) - 1
         /\ SubSeq(t, 1, i - 1) = Front(SubSeq(s, 1, i))
         /\ SubSeq(t, i, Len(t)) = SubSeq(s, i + 1, Len(s))
<1> DEFINE b == SubSeq(s, 1, i - 1)
           a == SubSeq(s, i + 1, Len(s))
           t == b \o a
<1>1. PICK m \in Nat : m = Len(s)
  OBVIOUS
<1>2. b \in Seq(C) /\ Len(b) = i - 1
  BY <1>1
<1>3. a \in Seq(C) /\ Len(a) = m - i
  BY <1>1
<1>4. Prefix(s, i - 1) \o SubSeq(s, i + 1, Len(s)) = t
  BY DEF Prefix
<1>5. b = Front(SubSeq(s, 1, i))
  BY SplitBefore
<1> HIDE DEF a, b
<1>6. /\ t \in Seq(C) /\ Len(t) = Len(b) + Len(a)
      /\ SubSeq(t, 1, Len(b)) = b
      /\ SubSeq(t, Len(b) + 1, Len(t)) = a
  <2>1. b \in Seq(C) /\ a \in Seq(C)
    BY <1>2, <1>3
  <2> QED BY <2>1, TwoParts
<1>7. Len(t) = m - 1 /\ Len(b) = i - 1 /\ Len(b) + 1 = i
  BY <1>1, <1>2, <1>3, <1>6
<1> HIDE DEF t
<1> QED BY <1>1, <1>4, <1>5, <1>6, <1>7 DEF a

----------------------------------------------------------------------------
(* The input box is a line editor.                                         *)

(* The cursor is in the text, and while a line is typed, the one before it *)
(* has been taken.                                                         *)
EditInv ==
  /\ BoxInv
  /\ at = "box" => line = NoLine

(* EditInv holds at first.                                                 *)
LEMMA EditInvInit == Init => EditInv
BY DEF Init, BoxInit, BoxInv, EditInv

(* EditInv is preserved.                                                   *)
LEMMA EditInvNext == EditInv /\ [LineNext]_lineVars => EditInv'
<1> SUFFICES ASSUME EditInv, [LineNext]_lineVars PROVE EditInv'
  OBVIOUS
<1>1. BoxInv'
  BY BoxInvNext DEF EditInv
<1>2. (at = "box" => line = NoLine)'
  BY DEF EditInv, LineNext, Key, Submit, SendRequest, NotSent, ServerReads,
         ClientReads, Through, lineVars
<1> QED BY <1>1, <1>2 DEF EditInv

(* The editor's sequences are those of the box.                            *)
LEMMA SameEnds ==
  ASSUME NEW s
  PROVE  EditedLine!Front(s) = Front(s) /\ EditedLine!Last(s) = Last(s)
BY DEF EditedLine!Front, Front, EditedLine!Last, Last

(* What is typed enters before the cursor: of all positions, the one that  *)
(* String::insert finds from the offset in bytes is the cursor's.          *)
LEMMA EnterInserts ==
  ASSUME EditInv, NEW c \in Char, EnterChar(c), line' = line
  PROVE  EditedLine!Insert(c)
<1>1. input \in Seq(Char) /\ char_index \in 0 .. Len(input)
  BY DEF EditInv, BoxInv
<1>2. ByteIndex = Bytes(Prefix(input, char_index))
  BY AtBoundary DEF EditInv, OnBoundary
<1>3. PICK n \in 0 .. Len(input) :
        /\ Bytes(Prefix(input, n)) = ByteIndex
        /\ input' = InsertAt(input, n + 1, c)
  BY DEF EnterChar
<1>4. n = char_index
  <2>1. ~(n < char_index) /\ ~(char_index < n)
    <3>1. n < char_index => Bytes(Prefix(input, n)) \in Nat
                            /\ Bytes(Prefix(input, n)) < Bytes(Prefix(input, char_index))
      BY <1>1, <1>3, BytesGrow
    <3>2. char_index < n => Bytes(Prefix(input, char_index)) \in Nat
                            /\ Bytes(Prefix(input, char_index)) < Bytes(Prefix(input, n))
      BY <1>1, <1>3, BytesGrow
    <3> QED BY <1>2, <1>3, <3>1, <3>2
  <2>2. n \in Nat /\ char_index \in Nat
    BY <1>1, <1>3
  <2> QED BY <2>1, <2>2
<1>5. /\ input' \in Seq(Char) /\ Len(input') = Len(input) + 1
      /\ SubSeq(input', 1, char_index + 1) = Append(SubSeq(input, 1, char_index), c)
      /\ SubSeq(input', char_index + 2, Len(input')) = SubSeq(input, char_index + 1, Len(input))
  <2>1. input' = InsertAt(input, char_index + 1, c)
    BY <1>3, <1>4
  <2> DEFINE t == InsertAt(input, char_index + 1, c)
  <2>2. /\ t \in Seq(Char) /\ Len(t) = Len(input) + 1
        /\ SubSeq(t, 1, char_index + 1) = Append(SubSeq(input, 1, char_index), c)
        /\ SubSeq(t, char_index + 2, Len(t)) = SubSeq(input, char_index + 1, Len(input))
    BY <1>1, SplitInsert
  <2> HIDE DEF t
  <2>3. input' = t
    BY <2>1 DEF t
  <2> QED BY <2>2, <2>3
<1>6. char_index' = char_index + 1 /\ char_index' + 1 = char_index + 2
  BY <1>1, <1>5 DEF EnterChar, ClampCursor
<1> QED BY <1>5, <1>6 DEF EditedLine!Insert

(* What is deleted is the character before the cursor.                     *)
LEMMA DeleteErases ==
  ASSUME EditInv, DeleteChar, line' = line
  PROVE  EditedLine!Erase
<1>1. input \in Seq(Char) /\ char_index \in 1 .. Len(input)
  BY DEF EditInv, BoxInv, DeleteChar
<1>2. /\ input' \in Seq(Char) /\ Len(input') = Len(input) - 1
      /\ SubSeq(input', 1, char_index - 1) = Front(SubSeq(input, 1, char_index))
      /\ SubSeq(input', char_index, Len(input')) = SubSeq(input, char_index + 1, Len(input))
  BY <1>1, SplitErase DEF DeleteChar
<1>3. char_index' = char_index - 1 /\ char_index' + 1 = char_index
  <2>1. char_index' = ClampCursor(SaturatingPred(char_index))
    BY DEF DeleteChar
  <2>2. SaturatingPred(char_index) = char_index - 1
    BY <1>1 DEF SaturatingPred
  <2>3. ~(char_index - 1 > Len(input'))
    BY <1>1, <1>2
  <2>4. char_index' = char_index - 1
    BY <2>1, <2>2, <2>3 DEF ClampCursor
  <2> QED BY <1>1, <2>4
<1>4. SubSeq(input, 1, char_index) # <<>>
  BY <1>1, SplitBefore
<1> QED BY <1>2, <1>3, <1>4, SameEnds DEF EditedLine!Erase

(* The cursor moves over one character, or stays at the beginning.         *)
LEMMA LeftMoves ==
  ASSUME EditInv, CursorLeft, line' = line
  PROVE  EditedLine!Left \/ UNCHANGED <<char_index, input, line>>
<1>1. input \in Seq(Char) /\ char_index \in 0 .. Len(input) /\ input' = input
  BY DEF EditInv, BoxInv, CursorLeft
<1>2. CASE char_index = 0
  BY <1>1, <1>2 DEF CursorLeft, ClampCursor, SaturatingPred
<1>3. CASE char_index # 0
  <2>1. char_index \in 1 .. Len(input)
    BY <1>1, <1>3
  <2>2. char_index' = char_index - 1 /\ char_index' + 1 = char_index
    BY <1>1, <2>1 DEF CursorLeft, ClampCursor, SaturatingPred
  <2>3. /\ SubSeq(input, 1, char_index) # <<>>
        /\ SubSeq(input, 1, char_index - 1) = Front(SubSeq(input, 1, char_index))
        /\ SubSeq(input, char_index, Len(input)) =
             <<Last(SubSeq(input, 1, char_index))>> \o SubSeq(input, char_index + 1, Len(input))
    BY <1>1, <2>1, SplitBefore
  <2> QED BY <1>1, <2>2, <2>3, SameEnds DEF EditedLine!Left
<1> QED BY <1>2, <1>3

(* The cursor moves over one character, or stays at the end.               *)
LEMMA RightMoves ==
  ASSUME EditInv, CursorRight, line' = line
  PROVE  EditedLine!Right \/ UNCHANGED <<char_index, input, line>>
<1>1. input \in Seq(Char) /\ char_index \in 0 .. Len(input) /\ input' = input
  BY DEF EditInv, BoxInv, CursorRight
<1>2. CASE char_index = Len(input)
  BY <1>1, <1>2 DEF CursorRight, ClampCursor
<1>3. CASE char_index # Len(input)
  <2>1. char_index < Len(input)
    BY <1>1, <1>3
  <2>2. char_index' = char_index + 1 /\ char_index' + 1 = char_index + 2
    BY <1>1, <2>1 DEF CursorRight, ClampCursor
  <2>3. /\ SubSeq(input, char_index + 1, Len(input)) # <<>>
        /\ SubSeq(input, 1, char_index + 1) =
             Append(SubSeq(input, 1, char_index),
                    Head(SubSeq(input, char_index + 1, Len(input))))
        /\ SubSeq(input, char_index + 2, Len(input)) =
             Tail(SubSeq(input, char_index + 1, Len(input)))
    BY <1>1, <2>1, SplitAfter
  <2> QED BY <1>1, <2>2, <2>3 DEF EditedLine!Right
<1> QED BY <1>2, <1>3

(* The line that is submitted is the whole text.                           *)
LEMMA SubmitEnters ==
  ASSUME EditInv, Submit
  PROVE  EditedLine!Enter
<1>1. input \in Seq(Char) /\ char_index \in 0 .. Len(input) /\ line = NoLine
  BY DEF EditInv, BoxInv, Submit
<1>2. line' = input /\ input' = <<>> /\ char_index' = 0
  BY DEF Submit, Clear
<1>3. SubSeq(input, 1, char_index) \o SubSeq(input, char_index + 1, Len(input)) = input
  BY <1>1, SplitWhole
<1>4. SubSeq(input', 1, char_index') = <<>> /\ SubSeq(input', char_index' + 1, Len(input')) = <<>>
  BY <1>2
<1> QED BY <1>1, <1>2, <1>3, <1>4 DEF EditedLine!Enter, EditedLine!NoLine, NoLine

(* Every step of the line is one of the editor's, or none.                 *)
LEMMA LineEdits ==
  ASSUME EditInv, [LineNext]_lineVars
  PROVE  [EditedLine!Next]_(EditedLine!vars)
<1> DEFINE Same == UNCHANGED <<char_index, input, line>>
<1>1. Same => UNCHANGED EditedLine!vars
  BY DEF EditedLine!vars
<1>2. CASE Key
  <2>1. line' = line
    BY <1>2 DEF Key
  <2>2. \/ EditedLine!Left \/ EditedLine!Right \/ EditedLine!Erase
        \/ \E c \in Char : EditedLine!Insert(c)
        \/ Same
    BY <1>2, <2>1, EnterInserts, DeleteErases, LeftMoves, RightMoves DEF Key
  <2> QED BY <1>1, <2>2 DEF EditedLine!Next
<1>3. CASE Submit
  BY <1>3, SubmitEnters DEF EditedLine!Next
<1>4. CASE NotSent \/ ClientReads
  <2>1. Same \/ (line' = NoLine /\ UNCHANGED <<char_index, input>>)
    BY <1>4 DEF NotSent, ClientReads, Through, boxVars
  <2>2. (line' = NoLine /\ UNCHANGED <<char_index, input>>) => EditedLine!Taken
    BY DEF EditedLine!Taken, EditedLine!NoLine, NoLine
  <2> QED BY <1>1, <2>1, <2>2 DEF EditedLine!Next
<1>5. CASE ServerReads \/ \E name \in Usernames : SendRequest(name)
  <2>1. Same
    BY <1>5 DEF ServerReads, SendRequest, boxVars
  <2> QED BY <1>1, <2>1
<1>6. CASE UNCHANGED lineVars
  <2>1. Same
    BY <1>6 DEF lineVars, boxVars
  <2> QED BY <1>1, <2>1
<1> QED BY <1>2, <1>3, <1>4, <1>5, <1>6 DEF LineNext

(* Whatever is typed, moved over and erased, the submitted line is the     *)
(* text around the cursor: for characters of all widths and lines of any   *)
(* length.                                                                 *)
THEOREM BoxIsEditor == LineSpec => EditorSpec
<1>1. Init => EditedLine!Init
  BY DEF Init, BoxInit, EditedLine!Init, EditedLine!NoLine, NoLine
<1>2. EditInv /\ [LineNext]_lineVars => [EditedLine!Next]_(EditedLine!vars)
  BY LineEdits
<1> QED BY <1>1, <1>2, EditInvInit, EditInvNext, PTL
        DEF LineSpec, EditorSpec, EditedLine!Spec
=============================================================================

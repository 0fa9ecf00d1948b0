------------------------ MODULE FileEventStoreProofs ------------------------
(***************************************************************************)
(* What the file event store promises, for every number of records, stops  *)
(* and power losses: flushed records survive, memory and file agree,       *)
(* retention keeps the projection, and the store only refuses to open when *)
(* nothing was promised or several batches were unflushed.                 *)
(*                                                                         *)
(* The argument: the readable batches of every file the path may lead to   *)
(* are adjacent pieces of the session's log, cut at increasing places, and *)
(* the first piece starts at the first record or at a checkpoint that      *)
(* replay accepted.                                                        *)
(***************************************************************************)
EXTENDS FileEventStore, TLAPS, SequenceTheorems, NaturalsInduction,
        WellFoundedInduction

-----------------------------------------------------------------------------
(* Sequences of any kind of elements *)

IsSeq(s) == s \in Seq(Range(s))

LEMMA SeqIsSeq ==
  ASSUME NEW S, NEW s \in Seq(S)
  PROVE  IsSeq(s)
BY SeqOfRange DEF IsSeq

LEMMA IsSeqFacts ==
  ASSUME NEW s, IsSeq(s)
  PROVE  Len(s) \in Nat /\ DOMAIN s = 1..Len(s)
BY LenProperties DEF IsSeq

LEMMA EmptyIsSeq == IsSeq(<<>>) /\ Len(<<>>) = 0
<1>1. <<>> \in Seq({})
  BY EmptySeq
<1> QED
  BY <1>1, EmptySeq, SeqIsSeq

LEMMA OnlyEmptyIsEmpty ==
  ASSUME NEW s, IsSeq(s)
  PROVE  s = <<>> <=> Len(s) = 0
<1>1. s # <<>> => Len(s) \in Nat \ {0}
  BY EmptySeq DEF IsSeq
<1> QED
  BY <1>1, EmptyIsSeq

LEMMA IsSeqBoth ==
  ASSUME NEW s, NEW t, IsSeq(s), IsSeq(t)
  PROVE  \E S : s \in Seq(S) /\ t \in Seq(S)
<1> DEFINE S == Range(s) \cup Range(t)
<1>1. Range(s) \subseteq S /\ Range(t) \subseteq S
  OBVIOUS
<1> HIDE DEF S
<1>2. s \in Seq(S)
  BY <1>1, SeqMonotonic DEF IsSeq
<1>3. t \in Seq(S)
  BY <1>1, SeqMonotonic DEF IsSeq
<1> QED
  BY <1>2, <1>3

LEMMA SameSeq ==
  ASSUME NEW s, NEW t, IsSeq(s), IsSeq(t), Len(s) = Len(t),
         \A i \in 1..Len(s) : s[i] = t[i]
  PROVE  s = t
<1>1. PICK S : s \in Seq(S) /\ t \in Seq(S)
  BY IsSeqBoth
<1> QED
  BY <1>1, SeqEqual

LEMMA SubSeqFacts ==
  ASSUME NEW s, NEW m \in Int, NEW n \in Int
  PROVE  /\ IsSeq(SubSeq(s, m, n))
         /\ Len(SubSeq(s, m, n)) = IF m <= n THEN n - m + 1 ELSE 0
         /\ \A i \in 1..(n - m + 1) : SubSeq(s, m, n)[i] = s[m + i - 1]
<1> DEFINE S == {s[i] : i \in m..n}
<1>1. \A i \in m..n : s[i] \in S
  OBVIOUS
<1> HIDE DEF S
<1>2. /\ SubSeq(s, m, n) \in Seq(S)
      /\ Len(SubSeq(s, m, n)) = IF m <= n THEN n - m + 1 ELSE 0
      /\ \A i \in 1..(n - m + 1) : SubSeq(s, m, n)[i] = s[m + i - 1]
  BY <1>1, SubSeqProperties
<1> QED
  BY <1>2, SeqIsSeq

LEMMA ConcatFacts ==
  ASSUME NEW s, NEW t, IsSeq(s), IsSeq(t)
  PROVE  /\ IsSeq(s \o t)
         /\ Len(s \o t) = Len(s) + Len(t)
         /\ \A i \in 1..(Len(s) + Len(t)) :
              (s \o t)[i] = IF i <= Len(s) THEN s[i] ELSE t[i - Len(s)]
<1>1. PICK S : s \in Seq(S) /\ t \in Seq(S)
  BY IsSeqBoth
<1>2. s \o t \in Seq(S)
  BY <1>1, ConcatProperties
<1>3. Len(s \o t) = Len(s) + Len(t)
  BY <1>1, ConcatProperties
<1>4. \A i \in 1..(Len(s) + Len(t)) :
        (s \o t)[i] = IF i <= Len(s) THEN s[i] ELSE t[i - Len(s)]
  BY <1>1, ConcatProperties
<1> QED
  BY <1>2, <1>3, <1>4, SeqIsSeq

LEMMA AppendFacts ==
  ASSUME NEW s, NEW e, IsSeq(s)
  PROVE  /\ IsSeq(Append(s, e))
         /\ Len(Append(s, e)) = Len(s) + 1
         /\ \A i \in 1..Len(s) : Append(s, e)[i] = s[i]
         /\ Append(s, e)[Len(s) + 1] = e
<1> DEFINE S == Range(s) \cup {e}
<1>1. Range(s) \subseteq S /\ e \in S
  OBVIOUS
<1> HIDE DEF S
<1>2. s \in Seq(S)
  BY <1>1, SeqMonotonic DEF IsSeq
<1>3. Append(s, e) \in Seq(S)
  BY <1>1, <1>2, AppendProperties
<1>4. Len(Append(s, e)) = Len(s) + 1
  BY <1>1, <1>2, AppendProperties
<1>5. \A i \in 1..Len(s) : Append(s, e)[i] = s[i]
  BY <1>1, <1>2, AppendProperties
<1>6. Append(s, e)[Len(s) + 1] = e
  BY <1>1, <1>2, AppendProperties
<1> QED
  BY <1>3, <1>4, <1>5, <1>6, SeqIsSeq

LEMMA FunctionIsSeq ==
  ASSUME NEW n \in Nat, NEW S, NEW f \in [1..n -> S]
  PROVE  IsSeq(f) /\ Len(f) = n
<1>1. f \in Seq(S)
  BY SeqDef
<1>2. Len(f) \in Nat /\ DOMAIN f = 1..Len(f)
  BY <1>1, LenProperties
<1>3. 1..Len(f) = 1..n
  BY <1>2
<1>4. Len(f) = n
  BY <1>2, <1>3
<1> QED
  BY <1>1, <1>4, SeqIsSeq

LEMMA SubSeqWhole ==
  ASSUME NEW s, IsSeq(s)
  PROVE  SubSeq(s, 1, Len(s)) = s
BY SubSeqFull DEF IsSeq

LEMMA AdjacentSubSeqs ==
  ASSUME NEW s, IsSeq(s), NEW m \in Nat, NEW k \in Nat, NEW n \in Nat,
         m <= k, k <= n, n <= Len(s)
  PROVE  SubSeq(s, m + 1, k) \o SubSeq(s, k + 1, n) = SubSeq(s, m + 1, n)
<1>1. Len(s) \in Nat
  BY IsSeqFacts
<1>2. m + 1 \in 1..(Len(s) + 1) /\ k \in ((m + 1) - 1)..Len(s) /\ n \in k..Len(s)
  BY <1>1
<1> QED
  BY <1>2, ConcatAdjacentSubSeq DEF IsSeq

LEMMA SubSeqOfPrefix ==
  ASSUME NEW s, NEW t, IsSeq(s), IsSeq(t), NEW m \in Nat \ {0}, NEW n \in Nat,
         \A i \in 1..n : s[i] = t[i]
  PROVE  SubSeq(s, m, n) = SubSeq(t, m, n)
<1>1. /\ IsSeq(SubSeq(s, m, n))
      /\ Len(SubSeq(s, m, n)) = IF m <= n THEN n - m + 1 ELSE 0
      /\ \A i \in 1..(n - m + 1) : SubSeq(s, m, n)[i] = s[m + i - 1]
  BY SubSeqFacts
<1>2. /\ IsSeq(SubSeq(t, m, n))
      /\ Len(SubSeq(t, m, n)) = IF m <= n THEN n - m + 1 ELSE 0
      /\ \A i \in 1..(n - m + 1) : SubSeq(t, m, n)[i] = t[m + i - 1]
  BY SubSeqFacts
<1>3. \A i \in 1..Len(SubSeq(s, m, n)) : SubSeq(s, m, n)[i] = SubSeq(t, m, n)[i]
  <2> TAKE i \in 1..Len(SubSeq(s, m, n))
  <2>1. i \in 1..(n - m + 1)
    BY <1>1
  <2>2. m + i - 1 \in 1..n
    BY <2>1
  <2> QED
    BY <1>1, <1>2, <2>1, <2>2
<1> QED
  BY <1>1, <1>2, <1>3, SameSeq

LEMMA SubSeqOfSub ==
  ASSUME NEW s, NEW i \in Nat \ {0}, NEW j \in Nat, NEW m \in Nat \ {0},
         NEW n \in Nat, n <= j - i + 1
  PROVE  SubSeq(SubSeq(s, i, j), m, n) = SubSeq(s, i + m - 1, i + n - 1)
<1> DEFINE t == SubSeq(s, i, j)
<1>1. \A k \in 1..(j - i + 1) : t[k] = s[i + k - 1]
  BY SubSeqFacts
<1> HIDE DEF t
<1>2. /\ IsSeq(SubSeq(t, m, n))
      /\ Len(SubSeq(t, m, n)) = IF m <= n THEN n - m + 1 ELSE 0
      /\ \A k \in 1..(n - m + 1) : SubSeq(t, m, n)[k] = t[m + k - 1]
  BY SubSeqFacts
<1>3. i + m - 1 \in Int /\ i + n - 1 \in Int
  OBVIOUS
<1> DEFINE u == SubSeq(s, i + m - 1, i + n - 1)
<1>4. /\ IsSeq(u)
      /\ Len(u) = IF i + m - 1 <= i + n - 1 THEN (i + n - 1) - (i + m - 1) + 1 ELSE 0
      /\ \A k \in 1..((i + n - 1) - (i + m - 1) + 1) : u[k] = s[(i + m - 1) + k - 1]
  BY <1>3, SubSeqFacts
<1> HIDE DEF u
<1>5. Len(u) = Len(SubSeq(t, m, n))
  BY <1>2, <1>4
<1>6. \A k \in 1..Len(u) : SubSeq(t, m, n)[k] = u[k]
  <2> TAKE k \in 1..Len(u)
  <2>1. k \in 1..(n - m + 1) /\ (i + n - 1) - (i + m - 1) + 1 = n - m + 1
    BY <1>4
  <2>2. m + k - 1 \in 1..(j - i + 1)
    BY <2>1
  <2>3. t[m + k - 1] = s[i + (m + k - 1) - 1]
    BY <1>1, <2>2
  <2>4. i + (m + k - 1) - 1 = (i + m - 1) + k - 1
    BY <2>1
  <2> QED
    BY <1>2, <1>4, <2>1, <2>3, <2>4
<1>7. SubSeq(t, m, n) = u
  BY <1>2, <1>4, <1>5, <1>6, SameSeq
<1> QED
  BY <1>7 DEF t, u

\* The last elements of a subsequence, from its n-th on.
LEMMA SuffixOfSub ==
  ASSUME NEW l, NEW s \in Nat \ {0}, NEW m \in Nat, s <= m,
         NEW r, r = SubSeq(l, s, m), NEW n \in Nat \ {0}, NEW p, p = s + n - 1
  PROVE  SubSeq(r, n, Len(r)) = SubSeq(l, p, m)
<1> DEFINE q == m - s + 1
<1>1. q \in Nat /\ q <= m - s + 1 /\ s + q - 1 = m /\ Len(r) = q
  BY SubSeqFacts
<1> HIDE DEF q
<1>2. SubSeq(SubSeq(l, s, m), n, q) = SubSeq(l, s + n - 1, s + q - 1)
  BY <1>1, SubSeqOfSub
<1> QED
  BY <1>1, <1>2

-----------------------------------------------------------------------------
(* The scan *)

LEMMA LeastOf ==
  ASSUME NEW S \in SUBSET Nat, S # {}
  PROVE  \E m \in S : \A k \in S : m <= k
<1>1. IsWellFoundedOn(OpToRel(<, Nat), Nat)
  BY NatLessThanWellFounded
<1>2. PICK m \in S : \A k \in S : ~(<<k, m>> \in OpToRel(<, Nat))
  BY <1>1, WFMin
<1>3. \A k \in S : ~(k < m)
  BY <1>2 DEF OpToRel
<1> QED
  BY <1>3

\* n batches pass the scan and the next, if there is one, does not.
PassesTo(b, n) ==
  /\ n \in 0..Len(b)
  /\ \A i \in 1..n : b[i] # Damaged
  /\ n < Len(b) => b[n + 1] = Damaged

LEMMA PassesToOne ==
  ASSUME NEW b, Len(b) \in Nat, NEW m, NEW n, PassesTo(b, m), PassesTo(b, n)
  PROVE  m = n
<1>1. m \in Nat /\ n \in Nat /\ m <= Len(b) /\ n <= Len(b)
  BY DEF PassesTo
<1>2. ~(m < n)
  <2> SUFFICES ASSUME m < n PROVE FALSE
    OBVIOUS
  <2>1. m + 1 \in 1..n /\ m < Len(b)
    BY <1>1
  <2>2. b[m + 1] = Damaged
    BY <2>1 DEF PassesTo
  <2> QED
    BY <2>1, <2>2 DEF PassesTo
<1>3. ~(n < m)
  <2> SUFFICES ASSUME n < m PROVE FALSE
    OBVIOUS
  <2>1. n + 1 \in 1..m /\ n < Len(b)
    BY <1>1
  <2>2. b[n + 1] = Damaged
    BY <2>1 DEF PassesTo
  <2> QED
    BY <2>1, <2>2 DEF PassesTo
<1> QED
  BY <1>1, <1>2, <1>3

LEMMA PassesToSome ==
  ASSUME NEW b, Len(b) \in Nat
  PROVE  \E n \in 0..Len(b) : PassesTo(b, n)
<1> DEFINE D == {i \in 1..Len(b) : b[i] = Damaged}
<1>1. CASE D = {}
  <2>1. PassesTo(b, Len(b))
    BY <1>1 DEF PassesTo
  <2> QED
    BY <2>1
<1>2. CASE D # {}
  <2>1. D \in SUBSET Nat
    OBVIOUS
  <2>2. PICK m \in D : \A k \in D : m <= k
    BY <1>2, <2>1, LeastOf
  <2>3. m \in 1..Len(b) /\ b[m] = Damaged /\ m - 1 \in 0..Len(b) /\ (m - 1) + 1 = m
    BY <2>2
  <2>4. \A i \in 1..(m - 1) : b[i] # Damaged
    BY <2>2, <2>3
  <2>5. PassesTo(b, m - 1)
    BY <2>3, <2>4 DEF PassesTo
  <2> QED
    BY <2>3, <2>5
<1> QED
  BY <1>1, <1>2

LEMMA ValidFacts ==
  ASSUME NEW b, IsSeq(b)
  PROVE  /\ PassesTo(b, Valid(b))
         /\ Valid(b) \in Nat
         /\ Valid(b) <= Len(b)
<1>1. Len(b) \in Nat
  BY IsSeqFacts
<1>2. \E n \in 0..Len(b) : PassesTo(b, n)
  BY <1>1, PassesToSome
<1>3. \E n \in 0..Len(b) :
        /\ \A i \in 1..n : b[i] # Damaged
        /\ n < Len(b) => b[n + 1] = Damaged
  BY <1>2 DEF PassesTo
<1>4. PassesTo(b, Valid(b))
  BY <1>3 DEF PassesTo, Valid
<1>5. Valid(b) \in 0..Len(b)
  BY <1>4 DEF PassesTo
<1> QED
  BY <1>1, <1>4, <1>5

LEMMA ValidIs ==
  ASSUME NEW b, IsSeq(b), NEW n, PassesTo(b, n)
  PROVE  Valid(b) = n
BY ValidFacts, IsSeqFacts, PassesToOne

-----------------------------------------------------------------------------
(* The records of a file *)

\* f is what reading the batches one after the other has found after each.
Flattens(b, f) ==
  f = [n \in 0..Len(b) |-> IF n = 0 THEN <<>> ELSE f[n - 1] \o b[n]]

\* The first k batches are adjacent pieces of l, cut at the places in cut.
Pieces(b, k, l, cut) ==
  /\ cut \in [Nat -> Nat]
  /\ cut[k] <= Len(l)
  /\ \A i, j \in 0..k : i < j => cut[i] < cut[j]
  /\ \A i \in 1..k : b[i] = SubSeq(l, cut[i - 1] + 1, cut[i])

\* The i-th batch continues what was read before it.
Continues(b, l, cut, i) ==
  SubSeq(l, cut[0] + 1, cut[i - 1]) \o b[i] = SubSeq(l, cut[0] + 1, cut[i])

LEMMA PiecesGrow ==
  ASSUME NEW b, NEW k \in Nat, NEW l, NEW cut, Pieces(b, k, l, cut), IsSeq(l),
         NEW i \in 1..k
  PROVE  Continues(b, l, cut, i)
<1>1. cut[0] \in Nat /\ cut[i - 1] \in Nat /\ cut[i] \in Nat /\ cut[k] \in Nat
  <2>1. cut \in [Nat -> Nat]
    BY DEF Pieces
  <2>2. 0 \in Nat /\ i - 1 \in Nat /\ i \in Nat
    OBVIOUS
  <2> QED BY <2>1, <2>2
<1>2. Len(l) \in Nat
  BY IsSeqFacts
<1>3. cut[i - 1] < cut[i]
  <2>1. i - 1 \in 0..k /\ i \in 0..k /\ i - 1 < i
    OBVIOUS
  <2> QED
    BY <2>1 DEF Pieces
<1>4. cut[0] <= cut[i - 1]
  <2>1. CASE i - 1 = 0
    BY <1>1, <2>1
  <2>2. CASE i - 1 # 0
    <3>1. i - 1 \in 0..k /\ 0 \in 0..k /\ 0 < i - 1
      BY <2>2
    <3>2. cut[0] < cut[i - 1]
      BY <3>1 DEF Pieces
    <3> QED
      BY <1>1, <3>2
  <2> QED
    BY <2>1, <2>2
<1>5. cut[i] <= cut[k]
  <2>1. CASE i = k
    BY <1>1, <2>1
  <2>2. CASE i # k
    <3>1. i \in 0..k /\ k \in 0..k /\ i < k
      BY <2>2
    <3>2. cut[i] < cut[k]
      BY <3>1 DEF Pieces
    <3> QED
      BY <1>1, <3>2
  <2> QED
    BY <2>1, <2>2
<1>6. cut[i] <= Len(l)
  BY <1>1, <1>2, <1>5 DEF Pieces
<1>7. b[i] = SubSeq(l, cut[i - 1] + 1, cut[i])
  BY DEF Pieces
<1>8. cut[i - 1] <= cut[i]
  BY <1>1, <1>3
<1>9. SubSeq(l, cut[0] + 1, cut[i - 1]) \o SubSeq(l, cut[i - 1] + 1, cut[i])
        = SubSeq(l, cut[0] + 1, cut[i])
  <2> DEFINE from == cut[0]  mid == cut[i - 1]  to == cut[i]
  <2>1. from \in Nat /\ mid \in Nat /\ to \in Nat /\ from <= mid /\ mid <= to /\ to <= Len(l)
    BY <1>1, <1>4, <1>6, <1>8
  <2> HIDE DEF from, mid, to
  <2>2. SubSeq(l, from + 1, mid) \o SubSeq(l, mid + 1, to) = SubSeq(l, from + 1, to)
    BY <2>1, AdjacentSubSeqs
  <2> QED BY <2>2 DEF from, mid, to
<1> QED
  BY <1>7, <1>9 DEF Continues

LEMMA FlattenPieces ==
  ASSUME NEW b, IsSeq(b), NEW l, IsSeq(l), NEW cut, Pieces(b, Len(b), l, cut)
  PROVE  Flatten(b) = SubSeq(l, cut[0] + 1, cut[Len(b)])
<1> DEFINE k == Len(b)
           w == [n \in 0..k |-> SubSeq(l, cut[0] + 1, cut[n])]
<1>1. k \in Nat
  BY IsSeqFacts
<1>2. \A i \in 1..k : SubSeq(l, cut[0] + 1, cut[i - 1]) \o b[i]
                        = SubSeq(l, cut[0] + 1, cut[i])
  <2>1. Pieces(b, k, l, cut)
    OBVIOUS
  <2> HIDE DEF k
  <2> TAKE i \in 1..k
  <2>2. Continues(b, l, cut, i)
    BY <1>1, <2>1, PiecesGrow
  <2> QED
    BY <2>2 DEF Continues
<1>3. SubSeq(l, cut[0] + 1, cut[0]) = <<>>
  <2>1. cut[0] \in Nat
    BY DEF Pieces
  <2>2. cut[0] + 1 \in Int /\ cut[0] \in Int /\ cut[0] < cut[0] + 1
    BY <2>1
  <2> QED
    BY <2>2, SubSeqEmpty
<1>4. Flatten(b) = (CHOOSE f : Flattens(b, f))[k]
  BY DEF Flatten, Flattens
<1>5. Flattens(b, w)
  <2>1. \A n \in 0..k : w[n] = IF n = 0 THEN <<>> ELSE w[n - 1] \o b[n]
    <3> TAKE n \in 0..k
    <3>1. CASE n = 0
      BY <1>1, <1>3, <3>1
    <3>2. CASE n # 0
      <4>1. n \in 1..k /\ n - 1 \in 0..k
        BY <1>1, <3>2
      <4>2. w[n] = SubSeq(l, cut[0] + 1, cut[n])
            /\ w[n - 1] = SubSeq(l, cut[0] + 1, cut[n - 1])
        BY <4>1
      <4>3. w[n] = w[n - 1] \o b[n]
        BY <1>2, <4>1, <4>2
      <4> QED
        BY <3>2, <4>3
    <3> QED
      BY <3>1, <3>2
  <2>2. w = [n \in 0..k |-> w[n]]
    OBVIOUS
  <2> HIDE DEF w
  <2>3. w = [n \in 0..k |-> IF n = 0 THEN <<>> ELSE w[n - 1] \o b[n]]
    BY <2>1, <2>2
  <2> QED
    BY <2>3 DEF Flattens
<1> HIDE DEF w
<1>6. PICK f : Flattens(b, f) /\ Flatten(b) = f[k]
  BY <1>4, <1>5
<1>7. \A n \in 0..k : f[n] = IF n = 0 THEN <<>> ELSE f[n - 1] \o b[n]
  BY <1>6 DEF Flattens
<1> DEFINE Bad == {n \in 0..k : f[n] # SubSeq(l, cut[0] + 1, cut[n])}
<1>8. Bad = {}
  <2> SUFFICES ASSUME Bad # {} PROVE FALSE
    OBVIOUS
  <2>1. Bad \in SUBSET Nat
    BY <1>1
  <2>2. PICK n \in Bad : \A m \in Bad : n <= m
    BY <2>1, LeastOf
  <2>3. n \in 0..k /\ f[n] # SubSeq(l, cut[0] + 1, cut[n])
    BY <2>2
  <2>4. n # 0
    BY <1>1, <1>3, <1>7, <2>3
  <2>5. n \in 1..k /\ n - 1 \in 0..k /\ ~(n <= n - 1)
    BY <1>1, <2>3, <2>4
  <2>6. f[n - 1] = SubSeq(l, cut[0] + 1, cut[n - 1])
    BY <2>2, <2>5
  <2>7. f[n] = f[n - 1] \o b[n]
    BY <1>7, <2>3, <2>4
  <2> QED
    BY <1>2, <2>3, <2>5, <2>6, <2>7
<1>9. k \in 0..k
  BY <1>1
<1> QED
  BY <1>6, <1>8, <1>9

-----------------------------------------------------------------------------
(* Replay *)

\* What replay has after n records, from what it had after the one before.
Replayed(r, f, n) ==
  IF n = 0 THEN Start
  ELSE IF f[n - 1] = Fail THEN Fail
  ELSE IF Rejects(f[n - 1], r[n], n) THEN Fail
  ELSE [Applied(f[n - 1], r[n]) EXCEPT !.position = r[n].sequence]

\* f is what replay has after each of the first n records of r.
Replays(r, n, f) == f = [k \in 0..n |-> Replayed(r, f, k)]

LEMMA ReplaysAt ==
  ASSUME NEW r, NEW n \in Nat, NEW f, Replays(r, n, f), NEW k \in 0..n
  PROVE  f[k] = Replayed(r, f, k)
BY DEF Replays

LEMMA ReplaysExtends ==
  ASSUME NEW r, NEW m \in Nat \ {0}, NEW g, Replays(r, m - 1, g)
  PROVE  \E f : Replays(r, m, f)
<1> DEFINE f == [k \in 0..m |-> IF k = m THEN Replayed(r, g, m) ELSE g[k]]
<1>1. \A k \in 0..(m - 1) : g[k] = Replayed(r, g, k)
  BY DEF Replays
<1>2. \A k \in 0..(m - 1) : f[k] = g[k]
  OBVIOUS
<1>3. f[m] = Replayed(r, g, m)
  OBVIOUS
<1>4. f = [k \in 0..m |-> f[k]]
  OBVIOUS
<1> HIDE DEF f
<1>5. \A k \in 0..m : Replayed(r, f, k) = Replayed(r, g, k)
  <2> TAKE k \in 0..m
  <2>1. CASE k = 0
    BY <2>1 DEF Replayed
  <2>2. CASE k # 0
    <3>1. f[k - 1] = g[k - 1]
      BY <1>2, <2>2
    <3> QED
      BY <3>1 DEF Replayed
  <2> QED
    BY <2>1, <2>2
<1>6. \A k \in 0..m : f[k] = Replayed(r, f, k)
  <2> TAKE k \in 0..m
  <2>1. k = m \/ k \in 0..(m - 1)
    OBVIOUS
  <2> QED
    BY <1>1, <1>2, <1>3, <1>5, <2>1
<1>7. f = [k \in 0..m |-> Replayed(r, f, k)]
  BY <1>4, <1>6
<1> QED
  BY <1>7 DEF Replays

LEMMA ReplaysSome ==
  ASSUME NEW r, NEW n \in Nat
  PROVE  \E f : Replays(r, n, f)
<1> DEFINE Bad == {m \in Nat : ~\E f : Replays(r, m, f)}
<1>1. SUFFICES ASSUME n \in Bad PROVE FALSE
  OBVIOUS
<1>2. PICK m \in Bad : \A k \in Bad : m <= k
  BY <1>1, LeastOf
<1>3. \E f : Replays(r, 0, f)
  <2> DEFINE f == [k \in 0..0 |-> Start]
  <2>1. f = [k \in 0..0 |-> Replayed(r, f, k)]
    BY DEF Replayed
  <2> QED
    BY <2>1 DEF Replays
<1>4. m \in Nat \ {0}
  BY <1>2, <1>3
<1>5. m - 1 \in Nat /\ ~(m <= m - 1)
  BY <1>4
<1>6. PICK g : Replays(r, m - 1, g)
  BY <1>2, <1>5
<1>7. \E f : Replays(r, m, f)
  BY <1>4, <1>6, ReplaysExtends
<1> QED
  BY <1>2, <1>7

LEMMA ProjectReplays ==
  ASSUME NEW r, IsSeq(r)
  PROVE  \E f : Replays(r, Len(r), f) /\ Project(r) = f[Len(r)]
<1>1. Project(r) = (CHOOSE f : Replays(r, Len(r), f))[Len(r)]
  BY DEF Project, Replays, Replayed
<1>2. \E f : Replays(r, Len(r), f)
  BY IsSeqFacts, ReplaysSome
<1> QED
  BY <1>1, <1>2

\* Two replays that agree once, and are fed the same records from there on,
\* agree in the end.
LEMMA ReplaysAgree ==
  ASSUME NEW r, NEW n \in Nat \ {0}, NEW f, Replays(r, n, f),
         NEW t, NEW m \in Nat, NEW g, Replays(t, m, g),
         NEW p \in Nat, NEW q \in Nat, p <= q, q <= m, q - p + 1 = n,
         \A k \in 1..n : r[k] = t[(p - 1) + k], p # 0,
         f[1] = g[p]
  PROVE  f[n] = g[q]
<1> DEFINE s == p - 1
<1>0. s \in Nat /\ s + 1 = p /\ s + n = q /\ s + n <= m /\ f[1] = g[s + 1]
  OBVIOUS
<1>a. \A k \in 1..n : r[k] = t[s + k]
  OBVIOUS
<1> HIDE DEF s
<1> DEFINE Bad == {k \in 1..n : f[k] # g[s + k]}
<1>1. Bad = {}
  <2> SUFFICES ASSUME Bad # {} PROVE FALSE
    OBVIOUS
  <2>1. Bad \in SUBSET Nat
    OBVIOUS
  <2>2. PICK k \in Bad : \A j \in Bad : k <= j
    BY <2>1, LeastOf
  <2>3. k \in 1..n /\ f[k] # g[s + k]
    BY <2>2
  <2>4. k # 1
    BY <1>0, <2>3
  <2>5. k - 1 \in 1..n /\ ~(k <= k - 1)
    BY <2>3, <2>4
  <2>6. f[k - 1] = g[s + (k - 1)]
    BY <2>2, <2>5
  <2>7. s + (k - 1) = (s + k) - 1 /\ k \in 0..n /\ s + k \in 0..m /\ k > 1 /\ s + k > 1
    BY <1>0, <2>3, <2>4
  <2>8. f[k] = Replayed(r, f, k)
    BY <2>7, ReplaysAt
  <2>9. g[s + k] = Replayed(t, g, s + k)
    BY <2>7, ReplaysAt
  <2>10. f[k - 1] = g[(s + k) - 1] /\ r[k] = t[s + k]
    BY <1>a, <2>3, <2>6, <2>7
  <2>11. \A x : Rejects(x, r[k], k) <=> Rejects(x, r[k], s + k)
    BY <2>7 DEF Rejects
  <2>12. Replayed(r, f, k) = Replayed(t, g, s + k)
    BY <2>7, <2>10, <2>11 DEF Replayed
  <2> QED
    BY <2>3, <2>8, <2>9, <2>12
<1>2. f[n] = g[s + n]
  BY <1>1
<1> QED
  BY <1>0, <1>2

\* The log can start at its s-th record: that is the first one, or a checkpoint
\* that replay of all that came before accepts.
GoodStart(l, s) ==
  \/ s = 1
  \/ IsCheckpoint(l[s]) /\ Anchored(l[s]) /\ Project(SubSeq(l, 1, s)) # Fail

LEMMA ProjectSub ==
  ASSUME NEW l, NEW s \in Nat \ {0}, NEW e \in Nat, s <= e
  PROVE  \E f : /\ Replays(SubSeq(l, s, e), e - s + 1, f)
                /\ Project(SubSeq(l, s, e)) = f[e - s + 1]
<1>1. IsSeq(SubSeq(l, s, e)) /\ Len(SubSeq(l, s, e)) = e - s + 1
  BY SubSeqFacts
<1> QED
  BY <1>1, ProjectReplays

LEMMA FirstReplayed ==
  ASSUME NEW r, NEW n \in Nat \ {0}, NEW f, Replays(r, n, f)
  PROVE  f[1] = IF Rejects(Start, r[1], 1) THEN Fail
                ELSE [Applied(Start, r[1]) EXCEPT !.position = r[1].sequence]
<1>1. f[0] = Replayed(r, f, 0) /\ f[1] = Replayed(r, f, 1)
  BY ReplaysAt
<1>2. f[0] = Start
  BY <1>1 DEF Replayed
<1>3. f[1 - 1] = Start /\ Start # Fail
  BY <1>2, FailAssumption
<1>4. Replayed(r, f, 1) = IF Rejects(Start, r[1], 1) THEN Fail
                ELSE [Applied(Start, r[1]) EXCEPT !.position = r[1].sequence]
  BY <1>3 DEF Replayed
<1> QED
  BY <1>1, <1>4

LEMMA AppliedCheckpoint ==
  ASSUME NEW x, NEW y, NEW record, IsCheckpoint(record)
  PROVE  Applied(x, record) = Applied(y, record)
<1>1. record.body.kind = "Checkpoint"
  BY DEF IsCheckpoint
<1>2. Applied(x, record) = record.body.state
  BY <1>1 DEF Applied
<1>3. Applied(y, record) = record.body.state
  BY <1>1 DEF Applied
<1> QED
  BY <1>2, <1>3

\* Replay from a good start comes to what replay of the whole log comes to.
LEMMA ProjectFrom ==
  ASSUME NEW l, IsSeq(l), NEW s \in Nat \ {0}, NEW e \in Nat, s <= e, e <= Len(l),
         GoodStart(l, s)
  PROVE  Project(SubSeq(l, s, e)) = Project(SubSeq(l, 1, e))
<1> DEFINE r == SubSeq(l, s, e)
           t == SubSeq(l, 1, e)
           u == SubSeq(l, 1, s)
           n == e - s + 1
<1>1. n \in Nat \ {0}
  OBVIOUS
<1>2. PICK f : Replays(r, n, f) /\ Project(r) = f[n]
  BY ProjectSub
<1>3. PICK g : Replays(t, e, g) /\ Project(t) = g[e]
  <2>1. e - 1 + 1 = e /\ 1 <= e
    OBVIOUS
  <2> QED
    BY <2>1, ProjectSub
<1>4. PICK h : Replays(u, s, h) /\ Project(u) = h[s]
  <2>1. s - 1 + 1 = s /\ 1 <= s
    OBVIOUS
  <2> QED
    BY <2>1, ProjectSub
<1>5. \A i \in 1..n : r[i] = l[s + i - 1]
  BY SubSeqFacts
<1>6. \A i \in 1..e : t[i] = l[i]
  <2>1. \A i \in 1..(e - 1 + 1) : t[i] = l[1 + i - 1]
    BY SubSeqFacts
  <2> QED
    BY <2>1
<1>7. \A i \in 1..s : u[i] = l[i]
  <2>1. \A i \in 1..(s - 1 + 1) : u[i] = l[1 + i - 1]
    BY SubSeqFacts
  <2> QED
    BY <2>1
<1>8. GoodStart(l, s) <=>
        s = 1 \/ (IsCheckpoint(l[s]) /\ Anchored(l[s]) /\ Project(u) # Fail)
  BY DEF GoodStart
<1> HIDE DEF r, t, u
<1>9. f[1] = IF Rejects(Start, l[s], 1) THEN Fail
             ELSE [Applied(Start, l[s]) EXCEPT !.position = l[s].sequence]
  <2>1. r[1] = l[s]
    BY <1>1, <1>5
  <2> QED
    BY <1>1, <1>2, <2>1, FirstReplayed
<1>10. f[1] = g[s]
  <2>1. CASE s = 1
    <3>1. t[1] = l[1] /\ e \in Nat \ {0}
      BY <1>6
    <3> QED
      BY <1>3, <1>9, <2>1, <3>1, FirstReplayed
  <2>2. CASE s # 1
    <3>1. IsCheckpoint(l[s]) /\ Anchored(l[s]) /\ h[s] # Fail
      BY <1>4, <1>8, <2>2
    <3>2. h[1] = g[1]
      <4>1. u[1] = l[1] /\ t[1] = l[1] /\ e \in Nat \ {0}
        BY <1>6, <1>7
      <4> DEFINE F == IF Rejects(Start, l[1], 1) THEN Fail
                      ELSE [Applied(Start, l[1]) EXCEPT !.position = l[1].sequence]
      <4>2. h[1] = F
        BY <1>4, <4>1, FirstReplayed
      <4>3. g[1] = F
        BY <1>3, <4>1, FirstReplayed
      <4> QED
        BY <4>2, <4>3
    <3>3. \A k \in 1..s : u[k] = t[(1 - 1) + k]
      BY <1>6, <1>7
    <3>4. h[s] = g[s]
      <4>1. 1 \in Nat /\ 1 <= s /\ s - 1 + 1 = s /\ 1 # 0
        OBVIOUS
      <4> QED
        BY <1>3, <1>4, <3>2, <3>3, <4>1, ReplaysAgree
    <3>5. g[s] # Fail
      BY <3>1, <3>4
    <3>6. g[s] = Replayed(t, g, s)
      BY <1>3, ReplaysAt
    <3>7. t[s] = l[s]
      BY <1>6
    <3>8. g[s] = [Applied(g[s - 1], l[s]) EXCEPT !.position = l[s].sequence]
      BY <2>2, <3>5, <3>6, <3>7 DEF Replayed
    <3>9. ~Rejects(Start, l[s], 1)
      BY <3>1 DEF Rejects
    <3>10. Applied(g[s - 1], l[s]) = Applied(Start, l[s])
      BY <3>1, AppliedCheckpoint
    <3> QED
      BY <1>9, <3>8, <3>9, <3>10
  <2> QED
    BY <2>1, <2>2
<1>11. \A k \in 1..n : r[k] = t[(s - 1) + k]
  <2> TAKE k \in 1..n
  <2>1. (s - 1) + k \in 1..e /\ s + k - 1 = (s - 1) + k
    OBVIOUS
  <2> QED
    BY <1>5, <1>6, <2>1
<1>12. s \in Nat /\ s # 0 /\ e - s + 1 = n /\ e <= e
  OBVIOUS
<1>13. f[n] = g[e]
  <2> HIDE DEF n
  <2> QED
    BY <1>1, <1>2, <1>3, <1>10, <1>11, <1>12, ReplaysAgree
<1>14. Project(r) = Project(t)
  BY <1>2, <1>3, <1>13
<1> QED
  BY <1>14 DEF r, t

-----------------------------------------------------------------------------
(* Files laid out on the log *)

SmallerOf(m, n) == IF m < n THEN m ELSE n

\* The readable batches b of a file with header h, n of them synced, are pieces
\* of the log l cut at cut. A file that does not start with the first record
\* has its first batch on stable storage. If names become durable with files,
\* so are the d promised records.
Laid(h, n, b, l, d, cut) ==
  /\ Pieces(b, Valid(b), l, cut)
  /\ cut[0] > 0 =>
       h = "whole" /\ n > 0 /\ Valid(b) > 0 /\ GoodStart(l, cut[0] + 1)
  /\ NameWithFile =>
       d <= cut[SmallerOf(n, Valid(b))] /\ (h # "whole" => d = 0)

\* They end with the e-th record.
LaidTo(h, n, b, l, d, e) ==
  \E cut : Laid(h, n, b, l, d, cut) /\ cut[Valid(b)] = e

LEMMA CutsGrow ==
  ASSUME NEW b, NEW k \in Nat, NEW l, NEW cut, Pieces(b, k, l, cut),
         NEW i \in Nat, NEW j \in Nat, i <= j, j <= k
  PROVE  cut[i] \in Nat /\ cut[j] \in Nat /\ cut[i] <= cut[j]
<1>1. cut[i] \in Nat /\ cut[j] \in Nat
  BY DEF Pieces
<1>2. CASE i = j
  BY <1>1, <1>2
<1>3. CASE i # j
  <2>1. i \in 0..k /\ j \in 0..k /\ i < j
    BY <1>3
  <2>2. cut[i] < cut[j]
    BY <2>1 DEF Pieces
  <2> QED
    BY <1>1, <2>2
<1> QED
  BY <1>2, <1>3

\* A scan finds the log from its s-th to its e-th record.
ReadsAs(b, l, s, e) ==
  /\ s \in Nat \ {0} /\ e \in Nat /\ e <= Len(l)
  /\ s <= e \/ (s = 1 /\ e = 0)
  /\ GoodStart(l, s)
  /\ Readable(b) = SubSeq(l, s, e)

LEMMA ReadablePieces ==
  ASSUME NEW b, IsSeq(b), NEW l, IsSeq(l), NEW cut, Pieces(b, Valid(b), l, cut)
  PROVE  Readable(b) = SubSeq(l, cut[0] + 1, cut[Valid(b)])
<1> DEFINE v == Valid(b)
           c == SubSeq(b, 1, v)
<1>1. v \in Nat
  BY ValidFacts
<1>2. IsSeq(c) /\ Len(c) = v /\ \A i \in 1..v : c[i] = b[i]
  <2>1. /\ IsSeq(c)
        /\ Len(c) = IF 1 <= v THEN v - 1 + 1 ELSE 0
        /\ \A i \in 1..(v - 1 + 1) : c[i] = b[1 + i - 1]
    BY <1>1, SubSeqFacts
  <2> HIDE DEF v, c
  <2> QED
    BY <1>1, <2>1
<1>3. Readable(b) = Flatten(c)
  BY DEF Readable
<1>4. Pieces(c, v, l, cut)
  <2> HIDE DEF c
  <2> QED
    BY <1>2 DEF Pieces
<1>5. Flatten(c) = SubSeq(l, cut[0] + 1, cut[Len(c)])
  <2>1. Pieces(c, Len(c), l, cut)
    BY <1>2, <1>4
  <2> HIDE DEF c
  <2> QED
    BY <1>2, <2>1, FlattenPieces
<1> HIDE DEF c
<1> QED
  BY <1>2, <1>3, <1>5

LEMMA LaidReads ==
  ASSUME NEW h, NEW n, NEW b, IsSeq(b), NEW l, IsSeq(l), NEW d, NEW e,
         LaidTo(h, n, b, l, d, e)
  PROVE  \E s : ReadsAs(b, l, s, e)
<1>1. PICK cut : Laid(h, n, b, l, d, cut) /\ cut[Valid(b)] = e
  BY DEF LaidTo
<1>2. Pieces(b, Valid(b), l, cut)
  BY <1>1 DEF Laid
<1>3. Valid(b) \in Nat
  BY ValidFacts
<1>4. cut[0] \in Nat /\ e \in Nat /\ cut[0] <= e
  BY <1>1, <1>2, <1>3, CutsGrow
<1>5. e <= Len(l)
  BY <1>1, <1>2 DEF Pieces
<1>6. cut[0] + 1 <= e \/ (cut[0] + 1 = 1 /\ e = 0)
  <2>1. CASE Valid(b) = 0
    <3>1. ~(cut[0] > 0)
      BY <1>1, <2>1 DEF Laid
    <3> QED
      BY <1>1, <1>4, <2>1, <3>1
  <2>2. CASE Valid(b) # 0
    <3>1. 0 \in 0..Valid(b) /\ Valid(b) \in 0..Valid(b) /\ 0 < Valid(b)
      BY <1>3, <2>2
    <3>2. cut[0] < cut[Valid(b)]
      BY <1>2, <3>1 DEF Pieces
    <3> QED
      BY <1>1, <1>4, <3>2
  <2> QED
    BY <2>1, <2>2
<1>7. GoodStart(l, cut[0] + 1)
  <2>1. CASE cut[0] > 0
    BY <1>1, <2>1 DEF Laid
  <2>2. CASE ~(cut[0] > 0)
    <3>1. cut[0] + 1 = 1
      BY <1>4, <2>2
    <3> QED
      BY <3>1 DEF GoodStart
  <2> QED
    BY <2>1, <2>2
<1>8. Readable(b) = SubSeq(l, cut[0] + 1, e)
  BY <1>1, <1>2, ReadablePieces
<1>9. cut[0] + 1 \in Nat \ {0}
  BY <1>4
<1>10. ReadsAs(b, l, cut[0] + 1, e)
  BY <1>4, <1>5, <1>6, <1>7, <1>8, <1>9 DEF ReadsAs
<1> QED
  BY <1>10

Numbered(l) == IsSeq(l) /\ \A i \in 1..Len(l) : l[i].sequence = i

\* What a scan finds: numbered without gaps, the next number is e + 1, and
\* replay of it comes to what replay of the first e records comes to.
LEMMA ReadFacts ==
  ASSUME NEW b, NEW l, Numbered(l), NEW s, NEW e, ReadsAs(b, l, s, e)
  PROVE  /\ IsSeq(Readable(b))
         /\ Len(Readable(b)) = e - s + 1
         /\ \A i \in 1..(e - s + 1) :
              Readable(b)[i] = l[s + i - 1] /\ Readable(b)[i].sequence = s + i - 1
         /\ Readable(b) = <<>> <=> e = 0
<1> DEFINE r == SubSeq(l, s, e)
<1>1. s \in Nat \ {0} /\ e \in Nat /\ e <= Len(l) /\ (s <= e \/ (s = 1 /\ e = 0))
  BY DEF ReadsAs
<1>2. Len(l) \in Nat
  BY IsSeqFacts DEF Numbered
<1>3. /\ IsSeq(r)
      /\ Len(r) = IF s <= e THEN e - s + 1 ELSE 0
      /\ \A i \in 1..(e - s + 1) : r[i] = l[s + i - 1]
  BY <1>1, SubSeqFacts
<1>4. Readable(b) = r
  BY DEF ReadsAs
<1> HIDE DEF r
<1>5. Len(r) = e - s + 1
  BY <1>1, <1>3
<1>6. \A i \in 1..(e - s + 1) : l[s + i - 1].sequence = s + i - 1
  <2> TAKE i \in 1..(e - s + 1)
  <2>1. s + i - 1 \in 1..Len(l)
    BY <1>1, <1>2
  <2> QED
    BY <2>1 DEF Numbered
<1>7. r = <<>> <=> e = 0
  BY <1>1, <1>3, <1>5, OnlyEmptyIsEmpty
<1> QED
  BY <1>3, <1>4, <1>5, <1>6, <1>7

LEMMA AfterRead ==
  ASSUME NEW b, NEW l, Numbered(l), NEW s, NEW e, ReadsAs(b, l, s, e)
  PROVE  After(Readable(b)) = e + 1
<1> DEFINE r == Readable(b)
<1>1. s \in Nat \ {0} /\ e \in Nat /\ (s <= e \/ (s = 1 /\ e = 0))
  BY DEF ReadsAs
<1>2. /\ Len(r) = e - s + 1
      /\ \A i \in 1..(e - s + 1) : r[i] = l[s + i - 1] /\ r[i].sequence = s + i - 1
      /\ r = <<>> <=> e = 0
  BY ReadFacts
<1> HIDE DEF r
<1>3. CASE e = 0
  <2>1. r = <<>>
    BY <1>2, <1>3
  <2>2. After(r) = 1
    BY <2>1 DEF After
  <2> QED
    BY <1>3, <2>2 DEF r
<1>4. CASE e # 0
  <2>1. Len(r) \in 1..(e - s + 1) /\ s + Len(r) - 1 = e
    BY <1>1, <1>2, <1>4
  <2>2. r[Len(r)].sequence = e
    BY <1>2, <2>1
  <2>3. r # <<>>
    BY <1>2, <1>4
  <2>4. After(r) = e + 1
    BY <2>2, <2>3 DEF After
  <2> QED
    BY <2>4 DEF r
<1> QED
  BY <1>3, <1>4

LEMMA GaplessRead ==
  ASSUME NEW b, NEW l, Numbered(l), NEW s, NEW e, ReadsAs(b, l, s, e)
  PROVE  Gapless(Readable(b))
<1> DEFINE r == Readable(b)
<1>1. s \in Nat \ {0} /\ e \in Nat /\ (s <= e \/ (s = 1 /\ e = 0))
  BY DEF ReadsAs
<1>2. /\ Len(r) = e - s + 1
      /\ \A i \in 1..(e - s + 1) : r[i] = l[s + i - 1] /\ r[i].sequence = s + i - 1
  BY ReadFacts
<1> HIDE DEF r
<1>3. \A i \in 1..(Len(r) - 1) : r[i + 1].sequence = r[i].sequence + 1
  <2> TAKE i \in 1..(Len(r) - 1)
  <2>1. i \in 1..(e - s + 1) /\ i + 1 \in 1..(e - s + 1)
    BY <1>1, <1>2
  <2>2. r[i].sequence = s + i - 1
    BY <1>2, <2>1
  <2>3. r[i + 1].sequence = s + (i + 1) - 1
    BY <1>2, <2>1
  <2> QED
    BY <1>1, <2>2, <2>3
<1>4. Gapless(r)
  BY <1>3 DEF Gapless
<1> QED
  BY <1>4 DEF r

LEMMA ProjectRead ==
  ASSUME NEW b, NEW l, Numbered(l), NEW s, NEW e, ReadsAs(b, l, s, e)
  PROVE  Project(Readable(b)) = Project(SubSeq(l, 1, e))
<1>1. /\ s \in Nat \ {0} /\ e \in Nat /\ (s <= e \/ s = 1) /\ e <= Len(l)
      /\ GoodStart(l, s) /\ Readable(b) = SubSeq(l, s, e) /\ IsSeq(l)
  BY DEF ReadsAs, Numbered
<1>2. CASE s <= e
  BY <1>1, <1>2, ProjectFrom
<1>3. CASE s = 1
  BY <1>1, <1>3
<1> QED
  BY <1>1, <1>2, <1>3

-----------------------------------------------------------------------------
(* How the layout changes *)

LEMMA EmptyLaid ==
  ASSUME NEW h, NEW n \in Nat, NEW l, IsSeq(l), NEW d \in Nat, NameWithFile => d = 0
  PROVE  LaidTo(h, n, <<>>, l, d, 0)
<1> DEFINE cut == [i \in Nat |-> 0]
<1>1. Valid(<<>>) = 0
  <2>1. PassesTo(<<>>, 0)
    BY EmptyIsSeq DEF PassesTo
  <2> QED
    BY <2>1, EmptyIsSeq, ValidIs
<1>2. Len(l) \in Nat
  BY IsSeqFacts
<1>3. cut \in [Nat -> Nat] /\ \A i \in Nat : cut[i] = 0
  OBVIOUS
<1> HIDE DEF cut
<1>4. Pieces(<<>>, 0, l, cut)
  BY <1>2, <1>3 DEF Pieces
<1>5. SmallerOf(n, 0) = 0
  BY DEF SmallerOf
<1>6. Laid(h, n, <<>>, l, d, cut)
  BY <1>1, <1>3, <1>4, <1>5 DEF Laid
<1> QED
  BY <1>1, <1>3, <1>6 DEF LaidTo

LEMMA LaidEmpty ==
  ASSUME NEW h, NEW n, NEW l, NEW d, NEW e, LaidTo(h, n, <<>>, l, d, e)
  PROVE  e = 0
<1>1. Valid(<<>>) = 0
  <2>1. PassesTo(<<>>, 0)
    BY EmptyIsSeq DEF PassesTo
  <2> QED
    BY <2>1, EmptyIsSeq, ValidIs
<1>2. PICK cut : Laid(h, n, <<>>, l, d, cut) /\ cut[0] = e
  BY <1>1 DEF LaidTo
<1>3. ~(cut[0] > 0)
  BY <1>1, <1>2 DEF Laid
<1>4. cut[0] \in Nat
  BY <1>2 DEF Laid, Pieces
<1> QED
  BY <1>2, <1>3, <1>4

LEMMA LaidFacts ==
  ASSUME NEW h, NEW n \in Nat, NEW b, IsSeq(b), NEW l, NEW d \in Nat, NEW e,
         LaidTo(h, n, b, l, d, e)
  PROVE  /\ e \in Nat
         /\ e <= Len(l)
         /\ NameWithFile => d <= e /\ (h # "whole" => d = 0)
<1>1. PICK cut : Laid(h, n, b, l, d, cut) /\ cut[Valid(b)] = e
  BY DEF LaidTo
<1>2. Pieces(b, Valid(b), l, cut) /\ Valid(b) \in Nat
  BY <1>1, ValidFacts DEF Laid
<1>3. e \in Nat /\ e <= Len(l)
  BY <1>1, <1>2 DEF Pieces
<1> DEFINE m == SmallerOf(n, Valid(b))
<1>4. m \in Nat /\ m <= Valid(b)
  BY <1>2 DEF SmallerOf
<1>5. NameWithFile => d <= cut[m] /\ (h # "whole" => d = 0)
  BY <1>1 DEF Laid
<1> HIDE DEF m
<1>6. cut[m] \in Nat /\ cut[m] <= e
  <2>1. cut[m] \in Nat /\ cut[m] <= cut[Valid(b)]
    BY <1>2, <1>4, CutsGrow
  <2> QED
    BY <1>1, <2>1
<1> QED
  BY <1>3, <1>5, <1>6

\* The layout only depends on the records up to the last one.
LEMMA LaidMoves ==
  ASSUME NEW h, NEW n, NEW b, IsSeq(b), NEW l, IsSeq(l), NEW d, NEW e,
         LaidTo(h, n, b, l, d, e),
         NEW t, IsSeq(t), e <= Len(t), \A i \in 1..e : l[i] = t[i]
  PROVE  LaidTo(h, n, b, t, d, e)
<1>1. PICK cut : Laid(h, n, b, l, d, cut) /\ cut[Valid(b)] = e
  BY DEF LaidTo
<1> DEFINE v == Valid(b)
<1>2. Pieces(b, v, l, cut) /\ v \in Nat
  BY <1>1, ValidFacts DEF Laid
<1>3. cut \in [Nat -> Nat] /\ e \in Nat
  BY <1>1, <1>2 DEF Pieces
<1>4. \A i \in 1..v : SubSeq(l, cut[i - 1] + 1, cut[i]) = SubSeq(t, cut[i - 1] + 1, cut[i])
  <2> TAKE i \in 1..v
  <2>1. i \in Nat /\ i <= v /\ v <= v /\ i - 1 \in Nat
    BY <1>2
  <2>2. cut[i] \in Nat /\ cut[i] <= e
    <3> HIDE DEF v
    <3>1. cut[i] \in Nat /\ cut[i] <= cut[v]
      BY <1>2, <2>1, CutsGrow
    <3> QED
      BY <1>1, <3>1 DEF v
  <2>3. \A j \in 1..cut[i] : l[j] = t[j]
    BY <1>3, <2>2
  <2>4. cut[i - 1] \in Nat
    BY <1>3, <2>1
  <2>5. cut[i - 1] + 1 \in Nat \ {0}
    BY <2>4
  <2> QED
    BY <2>2, <2>3, <2>5, SubSeqOfPrefix
<1>5. Pieces(b, v, t, cut)
  <2>1. cut[v] <= Len(t)
    BY <1>1
  <2> HIDE DEF v
  <2> QED
    BY <1>2, <1>4, <2>1 DEF Pieces
<1>6. ASSUME cut[0] > 0
      PROVE  h = "whole" /\ n > 0 /\ v > 0 /\ GoodStart(t, cut[0] + 1)
  <2> DEFINE s == cut[0] + 1
  <2>1. h = "whole" /\ n > 0 /\ v > 0 /\ GoodStart(l, s)
    BY <1>1, <1>6 DEF Laid
  <2>2. cut[0] \in Nat
    BY <1>3
  <2>3. cut[0] < e
    <3>1. 0 \in 0..v /\ v \in 0..v /\ 0 < v
      BY <1>2, <2>1
    <3> QED
      BY <1>1, <1>2, <3>1 DEF Pieces
  <2>4. s \in 1..e /\ s \in Nat
    <3>1. e \in Nat
      BY <1>3
    <3> QED
      BY <2>2, <2>3, <3>1
  <2> HIDE DEF s, v
  <2>5. l[s] = t[s]
    BY <2>4
  <2>6. \A j \in 1..s : l[j] = t[j]
    BY <1>3, <2>4
  <2>7. SubSeq(l, 1, s) = SubSeq(t, 1, s)
    <3>1. 1 \in Nat \ {0}
      OBVIOUS
    <3> QED
      BY <2>4, <2>6, <3>1, SubSeqOfPrefix
  <2>8. GoodStart(t, s)
    BY <2>1, <2>5, <2>7 DEF GoodStart
  <2> QED
    BY <2>1, <2>8 DEF s
<1>7. NameWithFile => d <= cut[SmallerOf(n, v)] /\ (h # "whole" => d = 0)
  BY <1>1 DEF Laid
<1>8. Laid(h, n, b, t, d, cut)
  BY <1>5, <1>6, <1>7 DEF Laid
<1> QED
  BY <1>1, <1>8 DEF LaidTo

\* A promise of names that are not durable binds no file.
LEMMA LaidUnpromised ==
  ASSUME NEW h, NEW n, NEW b, NEW l, NEW d, NEW e, LaidTo(h, n, b, l, d, e),
         ~NameWithFile, NEW p
  PROVE  LaidTo(h, n, b, l, p, e)
<1>1. PICK cut : Laid(h, n, b, l, d, cut) /\ cut[Valid(b)] = e
  BY DEF LaidTo
<1>2. Laid(h, n, b, l, p, cut)
  BY <1>1 DEF Laid
<1> QED
  BY <1>1, <1>2 DEF LaidTo

LEMMA ValidAppended ==
  ASSUME NEW b, IsSeq(b), Valid(b) = Len(b), NEW x
  PROVE  Valid(Append(b, x)) = IF x = Damaged THEN Len(b) ELSE Len(b) + 1
<1> DEFINE c == Append(b, x)
<1>1. /\ IsSeq(c) /\ Len(c) = Len(b) + 1
      /\ \A i \in 1..Len(b) : c[i] = b[i]
      /\ c[Len(b) + 1] = x
  BY AppendFacts
<1>2. Len(b) \in Nat
  BY IsSeqFacts
<1>3. \A i \in 1..Len(b) : b[i] # Damaged
  BY ValidFacts DEF PassesTo
<1> HIDE DEF c
<1>4. \A i \in 1..Len(b) : c[i] # Damaged
  BY <1>1, <1>3
<1>5. CASE x = Damaged
  <2>1. PassesTo(c, Len(b))
    BY <1>1, <1>2, <1>4, <1>5 DEF PassesTo
  <2>2. Valid(c) = Len(b)
    BY <1>1, <2>1, ValidIs
  <2> QED
    BY <1>5, <2>2 DEF c
<1>6. CASE x # Damaged
  <2>1. \A i \in 1..(Len(b) + 1) : i \in 1..Len(b) \/ i = Len(b) + 1
    BY <1>2
  <2>2. \A i \in 1..(Len(b) + 1) : c[i] # Damaged
    BY <1>1, <1>4, <1>6, <2>1
  <2>3. PassesTo(c, Len(b) + 1)
    BY <1>1, <1>2, <2>2 DEF PassesTo
  <2>4. Valid(c) = Len(b) + 1
    BY <1>1, <2>3, ValidIs
  <2> QED
    BY <1>6, <2>4 DEF c
<1> QED
  BY <1>5, <1>6

\* A batch cut short does not change what can be read.
LEMMA LaidTorn ==
  ASSUME NEW h, NEW n \in Nat, NEW b, IsSeq(b), Valid(b) = Len(b), n <= Len(b),
         NEW l, NEW d, NEW e, LaidTo(h, n, b, l, d, e)
  PROVE  LaidTo(h, n, Append(b, Damaged), l, d, e)
<1> DEFINE c == Append(b, Damaged)
<1>1. PICK cut : Laid(h, n, b, l, d, cut) /\ cut[Valid(b)] = e
  BY DEF LaidTo
<1>2. Valid(c) = Valid(b)
  BY ValidAppended
<1>3. \A i \in 1..Len(b) : c[i] = b[i]
  BY AppendFacts
<1> HIDE DEF c
<1>4. Pieces(c, Valid(c), l, cut)
  <2>1. Pieces(b, Valid(b), l, cut)
    BY <1>1 DEF Laid
  <2> QED
    BY <1>2, <1>3, <2>1 DEF Pieces
<1>5. Laid(h, n, c, l, d, cut)
  BY <1>1, <1>2, <1>4 DEF Laid
<1>6. LaidTo(h, n, c, l, d, e)
  BY <1>1, <1>2, <1>5 DEF LaidTo
<1> QED
  BY <1>6 DEF c

\* A scan reads the records of the batch x after those of the batches b.
ReadBehind(b, x) == Readable(Append(b, x)) = Readable(b) \o x

\* A whole batch continues it with the next records.
LEMMA LaidNext ==
  ASSUME NEW h, NEW n \in Nat, NEW b, IsSeq(b), Valid(b) = Len(b), n <= Len(b),
         NEW l, IsSeq(l), NEW d, NEW e, LaidTo(h, n, b, l, d, e),
         NEW z \in Nat, e < z, z <= Len(l),
         NEW a, a = e + 1, NEW x, x = SubSeq(l, a, z), x # Damaged
  PROVE  /\ LaidTo(h, n, Append(b, x), l, d, z)
         /\ ReadBehind(b, x)
<1> DEFINE c == Append(b, x)
           k == Len(b)
<1>1. PICK cut : Laid(h, n, b, l, d, cut) /\ cut[Valid(b)] = e
  BY DEF LaidTo
<1>2. Valid(c) = k + 1
  BY ValidAppended
<1>3. (\A i \in 1..k : c[i] = b[i]) /\ c[k + 1] = x
  BY ONLY IsSeq(b), AppendFacts
<1>4. k \in Nat
  BY IsSeqFacts
<1>5. Pieces(b, k, l, cut)
  BY <1>1 DEF Laid
<1>6. cut \in [Nat -> Nat] /\ cut[k] = e
  BY <1>1, <1>5 DEF Pieces
<1> DEFINE new == [cut EXCEPT ![k + 1] = z]
<1> HIDE DEF c, k
<1>7. new \in [Nat -> Nat] /\ new[k + 1] = z /\ \A i \in 0..k : new[i] = cut[i]
  <2>1. k + 1 \in Nat /\ DOMAIN cut = Nat
    BY <1>4, <1>6
  <2>2. new \in [Nat -> Nat]
    BY <1>6
  <2>3. new[k + 1] = z
    BY <2>1
  <2>4. \A i \in 0..k : i \in Nat /\ i # k + 1
    BY <1>4
  <2>5. \A i \in Nat : i # k + 1 => new[i] = cut[i]
    BY <2>1
  <2> QED
    BY <2>2, <2>3, <2>4, <2>5
<1> HIDE DEF new
<1>8. Pieces(c, k + 1, l, new)
  <2>1. \A i, j \in 0..(k + 1) : i < j => new[i] < new[j]
    <3> TAKE i, j \in 0..(k + 1)
    <3> HAVE i < j
    <3>1. i \in 0..k /\ (j \in 0..k \/ j = k + 1)
      BY <1>4
    <3>2. CASE j \in 0..k
      BY <1>5, <1>7, <3>1, <3>2 DEF Pieces
    <3>3. CASE j = k + 1
      <4>1. i \in Nat /\ i <= k /\ k <= k
        BY <1>4, <3>1
      <4>2. cut[i] \in Nat /\ cut[k] \in Nat /\ cut[i] <= cut[k]
        BY <1>4, <1>5, <4>1, CutsGrow
      <4>3. cut[i] < z
        <5>1. e \in Nat /\ cut[i] <= e
          BY <1>6, <4>2
        <5> QED
          BY <4>2, <5>1
      <4>4. new[i] = cut[i] /\ new[j] = z
        BY <1>7, <3>1, <3>3
      <4> QED
        BY <4>3, <4>4
    <3> QED
      BY <3>1, <3>2, <3>3
  <2>2. \A i \in 1..(k + 1) : c[i] = SubSeq(l, new[i - 1] + 1, new[i])
    <3> TAKE i \in 1..(k + 1)
    <3>1. CASE i = k + 1
      <4>1. new[i - 1] = e /\ new[i] = z
        BY <1>4, <1>6, <1>7, <3>1
      <4> QED
        BY <1>3, <3>1, <4>1
    <3>2. CASE i # k + 1
      <4>1. i \in 1..k /\ i \in 0..k /\ i - 1 \in 0..k
        BY <1>4, <3>2
      <4>2. new[i - 1] = cut[i - 1] /\ new[i] = cut[i]
        BY <1>7, <4>1
      <4> QED
        BY <1>3, <1>5, <4>1, <4>2 DEF Pieces
    <3> QED
      BY <3>1, <3>2
  <2>3. new[k + 1] <= Len(l)
    BY <1>7
  <2> QED
    BY <1>7, <2>1, <2>2, <2>3 DEF Pieces
<1>9. new[0] = cut[0]
  BY <1>4, <1>7
<1>10. Valid(b) = k
  BY DEF k
<1>11. ASSUME new[0] > 0
       PROVE  h = "whole" /\ n > 0 /\ Valid(c) > 0 /\ GoodStart(l, new[0] + 1)
  BY <1>1, <1>2, <1>4, <1>9, <1>11 DEF Laid
<1>12. ASSUME NameWithFile
       PROVE  d <= new[SmallerOf(n, Valid(c))] /\ (h # "whole" => d = 0)
  <2>1. d <= cut[SmallerOf(n, k)] /\ (h # "whole" => d = 0)
    BY <1>1, <1>10, <1>12 DEF Laid
  <2>2. SmallerOf(n, k) = n /\ SmallerOf(n, k + 1) = n /\ n \in 0..k
    BY <1>4 DEF SmallerOf, k
  <2>3. new[n] = cut[n]
    BY <1>7, <2>2
  <2> QED
    BY <1>2, <2>1, <2>2, <2>3
<1>13. Laid(h, n, c, l, d, new)
  BY <1>2, <1>8, <1>11, <1>12 DEF Laid
<1>14. LaidTo(h, n, c, l, d, z)
  BY <1>2, <1>7, <1>13 DEF LaidTo
<1>15. Readable(c) = Readable(b) \o x
  <2>1. IsSeq(c)
    BY AppendFacts DEF c
  <2>2. Readable(c) = SubSeq(l, cut[0] + 1, z)
    BY <1>2, <1>7, <1>8, <1>9, <2>1, ReadablePieces
  <2>3. Readable(b) = SubSeq(l, cut[0] + 1, e)
    BY <1>5, <1>6, <1>10, ReadablePieces
  <2>4. cut[0] \in Nat /\ e \in Nat /\ cut[0] <= e /\ e <= z
    <3>1. 0 \in Nat /\ 0 <= k /\ k <= k
      BY <1>4
    <3>2. cut[0] \in Nat /\ cut[k] \in Nat /\ cut[0] <= cut[k]
      BY <1>4, <1>5, <3>1, CutsGrow
    <3> QED
      BY <1>6, <3>2
  <2>5. SubSeq(l, cut[0] + 1, e) \o SubSeq(l, e + 1, z) = SubSeq(l, cut[0] + 1, z)
    BY <2>4, AdjacentSubSeqs
  <2> QED
    BY <2>2, <2>3, <2>5
<1> QED
  BY <1>14, <1>15 DEF c, ReadBehind

\* All that is written can be promised once it is synced.
LEMMA LaidSynced ==
  ASSUME NEW h, NEW n \in Nat, NEW b, IsSeq(b), Valid(b) = Len(b), n <= Len(b),
         NEW l, NEW d, NEW e, LaidTo(h, n, b, l, d, e)
  PROVE  LaidTo("whole", Len(b), b, l, e, e)
<1>1. PICK cut : Laid(h, n, b, l, d, cut) /\ cut[Valid(b)] = e
  BY DEF LaidTo
<1>2. Len(b) \in Nat
  BY IsSeqFacts
<1>3. SmallerOf(Len(b), Valid(b)) = Valid(b)
  BY <1>2 DEF SmallerOf
<1>4. Pieces(b, Valid(b), l, cut) /\ e \in Nat
  BY <1>1, <1>2 DEF Laid, Pieces
<1>5. cut[0] > 0 => Valid(b) > 0 /\ Len(b) > 0 /\ GoodStart(l, cut[0] + 1)
  BY <1>1 DEF Laid
<1>6. e <= cut[SmallerOf(Len(b), Valid(b))]
  BY <1>1, <1>3, <1>4
<1>7. Laid("whole", Len(b), b, l, e, cut)
  BY <1>4, <1>5, <1>6 DEF Laid
<1> QED
  BY <1>1, <1>7 DEF LaidTo

LEMMA OneBatch ==
  ASSUME NEW x, x # Damaged
  PROVE  IsSeq(<<x>>) /\ Len(<<x>>) = 1 /\ <<x>>[1] = x /\ Valid(<<x>>) = 1
<1>1. Len(<<x>>) = 1 /\ <<x>>[1] = x
  OBVIOUS
<1>2. IsSeq(<<x>>)
  <2>1. <<x>> \in Seq({x})
    OBVIOUS
  <2> QED
    BY <2>1, SeqIsSeq
<1>3. PassesTo(<<x>>, 1)
  BY <1>1 DEF PassesTo
<1> QED
  BY <1>1, <1>2, <1>3, ValidIs

\* A replacement file holds the log from a good start on.
LEMMA LaidReplacement ==
  ASSUME NEW l, IsSeq(l), NEW s \in Nat \ {0}, s <= Len(l), GoodStart(l, s),
         NEW d \in Nat, NameWithFile => d <= Len(l),
         NEW x, x = SubSeq(l, s, Len(l)), x # Damaged
  PROVE  LaidTo("whole", 1, <<x>>, l, d, Len(l)) /\ Readable(<<x>>) = x
<1> DEFINE cut == [i \in Nat |-> IF i = 0 THEN s - 1 ELSE Len(l)]
<1>1. Len(l) \in Nat
  BY IsSeqFacts
<1>2. cut \in [Nat -> Nat] /\ cut[0] = s - 1 /\ cut[1] = Len(l)
  BY <1>1
<1> HIDE DEF cut
<1>3. <<x>>[1] = x /\ Valid(<<x>>) = 1
  BY OneBatch
<1>4. s - 1 < Len(l) /\ (s - 1) + 1 = s
  BY <1>1
<1>5. Pieces(<<x>>, 1, l, cut)
  <2>1. \A i, j \in 0..1 : i < j => i = 0 /\ j = 1
    OBVIOUS
  <2>2. \A i, j \in 0..1 : i < j => cut[i] < cut[j]
    BY <1>2, <1>4, <2>1
  <2>3. \A i \in 1..1 : i = 1 /\ i - 1 = 0
    OBVIOUS
  <2>4. x = SubSeq(l, cut[0] + 1, cut[1])
    BY <1>2, <1>4
  <2>5. \A i \in 1..1 : <<x>>[i] = SubSeq(l, cut[i - 1] + 1, cut[i])
    BY <1>3, <2>3, <2>4
  <2>6. cut[1] <= Len(l)
    BY <1>1, <1>2
  <2> QED
    BY <1>2, <2>2, <2>5, <2>6 DEF Pieces
<1>6. SmallerOf(1, 1) = 1
  BY DEF SmallerOf
<1>7. GoodStart(l, cut[0] + 1)
  BY <1>2, <1>4
<1>8. NameWithFile => d <= cut[SmallerOf(1, Valid(<<x>>))]
  BY <1>2, <1>3, <1>6
<1>9. Pieces(<<x>>, Valid(<<x>>), l, cut) /\ Valid(<<x>>) > 0
  BY <1>3, <1>5
<1>10. Laid("whole", 1, <<x>>, l, d, cut)
  BY <1>7, <1>8, <1>9 DEF Laid
<1>11. Readable(<<x>>) = x
  <2>1. Readable(<<x>>) = SubSeq(l, cut[0] + 1, cut[Valid(<<x>>)])
    BY <1>9, OneBatch, ReadablePieces
  <2> QED
    BY <1>2, <1>3, <1>4, <2>1
<1> QED
  BY <1>2, <1>3, <1>10, <1>11 DEF LaidTo

\* c is what a power loss left of b, the first n batches of which were synced.
LeftOf(b, n, c) ==
  /\ IsSeq(c)
  /\ n <= Len(c) /\ Len(c) <= Len(b)
  /\ \A i \in 1..Len(c) : c[i] = b[i] \/ (i > n /\ c[i] = Damaged)

LEMMA ValidLeft ==
  ASSUME NEW b, IsSeq(b), NEW n \in Nat, NEW c, LeftOf(b, n, c)
  PROVE  /\ Valid(c) <= Valid(b)
         /\ SmallerOf(n, Valid(b)) <= Valid(c)
         /\ \A i \in 1..Valid(c) : c[i] = b[i]
<1> DEFINE v == Valid(b)
           w == Valid(c)
<1>1. v \in Nat /\ v <= Len(b) /\ PassesTo(b, v) /\ Len(b) \in Nat
  BY ValidFacts, IsSeqFacts
<1>2. w \in Nat /\ w <= Len(c) /\ PassesTo(c, w) /\ Len(c) \in Nat
  BY ValidFacts, IsSeqFacts DEF LeftOf
<1> HIDE DEF v, w
<1>3. n <= Len(c) /\ Len(c) <= Len(b)
  BY DEF LeftOf
<1>4. w <= v
  <2> SUFFICES ASSUME v < w PROVE FALSE
    BY <1>1, <1>2
  <2>1. v + 1 \in 1..w /\ v + 1 \in 1..Len(c) /\ v < Len(b)
    BY <1>1, <1>2, <1>3
  <2>2. c[v + 1] # Damaged
    BY <1>2, <2>1 DEF PassesTo
  <2>3. b[v + 1] = Damaged
    BY <1>1, <2>1 DEF PassesTo
  <2> QED
    BY <2>1, <2>2, <2>3 DEF LeftOf
<1>5. SmallerOf(n, v) <= w
  <2>1. CASE n <= w \/ v <= w
    BY <1>1, <1>2, <2>1 DEF SmallerOf
  <2>2. CASE w < n /\ w < v
    <3>1. w + 1 \in 1..v /\ w + 1 \in 1..Len(c) /\ w < Len(c) /\ ~(w + 1 > n)
      BY <1>1, <1>2, <1>3, <2>2
    <3>2. c[w + 1] = Damaged
      BY <1>2, <3>1 DEF PassesTo
    <3>3. b[w + 1] # Damaged
      BY <1>1, <3>1 DEF PassesTo
    <3> QED
      BY <3>1, <3>2, <3>3 DEF LeftOf
  <2> QED
    BY <1>1, <1>2, <2>1, <2>2
<1>6. \A i \in 1..w : c[i] = b[i]
  <2> TAKE i \in 1..w
  <2>1. i \in 1..Len(c) /\ c[i] # Damaged
    BY <1>2 DEF PassesTo
  <2> QED
    BY <2>1 DEF LeftOf
<1> QED
  BY <1>4, <1>5, <1>6 DEF v, w

LEMMA LaidLeft ==
  ASSUME NEW h, NEW n \in Nat, NEW b, IsSeq(b), NEW l, IsSeq(l), NEW d \in Nat, NEW e,
         LaidTo(h, n, b, l, d, e), NEW c, LeftOf(b, n, c)
  PROVE  \E z \in Nat : /\ LaidTo("whole", Len(c), c, l, d, z)
                        /\ z <= e
                        /\ NameWithFile => d <= z
<1>1. PICK cut : Laid(h, n, b, l, d, cut) /\ cut[Valid(b)] = e
  BY DEF LaidTo
<1> DEFINE v == Valid(b)
           w == Valid(c)
           m == SmallerOf(n, v)
<1>2. v \in Nat /\ w \in Nat /\ w <= Len(c) /\ Len(c) \in Nat
  BY ValidFacts, IsSeqFacts DEF LeftOf
<1>3. w <= v /\ m <= w /\ \A i \in 1..w : c[i] = b[i]
  BY ValidLeft
<1>4. m \in Nat
  BY <1>2 DEF SmallerOf
<1>5. Pieces(b, v, l, cut) /\ cut[v] = e
  BY <1>1 DEF Laid
<1>6. cut[0] > 0 => h = "whole" /\ n > 0 /\ v > 0 /\ GoodStart(l, cut[0] + 1)
  BY <1>1 DEF Laid
<1>7. NameWithFile => d <= cut[m]
  BY <1>1 DEF Laid
<1>8. v > 0 /\ n > 0 => m > 0
  BY <1>2 DEF SmallerOf
<1>9. SmallerOf(Len(c), w) = w
  BY <1>2 DEF SmallerOf
<1>10. n <= Len(c)
  BY DEF LeftOf
<1> HIDE DEF v, w, m
<1>11. cut[m] \in Nat /\ cut[w] \in Nat /\ cut[m] <= cut[w]
  BY <1>2, <1>3, <1>4, <1>5, CutsGrow
<1>12. cut[w] <= e /\ e \in Nat
  <2>1. cut[w] \in Nat /\ cut[v] \in Nat /\ cut[w] <= cut[v]
    <3>1. v <= v
      BY <1>2
    <3> QED
      BY <1>2, <1>3, <1>5, <3>1, CutsGrow
  <2> QED
    BY <1>5, <2>1
<1>13. Pieces(c, w, l, cut)
  <2>1. cut[w] <= Len(l)
    <3>1. Len(l) \in Nat /\ e <= Len(l)
      BY <1>5, IsSeqFacts DEF Pieces
    <3> QED
      BY <1>11, <1>12, <3>1
  <2>2. \A i \in 0..w : i \in 0..v
    BY <1>2, <1>3
  <2>3. \A i \in 1..w : i \in 1..v
    BY <1>2, <1>3
  <2> QED
    BY <1>3, <1>5, <2>1, <2>2, <2>3 DEF Pieces
<1>14. cut[0] > 0 => Len(c) > 0 /\ w > 0 /\ GoodStart(l, cut[0] + 1)
  BY <1>2, <1>3, <1>4, <1>6, <1>8, <1>10
<1>15. NameWithFile => d <= cut[w]
  BY <1>7, <1>11
<1>16. Laid("whole", Len(c), c, l, d, cut)
  BY <1>9, <1>13, <1>14, <1>15 DEF Laid, w
<1>17. LaidTo("whole", Len(c), c, l, d, cut[w])
  BY <1>16 DEF LaidTo, w
<1> QED
  BY <1>11, <1>12, <1>15, <1>17

\* A power loss corrupts the middle of a file only if two batches were not
\* synced.
LEMMA CorruptionLeft ==
  ASSUME NEW b, IsSeq(b), NEW n \in Nat, NEW c, LeftOf(b, n, c), MidFileCorruption(c)
  PROVE  MidFileCorruption(b) \/ Len(b) - n > 1
<1> DEFINE v == Valid(b)
           w == Valid(c)
<1>1. v \in Nat /\ v <= Len(b) /\ PassesTo(b, v) /\ Len(b) \in Nat
  BY ValidFacts, IsSeqFacts
<1>2. w \in Nat /\ w <= Len(c) /\ PassesTo(c, w) /\ Len(c) \in Nat
  BY ValidFacts, IsSeqFacts DEF LeftOf
<1>3. n <= Len(c) /\ Len(c) <= Len(b)
  BY DEF LeftOf
<1>4. PICK j \in (w + 1)..Len(c) : c[j] # Damaged
  BY DEF MidFileCorruption
<1>5. w <= v
  BY ValidLeft
<1> HIDE DEF w
<1>6. w < Len(c) /\ w + 1 \in 1..Len(c) /\ j \in 1..Len(c) /\ j \in Nat /\ w + 1 <= j
  BY <1>2, <1>4
<1>7. c[w + 1] = Damaged
  BY <1>2, <1>6 DEF PassesTo
<1>8. w + 1 < j
  <2>1. w + 1 # j
    BY <1>4, <1>7
  <2> QED
    BY <1>2, <1>6, <2>1
<1>9. b[j] # Damaged
  BY <1>4, <1>6 DEF LeftOf
<1>10. CASE w + 1 > n
  BY <1>1, <1>2, <1>3, <1>6, <1>8, <1>10
<1>11. CASE ~(w + 1 > n)
  <2>1. b[w + 1] = Damaged
    BY <1>6, <1>7, <1>11 DEF LeftOf
  <2>2. ~(w + 1 \in 1..v)
    BY <1>1, <2>1 DEF PassesTo
  <2>3. j \in (v + 1)..Len(b)
    <3> HIDE DEF v
    <3> QED
      BY <1>1, <1>2, <1>3, <1>5, <1>6, <1>8, <2>2
  <2>4. MidFileCorruption(b)
    BY <1>9, <2>3 DEF MidFileCorruption
  <2> QED
    BY <2>4
<1> QED
  BY <1>10, <1>11

LEMMA TornIsTail ==
  ASSUME NEW b, IsSeq(b), Valid(b) = Len(b), NEW x
  PROVE  ~MidFileCorruption(Append(b, x))
<1>1. Len(Append(b, x)) = Len(b) + 1 /\ Append(b, x)[Len(b) + 1] = x
  BY AppendFacts
<1>2. Len(b) \in Nat
  BY IsSeqFacts
<1>3. Valid(Append(b, x)) = IF x = Damaged THEN Len(b) ELSE Len(b) + 1
  BY ValidAppended
<1>4. CASE x = Damaged
  <2>1. \A i \in (Len(b) + 1)..(Len(b) + 1) : i = Len(b) + 1
    BY <1>2
  <2> QED
    BY <1>1, <1>3, <1>4, <2>1 DEF MidFileCorruption
<1>5. CASE x # Damaged
  <2>1. ~\E i \in ((Len(b) + 1) + 1)..(Len(b) + 1) : TRUE
    BY <1>2
  <2> QED
    BY <1>1, <1>3, <1>5, <2>1 DEF MidFileCorruption
<1> QED
  BY <1>4, <1>5

LEMMA NoneIsMid ==
  ASSUME NEW b, IsSeq(b), Valid(b) = Len(b)
  PROVE  ~MidFileCorruption(b)
<1>1. Len(b) \in Nat
  BY IsSeqFacts
<1>2. ~\E i \in (Len(b) + 1)..Len(b) : TRUE
  BY <1>1
<1> QED
  BY <1>2 DEF MidFileCorruption

-----------------------------------------------------------------------------
(* The invariant *)

FileOf(h, g, b, n) == [header |-> h, generation |-> g, batches |-> b, synced |-> n]

IsFile(f) ==
  /\ f = FileOf(f.header, f.generation, f.batches, f.synced)
  /\ f.header \in {"absent", "torn", "written", "whole"}
  /\ f.generation \in Nat \ {0}
  /\ IsSeq(f.batches)
  /\ f.synced \in Nat
  /\ f.synced <= Len(f.batches)
  /\ f.header \in {"absent", "torn"} => f.batches = <<>>

\* The file f is laid out on the log l up to its e-th record, d records are
\* promised, and it is corrupted in the middle only if x batches were exposed.
Sound(f, l, d, x, e) ==
  /\ IsFile(f)
  /\ MidFileCorruption(f.batches) => x > 1
  /\ LaidTo(f.header, f.synced, f.batches, l, d, e)

\* The same of the files a power loss may bring back.
SoundAll(files, l, d, x) == \A f \in files : \E e : Sound(f, l, d, x, e)

Scalars ==
  /\ status \in {"closed", "open", "refused", "recovering", "retaining"}
  /\ nextSequence \in Nat \ {0}
  /\ faulted \in BOOLEAN
  /\ durable \in Nat
  /\ exposed \in Nat
  /\ stops \in 0..MaxStops

\* A store in use has a readable file, and a replacement is flushed.
Holding ==
  /\ status \in {"open", "recovering", "retaining"} => Decodes(file)
  /\ status \in {"recovering", "retaining"} =>
       ~faulted /\ file.synced = Len(file.batches) /\ file.header = "whole"

Inv ==
  /\ Scalars
  /\ Numbered(lineage)
  /\ Sound(file, lineage, durable, exposed, Len(lineage))
  /\ SoundAll(displaced, lineage, durable, exposed)
  /\ MemoryMatchesFile
  /\ Holding
  /\ NameWithFile => RefusesOnlyUnflushed

\* A garbage batch header comes from a power loss that met an unflushed batch.
Garbling ==
  /\ garbled \in BOOLEAN
  /\ garbled => exposed > 0

LEMMA SoundFile ==
  ASSUME NEW h \in {"absent", "torn", "written", "whole"}, NEW g \in Nat \ {0},
         NEW b, IsSeq(b), NEW n \in Nat, n <= Len(b),
         h \in {"absent", "torn"} => b = <<>>,
         NEW l, NEW d, NEW x, MidFileCorruption(b) => x > 1,
         NEW e, LaidTo(h, n, b, l, d, e)
  PROVE  /\ Sound(FileOf(h, g, b, n), l, d, x, e)
         /\ FileOf(h, g, b, n).header = h
         /\ FileOf(h, g, b, n).batches = b
         /\ FileOf(h, g, b, n).synced = n
<1> DEFINE f == FileOf(h, g, b, n)
<1>1. f.header = h /\ f.generation = g /\ f.batches = b /\ f.synced = n
  BY DEF FileOf
<1>2. f = FileOf(f.header, f.generation, f.batches, f.synced)
  BY <1>1
<1> HIDE DEF f
<1>3. IsFile(f)
  BY <1>1, <1>2 DEF IsFile
<1>4. Sound(f, l, d, x, e)
  BY <1>1, <1>3 DEF Sound
<1> QED
  BY <1>1, <1>4 DEF f

LEMMA SoundMoves ==
  ASSUME NEW f, NEW l, IsSeq(l), NEW d, NEW x \in Nat, NEW e, Sound(f, l, d, x, e),
         NEW t, IsSeq(t), e <= Len(t), \A i \in 1..e : l[i] = t[i],
         NEW y \in Nat, x <= y
  PROVE  Sound(f, t, d, y, e)
<1>1. IsFile(f) /\ IsSeq(f.batches) /\ LaidTo(f.header, f.synced, f.batches, l, d, e)
  BY DEF Sound, IsFile
<1>2. LaidTo(f.header, f.synced, f.batches, t, d, e)
  BY <1>1, LaidMoves
<1>3. MidFileCorruption(f.batches) => y > 1
  BY DEF Sound
<1> QED
  BY <1>1, <1>2, <1>3 DEF Sound

LEMMA SoundFacts ==
  ASSUME NEW f, NEW l, NEW d \in Nat, NEW x, NEW e, Sound(f, l, d, x, e)
  PROVE  /\ e \in Nat
         /\ e <= Len(l)
         /\ NameWithFile => d <= e /\ (f.header # "whole" => d = 0)
<1>1. f.synced \in Nat /\ IsSeq(f.batches)
      /\ LaidTo(f.header, f.synced, f.batches, l, d, e)
  BY DEF Sound, IsFile
<1> QED
  BY <1>1, LaidFacts

LEMMA SoundAllGrow ==
  ASSUME NEW files, NEW l, IsSeq(l), NEW d \in Nat, NEW x \in Nat, SoundAll(files, l, d, x),
         NEW t, IsSeq(t), Len(l) <= Len(t), \A i \in 1..Len(l) : l[i] = t[i]
  PROVE  SoundAll(files, t, d, x)
<1> SUFFICES ASSUME NEW f \in files PROVE \E e : Sound(f, t, d, x, e)
  BY DEF SoundAll
<1>1. PICK e : Sound(f, l, d, x, e)
  BY DEF SoundAll
<1>2. e \in Nat /\ e <= Len(l)
  BY <1>1, SoundFacts
<1>3. Len(l) \in Nat /\ Len(t) \in Nat
  BY IsSeqFacts
<1>4. e <= Len(t) /\ \A i \in 1..e : l[i] = t[i]
  BY <1>2, <1>3
<1>5. x <= x
  OBVIOUS
<1>6. Sound(f, t, d, x, e)
  BY <1>1, <1>4, <1>5, SoundMoves
<1> QED
  BY <1>6

LEMMA SoundAllPromised ==
  ASSUME NEW files, NEW l, NEW d, NEW x, SoundAll(files, l, d, x), NEW p
  PROVE  SoundAll(NotDurable(files), l, p, x)
<1>1. CASE NameWithFile
  <2>1. NotDurable(files) = {}
    BY <1>1 DEF NotDurable
  <2> QED
    BY <2>1 DEF SoundAll
<1>2. CASE ~NameWithFile
  <2>1. NotDurable(files) = files
    BY <1>2 DEF NotDurable
  <2>2. ASSUME NEW f \in files PROVE \E e : Sound(f, l, p, x, e)
    <3>1. PICK e : Sound(f, l, d, x, e)
      BY DEF SoundAll
    <3>2. LaidTo(f.header, f.synced, f.batches, l, p, e)
      BY <1>2, <3>1, LaidUnpromised DEF Sound
    <3>3. Sound(f, l, p, x, e)
      BY <3>1, <3>2 DEF Sound
    <3> QED
      BY <3>3
  <2> QED
    BY <2>1, <2>2 DEF SoundAll
<1> QED
  BY <1>1, <1>2

LEMMA SoundAllWith ==
  ASSUME NEW files, NEW l, NEW d, NEW x, SoundAll(files, l, d, x),
         NEW f, NEW e, Sound(f, l, d, x, e)
  PROVE  SoundAll(files \cup {f}, l, d, x)
BY DEF SoundAll

LEMMA InvReads ==
  ASSUME Inv
  PROVE  \E s : ReadsAs(file.batches, lineage, s, Len(lineage))
<1>1. /\ IsSeq(file.batches) /\ IsSeq(lineage)
      /\ LaidTo(file.header, file.synced, file.batches, lineage, durable, Len(lineage))
  BY DEF Inv, Sound, IsFile, Numbered
<1> QED
  BY <1>1, LaidReads

-----------------------------------------------------------------------------
(* Opening *)

LEMMA InitInv == Init => Inv
<1> SUFFICES ASSUME Init PROVE Inv
  OBVIOUS
<1>1. IsSeq(<<>>) /\ Len(<<>>) = 0
  BY EmptyIsSeq
<1>2. Scalars
  <2>1. MaxStops \in Nat
    BY BoundAssumption
  <2>2. stops = 0 /\ durable = 0 /\ exposed = 0 /\ nextSequence = 1
    BY DEF Init
  <2>3. stops \in 0..MaxStops /\ durable \in Nat /\ exposed \in Nat
        /\ nextSequence \in Nat \ {0}
    BY <2>1, <2>2
  <2>4. faulted \in BOOLEAN
    BY DEF Init
  <2>5. status \in {"closed", "open", "refused", "recovering", "retaining"}
    BY DEF Init
  <2> QED
    BY <2>3, <2>4, <2>5 DEF Scalars
<1>3. Numbered(lineage) /\ Len(lineage) = 0
  BY <1>1 DEF Init, Numbered
<1>4. Valid(<<>>) = 0
  <2>1. PassesTo(<<>>, 0)
    BY <1>1 DEF PassesTo
  <2> QED
    BY <1>1, <2>1, ValidIs
<1>5. ~MidFileCorruption(<<>>)
  BY <1>1, <1>4, NoneIsMid
<1>6. LaidTo("absent", 0, <<>>, lineage, durable, 0)
  BY <1>1, EmptyLaid DEF Init
<1>7. Sound(file, lineage, durable, exposed, 0)
  <2>1. file = FileOf("absent", 1, <<>>, 0)
    BY DEF Init, Absent, FileOf
  <2>2. 0 <= Len(<<>>) /\ 1 \in Nat \ {0} /\ 0 \in Nat
    BY <1>1
  <2> QED
    BY <1>1, <1>5, <1>6, <2>1, <2>2, SoundFile
<1>8. SoundAll(displaced, lineage, durable, exposed)
  BY DEF Init, SoundAll
<1>9. MemoryMatchesFile /\ Holding /\ RefusesOnlyUnflushed
  BY DEF Init, MemoryMatchesFile, Holding, RefusesOnlyUnflushed
<1> QED
  BY <1>2, <1>3, <1>7, <1>8, <1>9 DEF Inv

\* A file without a header holds nothing, and neither does the log.
LEMMA AbsentIsEmpty ==
  ASSUME Inv, file.header \in {"absent", "torn"}
  PROVE  /\ file.batches = <<>> /\ file.synced = 0 /\ Len(lineage) = 0
         /\ NameWithFile => durable = 0
<1>1. /\ IsFile(file)
      /\ LaidTo(file.header, file.synced, file.batches, lineage, durable, Len(lineage))
  BY DEF Inv, Sound
<1>2. file.batches = <<>> /\ file.synced \in Nat /\ file.synced <= Len(file.batches)
  BY <1>1 DEF IsFile
<1>3. Len(lineage) = 0
  BY <1>1, <1>2, LaidEmpty
<1>4. Len(file.batches) = 0
  BY <1>2, EmptyIsSeq
<1>5. NameWithFile => durable = 0
  <2>1. durable \in Nat /\ Sound(file, lineage, durable, exposed, Len(lineage))
    BY DEF Inv, Scalars
  <2>2. file.header # "whole"
    OBVIOUS
  <2> QED
    BY <2>1, <2>2, SoundFacts
<1>6. file.synced = 0
  BY <1>2, <1>4
<1> QED
  BY <1>2, <1>3, <1>5, <1>6

\* Another header on it changes nothing else.
LEMMA HeaderWritten ==
  ASSUME Inv, file.header = "absent", NEW h \in {"torn", "written", "whole"}
  PROVE  /\ Sound([file EXCEPT !.header = h], lineage, durable, exposed, Len(lineage))
         /\ [file EXCEPT !.header = h].header = h
         /\ [file EXCEPT !.header = h].batches = <<>>
<1> DEFINE f == [file EXCEPT !.header = h]
<1>1. /\ file.batches = <<>> /\ file.synced = 0 /\ Len(lineage) = 0
      /\ NameWithFile => durable = 0
  BY AbsentIsEmpty
<1>2. file = FileOf(file.header, file.generation, file.batches, file.synced)
      /\ file.generation \in Nat \ {0}
  BY DEF Inv, Sound, IsFile
<1>3. f = FileOf(h, file.generation, <<>>, 0)
  <2>1. file = FileOf("absent", file.generation, <<>>, 0)
    BY <1>1, <1>2
  <2> DEFINE g == file.generation
  <2> HIDE DEF g
  <2>2. [FileOf("absent", g, <<>>, 0) EXCEPT !.header = h] = FileOf(h, g, <<>>, 0)
    BY DEF FileOf
  <2> QED
    BY <2>1, <2>2 DEF g
<1> HIDE DEF f
<1>4. IsSeq(lineage) /\ durable \in Nat
  BY DEF Inv, Numbered, Scalars
<1>5. LaidTo(h, 0, <<>>, lineage, durable, 0)
  BY <1>1, <1>4, EmptyLaid
<1>6. MidFileCorruption(<<>>) => exposed > 1
  BY <1>1 DEF Inv, Sound
<1>7. 0 \in Nat /\ 0 <= Len(<<>>) /\ IsSeq(<<>>)
  BY EmptyIsSeq
<1>8. h \in {"absent", "torn", "written", "whole"}
  OBVIOUS
<1>9. Sound(f, lineage, durable, exposed, 0) /\ f.header = h /\ f.batches = <<>>
  <2> DEFINE g == file.generation
             b == <<>>
  <2>1. g \in Nat \ {0} /\ f = FileOf(h, g, b, 0)
    BY <1>2, <1>3
  <2>2. IsSeq(b) /\ 0 \in Nat /\ 0 <= Len(b) /\ (MidFileCorruption(b) => exposed > 1)
        /\ LaidTo(h, 0, b, lineage, durable, 0)
    BY <1>5, <1>6, <1>7
  <2>3. h \in {"absent", "torn"} => b = <<>>
    OBVIOUS
  <2> HIDE DEF g, b
  <2>4. Sound(f, lineage, durable, exposed, 0) /\ f.header = h /\ f.batches = b
    BY <1>8, <2>1, <2>2, <2>3, SoundFile
  <2> QED
    BY <2>4 DEF b
<1> QED
  BY <1>1, <1>9 DEF f

LEMMA ScalarsNext ==
  ASSUME status' \in {"closed", "open", "refused", "recovering", "retaining"},
         nextSequence' \in Nat \ {0}, faulted' \in BOOLEAN, durable' \in Nat,
         exposed' \in Nat, stops' \in 0..MaxStops
  PROVE  Scalars'
BY DEF Scalars

LEMMA CreateInv ==
  ASSUME Inv, Create
  PROVE  Inv'
<1>1. /\ status = "closed" /\ file.header = "absent" /\ status' = "open"
      /\ file' = [file EXCEPT !.header = "whole"]
      /\ displaced' = NotDurable(displaced \cup {file})
      /\ lineage' = lineage /\ durable' = durable /\ exposed' = exposed /\ stops' = stops
  BY DEF Create, ghost, bounds
<1>2. records' = <<>> /\ nextSequence' = 1 /\ faulted' = FALSE
  BY DEF Create, Load, After
<1>3. /\ Sound(file', lineage, durable, exposed, Len(lineage))
      /\ file'.header = "whole" /\ file'.batches = <<>>
  BY <1>1, HeaderWritten
<1>4. Len(lineage) = 0
  BY <1>1, AbsentIsEmpty
<1>5. Scalars'
  <2>1. durable \in Nat /\ exposed \in Nat /\ stops \in 0..MaxStops
    BY DEF Inv, Scalars
  <2>2. nextSequence' = 1
    BY <1>2
  <2>3. nextSequence' \in Nat \ {0}
    BY <2>2
  <2>4. faulted' \in BOOLEAN
    BY <1>2
  <2> QED
    BY <1>1, <2>1, <2>3, <2>4, ScalarsNext
<1>6. SoundAll(displaced', lineage, durable, exposed)
  <2>1. SoundAll(displaced \cup {file}, lineage, durable, exposed)
    BY SoundAllWith DEF Inv
  <2> QED
    BY <1>1, <2>1, SoundAllPromised
<1>7. MemoryMatchesFile'
  <2>1. Valid(<<>>) = 0 /\ Len(<<>>) = 0
    <3>1. PassesTo(<<>>, 0)
      BY EmptyIsSeq DEF PassesTo
    <3> QED
      BY <3>1, EmptyIsSeq, ValidIs
  <2>2. Readable(<<>>) = <<>>
    <3>1. Numbered(lineage) /\ IsSeq(lineage)
      BY DEF Inv, Numbered
    <3>2. LaidTo(file'.header, file'.synced, <<>>, lineage, durable, 0)
      BY <1>3, <1>4 DEF Sound
    <3>3. PICK s : ReadsAs(<<>>, lineage, s, 0)
      BY <3>1, <3>2, EmptyIsSeq, LaidReads
    <3> QED
      BY <3>1, <3>3, ReadFacts
  <2>3. nextSequence' = Len(lineage') + 1
    BY <1>1, <1>2, <1>4
  <2> QED
    BY <1>2, <1>3, <2>1, <2>2, <2>3 DEF MemoryMatchesFile
<1>8. Holding'
  BY <1>1, <1>3 DEF Holding, Decodes
<1>9. RefusesOnlyUnflushed'
  BY <1>1 DEF RefusesOnlyUnflushed
<1> QED
  BY <1>1, <1>3, <1>5, <1>6, <1>7, <1>8, <1>9 DEF Inv

LEMMA CreateFailsInv ==
  ASSUME Inv, CreateFails
  PROVE  Inv'
<1>1. PICK h \in {"torn", "written"} : file' = [file EXCEPT !.header = h]
  BY DEF CreateFails
<1>2. /\ status = "closed" /\ file.header = "absent" /\ status' = status
      /\ displaced' = displaced \cup {file}
      /\ lineage' = lineage /\ durable' = durable /\ exposed' = exposed /\ stops' = stops
      /\ nextSequence' = nextSequence /\ faulted' = faulted
  BY DEF CreateFails, ghost, bounds, memory
<1>3. Sound(file', lineage, durable, exposed, Len(lineage))
  BY <1>1, <1>2, HeaderWritten
<1>4. Scalars'
  BY <1>2 DEF Inv, Scalars
<1>5. SoundAll(displaced', lineage, durable, exposed)
  BY <1>2, SoundAllWith DEF Inv
<1>6. MemoryMatchesFile' /\ Holding' /\ RefusesOnlyUnflushed'
  BY <1>2 DEF MemoryMatchesFile, Holding, RefusesOnlyUnflushed
<1> QED
  BY <1>2, <1>3, <1>4, <1>5, <1>6 DEF Inv

LEMMA OpenInv ==
  ASSUME Inv, Open
  PROVE  Inv'
<1>1. /\ status' = "open" /\ Decodes(file) /\ Valid(file.batches) = Len(file.batches)
      /\ file' = file /\ displaced' = displaced
      /\ lineage' = lineage /\ durable' = durable /\ exposed' = exposed /\ stops' = stops
  BY DEF Open, disk, ghost, bounds
<1>2. /\ records' = Readable(file.batches)
      /\ nextSequence' = After(Readable(file.batches))
      /\ faulted' = FALSE
  BY DEF Open, Load
<1>3. PICK s : ReadsAs(file.batches, lineage, s, Len(lineage))
  BY InvReads
<1>4. nextSequence' = Len(lineage) + 1
  BY <1>2, <1>3, AfterRead DEF Inv
<1>5. Len(lineage) \in Nat
  BY IsSeqFacts DEF Inv, Numbered
<1>6. nextSequence' \in Nat \ {0}
  BY <1>4, <1>5
<1>7. Scalars'
  BY <1>1, <1>2, <1>6, ScalarsNext DEF Inv, Scalars
<1>8. MemoryMatchesFile'
  BY <1>1, <1>2, <1>4 DEF MemoryMatchesFile
<1>9. Holding' /\ RefusesOnlyUnflushed'
  BY <1>1 DEF Holding, RefusesOnlyUnflushed, Decodes
<1> QED
  BY <1>1, <1>7, <1>8, <1>9 DEF Inv

\* The records of a file have no gap: only corruption makes its scan fail.
LEMMA ScanFails ==
  ASSUME Inv, Garbling, ~Scans
  PROVE  exposed > 1 \/ (exposed = 1 /\ HeaderFailure)
<1>1. PICK s : ReadsAs(file.batches, lineage, s, Len(lineage))
  BY InvReads
<1>2. Gapless(Readable(file.batches))
  BY <1>1, GaplessRead DEF Inv
<1>3. HeaderFailure \/ MidFileCorruption(file.batches)
  BY <1>2 DEF Scans
<1>4. exposed \in Nat
  BY DEF Inv, Scalars
<1>5. CASE HeaderFailure
  <2>1. exposed > 0
    BY <1>5 DEF Garbling, HeaderFailure
  <2> QED
    BY <1>4, <1>5, <2>1
<1>6. CASE MidFileCorruption(file.batches)
  BY <1>6 DEF Inv, Sound
<1> QED
  BY <1>3, <1>5, <1>6

LEMMA RefuseInv ==
  ASSUME Inv, Garbling, Refuse
  PROVE  Inv'
<1>1. /\ status' = "refused" /\ file' = file /\ displaced' = displaced
      /\ lineage' = lineage /\ durable' = durable /\ exposed' = exposed /\ stops' = stops
      /\ nextSequence' = nextSequence /\ faulted' = faulted
      /\ garbled' = garbled
      /\ file.header = "torn" \/ ~Scans
  BY DEF Refuse, disk, ghost, bounds, memory
<1>2. NameWithFile => durable = 0 \/ exposed > 1 \/ (exposed = 1 /\ HeaderFailure)
  <2>1. CASE file.header = "torn"
    BY <2>1, AbsentIsEmpty
  <2>2. CASE ~Scans
    BY <2>2, ScanFails
  <2> QED
    BY <1>1, <2>1, <2>2
<1>3. Scalars'
  BY <1>1 DEF Inv, Scalars
<1>4. MemoryMatchesFile' /\ Holding'
  BY <1>1 DEF MemoryMatchesFile, Holding
<1>5. NameWithFile => RefusesOnlyUnflushed'
  BY <1>1, <1>2 DEF RefusesOnlyUnflushed, HeaderFailure
<1> QED
  BY <1>1, <1>3, <1>4, <1>5 DEF Inv

-----------------------------------------------------------------------------
(* Replacing the file *)

LEMMA GoodStartGrows ==
  ASSUME NEW l, IsSeq(l), NEW t, IsSeq(t), NEW s \in Nat \ {0}, GoodStart(l, s),
         s = 1 \/ s <= Len(l), \A i \in 1..Len(l) : l[i] = t[i]
  PROVE  GoodStart(t, s)
<1>1. CASE s = 1
  BY <1>1 DEF GoodStart
<1>2. CASE s # 1
  <2>1. Len(l) \in Nat /\ s <= Len(l)
    BY <1>2, IsSeqFacts
  <2>2. l[s] = t[s] /\ \A i \in 1..s : l[i] = t[i]
    BY <2>1
  <2>3. SubSeq(l, 1, s) = SubSeq(t, 1, s)
    <3>1. 1 \in Nat \ {0} /\ s \in Nat
      OBVIOUS
    <3> QED
      BY <2>2, <3>1, SubSeqOfPrefix
  <2> QED
    BY <2>2, <2>3 DEF GoodStart
<1> QED
  BY <1>1, <1>2

\* One more record at the end of the log.
LEMMA NumberedAppend ==
  ASSUME NEW l, Numbered(l), NEW r, r.sequence = Len(l) + 1
  PROVE  /\ Numbered(Append(l, r))
         /\ Len(Append(l, r)) = Len(l) + 1
         /\ \A i \in 1..Len(l) : Append(l, r)[i] = l[i]
<1> DEFINE t == Append(l, r)
<1>1. IsSeq(l) /\ Len(l) \in Nat
  BY IsSeqFacts DEF Numbered
<1>2. /\ IsSeq(t) /\ Len(t) = Len(l) + 1
      /\ \A i \in 1..Len(l) : t[i] = l[i]
      /\ t[Len(l) + 1] = r
  BY <1>1, AppendFacts
<1> HIDE DEF t
<1>3. \A i \in 1..Len(t) : t[i].sequence = i
  <2> TAKE i \in 1..Len(t)
  <2>1. i \in 1..Len(l) \/ i = Len(l) + 1
    BY <1>1, <1>2
  <2>2. CASE i \in 1..Len(l)
    BY <1>2, <2>2 DEF Numbered
  <2>3. CASE i = Len(l) + 1
    BY <1>2, <2>3
  <2> QED
    BY <2>1, <2>2, <2>3
<1>4. Numbered(t)
  BY <1>2, <1>3 DEF Numbered
<1> QED
  BY <1>2, <1>4 DEF t

LEMMA AppendToSub ==
  ASSUME NEW l, IsSeq(l), NEW r, NEW s \in Nat \ {0}, s <= Len(l) + 1
  PROVE  Append(SubSeq(l, s, Len(l)), r) = SubSeq(Append(l, r), s, Len(l) + 1)
<1> DEFINE a == SubSeq(l, s, Len(l))
           t == Append(l, r)
           u == SubSeq(t, s, Len(l) + 1)
           w == Append(a, r)
           m == Len(l)
<1>1. m \in Nat
  BY IsSeqFacts
<1>2. /\ IsSeq(a) /\ Len(a) = IF s <= m THEN m - s + 1 ELSE 0
      /\ \A i \in 1..(m - s + 1) : a[i] = l[s + i - 1]
  BY <1>1, SubSeqFacts
<1>3. (\A i \in 1..m : t[i] = l[i]) /\ t[m + 1] = r
  BY AppendFacts
<1>4. /\ IsSeq(u) /\ Len(u) = IF s <= m + 1 THEN (m + 1) - s + 1 ELSE 0
      /\ \A i \in 1..((m + 1) - s + 1) : u[i] = t[s + i - 1]
  <2>1. m + 1 \in Int /\ s \in Int
    BY <1>1
  <2> HIDE DEF t
  <2> QED
    BY <2>1, SubSeqFacts
<1>5. /\ IsSeq(w) /\ Len(w) = Len(a) + 1
      /\ \A i \in 1..Len(a) : w[i] = a[i]
      /\ w[Len(a) + 1] = r
  <2> HIDE DEF a
  <2> QED
    BY <1>2, AppendFacts
<1>6. s <= m + 1
  OBVIOUS
<1> HIDE DEF a, t, u, w, m
<1>7. Len(a) = m - s + 1 /\ Len(w) = m - s + 2 /\ Len(u) = m - s + 2
  BY <1>1, <1>2, <1>4, <1>5, <1>6
<1>8. \A i \in 1..Len(w) : w[i] = u[i]
  <2> TAKE i \in 1..Len(w)
  <2>1. CASE i = m - s + 2
    <3>1. i = Len(a) + 1 /\ s + i - 1 = m + 1 /\ i \in 1..((m + 1) - s + 1)
      BY <1>1, <1>6, <1>7, <2>1
    <3> QED
      BY <1>3, <1>4, <1>5, <3>1
  <2>2. CASE i # m - s + 2
    <3>1. i \in 1..(m - s + 1) /\ s + i - 1 \in 1..m /\ i \in 1..((m + 1) - s + 1)
      BY <1>1, <1>6, <1>7, <2>2
    <3>2. w[i] = a[i] /\ a[i] = l[s + i - 1]
      BY <1>2, <1>5, <1>7, <3>1
    <3>3. u[i] = t[s + i - 1] /\ t[s + i - 1] = l[s + i - 1]
      BY <1>3, <1>4, <3>1
    <3> QED
      BY <3>2, <3>3
  <2> QED
    BY <2>1, <2>2
<1>9. w = u
  BY <1>4, <1>5, <1>7, <1>8, SameSeq
<1> QED
  BY <1>9 DEF w, u, a, t, m

\* The whole log from a good start and a last record r, in a new file.
LEMMA Replaced ==
  ASSUME Inv, NEW s \in Nat \ {0}, s <= Len(lineage) \/ (s = 1 /\ Len(lineage) = 0),
         GoodStart(lineage, s),
         NEW r, r.sequence = Len(lineage) + 1,
         NEW all, all = Append(SubSeq(lineage, s, Len(lineage)), r),
         NEW g \in Nat \ {0}, Install(all, g),
         lineage' = Append(lineage, r), durable' = durable, exposed' = exposed
  PROVE  /\ Numbered(lineage')
         /\ Len(lineage') = Len(lineage) + 1
         /\ Sound(file', lineage', durable', exposed', Len(lineage'))
         /\ SoundAll(displaced', lineage', durable', exposed')
         /\ Valid(file'.batches) = Len(file'.batches)
         /\ records' = Readable(file'.batches)
         /\ nextSequence' = Len(lineage') + 1
         /\ file'.synced = Len(file'.batches)
         /\ file'.header = "whole"
<1> DEFINE l == lineage
           t == Append(lineage, r)
           m == Len(lineage)
<1>1. /\ Numbered(l) /\ IsSeq(l) /\ m \in Nat /\ durable \in Nat /\ exposed \in Nat
  BY IsSeqFacts DEF Inv, Numbered, Scalars
<1>2. /\ Numbered(t) /\ IsSeq(t)
      /\ Len(t) = m + 1
      /\ \A i \in 1..m : t[i] = l[i]
  BY <1>1, NumberedAppend DEF Numbered
<1>3. s <= m + 1 /\ (s = 1 \/ s <= m)
  BY <1>1
<1>4. all = SubSeq(t, s, Len(t))
  <2>1. all = SubSeq(t, s, m + 1)
    BY <1>1, <1>3, AppendToSub
  <2> QED
    BY <1>2, <2>1
<1> HIDE DEF t, m
<1>5. GoodStart(t, s)
  BY <1>1, <1>2, <1>3, GoodStartGrows DEF m
<1>6. NameWithFile => durable <= Len(t)
  <2>1. Sound(file, l, durable, exposed, m)
    BY DEF Inv, m
  <2>2. NameWithFile => durable <= m
    BY <1>1, <2>1, SoundFacts
  <2> QED
    BY <1>1, <1>2, <2>2
<1>7. all # Damaged /\ s <= Len(t)
  <2>1. IsSeq(all) /\ Len(all) = Len(t) - s + 1 /\ s <= Len(t)
    <3>1. Len(t) \in Int /\ s \in Int /\ s <= Len(t)
      BY <1>1, <1>2, <1>3
    <3> QED
      BY <1>4, <3>1, SubSeqFacts
  <2>2. Len(all) # 0
    BY <1>1, <1>2, <2>1
  <2> QED
    BY <2>1, <2>2, OnlyEmptyIsEmpty DEF Damaged
<1>8. LaidTo("whole", 1, <<all>>, t, durable, Len(t)) /\ Readable(<<all>>) = all
  BY <1>1, <1>2, <1>4, <1>5, <1>6, <1>7, LaidReplacement
<1>9. /\ IsSeq(<<all>>) /\ Len(<<all>>) = 1 /\ Valid(<<all>>) = 1
      /\ ~MidFileCorruption(<<all>>)
  BY <1>7, OneBatch, NoneIsMid
<1>10. /\ file' = FileOf("whole", g, <<all>>, 1)
       /\ displaced' = displaced \cup {file}
       /\ records' = all
       /\ nextSequence' = After(all)
  BY DEF Install, FileOf
<1>11. /\ Sound(file', t, durable, exposed, Len(t))
       /\ file'.header = "whole" /\ file'.batches = <<all>> /\ file'.synced = 1
  <2> DEFINE b == <<all>>
             h == "whole"
             n == 1
             z == Len(t)
  <2>1. /\ IsSeq(b) /\ n \in Nat /\ n <= Len(b) /\ ~MidFileCorruption(b)
        /\ LaidTo(h, n, b, t, durable, z)
        /\ file' = FileOf(h, g, b, n)
    BY <1>8, <1>9, <1>10
  <2>2. h \in {"absent", "torn", "written", "whole"} /\ ~(h \in {"absent", "torn"})
    OBVIOUS
  <2> HIDE DEF b, h, n, z
  <2>3. MidFileCorruption(b) => exposed > 1
    BY <2>1
  <2>4. Sound(FileOf(h, g, b, n), t, durable, exposed, z)
    BY ONLY <2>1, <2>2, <2>3, g \in Nat \ {0}, SoundFile
  <2>5. file'.header = h /\ file'.batches = b /\ file'.synced = n
    BY <2>1 DEF FileOf
  <2> QED
    BY <2>1, <2>4, <2>5 DEF b, h, n, z
<1>12. SoundAll(displaced', t, durable, exposed)
  <2>1. SoundAll(displaced \cup {file}, l, durable, exposed)
    BY SoundAllWith DEF Inv
  <2>2. Len(l) <= Len(t) /\ \A i \in 1..Len(l) : l[i] = t[i]
    BY <1>1, <1>2 DEF m
  <2> QED
    BY <1>1, <1>2, <1>10, <2>1, <2>2, SoundAllGrow
<1>13. nextSequence' = Len(t) + 1
  <2>1. IsSeq(file'.batches)
        /\ LaidTo(file'.header, file'.synced, file'.batches, t, durable, Len(t))
    BY <1>11 DEF Sound, IsFile
  <2>2. PICK z : ReadsAs(file'.batches, t, z, Len(t))
    BY <1>2, <2>1, LaidReads
  <2>3. After(Readable(file'.batches)) = Len(t) + 1
    BY <1>2, <2>2, AfterRead
  <2> QED
    BY <1>8, <1>10, <1>11, <2>3
<1>14. lineage' = t /\ Len(t) = Len(lineage) + 1
  BY <1>2 DEF t, m
<1> QED
  BY <1>2, <1>8, <1>9, <1>10, <1>11, <1>12, <1>13, <1>14

LEMMA RecoverInv ==
  ASSUME Inv, Recover
  PROVE  /\ Inv'
         /\ \E r : lineage' = Append(lineage, r) /\ r.sequence = Len(lineage) + 1
         /\ durable' = durable
<1> DEFINE valid == Readable(file.batches)
           r == Record(After(valid), [kind |-> "Recovery"])
           all == Append(valid, r)
           g == file.generation
<1>1. /\ Install(all, g) /\ lineage' = Append(lineage, r)
      /\ faulted' = FALSE /\ status' = "recovering"
      /\ durable' = durable /\ exposed' = exposed /\ stops' = stops
  BY DEF Recover, bounds
<1>2. PICK s : ReadsAs(file.batches, lineage, s, Len(lineage))
  BY InvReads
<1>3. /\ s \in Nat \ {0} /\ (s <= Len(lineage) \/ (s = 1 /\ Len(lineage) = 0))
      /\ GoodStart(lineage, s) /\ valid = SubSeq(lineage, s, Len(lineage))
  BY <1>2 DEF ReadsAs
<1>4. r.sequence = Len(lineage) + 1
  <2>1. r.sequence = After(valid)
    BY DEF Record
  <2>2. After(valid) = Len(lineage) + 1
    BY <1>2, AfterRead DEF Inv
  <2> QED
    BY <2>1, <2>2
<1>5. g \in Nat \ {0}
  BY DEF Inv, Sound, IsFile
<1>6. all = Append(SubSeq(lineage, s, Len(lineage)), r)
  BY <1>3
<1> HIDE DEF valid, r, all, g
<1>7. /\ Numbered(lineage')
      /\ Len(lineage') = Len(lineage) + 1
      /\ Sound(file', lineage', durable', exposed', Len(lineage'))
      /\ SoundAll(displaced', lineage', durable', exposed')
      /\ Valid(file'.batches) = Len(file'.batches)
      /\ records' = Readable(file'.batches)
      /\ nextSequence' = Len(lineage') + 1
      /\ file'.synced = Len(file'.batches)
      /\ file'.header = "whole"
  BY <1>1, <1>3, <1>4, <1>5, <1>6, Replaced
<1>8. Scalars'
  <2>1. durable \in Nat /\ exposed \in Nat /\ stops \in 0..MaxStops
    BY DEF Inv, Scalars
  <2>2. Len(lineage') \in Nat
    BY <1>7, IsSeqFacts DEF Numbered
  <2>3. nextSequence' \in Nat \ {0}
    BY <1>7, <2>2
  <2>4. faulted' \in BOOLEAN
    BY <1>1
  <2> QED
    BY <1>1, <2>1, <2>3, <2>4, ScalarsNext
<1>9. MemoryMatchesFile'
  BY <1>7 DEF MemoryMatchesFile
<1>10. Holding' /\ RefusesOnlyUnflushed'
  BY <1>1, <1>7 DEF Holding, RefusesOnlyUnflushed, Decodes
<1>11. Inv'
  BY <1>7, <1>8, <1>9, <1>10 DEF Inv
<1> QED
  BY <1>1, <1>4, <1>11

\* A checkpoint that replay accepts in the retained records is a good start.
LEMMA VerifiedIsGood ==
  ASSUME Inv, Usable, NEW n \in DOMAIN records, Verified(n),
         NEW s, ReadsAs(file.batches, lineage, s, Len(lineage))
  PROVE  /\ s + n - 1 \in Nat \ {0}
         /\ s + n - 1 <= Len(lineage)
         /\ GoodStart(lineage, s + n - 1)
         /\ SubSeq(records, n, Len(records)) = SubSeq(lineage, s + n - 1, Len(lineage))
<1> DEFINE m == Len(lineage)
           p == s + n - 1
<1>1. /\ s \in Nat \ {0} /\ m \in Nat /\ m <= m /\ (s <= m \/ (s = 1 /\ m = 0))
      /\ GoodStart(lineage, s)
  BY DEF ReadsAs
<1>2. records = Readable(file.batches)
  BY DEF Inv, MemoryMatchesFile, Usable
<1>3. Numbered(lineage) /\ IsSeq(lineage)
  BY DEF Inv, Numbered
<1>4. /\ IsSeq(records)
      /\ Len(records) = m - s + 1
      /\ \A i \in 1..(m - s + 1) : records[i] = lineage[s + i - 1]
      /\ records = SubSeq(lineage, s, m)
  <2>1. records = SubSeq(lineage, s, m)
    BY <1>2 DEF ReadsAs
  <2> DEFINE a == Readable(file.batches)
  <2>2. /\ IsSeq(a)
        /\ Len(a) = m - s + 1
        /\ \A i \in 1..(m - s + 1) : a[i] = lineage[s + i - 1]
    <3> HIDE DEF m
    <3>1. ReadsAs(file.batches, lineage, s, m)
      BY DEF m
    <3> QED
      BY <1>3, <3>1, ReadFacts
  <2>3. records = a
    BY <1>2
  <2> HIDE DEF a, m
  <2> QED
    BY <2>1, <2>2, <2>3
<1> HIDE DEF m
<1>5. DOMAIN records = 1..(m - s + 1)
  BY <1>4, IsSeqFacts
<1>6. n \in 1..(m - s + 1)
  BY <1>5
<1>7. n \in Nat \ {0} /\ n <= m - s + 1 /\ s <= m
  BY <1>1, <1>6
<1>8. p \in Nat \ {0} /\ p <= m /\ s <= p /\ s + (m - s + 1) - 1 = m /\ s + 1 - 1 = s
  BY <1>1, <1>7
<1>9. records[n] = lineage[p]
  BY <1>4, <1>6
<1>10. SubSeq(records, 1, n) = SubSeq(lineage, s, p)
  <2>1. SubSeq(SubSeq(lineage, s, m), 1, n) = SubSeq(lineage, s + 1 - 1, s + n - 1)
    BY <1>1, <1>7, SubSeqOfSub
  <2> QED
    BY <1>4, <1>8, <2>1
<1>11. SubSeq(records, n, Len(records)) = SubSeq(lineage, p, m)
  <2>1. s \in Nat \ {0} /\ m \in Nat /\ s <= m /\ n \in Nat \ {0} /\ p = s + n - 1
        /\ records = SubSeq(lineage, s, m)
    BY <1>1, <1>4, <1>7
  <2>2. \A l, r, z : \A a \in Nat \ {0}, c \in Nat, k \in Nat \ {0} :
          a <= c /\ r = SubSeq(l, a, c) /\ z = a + k - 1
            => SubSeq(r, k, Len(r)) = SubSeq(l, z, c)
    BY SuffixOfSub
  <2> HIDE DEF p
  <2>3. \A z : \A k \in Nat \ {0} : s <= m /\ z = s + k - 1
            => SubSeq(records, k, Len(records)) = SubSeq(lineage, z, m)
    BY <2>1, <2>2
  <2> QED
    BY <2>1, <2>3
<1>12. /\ IsCheckpoint(lineage[p]) /\ Anchored(lineage[p])
       /\ Project(SubSeq(lineage, s, p)) # Fail
  BY <1>9, <1>10 DEF Verified
<1>13. Project(SubSeq(lineage, s, p)) = Project(SubSeq(lineage, 1, p))
  <2>1. p \in Nat /\ p <= Len(lineage)
    BY <1>8 DEF m
  <2> HIDE DEF p
  <2> QED
    BY <1>1, <1>3, <1>8, <2>1, ProjectFrom
<1>14. GoodStart(lineage, p)
  BY <1>12, <1>13 DEF GoodStart
<1> QED
  BY <1>8, <1>11, <1>14 DEF m

LEMMA RetainInv ==
  ASSUME Inv, NEW n \in DOMAIN records, Retain(n)
  PROVE  /\ Inv'
         /\ \E r : lineage' = Append(lineage, r) /\ r.sequence = Len(lineage) + 1
         /\ durable' = durable
<1> DEFINE pruned == IF n = 1 THEN <<0, 0>>
                     ELSE <<records[1].sequence, records[n].sequence - 1>>
           r == Record(nextSequence, [kind |-> "Retention", pruned |-> pruned,
                                      checkpoint |-> records[n].sequence])
           all == Append(SubSeq(records, n, Len(records)), r)
           g == file.generation + 1
<1>1. /\ Usable /\ Verified(n)
      /\ Install(all, g) /\ lineage' = Append(lineage, r)
      /\ faulted' = faulted /\ status' = "retaining"
      /\ durable' = durable /\ exposed' = exposed /\ stops' = stops
  BY DEF Retain, bounds
<1>2. PICK s : ReadsAs(file.batches, lineage, s, Len(lineage))
  BY InvReads
<1> DEFINE p == s + n - 1
<1>3. /\ p \in Nat \ {0} /\ p <= Len(lineage)
      /\ GoodStart(lineage, p)
      /\ SubSeq(records, n, Len(records)) = SubSeq(lineage, p, Len(lineage))
  BY <1>1, <1>2, VerifiedIsGood
<1>4. r.sequence = Len(lineage) + 1
  <2>1. r.sequence = nextSequence
    BY DEF Record
  <2>2. nextSequence = Len(lineage) + 1
    BY <1>1 DEF Inv, MemoryMatchesFile, Usable
  <2> QED
    BY <2>1, <2>2
<1>5. g \in Nat \ {0}
  <2>1. file.generation \in Nat
    BY DEF Inv, Sound, IsFile
  <2> QED
    BY <2>1
<1>6. all = Append(SubSeq(lineage, p, Len(lineage)), r)
  BY <1>3
<1> HIDE DEF r, all, g, p
<1>7. /\ Numbered(lineage')
      /\ Len(lineage') = Len(lineage) + 1
      /\ Sound(file', lineage', durable', exposed', Len(lineage'))
      /\ SoundAll(displaced', lineage', durable', exposed')
      /\ Valid(file'.batches) = Len(file'.batches)
      /\ records' = Readable(file'.batches)
      /\ nextSequence' = Len(lineage') + 1
      /\ file'.synced = Len(file'.batches)
      /\ file'.header = "whole"
  BY <1>1, <1>3, <1>4, <1>5, <1>6, Replaced
<1>8. Scalars'
  <2>1. durable \in Nat /\ exposed \in Nat /\ stops \in 0..MaxStops
    BY DEF Inv, Scalars
  <2>2. Len(lineage') \in Nat
    BY <1>7, IsSeqFacts DEF Numbered
  <2>3. nextSequence' \in Nat \ {0}
    BY <1>7, <2>2
  <2>4. faulted' \in BOOLEAN
    BY <1>1 DEF Inv, Scalars
  <2> QED
    BY <1>1, <2>1, <2>3, <2>4, ScalarsNext
<1>9. MemoryMatchesFile'
  BY <1>7 DEF MemoryMatchesFile
<1>10. Holding' /\ RefusesOnlyUnflushed'
  BY <1>1, <1>7 DEF Holding, RefusesOnlyUnflushed, Decodes, Usable
<1>11. Inv'
  BY <1>7, <1>8, <1>9, <1>10 DEF Inv
<1> QED
  BY <1>1, <1>4, <1>11

-----------------------------------------------------------------------------
(* Appending *)

\* The records of a batch have the next numbers.
LEMMA PreparedFacts ==
  ASSUME NEW events, Len(events) \in Nat \ {0}, nextSequence \in Nat \ {0}
  PROVE  /\ IsSeq(Prepared(events))
         /\ Len(Prepared(events)) = Len(events)
         /\ \A i \in 1..Len(events) : Prepared(events)[i].sequence = nextSequence + i - 1
         /\ Prepared(events) # Damaged
<1> DEFINE k == Len(events)
           x == Prepared(events)
           S == {Record(nextSequence + i - 1, events[i]) : i \in 1..k}
<1>1. x = [i \in 1..k |-> Record(nextSequence + i - 1, events[i])]
  BY DEF Prepared
<1>2. x \in [1..k -> S]
  BY <1>1
<1>3. IsSeq(x) /\ Len(x) = k
  <2>1. k \in Nat
    OBVIOUS
  <2> HIDE DEF k, x, S
  <2> QED
    BY <1>2, <2>1, FunctionIsSeq
<1>4. \A i \in 1..k : x[i].sequence = nextSequence + i - 1
  <2> TAKE i \in 1..k
  <2>1. x[i] = Record(nextSequence + i - 1, events[i])
    BY <1>1
  <2> QED
    BY <2>1 DEF Record
<1>5. x # Damaged
  BY <1>3, OnlyEmptyIsEmpty DEF Damaged
<1> QED
  BY <1>3, <1>4, <1>5

LEMMA BatchLength ==
  ASSUME NEW events \in Batches
  PROVE  Len(events) \in Nat \ {0}
<1>1. PICK n \in 1..MaxBatch : events \in [1..n -> Bodies]
  BY DEF Batches
<1>2. n \in Nat \ {0}
  BY <1>1
<1>3. Len(events) = n
  BY <1>1, <1>2, FunctionIsSeq
<1> QED
  BY <1>2, <1>3

LEMMA CheckpointLength ==
  ASSUME NEW events \in Checkpoints
  PROVE  Len(events) \in Nat \ {0}
<1>1. PICK state : events = <<[kind |-> "Checkpoint", state |-> state]>>
  BY DEF Checkpoints
<1>2. Len(events) = 1
  BY <1>1
<1> QED
  BY <1>2

\* The log and the file with a batch of the next numbers behind them.
LEMMA LogGrown ==
  ASSUME Inv, Usable, NEW events, Len(events) \in Nat \ {0}
  PROVE  /\ Numbered(lineage \o Prepared(events))
         /\ Len(lineage \o Prepared(events)) = Len(lineage) + Len(events)
         /\ \A i \in 1..Len(lineage) : (lineage \o Prepared(events))[i] = lineage[i]
         /\ SubSeq(lineage \o Prepared(events), Len(lineage) + 1, Len(lineage) + Len(events))
              = Prepared(events)
<1> DEFINE l == lineage
           x == Prepared(events)
           t == l \o x
           m == Len(l)
           k == Len(events)
<1>1. Numbered(l) /\ IsSeq(l) /\ m \in Nat /\ nextSequence \in Nat \ {0} /\ k \in Nat \ {0}
  BY IsSeqFacts DEF Inv, Numbered, Scalars
<1>2. nextSequence = m + 1
  BY DEF Inv, MemoryMatchesFile, Usable
<1>3. IsSeq(x) /\ Len(x) = k /\ \A i \in 1..k : x[i].sequence = nextSequence + i - 1
  BY <1>1, PreparedFacts
<1> HIDE DEF x
<1>4. /\ IsSeq(t)
      /\ Len(t) = m + k
      /\ \A i \in 1..(m + k) : t[i] = IF i <= m THEN l[i] ELSE x[i - m]
  BY <1>1, <1>3, ConcatFacts
<1> HIDE DEF t, m, k
<1>5. \A i \in 1..m : t[i] = l[i]
  BY <1>1, <1>4
<1>6. \A i \in 1..Len(t) : t[i].sequence = i
  <2> TAKE i \in 1..Len(t)
  <2>1. CASE i <= m
    <3>1. i \in 1..m /\ i \in 1..Len(l)
      BY <1>1, <1>4, <2>1 DEF m
    <3> QED
      BY <1>1, <1>5, <3>1 DEF Numbered
  <2>2. CASE ~(i <= m)
    <3>1. i \in 1..(m + k) /\ i - m \in 1..k
      BY <1>1, <1>4, <2>2
    <3>2. t[i] = x[i - m] /\ x[i - m].sequence = nextSequence + (i - m) - 1
      BY <1>3, <1>4, <2>2, <3>1
    <3> QED
      BY <1>1, <1>2, <3>1, <3>2
  <2> QED
    BY <2>1, <2>2
<1>7. Numbered(t)
  BY <1>4, <1>6 DEF Numbered
<1>8. SubSeq(t, m + 1, m + k) = x
  <2> DEFINE u == SubSeq(t, m + 1, m + k)
  <2>1. /\ IsSeq(u)
        /\ Len(u) = IF m + 1 <= m + k THEN (m + k) - (m + 1) + 1 ELSE 0
        /\ \A i \in 1..((m + k) - (m + 1) + 1) : u[i] = t[(m + 1) + i - 1]
    <3>1. m + 1 \in Int /\ m + k \in Int
      BY <1>1
    <3> QED
      BY <3>1, SubSeqFacts
  <2> HIDE DEF u
  <2>2. Len(u) = k
    BY <1>1, <2>1
  <2>3. \A i \in 1..Len(u) : u[i] = x[i]
    <3> TAKE i \in 1..Len(u)
    <3>1. i \in 1..((m + k) - (m + 1) + 1) /\ m + i \in 1..(m + k) /\ ~(m + i <= m)
          /\ (m + 1) + i - 1 = m + i /\ (m + i) - m = i
      BY <1>1, <2>2
    <3>2. u[i] = t[m + i]
      BY <2>1, <3>1
    <3>3. t[m + i] = x[(m + i) - m]
      BY <1>4, <3>1
    <3> QED
      BY <3>1, <3>2, <3>3
  <2>4. u = x
    BY <1>3, <2>1, <2>2, <2>3, SameSeq
  <2> QED
    BY <2>4 DEF u
<1> QED
  BY <1>4, <1>5, <1>7, <1>8 DEF t, x, m, k

\* What the file is like with the batch behind it.
LEMMA FileGrown ==
  ASSUME Inv, Usable, NEW events, Len(events) \in Nat \ {0}, NEW t,
         t = lineage \o Prepared(events), NEW b, b = Append(file.batches, Prepared(events))
  PROVE  /\ IsSeq(b) /\ Valid(b) = Len(b) /\ Len(b) = Len(file.batches) + 1
         /\ file.synced \in Nat /\ file.synced <= Len(b)
         /\ LaidTo(file.header, file.synced, b, t, durable, Len(t))
         /\ Readable(b) = records \o Prepared(events)
         /\ ~MidFileCorruption(b)
<1> DEFINE l == lineage
           x == Prepared(events)
           m == Len(l)
           z == Len(t)
           c == file.batches
           h == file.header
           n == file.synced
<1>1. /\ IsSeq(c) /\ n \in Nat /\ n <= Len(c) /\ LaidTo(h, n, c, l, durable, m)
      /\ IsSeq(l) /\ nextSequence \in Nat \ {0}
  BY DEF Inv, Sound, IsFile, Numbered, Scalars
<1>2. Valid(c) = Len(c) /\ records = Readable(c)
  BY DEF Inv, MemoryMatchesFile, Usable
<1>3. /\ Numbered(t) /\ z = m + Len(events) /\ \A i \in 1..m : t[i] = l[i]
      /\ SubSeq(t, m + 1, z) = x
  <2>1. /\ Numbered(t) /\ z = m + Len(events) /\ \A i \in 1..m : t[i] = l[i]
        /\ SubSeq(t, m + 1, m + Len(events)) = x
    BY LogGrown
  <2> QED
    BY <2>1
<1>4. x # Damaged
  BY <1>1, PreparedFacts
<1>5. IsSeq(t) /\ m \in Nat /\ z \in Nat /\ m < z /\ z <= Len(t)
  <2>1. IsSeq(t) /\ m \in Nat /\ z \in Nat
    BY <1>1, <1>3, IsSeqFacts DEF Numbered
  <2> QED
    BY <1>3, <2>1
<1> HIDE DEF l, x, m, c, h, n
<1>6. LaidTo(h, n, c, t, durable, m)
  <2>1. m <= Len(t) /\ \A i \in 1..m : l[i] = t[i]
    BY <1>3, <1>5
  <2> QED
    BY <1>1, <1>5, <2>1, LaidMoves
<1>7. LaidTo(h, n, Append(c, x), t, durable, z) /\ Readable(Append(c, x)) = Readable(c) \o x
  <2> DEFINE a == m + 1
  <2>1. a = m + 1 /\ x = SubSeq(t, a, z)
    BY <1>3
  <2>2. z \in Nat /\ m < z /\ z <= Len(t)
    BY <1>5
  <2> HIDE DEF z, a
  <2>3. n \in Nat /\ IsSeq(c) /\ Valid(c) = Len(c) /\ n <= Len(c) /\ IsSeq(t)
        /\ x # Damaged
    BY <1>1, <1>2, <1>4, <1>5
  <2>4. LaidTo(h, n, Append(c, x), t, durable, z)
    BY ONLY <1>6, <2>1, <2>2, <2>3, LaidNext
  <2>5. ReadBehind(c, x)
    BY ONLY <1>6, <2>1, <2>2, <2>3, <2>4, LaidNext
  <2> QED
    BY <2>4, <2>5 DEF ReadBehind
<1>8. IsSeq(Append(c, x)) /\ Len(Append(c, x)) = Len(c) + 1 /\ Len(c) \in Nat
  BY <1>1, AppendFacts, IsSeqFacts
<1>9. Valid(Append(c, x)) = Len(c) + 1
  BY <1>1, <1>2, <1>4, ValidAppended
<1>10. ~MidFileCorruption(Append(c, x))
  BY <1>1, <1>2, TornIsTail
<1>11. b = Append(c, x)
  BY DEF c, x
<1>12. n <= Len(b)
  BY <1>1, <1>8, <1>11
<1> QED
  BY <1>1, <1>2, <1>7, <1>8, <1>9, <1>10, <1>11, <1>12 DEF c, x, h, n

LEMMA GrownIsFile ==
  ASSUME NEW f, IsFile(f), NEW x
  PROVE  [f EXCEPT !.batches = Append(@, x)]
           = FileOf(f.header, f.generation, Append(f.batches, x), f.synced)
<1> DEFINE h == f.header
           g == f.generation
           b == f.batches
           n == f.synced
<1>1. f = FileOf(h, g, b, n)
  BY DEF IsFile
<1> HIDE DEF h, g, b, n
<1>2. [FileOf(h, g, b, n) EXCEPT !.batches = Append(b, x)] = FileOf(h, g, Append(b, x), n)
  BY DEF FileOf
<1>3. [f EXCEPT !.batches = Append(@, x)] = [f EXCEPT !.batches = Append(b, x)]
  BY DEF b
<1> QED
  BY <1>1, <1>2, <1>3 DEF h, g, b, n

LEMMA SyncedIsFile ==
  ASSUME NEW f, NEW h, NEW g, NEW b, NEW n, f = FileOf(h, g, b, n)
  PROVE  Synced(f) = FileOf("whole", g, b, Len(b))
<1>1. f.batches = b
  BY DEF FileOf
<1>2. Synced(f) = [f EXCEPT !.header = "whole", !.synced = Len(b)]
  BY <1>1 DEF Synced
<1> DEFINE k == Len(b)
<1> HIDE DEF k
<1>3. [FileOf(h, g, b, n) EXCEPT !.header = "whole"] = FileOf("whole", g, b, n)
  BY DEF FileOf
<1>4. [FileOf("whole", g, b, n) EXCEPT !.synced = k] = FileOf("whole", g, b, k)
  BY DEF FileOf
<1>5. [f EXCEPT !.header = "whole", !.synced = k]
        = [[f EXCEPT !.header = "whole"] EXCEPT !.synced = k]
  OBVIOUS
<1>6. [f EXCEPT !.header = "whole", !.synced = k] = FileOf("whole", g, b, k)
  BY <1>3, <1>4, <1>5
<1> QED
  BY <1>2, <1>6 DEF k

\* All of a file without damage is on stable storage after a flush.
LEMMA FlushedFile ==
  ASSUME NEW h, NEW g \in Nat \ {0}, NEW b, IsSeq(b), Valid(b) = Len(b),
         NEW n \in Nat, n <= Len(b), NEW l, NEW d, NEW e, LaidTo(h, n, b, l, d, e), NEW x,
         NEW f, f = FileOf(h, g, b, n)
  PROVE  /\ Sound(Synced(f), l, e, x, e)
         /\ Synced(f).header = "whole" /\ Synced(f).batches = b
<1>1. Synced(f) = FileOf("whole", g, b, Len(b))
  BY SyncedIsFile
<1>2. LaidTo("whole", Len(b), b, l, e, e)
  BY LaidSynced
<1>3. Len(b) \in Nat /\ Len(b) <= Len(b)
  BY IsSeqFacts
<1>4. ~MidFileCorruption(b)
  BY NoneIsMid
<1> DEFINE w == "whole"
           k == Len(b)
<1>5. w \in {"absent", "torn", "written", "whole"} /\ ~(w \in {"absent", "torn"})
  OBVIOUS
<1>6. Synced(f) = FileOf(w, g, b, k) /\ LaidTo(w, k, b, l, e, e) /\ k \in Nat /\ k <= Len(b)
  BY <1>1, <1>2, <1>3
<1> HIDE DEF w, k
<1>7. Sound(Synced(f), l, e, x, e) /\ Synced(f).header = w /\ Synced(f).batches = b
  BY <1>4, <1>5, <1>6, SoundFile
<1> QED
  BY <1>7 DEF w

LEMMA WrittenInv ==
  ASSUME Inv, NEW events, Len(events) \in Nat \ {0}, NEW flushed \in BOOLEAN,
         Written(events, flushed)
  PROVE  /\ Inv'
         /\ lineage' = lineage \o Prepared(events)
         /\ Usable
         /\ durable' \in {durable, Len(lineage')}
<1> DEFINE x == Prepared(events)
           t == lineage \o x
           b == Append(file.batches, x)
           grown == [file EXCEPT !.batches = Append(@, x)]
           g == file.generation
           h == file.header
           n == file.synced
<1>1. /\ Usable
      /\ file' = IF flushed THEN Synced(grown) ELSE grown
      /\ displaced' = IF flushed THEN NotDurable(displaced) ELSE displaced
      /\ records' = records \o x
      /\ nextSequence' = nextSequence + Len(events)
      /\ lineage' = t
      /\ durable' = IF flushed THEN Len(lineage') ELSE durable
      /\ status' = status /\ faulted' = faulted /\ exposed' = exposed /\ stops' = stops
  BY DEF Written, bounds
<1>2. /\ IsFile(file) /\ g \in Nat \ {0} /\ h \in {"absent", "torn", "written", "whole"}
      /\ IsSeq(lineage) /\ durable \in Nat /\ exposed \in Nat
      /\ SoundAll(displaced, lineage, durable, exposed)
  BY DEF Inv, Sound, IsFile, Scalars, Numbered
<1>3. ~(h \in {"absent", "torn"})
  BY <1>1 DEF Inv, Holding, Usable, Decodes
<1>4. grown = FileOf(h, g, b, n)
  BY <1>2, GrownIsFile
<1>5. /\ Numbered(t) /\ Len(t) = Len(lineage) + Len(events)
      /\ \A i \in 1..Len(lineage) : t[i] = lineage[i]
  BY <1>1, LogGrown
<1>6. /\ IsSeq(b) /\ Valid(b) = Len(b)
      /\ n \in Nat /\ n <= Len(b)
      /\ LaidTo(h, n, b, t, durable, Len(t))
      /\ Readable(b) = records \o x
      /\ ~MidFileCorruption(b)
  BY <1>1, FileGrown
<1>7. nextSequence = Len(lineage) + 1 /\ status = "open" /\ faulted = FALSE
  BY <1>1 DEF Inv, MemoryMatchesFile, Usable, Scalars
<1>8. IsSeq(t) /\ Len(t) \in Nat /\ Len(lineage) \in Nat /\ Len(lineage) <= Len(t)
  <2>1. IsSeq(t) /\ Len(t) \in Nat /\ Len(lineage) \in Nat
    BY <1>2, <1>5, IsSeqFacts DEF Numbered
  <2> QED
    BY <1>5, <2>1
<1> HIDE DEF x, t, b, grown, g, h, n
<1>9. SoundAll(displaced, t, durable, exposed)
  <2>1. \A i \in 1..Len(lineage) : lineage[i] = t[i]
    BY <1>5
  <2> QED
    BY <1>2, <1>8, <2>1, SoundAllGrow
<1>10. /\ Sound(file', t, durable', exposed, Len(t))
       /\ file'.batches = b /\ Decodes(file')
       /\ SoundAll(displaced', t, durable', exposed)
  <2>1. CASE flushed
    <3>1. file' = Synced(grown) /\ displaced' = NotDurable(displaced) /\ durable' = Len(t)
      BY <1>1, <2>1
    <3> DEFINE z == Len(t)
    <3>2. LaidTo(h, n, b, t, durable, z) /\ durable' = z
      BY <1>6, <3>1
    <3> HIDE DEF z
    <3>3. Sound(Synced(grown), t, z, exposed, z) /\ Synced(grown).header = "whole"
          /\ Synced(grown).batches = b
      BY <1>2, <1>4, <1>6, <3>2, FlushedFile
    <3>4. SoundAll(NotDurable(displaced), t, z, exposed)
      BY <1>9, SoundAllPromised
    <3>5. file'.header = "whole"
      BY <3>1, <3>3
    <3>6. Decodes(file')
      BY <3>5 DEF Decodes
    <3>7. Len(t) = z
      BY DEF z
    <3> QED
      BY <3>1, <3>2, <3>3, <3>4, <3>6, <3>7
  <2>2. CASE ~flushed
    <3>1. file' = grown /\ displaced' = displaced /\ durable' = durable
      BY <1>1, <2>2
    <3> DEFINE z == Len(t)
    <3>2. LaidTo(h, n, b, t, durable, z)
      BY <1>6
    <3> HIDE DEF z
    <3>3. Sound(grown, t, durable, exposed, z) /\ grown.header = h /\ grown.batches = b
      <4>1. MidFileCorruption(b) => exposed > 1
        BY <1>6
      <4>2. h \in {"absent", "torn"} => b = <<>>
        BY <1>3
      <4>3. /\ Sound(FileOf(h, g, b, n), t, durable, exposed, z)
            /\ FileOf(h, g, b, n).header = h
            /\ FileOf(h, g, b, n).batches = b
        <5>1. h \in {"absent", "torn", "written", "whole"} /\ g \in Nat \ {0}
              /\ IsSeq(b) /\ n \in Nat /\ n <= Len(b)
          BY <1>2, <1>6
        <5>2. Sound(FileOf(h, g, b, n), t, durable, exposed, z)
          BY ONLY <3>2, <4>1, <4>2, <5>1, SoundFile
        <5> QED
          BY <3>2, <4>1, <4>2, <5>1, <5>2, SoundFile
      <4> QED
        BY <1>4, <4>3
    <3>4. h \in {"written", "whole"}
      BY <1>2, <1>3
    <3>5. Decodes(file')
      BY <3>1, <3>3, <3>4 DEF Decodes
    <3>6. Len(t) = z
      BY DEF z
    <3> QED
      BY <1>9, <3>1, <3>3, <3>5, <3>6
  <2> QED
    BY <2>1, <2>2
<1>11. nextSequence' = Len(t) + 1
  <2>1. Len(events) \in Nat
    OBVIOUS
  <2> QED
    BY <1>1, <1>5, <1>7, <1>8, <2>1
<1>12. durable' \in {durable, Len(t)} /\ durable' \in Nat
  BY <1>1, <1>2, <1>8
<1>13. Scalars'
  <2>1. exposed \in Nat /\ stops \in 0..MaxStops
    BY DEF Inv, Scalars
  <2>2. nextSequence' \in Nat \ {0}
    BY <1>8, <1>11
  <2>3. faulted' \in BOOLEAN
    BY <1>1 DEF Inv, Scalars
  <2>4. status' \in {"closed", "open", "refused", "recovering", "retaining"}
    BY <1>1, <1>7
  <2> QED
    BY <1>1, <1>12, <2>1, <2>2, <2>3, <2>4, ScalarsNext
<1>14. MemoryMatchesFile'
  BY <1>1, <1>6, <1>10, <1>11 DEF MemoryMatchesFile
<1>15. Holding' /\ RefusesOnlyUnflushed'
  BY <1>1, <1>7, <1>10 DEF Holding, RefusesOnlyUnflushed
<1>16. Inv'
  BY <1>1, <1>5, <1>10, <1>13, <1>14, <1>15 DEF Inv
<1> QED
  BY <1>1, <1>12, <1>16 DEF t, x

LEMMA AppendInv ==
  ASSUME Inv, AppendBatch \/ Checkpoint
  PROVE  Inv'
<1>1. CASE AppendBatch
  <2>1. PICK events \in Batches, flushed \in BOOLEAN : Written(events, flushed)
    BY <1>1 DEF AppendBatch
  <2>2. Len(events) \in Nat \ {0}
    BY <2>1, BatchLength
  <2> QED
    BY <2>1, <2>2, WrittenInv
<1>2. CASE Checkpoint
  <2>1. PICK events \in Checkpoints, flushed \in BOOLEAN : Written(events, flushed)
    BY <1>2 DEF Checkpoint
  <2>2. Len(events) \in Nat \ {0}
    BY <2>1, CheckpointLength
  <2> QED
    BY <2>1, <2>2, WrittenInv
<1> QED
  BY <1>1, <1>2

LEMMA AppendThrowsInv ==
  ASSUME Inv, AppendThrows
  PROVE  /\ Inv'
         /\ durable' = durable
         /\ \/ lineage' = lineage
            \/ /\ Usable
               /\ \E events : /\ Len(events) \in Nat \ {0}
                              /\ lineage' = lineage \o Prepared(events)
<1>1. PICK events \in Batches \cup Checkpoints :
        \/ /\ file' = [file EXCEPT !.batches = Append(@, Damaged)]
           /\ lineage' = lineage
        \/ /\ file' = [file EXCEPT !.batches = Append(@, Prepared(events))]
           /\ lineage' = lineage \o Prepared(events)
  BY DEF AppendThrows
<1>2. /\ Usable /\ faulted' = TRUE /\ displaced' = displaced /\ status' = status
      /\ nextSequence' = nextSequence
      /\ durable' = durable /\ exposed' = exposed /\ stops' = stops
  BY DEF AppendThrows, bounds
<1>3. Len(events) \in Nat \ {0}
  BY <1>1, BatchLength, CheckpointLength
<1> DEFINE g == file.generation
           h == file.header
           n == file.synced
           c == file.batches
<1>4. /\ IsFile(file) /\ IsSeq(c) /\ n \in Nat /\ n <= Len(c)
      /\ IsSeq(lineage) /\ durable \in Nat /\ exposed \in Nat
      /\ SoundAll(displaced, lineage, durable, exposed)
      /\ LaidTo(h, n, c, lineage, durable, Len(lineage))
  BY DEF Inv, Sound, IsFile, Scalars, Numbered
<1>5. g \in Nat \ {0} /\ h \in {"absent", "torn", "written", "whole"}
  BY <1>4 DEF IsFile
<1>6. ~(h \in {"absent", "torn"})
  BY <1>2 DEF Inv, Holding, Usable, Decodes
<1>7. Valid(c) = Len(c)
  BY <1>2 DEF Inv, MemoryMatchesFile, Usable
<1>8. /\ Numbered(lineage')
      /\ Sound(file', lineage', durable, exposed, Len(lineage'))
      /\ SoundAll(displaced, lineage', durable, exposed)
      /\ file'.header = h
  <2>1. CASE /\ file' = [file EXCEPT !.batches = Append(@, Damaged)]
             /\ lineage' = lineage
    <3> DEFINE b == Append(c, Damaged)
               z == Len(lineage)
    <3>1. file' = FileOf(h, g, b, n)
      BY <1>4, <2>1, GrownIsFile
    <3>2. LaidTo(h, n, b, lineage, durable, z)
      <4> HIDE DEF c, h, n, z
      <4>1. LaidTo(h, n, c, lineage, durable, z)
        BY <1>4 DEF z
      <4> QED
        BY <1>4, <1>7, <4>1, LaidTorn
    <3>3. IsSeq(b) /\ n <= Len(b) /\ ~MidFileCorruption(b)
      <4>1. IsSeq(b) /\ Len(b) = Len(c) + 1 /\ Len(c) \in Nat
        BY <1>4, AppendFacts, IsSeqFacts
      <4>2. ~MidFileCorruption(b)
        BY <1>4, <1>7, TornIsTail
      <4> HIDE DEF b, c, n
      <4> QED
        BY <1>4, <4>1, <4>2
    <3> HIDE DEF b, z, c, h, g, n
    <3>4. h \in {"absent", "torn"} => b = <<>>
      BY <1>6
    <3>5. MidFileCorruption(b) => exposed > 1
      BY <3>3
    <3>6. n \in Nat /\ IsSeq(b) /\ n <= Len(b)
      BY <1>4, <3>3
    <3>7. Sound(FileOf(h, g, b, n), lineage, durable, exposed, z)
      BY ONLY <1>5, <3>2, <3>4, <3>5, <3>6, SoundFile
    <3>8. FileOf(h, g, b, n).header = h
      BY DEF FileOf
    <3>9. Numbered(lineage)
      BY DEF Inv
    <3> QED
      BY <1>4, <2>1, <3>1, <3>7, <3>8, <3>9 DEF z
  <2>2. CASE /\ file' = [file EXCEPT !.batches = Append(@, Prepared(events))]
             /\ lineage' = lineage \o Prepared(events)
    <3> DEFINE x == Prepared(events)
               b == Append(c, x)
               t == lineage \o x
               z == Len(t)
    <3>1. file' = FileOf(h, g, b, n)
      BY <1>4, <2>2, GrownIsFile
    <3>2. LaidTo(h, n, b, t, durable, z) /\ IsSeq(b) /\ n <= Len(b) /\ ~MidFileCorruption(b)
      BY <1>2, <1>3, FileGrown
    <3>3. /\ Numbered(t) /\ Len(t) = Len(lineage) + Len(events)
          /\ \A i \in 1..Len(lineage) : t[i] = lineage[i]
      BY <1>2, <1>3, LogGrown
    <3>4. IsSeq(t) /\ Len(lineage) <= Len(t)
      <4>1. IsSeq(t) /\ Len(lineage) \in Nat
        BY <1>4, <3>3, IsSeqFacts DEF Numbered
      <4> QED
        BY <1>3, <3>3, <4>1
    <3> HIDE DEF b, z, c, h, g, n, t, x
    <3>5. h \in {"absent", "torn"} => b = <<>>
      BY <1>6
    <3>6. MidFileCorruption(b) => exposed > 1
      BY <3>2
    <3>7. n \in Nat /\ IsSeq(b) /\ n <= Len(b) /\ LaidTo(h, n, b, t, durable, z)
      BY <1>4, <3>2
    <3>8. Sound(FileOf(h, g, b, n), t, durable, exposed, z)
      BY ONLY <1>5, <3>5, <3>6, <3>7, SoundFile
    <3>9. FileOf(h, g, b, n).header = h
      BY DEF FileOf
    <3>10. SoundAll(displaced, t, durable, exposed)
      <4>1. \A i \in 1..Len(lineage) : lineage[i] = t[i]
        BY <3>3
      <4> QED
        BY <1>4, <3>4, <4>1, SoundAllGrow
    <3>11. lineage' = t
      BY <2>2 DEF t, x
    <3> QED
      BY <3>1, <3>3, <3>8, <3>9, <3>10, <3>11 DEF z
  <2> QED
    BY <1>1, <2>1, <2>2
<1>9. Scalars'
  <2>1. faulted' \in BOOLEAN
    BY <1>2
  <2> QED
    BY <1>2, <2>1 DEF Inv, Scalars
<1>10. MemoryMatchesFile'
  BY <1>2 DEF MemoryMatchesFile
<1>11. status = "open" /\ h \in {"written", "whole"}
  BY <1>2, <1>5, <1>6 DEF Usable
<1>12. Holding' /\ RefusesOnlyUnflushed'
  BY <1>2, <1>8, <1>11 DEF Holding, RefusesOnlyUnflushed, Decodes
<1>13. Inv'
  BY <1>2, <1>8, <1>9, <1>10, <1>12 DEF Inv
<1> QED
  BY <1>1, <1>2, <1>3, <1>13

LEMMA FlushInv ==
  ASSUME Inv, Flush
  PROVE  Inv'
<1>1. /\ Usable /\ file' = Synced(file) /\ displaced' = NotDurable(displaced)
      /\ durable' = Len(lineage)
      /\ lineage' = lineage /\ exposed' = exposed /\ stops' = stops
      /\ status' = status /\ faulted' = faulted
      /\ records' = records /\ nextSequence' = nextSequence
  BY DEF Flush, bounds, memory
<1> DEFINE g == file.generation
           h == file.header
           n == file.synced
           b == file.batches
           z == Len(lineage)
<1>2. /\ IsSeq(b) /\ n \in Nat /\ n <= Len(b) /\ g \in Nat \ {0}
      /\ file = FileOf(h, g, b, n)
      /\ LaidTo(h, n, b, lineage, durable, z)
      /\ SoundAll(displaced, lineage, durable, exposed)
  BY DEF Inv, Sound, IsFile
<1>3. Valid(b) = Len(b) /\ records = Readable(b) /\ nextSequence = z + 1
  BY <1>1 DEF Inv, MemoryMatchesFile, Usable
<1>4. z \in Nat
  BY IsSeqFacts DEF Inv, Numbered
<1> HIDE DEF g, h, n, b, z
<1>5. /\ Sound(Synced(file), lineage, z, exposed, z)
      /\ Synced(file).header = "whole" /\ Synced(file).batches = b
  <2>1. Sound(Synced(file), lineage, z, exposed, z)
    BY ONLY <1>2, <1>3, FlushedFile
  <2>2. Synced(file) = FileOf("whole", g, b, Len(b))
    BY ONLY <1>2, SyncedIsFile
  <2> QED
    BY <2>1, <2>2 DEF FileOf
<1>6. SoundAll(displaced', lineage, z, exposed)
  BY <1>1, <1>2, SoundAllPromised
<1>7. Scalars'
  BY <1>1, <1>4 DEF Inv, Scalars, z
<1>8. MemoryMatchesFile'
  <2>1. file'.batches = b
    BY <1>1, <1>5
  <2> QED
    BY <1>1, <1>3, <2>1 DEF MemoryMatchesFile, z
<1>9. status = "open"
  BY <1>1 DEF Usable
<1>10. Holding' /\ RefusesOnlyUnflushed'
  BY <1>1, <1>5, <1>9 DEF Holding, RefusesOnlyUnflushed, Decodes
<1>11. Numbered(lineage')
  BY <1>1 DEF Inv
<1> QED
  BY <1>1, <1>5, <1>6, <1>7, <1>8, <1>10, <1>11 DEF Inv, z

LEMMA FlushThrowsInv ==
  ASSUME Inv, FlushThrows
  PROVE  Inv'
<1>1. /\ Usable /\ faulted' = TRUE /\ file' = file /\ displaced' = displaced
      /\ status' = status /\ nextSequence' = nextSequence
      /\ lineage' = lineage /\ durable' = durable /\ exposed' = exposed /\ stops' = stops
  BY DEF FlushThrows, disk, ghost, bounds
<1>2. faulted' \in BOOLEAN
  BY <1>1
<1>3. Scalars'
  BY <1>1, <1>2 DEF Inv, Scalars
<1>4. MemoryMatchesFile'
  BY <1>1 DEF MemoryMatchesFile
<1>5. status = "open"
  BY <1>1 DEF Usable
<1>6. Holding' /\ RefusesOnlyUnflushed'
  BY <1>1, <1>5 DEF Inv, Holding, RefusesOnlyUnflushed, Decodes
<1> QED
  BY <1>1, <1>3, <1>4, <1>6 DEF Inv

-----------------------------------------------------------------------------
(* The directory, and stops *)

LEMMA DirectoryFlushedInv ==
  ASSUME Inv, DirectoryFlushed
  PROVE  Inv'
<1>1. /\ status \in {"recovering", "retaining"} /\ status' = "open" /\ displaced' = {}
      /\ durable' = Len(lineage) /\ file' = file
      /\ lineage' = lineage /\ exposed' = exposed /\ stops' = stops
      /\ faulted' = faulted /\ records' = records /\ nextSequence' = nextSequence
  BY DEF DirectoryFlushed, bounds, memory
<1>2. ~faulted /\ file.synced = Len(file.batches) /\ file.header = "whole"
  BY <1>1 DEF Inv, Holding
<1>3. /\ Valid(file.batches) = Len(file.batches)
      /\ records = Readable(file.batches)
      /\ nextSequence = Len(lineage) + 1
  BY <1>1, <1>2 DEF Inv, MemoryMatchesFile
<1>4. Len(lineage) \in Nat
  BY IsSeqFacts DEF Inv, Numbered
<1>5. Sound(file, lineage, Len(lineage), exposed, Len(lineage))
  <2> DEFINE h == file.header
             n == file.synced
             b == file.batches
             z == Len(lineage)
  <2>1. /\ IsFile(file) /\ IsSeq(b) /\ n \in Nat /\ n <= Len(b)
        /\ LaidTo(h, n, b, lineage, durable, z)
        /\ MidFileCorruption(b) => exposed > 1
    BY DEF Inv, Sound, IsFile
  <2>2. Valid(b) = Len(b)
    BY <1>3
  <2> HIDE DEF h, n, b, z
  <2>3. LaidTo("whole", Len(b), b, lineage, z, z)
    BY <2>1, <2>2, LaidSynced
  <2>4. LaidTo(h, n, b, lineage, z, z)
    BY <1>2, <2>3 DEF h, n, b
  <2> QED
    BY <2>1, <2>4 DEF Sound, h, n, b, z
<1>6. Scalars'
  <2>1. status' \in {"closed", "open", "refused", "recovering", "retaining"}
    BY <1>1
  <2> QED
    BY <1>1, <1>4, <2>1 DEF Inv, Scalars
<1>7. SoundAll(displaced', lineage', durable', exposed')
  BY <1>1 DEF SoundAll
<1>8. MemoryMatchesFile'
  BY <1>1, <1>3 DEF MemoryMatchesFile
<1>9. Holding' /\ RefusesOnlyUnflushed'
  BY <1>1, <1>2 DEF Holding, RefusesOnlyUnflushed, Decodes
<1> QED
  BY <1>1, <1>5, <1>6, <1>7, <1>8, <1>9 DEF Inv

LEMMA DirectoryFlushThrowsInv ==
  ASSUME Inv, DirectoryFlushThrows
  PROVE  Inv'
<1>1. /\ status \in {"recovering", "retaining"} /\ status' \in {"closed", "open"}
      /\ faulted' = TRUE /\ file' = file /\ displaced' = displaced
      /\ nextSequence' = nextSequence
      /\ lineage' = lineage /\ durable' = durable /\ exposed' = exposed /\ stops' = stops
  BY DEF DirectoryFlushThrows, disk, ghost, bounds
<1>2. faulted' \in BOOLEAN
  BY <1>1
<1>3. Scalars'
  <2>1. status' \in {"closed", "open", "refused", "recovering", "retaining"}
    BY <1>1
  <2> QED
    BY <1>1, <1>2, <2>1 DEF Inv, Scalars
<1>4. MemoryMatchesFile'
  BY <1>1 DEF MemoryMatchesFile
<1>5. Holding' /\ RefusesOnlyUnflushed'
  BY <1>1 DEF Inv, Holding, RefusesOnlyUnflushed, Decodes
<1> QED
  BY <1>1, <1>3, <1>4, <1>5 DEF Inv

LEMMA StoppedScalars ==
  ASSUME Inv, Gone, stops < MaxStops, stops' = stops + 1, status' = "closed",
         durable' = durable, exposed' \in Nat
  PROVE  Scalars'
<1>1. nextSequence' = 1 /\ faulted' = FALSE
  BY DEF Gone
<1>2. nextSequence' \in Nat \ {0}
  BY <1>1
<1>3. faulted' \in BOOLEAN
  BY <1>1
<1>4. stops \in 0..MaxStops /\ durable \in Nat
  BY DEF Inv, Scalars
<1>5. MaxStops \in Nat
  BY BoundAssumption
<1>6. stops' \in 0..MaxStops
  BY <1>4, <1>5
<1> QED
  BY <1>2, <1>3, <1>4, <1>6, ScalarsNext

LEMMA StopInv ==
  ASSUME Inv, Stop
  PROVE  Inv'
<1>1. /\ stops < MaxStops /\ stops' = stops + 1 /\ status' = "closed" /\ Gone
      /\ file' = file /\ displaced' = displaced
      /\ lineage' = lineage /\ durable' = durable /\ exposed' = exposed
  BY DEF Stop, disk, ghost
<1>2. exposed \in Nat
  BY DEF Inv, Scalars
<1>3. Scalars'
  BY <1>1, <1>2, StoppedScalars
<1>4. MemoryMatchesFile' /\ Holding' /\ RefusesOnlyUnflushed'
  BY <1>1 DEF MemoryMatchesFile, Holding, RefusesOnlyUnflushed
<1> QED
  BY <1>1, <1>3, <1>4 DEF Inv

LEMMA SurvivingIsLeft ==
  ASSUME NEW f, IsFile(f), NEW b \in SurvivingBatches(f)
  PROVE  LeftOf(f.batches, f.synced, b)
<1>1. PICK m \in f.synced..Len(f.batches) :
        /\ b \in [1..m -> {f.batches[i] : i \in 1..m} \cup {Damaged}]
        /\ \A i \in 1..m : b[i] = f.batches[i] \/ (i > f.synced /\ b[i] = Damaged)
  BY DEF SurvivingBatches
<1>2. f.synced \in Nat /\ Len(f.batches) \in Nat
  BY IsSeqFacts DEF IsFile
<1>3. m \in Nat /\ f.synced <= m /\ m <= Len(f.batches)
  BY <1>1, <1>2
<1>4. IsSeq(b) /\ Len(b) = m
  BY <1>1, <1>3, FunctionIsSeq
<1> QED
  BY <1>1, <1>3, <1>4 DEF LeftOf

LEMMA NumberedPrefix ==
  ASSUME NEW l, Numbered(l), NEW z \in Nat, z <= Len(l)
  PROVE  /\ Numbered(SubSeq(l, 1, z))
         /\ Len(SubSeq(l, 1, z)) = z
         /\ \A i \in 1..z : SubSeq(l, 1, z)[i] = l[i]
<1> DEFINE t == SubSeq(l, 1, z)
<1>1. Len(l) \in Nat
  BY IsSeqFacts DEF Numbered
<1>2. IsSeq(t) /\ Len(t) = z /\ \A i \in 1..z : t[i] = l[i]
  <2>1. /\ IsSeq(t) /\ Len(t) = IF 1 <= z THEN z - 1 + 1 ELSE 0
        /\ \A i \in 1..(z - 1 + 1) : t[i] = l[1 + i - 1]
    BY SubSeqFacts
  <2> HIDE DEF t
  <2> QED
    BY <2>1
<1> HIDE DEF t
<1>3. \A i \in 1..Len(t) : i \in 1..Len(l) /\ t[i] = l[i]
  BY <1>1, <1>2
<1>4. \A i \in 1..Len(t) : t[i].sequence = i
  BY <1>3 DEF Numbered
<1>5. Numbered(t)
  BY <1>2, <1>4 DEF Numbered
<1> QED
  BY <1>2, <1>5 DEF t

\* The power loss that leaves this file leaves z records of the log l, among
\* them the d promised ones.
LeavesTo(left, l, d, y, z) ==
  /\ z <= Len(l)
  /\ After(Readable(left.batches)) - 1 = z
  /\ Sound(left, SubSeq(l, 1, z), d, y, z)
  /\ NameWithFile => d <= z

LEMMA LossKept ==
  ASSUME NEW f, NEW l, Numbered(l), NEW d \in Nat, NEW x \in Nat, NEW e,
         Sound(f, l, d, x, e), NEW b \in SurvivingBatches(f),
         NEW left, left = [f EXCEPT !.header = "whole", !.batches = b, !.synced = Len(b)],
         NEW y \in Nat, x <= y, Len(f.batches) - f.synced <= y
  PROVE  \E z \in Nat : LeavesTo(left, l, d, y, z)
<1> DEFINE h == f.header
           g == f.generation
           c == f.batches
           n == f.synced
<1>1. /\ IsFile(f) /\ IsSeq(c) /\ n \in Nat /\ n <= Len(c) /\ g \in Nat \ {0}
      /\ LaidTo(h, n, c, l, d, e) /\ (MidFileCorruption(c) => x > 1)
      /\ f = FileOf(h, g, c, n)
  BY DEF Sound, IsFile
<1>2. LeftOf(c, n, b)
  BY <1>1, SurvivingIsLeft
<1>3. IsSeq(b) /\ Len(b) \in Nat /\ Len(c) \in Nat /\ IsSeq(l) /\ Len(l) \in Nat
  BY <1>1, <1>2, IsSeqFacts DEF LeftOf, Numbered
<1> DEFINE w == "whole"
           k == Len(b)
<1>4. left = FileOf(w, g, b, k) /\ left.batches = b
  <2>1. left = [[[f EXCEPT !.header = w] EXCEPT !.batches = b] EXCEPT !.synced = k]
    OBVIOUS
  <2> HIDE DEF w, k, g, c, n, h
  <2>2. [FileOf(h, g, c, n) EXCEPT !.header = w] = FileOf(w, g, c, n)
    BY DEF FileOf
  <2>3. [FileOf(w, g, c, n) EXCEPT !.batches = b] = FileOf(w, g, b, n)
    BY DEF FileOf
  <2>4. [FileOf(w, g, b, n) EXCEPT !.synced = k] = FileOf(w, g, b, k)
    BY DEF FileOf
  <2>5. left = FileOf(w, g, b, k)
    BY <1>1, <2>1, <2>2, <2>3, <2>4
  <2> QED
    BY <2>5 DEF FileOf
<1>5. Len(c) - n <= y
  OBVIOUS
<1>6. w \in {"absent", "torn", "written", "whole"} /\ ~(w \in {"absent", "torn"})
  OBVIOUS
<1>7. PICK z \in Nat : /\ LaidTo(w, k, b, l, d, z)
                       /\ z <= e
                       /\ NameWithFile => d <= z
  <2> HIDE DEF h, n, c
  <2> QED
    BY <1>1, <1>2, <1>3, LaidLeft
<1> HIDE DEF h, g, c, n, w, k
<1>8. e \in Nat /\ e <= Len(l)
  BY SoundFacts
<1>9. PICK s : ReadsAs(b, l, s, z)
  BY <1>3, <1>7, LaidReads
<1>10. After(Readable(b)) = z + 1
  BY <1>9, AfterRead
<1>11. After(Readable(left.batches)) - 1 = z
  BY <1>4, <1>10
<1>12. z <= Len(l)
  BY <1>3, <1>7, <1>8
<1> DEFINE t == SubSeq(l, 1, z)
<1>13. Numbered(t) /\ Len(t) = z /\ \A i \in 1..z : t[i] = l[i]
  BY <1>12, NumberedPrefix
<1> HIDE DEF t
<1>14. IsSeq(t)
  BY <1>13 DEF Numbered
<1>15. LaidTo(w, k, b, t, d, z)
  <2>1. z <= Len(t) /\ \A i \in 1..z : l[i] = t[i]
    BY <1>13
  <2> QED
    BY <1>3, <1>7, <1>14, <2>1, LaidMoves
<1>16. MidFileCorruption(b) => y > 1
  <2> SUFFICES ASSUME MidFileCorruption(b) PROVE y > 1
    OBVIOUS
  <2>1. MidFileCorruption(c) \/ Len(c) - n > 1
    BY <1>1, <1>2, CorruptionLeft
  <2>2. CASE MidFileCorruption(c)
    <3>1. x > 1
      BY <1>1, <2>2
    <3> QED
      BY <1>5, <3>1
  <2>3. CASE Len(c) - n > 1
    BY <1>1, <1>3, <1>5, <2>3
  <2> QED
    BY <2>1, <2>2, <2>3
<1>17. Sound(FileOf(w, g, b, k), t, d, y, z)
  <2>1. g \in Nat \ {0} /\ IsSeq(b) /\ k \in Nat /\ k <= Len(b)
    BY <1>1, <1>3 DEF k
  <2>2. w \in {"absent", "torn", "written", "whole"} /\ (w \in {"absent", "torn"} => b = <<>>)
    BY <1>6
  <2> QED
    BY ONLY <1>15, <1>16, <2>1, <2>2, SoundFile
<1>18. LeavesTo(left, l, d, y, z)
  BY <1>4, <1>7, <1>11, <1>12, <1>17 DEF LeavesTo, t
<1> QED
  BY <1>18

LEMMA LossUnreadable ==
  ASSUME NEW f, NEW l, Numbered(l), NEW d \in Nat, NEW x \in Nat, NEW e,
         Sound(f, l, d, x, e), f.header # "whole",
         NEW h \in {"absent", "torn"}, NEW left, left = [Absent EXCEPT !.header = h],
         NEW y \in Nat, x <= y, Len(f.batches) - f.synced <= y
  PROVE  \E z \in Nat : LeavesTo(left, l, d, y, z)
<1>1. left = FileOf(h, 1, <<>>, 0) /\ left.batches = <<>>
  BY DEF Absent, FileOf
<1>2. NameWithFile => d = 0
  BY SoundFacts
<1>3. IsSeq(l) /\ Len(l) \in Nat
  BY IsSeqFacts DEF Numbered
<1>4. IsSeq(<<>>) /\ Len(<<>>) = 0 /\ 0 \in Nat
  BY EmptyIsSeq
<1>5. LaidTo(h, 0, <<>>, l, d, 0)
  BY <1>2, <1>3, <1>4, EmptyLaid
<1>6. PICK s : ReadsAs(<<>>, l, s, 0)
  BY <1>3, <1>4, <1>5, LaidReads
<1>7. After(Readable(<<>>)) = 0 + 1
  BY <1>6, AfterRead
<1>8. After(Readable(left.batches)) - 1 = 0
  BY <1>1, <1>7
<1> DEFINE t == SubSeq(l, 1, 0)
<1>9. 0 <= Len(l)
  BY <1>3
<1>10. IsSeq(t)
  BY <1>4, <1>9, NumberedPrefix DEF Numbered
<1> HIDE DEF t
<1>11. LaidTo(h, 0, <<>>, t, d, 0)
  BY <1>2, <1>4, <1>10, EmptyLaid
<1>13. ~MidFileCorruption(<<>>)
  <2>1. Valid(<<>>) = 0
    <3>1. PassesTo(<<>>, 0)
      BY <1>4 DEF PassesTo
    <3> QED
      BY <1>4, <3>1, ValidIs
  <2> QED
    BY <1>4, <2>1, NoneIsMid
<1>14. Sound(left, t, d, y, 0)
  <2> DEFINE b == <<>>
             n == 0
             g == 1
             z == 0
  <2>1. /\ h \in {"absent", "torn", "written", "whole"} /\ g \in Nat \ {0}
        /\ IsSeq(b) /\ n \in Nat /\ n <= Len(b) /\ LaidTo(h, n, b, t, d, z)
        /\ left = FileOf(h, g, b, n)
    BY <1>1, <1>4, <1>11
  <2>2. h \in {"absent", "torn"} => b = <<>>
    OBVIOUS
  <2>3. MidFileCorruption(b) => y > 1
    BY <1>13
  <2> HIDE DEF b, n, g, z
  <2>4. Sound(FileOf(h, g, b, n), t, d, y, z)
    BY ONLY <2>1, <2>2, <2>3, SoundFile
  <2> QED
    BY <2>1, <2>4 DEF z
<1>15. NameWithFile => d <= 0
  BY <1>2
<1>16. LeavesTo(left, l, d, y, 0)
  BY <1>8, <1>9, <1>14, <1>15 DEF LeavesTo, t
<1> QED
  BY <1>4, <1>16

LEMMA PowerLossInv ==
  ASSUME Inv, PowerLoss
  PROVE  /\ Inv'
         /\ durable' = durable
         /\ Len(lineage') \in Nat
         /\ Len(lineage') <= Len(lineage)
         /\ lineage' = SubSeq(lineage, 1, Len(lineage'))
         /\ NameWithFile => durable <= Len(lineage')
<1>1. PICK f \in {file} \cup displaced : \E left \in Survivors(f) :
        /\ file' = left
        /\ lineage' = SubSeq(lineage, 1, After(Readable(left.batches)) - 1)
        /\ exposed' = LargerOf(exposed, Len(f.batches) - f.synced)
  BY DEF PowerLoss
<1>2. PICK left \in Survivors(f) :
        /\ file' = left
        /\ lineage' = SubSeq(lineage, 1, After(Readable(left.batches)) - 1)
        /\ exposed' = LargerOf(exposed, Len(f.batches) - f.synced)
  BY <1>1
<1>3. /\ stops < MaxStops /\ stops' = stops + 1 /\ displaced' = {} /\ status' = "closed"
      /\ Gone /\ durable' = durable
  BY DEF PowerLoss
<1>4. Numbered(lineage) /\ durable \in Nat /\ exposed \in Nat
  BY DEF Inv, Scalars
<1>5. PICK e : Sound(f, lineage, durable, exposed, e)
  <2>1. CASE f = file
    BY <2>1 DEF Inv
  <2>2. CASE f \in displaced
    BY <2>2 DEF Inv, SoundAll
  <2> QED
    BY <2>1, <2>2
<1> DEFINE Kept(b) == [f EXCEPT !.header = "whole", !.batches = b, !.synced = Len(b)]
<1>6. \/ \E b \in SurvivingBatches(f) : left = Kept(b)
      \/ f.header # "whole" /\ \E h \in {"absent", "torn"} : left = [Absent EXCEPT !.header = h]
  <2>1. CASE f.header = "whole"
    BY <1>2, <2>1 DEF Survivors
  <2>2. CASE f.header = "written"
    BY <1>2, <2>2 DEF Survivors
  <2>3. CASE f.header # "whole" /\ f.header # "written"
    BY <1>2, <2>3 DEF Survivors
  <2> QED
    BY <2>1, <2>2, <2>3
<1> DEFINE y == LargerOf(exposed, Len(f.batches) - f.synced)
<1>7. y \in Nat /\ exposed <= y /\ Len(f.batches) - f.synced <= y
  <2>1. f.synced \in Nat /\ Len(f.batches) \in Nat
    BY <1>5, IsSeqFacts DEF Sound, IsFile
  <2> QED
    BY <1>4, <2>1 DEF LargerOf
<1> HIDE DEF y
<1>8. PICK z \in Nat : LeavesTo(left, lineage, durable, y, z)
  <2>1. CASE \E b \in SurvivingBatches(f) : left = Kept(b)
    <3>1. PICK b \in SurvivingBatches(f) : left = Kept(b)
      BY <2>1
    <3> QED
      BY ONLY <1>4, <1>5, <1>7, <3>1, LossKept
  <2>2. CASE f.header # "whole" /\ \E h \in {"absent", "torn"} : left = [Absent EXCEPT !.header = h]
    <3>1. PICK h \in {"absent", "torn"} : left = [Absent EXCEPT !.header = h]
      BY <2>2
    <3> QED
      BY ONLY <1>4, <1>5, <1>7, <2>2, <3>1, LossUnreadable
  <2> QED
    BY <1>6, <2>1, <2>2
<1>9. lineage' = SubSeq(lineage, 1, z) /\ exposed' = y /\ z <= Len(lineage)
  BY <1>2, <1>8 DEF LeavesTo, y
<1>10. Numbered(lineage') /\ Len(lineage') = z
  BY <1>4, <1>9, NumberedPrefix
<1>11. Sound(file', lineage', durable', exposed', Len(lineage'))
  <2>1. Sound(left, SubSeq(lineage, 1, z), durable, y, z)
    BY <1>8 DEF LeavesTo
  <2> QED
    BY <1>2, <1>3, <1>9, <1>10, <2>1
<1>12. Scalars'
  BY <1>3, <1>7, <1>9, StoppedScalars
<1>13. SoundAll(displaced', lineage', durable', exposed')
  BY <1>3 DEF SoundAll
<1>14. MemoryMatchesFile' /\ Holding' /\ RefusesOnlyUnflushed'
  BY <1>3 DEF MemoryMatchesFile, Holding, RefusesOnlyUnflushed
<1>15. Inv'
  BY <1>10, <1>11, <1>12, <1>13, <1>14 DEF Inv
<1>16. NameWithFile => durable <= Len(lineage')
  BY <1>8, <1>10 DEF LeavesTo
<1> QED
  BY <1>3, <1>9, <1>10, <1>15, <1>16

-----------------------------------------------------------------------------
(* Every step, as a step of the promised log *)

\* What a step may do to the log l with d records promised: it leaves both
\* alone, extends the log, promises all of it or loses what is behind n.
Grows(l, d, t, p) ==
  /\ Len(t) > Len(l)
  /\ SubSeq(t, 1, Len(l)) = l
  /\ \A i \in (Len(l) + 1)..Len(t) : t[i].sequence = i
  /\ p \in {d, Len(t)}

LoggedStep ==
  \/ lineage' = lineage /\ durable' = durable
  \/ Grows(lineage, durable, lineage', durable')
  \/ lineage' = lineage /\ durable' = Len(lineage)
  \/ /\ durable' = durable
     /\ Len(lineage') \in Nat
     /\ Len(lineage') <= Len(lineage)
     /\ lineage' = SubSeq(lineage, 1, Len(lineage'))
     /\ NameWithFile => durable <= Len(lineage')

LEMMA PrefixGrows ==
  ASSUME NEW l, Numbered(l), NEW t, Numbered(t), Len(l) < Len(t),
         \A i \in 1..Len(l) : t[i] = l[i],
         NEW d, NEW p \in {d, Len(t)}
  PROVE  Grows(l, d, t, p)
<1> DEFINE m == Len(l)
           z == Len(t)
           u == SubSeq(t, 1, m)
<1>1. IsSeq(l) /\ IsSeq(t) /\ m \in Nat /\ z \in Nat
  BY IsSeqFacts DEF Numbered
<1>2. /\ IsSeq(u)
      /\ Len(u) = IF 1 <= m THEN m - 1 + 1 ELSE 0
      /\ \A i \in 1..(m - 1 + 1) : u[i] = t[1 + i - 1]
  <2>1. 1 \in Int /\ m \in Int
    BY <1>1
  <2> HIDE DEF m, z
  <2> QED
    BY <1>1, <2>1, SubSeqFacts
<1> HIDE DEF u
<1>3. Len(u) = m /\ \A i \in 1..m : u[i] = t[i]
  <2> HIDE DEF m, z
  <2>1. Len(u) = m
    BY <1>1, <1>2
  <2>2. ASSUME NEW i \in 1..m PROVE u[i] = t[i]
    <3>1. i \in 1..(m - 1 + 1) /\ 1 + i - 1 = i
      BY <1>1
    <3> QED
      BY <1>2, <3>1
  <2> QED
    BY <2>1, <2>2
<1>4. u = l
  BY <1>1, <1>2, <1>3, SameSeq
<1>5. \A i \in (m + 1)..z : t[i].sequence = i
  <2> TAKE i \in (m + 1)..z
  <2>1. i \in 1..Len(t)
    BY <1>1
  <2> QED
    BY <2>1 DEF Numbered
<1>6. z > m
  BY <1>1
<1> QED
  BY <1>4, <1>5, <1>6 DEF Grows, u

LEMMA AppendGrows ==
  ASSUME Numbered(lineage), NEW r, r.sequence = Len(lineage) + 1,
         lineage' = Append(lineage, r), durable' = durable
  PROVE  LoggedStep
<1> DEFINE t == Append(lineage, r)
<1>1. /\ Numbered(t)
      /\ Len(t) = Len(lineage) + 1
      /\ \A i \in 1..Len(lineage) : t[i] = lineage[i]
  BY NumberedAppend
<1> HIDE DEF t
<1>2. Len(lineage) < Len(t)
  BY <1>1, IsSeqFacts DEF Numbered
<1>3. durable \in {durable, Len(t)}
  OBVIOUS
<1>4. Grows(lineage, durable, t, durable)
  BY ONLY <1>1, <1>2, <1>3, Numbered(lineage), PrefixGrows
<1> QED
  BY <1>4 DEF LoggedStep, t

LEMMA BatchGrows ==
  ASSUME Inv, Usable, NEW events, Len(events) \in Nat \ {0},
         lineage' = lineage \o Prepared(events), durable' \in {durable, Len(lineage')}
  PROVE  LoggedStep
<1> DEFINE t == lineage \o Prepared(events)
           p == durable'
<1>1. /\ Numbered(t)
      /\ Len(t) = Len(lineage) + Len(events)
      /\ \A i \in 1..Len(lineage) : t[i] = lineage[i]
  BY LogGrown
<1>2. p \in {durable, Len(t)}
  OBVIOUS
<1>3. Numbered(lineage)
  BY DEF Inv
<1> HIDE DEF t, p
<1>4. Len(lineage) < Len(t)
  BY <1>1, <1>3, IsSeqFacts DEF Numbered
<1>5. Grows(lineage, durable, t, p)
  BY ONLY <1>1, <1>2, <1>3, <1>4, PrefixGrows
<1> QED
  BY <1>5 DEF LoggedStep, t, p

LEMMA AppendLogged ==
  ASSUME Inv, AppendBatch \/ Checkpoint
  PROVE  LoggedStep
<1>1. PICK events \in Batches \cup Checkpoints, flushed \in BOOLEAN :
        Written(events, flushed)
  BY DEF AppendBatch, Checkpoint
<1>2. Len(events) \in Nat \ {0}
  BY <1>1, BatchLength, CheckpointLength
<1>3. /\ lineage' = lineage \o Prepared(events)
      /\ Usable
      /\ durable' \in {durable, Len(lineage')}
  BY <1>1, <1>2, WrittenInv
<1> QED
  BY <1>2, <1>3, BatchGrows

LEMMA StutterInv ==
  ASSUME Inv, UNCHANGED vars
  PROVE  Inv' /\ LoggedStep
<1>1. /\ file' = file /\ displaced' = displaced /\ status' = status
      /\ records' = records /\ nextSequence' = nextSequence /\ faulted' = faulted
      /\ lineage' = lineage /\ durable' = durable /\ exposed' = exposed /\ stops' = stops
      /\ garbled' = garbled
  BY DEF vars, disk, memory, ghost, bounds
<1>2. Scalars' /\ MemoryMatchesFile' /\ Holding' /\ (NameWithFile => RefusesOnlyUnflushed')
  BY <1>1 DEF Inv, Scalars, MemoryMatchesFile, Holding, RefusesOnlyUnflushed,
              HeaderFailure
<1>3. Inv'
  BY <1>1, <1>2 DEF Inv
<1> QED
  BY <1>1, <1>3 DEF LoggedStep

\* The batches a power loss leaves are no more than there were: the one it
\* garbled was behind the synced ones.
LEMMA GarbledIsExposed ==
  ASSUME Inv, PowerLoss, Garbling
  PROVE  Garbling'
<1>0. PICK f \in {file} \cup displaced : \E left \in Survivors(f) :
        /\ \E g \in {FALSE, MayGarble(f, left.batches)} : garbled' = (garbled \/ g)
        /\ exposed' = LargerOf(exposed, Len(f.batches) - f.synced)
  BY DEF PowerLoss
<1>1. PICK left \in Survivors(f) :
        /\ \E g \in {FALSE, MayGarble(f, left.batches)} : garbled' = (garbled \/ g)
        /\ exposed' = LargerOf(exposed, Len(f.batches) - f.synced)
  BY <1>0
<1>2. IsFile(f) /\ exposed \in Nat
  BY DEF Inv, Sound, SoundAll, Scalars
<1> DEFINE n == f.synced
           k == Len(f.batches)
           b == left.batches
<1>3. n \in Nat /\ k \in Nat
  BY <1>2, IsSeqFacts DEF IsFile
<1>4. IsSeq(b) /\ Len(b) \in Nat /\ Len(b) <= k
  <2> DEFINE Kept(c) == [f EXCEPT !.header = "whole", !.batches = c, !.synced = Len(c)]
  <2>1. \/ \E c \in SurvivingBatches(f) : left = Kept(c)
        \/ \E h \in {"absent", "torn"} : left = [Absent EXCEPT !.header = h]
    <3>1. CASE f.header = "whole"
      BY <1>1, <3>1 DEF Survivors
    <3>2. CASE f.header = "written"
      BY <1>1, <3>2 DEF Survivors
    <3>3. CASE f.header # "whole" /\ f.header # "written"
      BY <1>1, <3>3 DEF Survivors
    <3> QED
      BY <3>1, <3>2, <3>3
  <2>2. CASE \E c \in SurvivingBatches(f) : left = Kept(c)
    <3>1. PICK c \in SurvivingBatches(f) : left = Kept(c)
      BY <2>2
    <3>2. LeftOf(f.batches, f.synced, c)
      BY <1>2, <3>1, SurvivingIsLeft
    <3>3. left.batches = c
      <4> DEFINE m == Len(c)
      <4>1. f = FileOf(f.header, f.generation, f.batches, f.synced)
        BY <1>2 DEF IsFile
      <4>2. left = [f EXCEPT !.header = "whole", !.batches = c, !.synced = m]
        BY <3>1
      <4> HIDE DEF m
      <4> QED
        BY <4>1, <4>2 DEF FileOf
    <3> QED
      BY <3>2, <3>3, IsSeqFacts DEF LeftOf
  <2>3. CASE \E h \in {"absent", "torn"} : left = [Absent EXCEPT !.header = h]
    <3>1. left.batches = <<>>
      BY <2>3 DEF Absent
    <3> QED
      BY <1>3, <3>1, EmptyIsSeq
  <2> QED
    BY <2>1, <2>2, <2>3
<1> DEFINE v == Valid(b)
<1>5. v \in Nat
  BY <1>4, ValidFacts
<1>6. garbled' \in BOOLEAN /\ (garbled' => garbled \/ (n <= v /\ v < Len(b)))
  BY <1>1 DEF MayGarble, Garbling
<1>7. exposed' = IF exposed < k - n THEN k - n ELSE exposed
  BY <1>1 DEF LargerOf
<1>8. garbled => exposed > 0
  BY DEF Garbling
<1> DEFINE w == Len(b)
<1>9. w \in Nat /\ w <= k /\ (garbled' => garbled \/ (n <= v /\ v < w))
  BY <1>4, <1>6
<1> HIDE DEF n, k, b, v, w
<1>10. garbled' => exposed' > 0
  BY <1>2, <1>3, <1>5, <1>7, <1>8, <1>9
<1> QED
  BY <1>6, <1>10 DEF Garbling

LEMMA GarblingStep ==
  ASSUME Inv, Garbling, [Next]_vars
  PROVE  Garbling'
<1>1. CASE PowerLoss
  BY <1>1, GarbledIsExposed
<1>2. CASE Recover \/ \E n \in DOMAIN records : Retain(n)
  <2>1. garbled' = FALSE
    BY <1>2 DEF Recover, Retain, Install
  <2> QED
    BY <2>1 DEF Garbling
<1>3. CASE \/ Create \/ CreateFails \/ Open \/ Refuse \/ AppendBatch \/ AppendThrows
           \/ Checkpoint \/ Flush \/ FlushThrows \/ DirectoryFlushed
           \/ DirectoryFlushThrows \/ Stop \/ UNCHANGED vars
  <2>1. garbled' = garbled /\ exposed' = exposed
    BY <1>3 DEF Create, CreateFails, Open, Refuse, AppendBatch, AppendThrows, Checkpoint,
                Written, Flush, FlushThrows, DirectoryFlushed, DirectoryFlushThrows, Stop,
                disk, bounds, vars
  <2> QED
    BY <2>1 DEF Garbling
<1> QED
  BY <1>1, <1>2, <1>3 DEF Next

LEMMA NextInv ==
  ASSUME Inv, Garbling, [Next]_vars
  PROVE  Inv' /\ LoggedStep
<1>1. CASE Create
  <2>1. lineage' = lineage /\ durable' = durable
    BY <1>1 DEF Create, ghost
  <2> QED
    BY <1>1, <2>1, CreateInv DEF LoggedStep
<1>2. CASE CreateFails
  <2>1. lineage' = lineage /\ durable' = durable
    BY <1>2 DEF CreateFails, ghost
  <2> QED
    BY <1>2, <2>1, CreateFailsInv DEF LoggedStep
<1>3. CASE Open
  <2>1. lineage' = lineage /\ durable' = durable
    BY <1>3 DEF Open, ghost
  <2> QED
    BY <1>3, <2>1, OpenInv DEF LoggedStep
<1>4. CASE Refuse
  <2>1. lineage' = lineage /\ durable' = durable
    BY <1>4 DEF Refuse, ghost
  <2> QED
    BY <1>4, <2>1, RefuseInv DEF LoggedStep
<1>5. CASE Recover
  <2>1. /\ Inv'
        /\ \E r : lineage' = Append(lineage, r) /\ r.sequence = Len(lineage) + 1
        /\ durable' = durable
    BY <1>5, RecoverInv
  <2>2. LoggedStep
    BY <2>1, AppendGrows DEF Inv
  <2> QED
    BY <2>1, <2>2
<1>6. CASE AppendBatch \/ Checkpoint
  BY <1>6, AppendInv, AppendLogged
<1>7. CASE AppendThrows
  <2>1. /\ Inv'
        /\ durable' = durable
        /\ \/ lineage' = lineage
           \/ /\ Usable
              /\ \E events : /\ Len(events) \in Nat \ {0}
                             /\ lineage' = lineage \o Prepared(events)
    BY <1>7, AppendThrowsInv
  <2>2. CASE lineage' = lineage
    BY <2>1, <2>2 DEF LoggedStep
  <2>3. CASE lineage' # lineage
    <3>1. PICK events : /\ Len(events) \in Nat \ {0}
                        /\ lineage' = lineage \o Prepared(events)
      BY <2>1, <2>3
    <3>2. LoggedStep
      BY <2>1, <2>3, <3>1, BatchGrows
    <3> QED
      BY <2>1, <3>2
  <2> QED
    BY <2>2, <2>3
<1>8. CASE Flush
  <2>1. lineage' = lineage /\ durable' = Len(lineage)
    BY <1>8 DEF Flush
  <2> QED
    BY <1>8, <2>1, FlushInv DEF LoggedStep
<1>9. CASE FlushThrows
  <2>1. lineage' = lineage /\ durable' = durable
    BY <1>9 DEF FlushThrows, ghost
  <2> QED
    BY <1>9, <2>1, FlushThrowsInv DEF LoggedStep
<1>10. CASE \E n \in DOMAIN records : Retain(n)
  <2>1. PICK n \in DOMAIN records : Retain(n)
    BY <1>10
  <2>2. /\ Inv'
        /\ \E r : lineage' = Append(lineage, r) /\ r.sequence = Len(lineage) + 1
        /\ durable' = durable
    BY <2>1, RetainInv
  <2>3. LoggedStep
    BY <2>2, AppendGrows DEF Inv
  <2> QED
    BY <2>2, <2>3
<1>11. CASE DirectoryFlushed
  <2>1. lineage' = lineage /\ durable' = Len(lineage)
    BY <1>11 DEF DirectoryFlushed
  <2> QED
    BY <1>11, <2>1, DirectoryFlushedInv DEF LoggedStep
<1>12. CASE DirectoryFlushThrows
  <2>1. lineage' = lineage /\ durable' = durable
    BY <1>12 DEF DirectoryFlushThrows, ghost
  <2> QED
    BY <1>12, <2>1, DirectoryFlushThrowsInv DEF LoggedStep
<1>13. CASE Stop
  <2>1. lineage' = lineage /\ durable' = durable
    BY <1>13 DEF Stop, ghost
  <2> QED
    BY <1>13, <2>1, StopInv DEF LoggedStep
<1>14. CASE PowerLoss
  BY <1>14, PowerLossInv DEF LoggedStep
<1>15. CASE UNCHANGED vars
  BY <1>15, StutterInv
<1> QED
  BY <1>1, <1>2, <1>3, <1>4, <1>5, <1>6, <1>7, <1>8, <1>9, <1>10, <1>11, <1>12,
     <1>13, <1>14, <1>15 DEF Next

LEMMA Invariant == Spec => [](Inv /\ Garbling)
<1>1. Init => Inv /\ Garbling
  BY InitInv DEF Init, Garbling
<1>2. Inv /\ Garbling /\ [Next]_vars => (Inv /\ Garbling)'
  BY NextInv, GarblingStep
<1> QED
  BY <1>1, <1>2, PTL DEF Spec

-----------------------------------------------------------------------------
(* The theorems *)

\* After every open, append, flush, recovery, retention, failure of one of them
\* and crash, the file is well formed, and a store in use that has not faulted
\* answers from memory what load_existing would read back, and numbers the next
\* record behind it.
THEOREM StoreConsistent == Spec => []Consistent
<1>1. Inv /\ Garbling => Consistent
  <2> SUFFICES ASSUME Inv, Garbling PROVE Consistent
    OBVIOUS
  <2>1. ASSUME NEW f \in {file} \cup displaced
        PROVE  /\ f.header \in {"absent", "torn", "written", "whole"}
               /\ f.generation \in Nat \ {0}
               /\ f.synced \in 0..Len(f.batches)
    <3>1. IsFile(f)
      BY DEF Inv, SoundAll, Sound
    <3>2. Len(f.batches) \in Nat
      BY <3>1, IsSeqFacts DEF IsFile
    <3> QED
      BY <3>1, <3>2 DEF IsFile
  <2>2. TypeOK
    BY <2>1 DEF TypeOK, Inv, Scalars, Garbling
  <2> QED
    BY <2>2 DEF Consistent, Inv
<1> QED
  BY <1>1, Invariant, PTL

\* retain_from_checkpoint never changes what replay makes of the session: what
\* the file holds projects to what every record since the first one projects
\* to, or fails as they do, also after recoveries and crashes in between.
THEOREM RetentionKeeps == Spec => []RetentionKeepsProjection
<1>1. Inv => RetentionKeepsProjection
  <2> SUFFICES ASSUME Inv PROVE RetentionKeepsProjection
    OBVIOUS
  <2> DEFINE z == Len(lineage)
  <2>1. PICK s : ReadsAs(file.batches, lineage, s, z)
    BY InvReads
  <2>2. Numbered(lineage) /\ IsSeq(lineage)
    BY DEF Inv, Numbered
  <2> HIDE DEF z
  <2>3. Project(Readable(file.batches)) = Project(SubSeq(lineage, 1, z))
    BY <2>1, <2>2, ProjectRead
  <2>4. SubSeq(lineage, 1, z) = lineage
    BY <2>2, SubSeqWhole DEF z
  <2> QED
    BY <2>3, <2>4 DEF RetentionKeepsProjection
<1> QED
  BY <1>1, Invariant, PTL

\* Where fsync of a file makes its name durable as well, the records that flush
\* or a flushing append_many returned for survive every stop, failed write,
\* power loss, recovery and retention, under the numbers they were given: a scan
\* finds the session's records from the first retained one to the last.
THEOREM FlushedRecordsSurvive ==
  ASSUME NameWithFile
  PROVE  Spec => []FlushedSurvives
<1>1. Inv => FlushedSurvives
  <2> SUFFICES ASSUME Inv PROVE FlushedSurvives
    OBVIOUS
  <2> DEFINE z == Len(lineage)
             all == Readable(file.batches)
  <2>1. PICK s : ReadsAs(file.batches, lineage, s, z)
    BY InvReads
  <2>2. Numbered(lineage) /\ IsSeq(lineage)
    BY DEF Inv, Numbered
  <2>3. durable <= z
    <3>1. durable \in Nat /\ Sound(file, lineage, durable, exposed, z)
      BY DEF Inv, Scalars
    <3> HIDE DEF z
    <3> QED
      BY <3>1, SoundFacts
  <2> HIDE DEF z
  <2>4. /\ \A i \in 1..(z - s + 1) : all[i].sequence = s + i - 1
        /\ all = <<>> <=> z = 0
    BY ONLY <2>1, <2>2, ReadFacts
  <2>5. s \in Nat \ {0} /\ z \in Nat /\ (s <= z \/ (s = 1 /\ z = 0))
        /\ all = SubSeq(lineage, s, z)
    BY <2>1 DEF ReadsAs
  <2> HIDE DEF all
  <2>6. all = <<>> => lineage = <<>>
    BY <2>2, <2>4, OnlyEmptyIsEmpty DEF z
  <2>7. ASSUME all # <<>> PROVE all = SubSeq(lineage, all[1].sequence, z)
    <3>1. 1 \in 1..(z - s + 1) /\ s + 1 - 1 = s
      BY <2>4, <2>5, <2>7
    <3>2. all[1].sequence = s
      BY <2>4, <3>1
    <3> QED
      BY <2>5, <3>2
  <2> QED
    BY <2>3, <2>6, <2>7 DEF FlushedSurvives, all, z
<1> QED
  BY <1>1, Invariant, PTL

\* Under the same hypothesis the constructor turns a file away only if nothing
\* was promised yet, or a power loss met several unflushed batches, or met one
\* and left it with its magic and a garbage header: no torn or corrupted append,
\* interrupted recovery or interrupted retention locks a session.
THEOREM RefusesOnly ==
  ASSUME NameWithFile
  PROVE  Spec => []RefusesOnlyUnflushed
<1>1. Inv => RefusesOnlyUnflushed
  BY DEF Inv
<1> QED
  BY <1>1, Invariant, PTL

\* Under the same hypothesis the file store implements EventStore: each of its
\* steps, those of recovery, retention and crashes included, extends the log,
\* promises it, loses a suffix that no flush promised, or does none of these.
THEOREM FileStoreIsEventStore ==
  ASSUME NameWithFile
  PROVE  Spec => IsEventStore
<1>1. Init => Promise!Init
  BY DEF Init, Promise!Init
<1>2. Inv /\ Garbling /\ [Next]_vars => [Promise!Next]_<<lineage, durable>>
  <2> SUFFICES ASSUME Inv, Garbling, [Next]_vars
               PROVE  [Promise!Next]_<<lineage, durable>>
    OBVIOUS
  <2>1. LoggedStep
    BY NextInv
  <2>2. CASE lineage' = lineage /\ durable' = durable
    BY <2>2
  <2>3. CASE Grows(lineage, durable, lineage', durable')
    BY <2>3 DEF Grows, Promise!Next, Promise!Extend
  <2>4. CASE lineage' = lineage /\ durable' = Len(lineage)
    BY <2>4 DEF Promise!Next, Promise!Promise
  <2>5. CASE /\ durable' = durable
             /\ Len(lineage') \in Nat
             /\ Len(lineage') <= Len(lineage)
             /\ lineage' = SubSeq(lineage, 1, Len(lineage'))
             /\ NameWithFile => durable <= Len(lineage')
    <3>1. durable \in Nat /\ Len(lineage) \in Nat
      BY IsSeqFacts DEF Inv, Scalars, Numbered
    <3>2. Len(lineage') \in durable..Len(lineage)
      BY <2>5, <3>1
    <3>3. Promise!Lose
      BY <2>5, <3>2 DEF Promise!Lose
    <3> QED
      BY <3>3 DEF Promise!Next
  <2> QED
    BY <2>1, <2>2, <2>3, <2>4, <2>5 DEF LoggedStep
<1> QED
  BY <1>1, <1>2, Invariant, PTL DEF Spec, IsEventStore, Promise!Spec

=============================================================================

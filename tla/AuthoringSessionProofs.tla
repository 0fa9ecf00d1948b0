----------------------- MODULE AuthoringSessionProofs -----------------------
(***************************************************************************)
(* The session's counter is the sum of what is retained, evaluations are   *)
(* of what was proposed, an evaluation reported as Passed passed           *)
(* completely, and totals that call themselves complete are true.          *)
(*                                                                         *)
(* The invariant says what every scope, proposal and kept evaluation is,   *)
(* and of the evaluation in progress (RunInv) how far it is: the cases     *)
(* before the current one passed, the frames of the current one before the *)
(* current one passed, and the phase says what of this frame is known. The *)
(* lemmas go through the steps of a run from the inside out: the store,    *)
(* the ends of frames and cases, the callbacks, then the session's calls.  *)
(*                                                                         *)
(* The totals rest on a second invariant, of the trace (TotalsInv): as     *)
(* long as no record was refused, the frames of every case are on the      *)
(* trace in the order in which they ran, each closed and with what         *)
(* happened in it (Layout); once one was refused, some case shows it.      *)
(***************************************************************************)
EXTENDS AuthoringSession, TLAPS, FiniteSetTheorems, SequenceTheorems,
        WellFoundedInduction

-----------------------------------------------------------------------------
(* Sequences of any kind of elements *)

IsSeq(s) == s \in Seq(Range(s))

LEMMA SeqIsSeq ==
  ASSUME NEW S, NEW s \in Seq(S)
  PROVE  IsSeq(s)
BY SeqOfRange DEF IsSeq

LEMMA IsSeqFacts ==
  ASSUME NEW s, IsSeq(s)
  PROVE  Len(s) \in Nat /\ DOMAIN s = 1..Len(s)
BY LenProperties DEF IsSeq

LEMMA EmptyIsSeq == IsSeq(<<>>) /\ Len(<<>>) = 0
<1>1. <<>> \in Seq({})
  BY EmptySeq
<1> QED
  BY <1>1, EmptySeq, SeqIsSeq

LEMMA OnlyEmptyIsEmpty ==
  ASSUME NEW s, IsSeq(s)
  PROVE  s = <<>> <=> Len(s) = 0
<1>1. s # <<>> => Len(s) \in Nat \ {0}
  BY EmptySeq DEF IsSeq
<1> QED
  BY <1>1, EmptyIsSeq

LEMMA IsSeqBoth ==
  ASSUME NEW s, NEW t, IsSeq(s), IsSeq(t)
  PROVE  \E S : s \in Seq(S) /\ t \in Seq(S)
<1> DEFINE S == Range(s) \cup Range(t)
<1>1. Range(s) \subseteq S /\ Range(t) \subseteq S
  OBVIOUS
<1> HIDE DEF S
<1>2. s \in Seq(S)
  BY <1>1, SeqMonotonic DEF IsSeq
<1>3. t \in Seq(S)
  BY <1>1, SeqMonotonic DEF IsSeq
<1> QED
  BY <1>2, <1>3

LEMMA SameSeq ==
  ASSUME NEW s, NEW t, IsSeq(s), IsSeq(t), Len(s) = Len(t),
         \A i \in 1..Len(s) : s[i] = t[i]
  PROVE  s = t
<1>1. PICK S : s \in Seq(S) /\ t \in Seq(S)
  BY IsSeqBoth
<1> QED
  BY <1>1, SeqEqual

LEMMA SubSeqFacts ==
  ASSUME NEW s, NEW m \in Int, NEW n \in Int
  PROVE  /\ IsSeq(SubSeq(s, m, n))
         /\ Len(SubSeq(s, m, n)) = IF m <= n THEN n - m + 1 ELSE 0
         /\ \A i \in 1..(n - m + 1) : SubSeq(s, m, n)[i] = s[m + i - 1]
<1> DEFINE S == {s[i] : i \in m..n}
<1>1. \A i \in m..n : s[i] \in S
  OBVIOUS
<1> HIDE DEF S
<1>2. /\ SubSeq(s, m, n) \in Seq(S)
      /\ Len(SubSeq(s, m, n)) = IF m <= n THEN n - m + 1 ELSE 0
      /\ \A i \in 1..(n - m + 1) : SubSeq(s, m, n)[i] = s[m + i - 1]
  BY <1>1, SubSeqProperties
<1> QED
  BY <1>2, SeqIsSeq

LEMMA ConcatFacts ==
  ASSUME NEW s, NEW t, IsSeq(s), IsSeq(t)
  PROVE  /\ IsSeq(s \o t)
         /\ Len(s \o t) = Len(s) + Len(t)
         /\ \A i \in 1..(Len(s) + Len(t)) :
              (s \o t)[i] = IF i <= Len(s) THEN s[i] ELSE t[i - Len(s)]
<1>1. PICK S : s \in Seq(S) /\ t \in Seq(S)
  BY IsSeqBoth
<1>2. s \o t \in Seq(S)
  BY <1>1, ConcatProperties
<1>3. Len(s \o t) = Len(s) + Len(t)
  BY <1>1, ConcatProperties
<1>4. \A i \in 1..(Len(s) + Len(t)) :
        (s \o t)[i] = IF i <= Len(s) THEN s[i] ELSE t[i - Len(s)]
  BY <1>1, ConcatProperties
<1> QED
  BY <1>2, <1>3, <1>4, SeqIsSeq

LEMMA AppendFacts ==
  ASSUME NEW s, NEW e, IsSeq(s)
  PROVE  /\ IsSeq(Append(s, e))
         /\ Len(Append(s, e)) = Len(s) + 1
         /\ \A i \in 1..Len(s) : Append(s, e)[i] = s[i]
         /\ Append(s, e)[Len(s) + 1] = e
<1> DEFINE S == Range(s) \cup {e}
<1>1. Range(s) \subseteq S /\ e \in S
  OBVIOUS
<1> HIDE DEF S
<1>2. s \in Seq(S)
  BY <1>1, SeqMonotonic DEF IsSeq
<1>3. Append(s, e) \in Seq(S)
  BY <1>1, <1>2, AppendProperties
<1>4. Len(Append(s, e)) = Len(s) + 1
  BY <1>1, <1>2, AppendProperties
<1>5. \A i \in 1..Len(s) : Append(s, e)[i] = s[i]
  BY <1>1, <1>2, AppendProperties
<1>6. Append(s, e)[Len(s) + 1] = e
  BY <1>1, <1>2, AppendProperties
<1> QED
  BY <1>3, <1>4, <1>5, <1>6, SeqIsSeq

LEMMA FunctionIsSeq ==
  ASSUME NEW n \in Nat, NEW S, NEW f \in [1..n -> S]
  PROVE  IsSeq(f) /\ Len(f) = n
<1>1. f \in Seq(S)
  BY SeqDef
<1>2. Len(f) \in Nat /\ DOMAIN f = 1..Len(f)
  BY <1>1, LenProperties
<1>3. 1..Len(f) = 1..n
  BY <1>2
<1>4. Len(f) = n
  BY <1>2, <1>3
<1> QED
  BY <1>1, <1>4, SeqIsSeq

-----------------------------------------------------------------------------
(* Sums *)

LEMMA LeastOf ==
  ASSUME NEW S \in SUBSET Nat, S # {}
  PROVE  \E m \in S : \A k \in S : m <= k
<1>1. IsWellFoundedOn(OpToRel(<, Nat), Nat)
  BY NatLessThanWellFounded
<1>2. PICK m \in S : \A k \in S : ~ (<<k, m>> \in OpToRel(<, Nat))
  BY <1>1, WFMin
<1>3. ASSUME NEW k \in S PROVE m <= k
  <2>1. m \in Nat /\ k \in Nat /\ ~(k < m)
    BY <1>2 DEF OpToRel
  <2> QED
    BY <2>1
<1> QED
  BY <1>2, <1>3

\* g gives the sum of f over every subset of S, in whatever order.
Additive(f, S, g) ==
  /\ g \in [SUBSET S -> Nat]
  /\ g[{}] = 0
  /\ \A s \in SUBSET S : \A x \in s : g[s] = f[x] + g[s \ {x}]

LEMMA AdditiveGrows ==
  ASSUME NEW S, NEW f, \A x \in S : f[x] \in Nat, NEW x \in S, NEW g, Additive(f, S \ {x}, g)
  PROVE  \E h : Additive(f, S, h)
<1> DEFINE h == [s \in SUBSET S |-> IF x \in s THEN f[x] + g[s \ {x}] ELSE g[s]]
<1>1. \A s \in SUBSET S : s \ {x} \in SUBSET (S \ {x}) /\ (x \notin s => s \in SUBSET (S \ {x}))
  OBVIOUS
<1>2. h \in [SUBSET S -> Nat]
  <2> SUFFICES ASSUME NEW s \in SUBSET S
               PROVE  (IF x \in s THEN f[x] + g[s \ {x}] ELSE g[s]) \in Nat
    OBVIOUS
  <2>1. x \notin s => g[s] \in Nat
    BY <1>1 DEF Additive
  <2>2. g[s \ {x}] \in Nat
    BY <1>1 DEF Additive
  <2> QED
    BY <2>1, <2>2
<1>3. h[{}] = 0
  BY DEF Additive
<1>4. ASSUME NEW s \in SUBSET S, NEW y \in s PROVE h[s] = f[y] + h[s \ {y}]
  <2>1. s \ {y} \in SUBSET S
    OBVIOUS
  <2>2. CASE x \notin s
    <3>1. s \in SUBSET (S \ {x}) /\ h[s] = g[s] /\ h[s \ {y}] = g[s \ {y}]
      BY <1>1, <2>1, <2>2
    <3> QED
      BY <3>1 DEF Additive
  <2>3. CASE x = y
    BY <2>1, <2>3
  <2>4. CASE x \in s /\ x # y
    <3> DEFINE t == s \ {x}
    <3>1. h[s] = f[x] + g[t] /\ h[s \ {y}] = f[x] + g[(s \ {y}) \ {x}]
      BY <2>1, <2>4
    <3>2. (s \ {y}) \ {x} = t \ {y} /\ y \in t /\ t \in SUBSET (S \ {x})
      BY <2>4
    <3> HIDE DEF t, h
    <3>3. t \ {y} \in SUBSET (S \ {x})
      BY <3>2
    <3>4. g[t] = f[y] + g[t \ {y}] /\ g[t] \in Nat /\ g[t \ {y}] \in Nat
      BY <3>2, <3>3 DEF Additive
    <3>5. f[x] \in Nat /\ f[y] \in Nat
      OBVIOUS
    <3>6. h[s \ {y}] = f[x] + g[t \ {y}]
      BY <3>1, <3>2
    <3> DEFINE a == g[t]
               b == g[t \ {y}]
    <3>7. h[s] = f[x] + a /\ a = f[y] + b /\ h[s \ {y}] = f[x] + b
          /\ a \in Nat /\ b \in Nat
      BY <3>1, <3>4, <3>6
    <3> HIDE DEF a, b
    <3> QED
      BY <3>5, <3>7
  <2> QED
    BY <2>2, <2>3, <2>4
<1>5. Additive(f, S, h)
  <2> HIDE DEF h
  <2> QED
    BY <1>2, <1>3, <1>4 DEF Additive
<1> QED
  BY <1>5

LEMMA AdditiveSome ==
  ASSUME NEW S, IsFiniteSet(S), NEW f, \A x \in S : f[x] \in Nat
  PROVE  \E g : Additive(f, S, g)
<1> DEFINE Bad == {n \in Nat : \E T \in SUBSET S :
                     Cardinality(T) = n /\ ~(\E g : Additive(f, T, g))}
<1>1. ASSUME Bad # {} PROVE FALSE
  <2>1. PICK n \in Bad : \A m \in Bad : n <= m
    BY <1>1, LeastOf
  <2>2. PICK T \in SUBSET S : Cardinality(T) = n /\ ~(\E g : Additive(f, T, g))
    BY <2>1
  <2>3. IsFiniteSet(T)
    BY FS_Subset
  <2>4. CASE T = {}
    <3> DEFINE g == [s \in SUBSET {} |-> 0]
    <3>1. Additive(f, {}, g)
      BY DEF Additive
    <3> QED
      BY <2>2, <2>4, <3>1
  <2>5. CASE T # {}
    <3>1. PICK x \in T : TRUE
      BY <2>5
    <3> DEFINE U == T \ {x}
    <3>2. Cardinality(U) = n - 1
      BY <2>2, <2>3, <3>1, FS_RemoveElement
    <3>3. IsFiniteSet(U) /\ Cardinality(U) \in Nat
      BY <2>3, FS_RemoveElement, FS_CardinalityType
    <3>4. n - 1 \notin Bad
      BY <2>1, <3>2, <3>3
    <3>5. PICK g : Additive(f, U, g)
      BY <3>2, <3>3, <3>4
    <3>6. \A y \in T : f[y] \in Nat
      OBVIOUS
    <3> HIDE DEF Bad
    <3>7. \E h : Additive(f, T, h)
      BY <3>1, <3>5, <3>6, AdditiveGrows
    <3> QED
      BY <2>2, <3>7
  <2> QED
    BY <2>4, <2>5
<1>2. Cardinality(S) \in Nat /\ S \in SUBSET S
  BY FS_CardinalityType
<1> QED
  BY <1>1, <1>2

\* What FoldFunctionOnSet chooses.
Summing(f, S, h) ==
  h = [s \in SUBSET S |->
         IF s = {} THEN 0
         ELSE f[CHOOSE x \in s : TRUE] + h[s \ {CHOOSE x \in s : TRUE}]]

LEMMA SumIsSumming ==
  ASSUME NEW S, NEW f
  PROVE  SumFunctionOnSet(f, S) = (CHOOSE h : Summing(f, S, h))[S]
BY DEF SumFunctionOnSet, FoldFunctionOnSet, MapThenFoldSet, Summing

LEMMA SumIs ==
  ASSUME NEW S, IsFiniteSet(S), NEW f, NEW g, Additive(f, S, g)
  PROVE  SumFunctionOnSet(f, S) = g[S]
<1> DEFINE First(s) == CHOOSE x \in s : TRUE
<1>1. Summing(f, S, g)
  <2>1. \A s \in SUBSET S : g[s] = IF s = {} THEN 0 ELSE f[First(s)] + g[s \ {First(s)}]
    BY DEF Additive
  <2> QED
    BY <2>1 DEF Additive, Summing
<1>2. PICK h : h = (CHOOSE k : Summing(f, S, k))
  OBVIOUS
<1>3. Summing(f, S, h)
  BY <1>1, <1>2
<1>4. \A s \in SUBSET S : h[s] = IF s = {} THEN 0 ELSE f[First(s)] + h[s \ {First(s)}]
  BY <1>3 DEF Summing
<1>5. \A s \in SUBSET S : g[s] = IF s = {} THEN 0 ELSE f[First(s)] + g[s \ {First(s)}]
  BY DEF Additive
<1>6. \A s \in SUBSET S : s # {} => First(s) \in s
  OBVIOUS
<1> HIDE DEF First
<1> DEFINE Bad == {n \in Nat : \E T \in SUBSET S : Cardinality(T) = n /\ h[T] # g[T]}
<1>7. ASSUME Bad # {} PROVE FALSE
  <2>1. PICK n \in Bad : \A m \in Bad : n <= m
    BY <1>7, LeastOf
  <2>2. PICK T \in SUBSET S : Cardinality(T) = n /\ h[T] # g[T]
    BY <2>1
  <2>3. IsFiniteSet(T) /\ T # {}
    BY <1>4, <1>5, <2>2, FS_Subset
  <2> DEFINE x == First(T)
             U == T \ {x}
  <2>4. x \in T /\ U \in SUBSET S
    BY <1>6, <2>3
  <2>5. h[T] = f[x] + h[U] /\ g[T] = f[x] + g[U]
    BY <1>4, <1>5, <2>3
  <2>6. h[U] # g[U]
    BY <2>2, <2>5
  <2>7. Cardinality(U) = n - 1 /\ Cardinality(U) \in Nat
    BY <2>2, <2>3, <2>4, FS_RemoveElement, FS_CardinalityType
  <2>8. n - 1 \in Bad
    BY <2>4, <2>6, <2>7
  <2> QED
    BY <2>1, <2>8
<1>8. Cardinality(S) \in Nat /\ S \in SUBSET S
  BY FS_CardinalityType
<1>9. h[S] = g[S]
  BY <1>7, <1>8
<1> QED
  BY <1>2, <1>9, SumIsSumming

LEMMA SumOverFacts ==
  ASSUME NEW S, IsFiniteSet(S), NEW f, \A x \in S : f[x] \in Nat
  PROVE  /\ SumFunctionOnSet(f, S) \in Nat
         /\ S = {} => SumFunctionOnSet(f, S) = 0
         /\ \A x \in S : SumFunctionOnSet(f, S) = f[x] + SumFunctionOnSet(f, S \ {x})
<1>1. PICK g : Additive(f, S, g)
  BY AdditiveSome
<1>2. SumFunctionOnSet(f, S) = g[S]
  BY <1>1, SumIs
<1>3. g[S] \in Nat /\ (S = {} => g[S] = 0)
  BY <1>1 DEF Additive
<1>4. ASSUME NEW x \in S PROVE SumFunctionOnSet(f, S) = f[x] + SumFunctionOnSet(f, S \ {x})
  <2> DEFINE T == S \ {x}
             h == [s \in SUBSET T |-> g[s]]
  <2>1. T \in SUBSET S /\ SUBSET T \subseteq SUBSET S
    OBVIOUS
  <2>2. Additive(f, T, h)
    <3>1. h \in [SUBSET T -> Nat]
      BY <1>1, <2>1 DEF Additive
    <3>2. h[{}] = 0
      BY <1>1 DEF Additive
    <3>3. ASSUME NEW s \in SUBSET T, NEW y \in s PROVE h[s] = f[y] + h[s \ {y}]
      <4>1. s \ {y} \in SUBSET T
        OBVIOUS
      <4> QED
        BY <1>1, <2>1, <4>1 DEF Additive
    <3> HIDE DEF h, T
    <3> QED
      BY <3>1, <3>2, <3>3 DEF Additive
  <2>3. IsFiniteSet(T)
    BY FS_RemoveElement
  <2>4. h[T] = g[T]
    OBVIOUS
  <2> HIDE DEF h
  <2>5. SumFunctionOnSet(f, T) = g[T]
    BY <2>2, <2>3, <2>4, SumIs
  <2>6. g[S] = f[x] + g[T]
    BY <1>1 DEF Additive
  <2> QED
    BY <1>2, <2>5, <2>6
<1> QED
  BY <1>2, <1>3, <1>4

LEMMA SumOverSame ==
  ASSUME NEW S, IsFiniteSet(S), NEW f, \A x \in S : f[x] \in Nat,
         NEW h, \A x \in S : h[x] = f[x]
  PROVE  SumFunctionOnSet(h, S) = SumFunctionOnSet(f, S)
<1>1. PICK g : Additive(f, S, g)
  BY AdditiveSome
<1>2. Additive(h, S, g)
  <2>1. ASSUME NEW s \in SUBSET S, NEW x \in s PROVE g[s] = h[x] + g[s \ {x}]
    BY <1>1 DEF Additive
  <2> QED
    BY <1>1, <2>1 DEF Additive
<1> QED
  BY <1>1, <1>2, SumIs

\* The values of a finite function.
Amounts(f) == IsFiniteSet(DOMAIN f) /\ \A x \in DOMAIN f : f[x] \in Nat

LEMMA SumFacts ==
  ASSUME NEW f, Amounts(f)
  PROVE  /\ SumFunction(f) \in Nat
         /\ DOMAIN f = {} => SumFunction(f) = 0
BY SumOverFacts DEF SumFunction, Amounts

LEMMA SumAdded ==
  ASSUME NEW f, Amounts(f), NEW k, k \notin DOMAIN f,
         NEW g, DOMAIN g = DOMAIN f \cup {k}, g[k] \in Nat, \A x \in DOMAIN f : g[x] = f[x]
  PROVE  Amounts(g) /\ SumFunction(g) = SumFunction(f) + g[k]
<1> DEFINE S == DOMAIN f
           T == S \cup {k}
<1>1. IsFiniteSet(S) /\ (\A x \in S : f[x] \in Nat) /\ IsFiniteSet(T) /\ T \ {k} = S
  BY FS_AddElement DEF Amounts
<1>2. \A x \in T : g[x] \in Nat
  BY <1>1
<1>3. SumFunctionOnSet(g, T) = g[k] + SumFunctionOnSet(g, T \ {k})
  BY <1>1, <1>2, SumOverFacts
<1>4. SumFunctionOnSet(g, S) = SumFunctionOnSet(f, S)
  BY <1>1, SumOverSame
<1>5. SumFunctionOnSet(f, S) \in Nat
  BY <1>1, SumOverFacts
<1> QED
  BY <1>1, <1>2, <1>3, <1>4, <1>5 DEF SumFunction, Amounts

LEMMA SumRemoved ==
  ASSUME NEW f, Amounts(f), NEW k \in DOMAIN f,
         NEW g, DOMAIN g = DOMAIN f \ {k}, \A x \in DOMAIN g : g[x] = f[x]
  PROVE  Amounts(g) /\ SumFunction(g) = SumFunction(f) - f[k]
<1> DEFINE S == DOMAIN f
           T == S \ {k}
<1>1. IsFiniteSet(S) /\ (\A x \in S : f[x] \in Nat) /\ IsFiniteSet(T)
  BY FS_RemoveElement DEF Amounts
<1>2. \A x \in T : f[x] \in Nat /\ g[x] = f[x]
  BY <1>1
<1>3. SumFunctionOnSet(f, S) = f[k] + SumFunctionOnSet(f, T)
  BY <1>1, SumOverFacts
<1>4. SumFunctionOnSet(g, T) = SumFunctionOnSet(f, T) /\ SumFunctionOnSet(f, T) \in Nat
  BY <1>1, <1>2, SumOverSame, SumOverFacts
<1> QED
  BY <1>1, <1>2, <1>3, <1>4 DEF SumFunction, Amounts

LEMMA SumReplaced ==
  ASSUME NEW f, Amounts(f), NEW k \in DOMAIN f,
         NEW g, DOMAIN g = DOMAIN f, g[k] \in Nat, \A x \in DOMAIN f \ {k} : g[x] = f[x]
  PROVE  Amounts(g) /\ SumFunction(g) = SumFunction(f) - f[k] + g[k]
<1> DEFINE S == DOMAIN f
           T == S \ {k}
<1>1. IsFiniteSet(S) /\ (\A x \in S : f[x] \in Nat) /\ IsFiniteSet(T)
  BY FS_RemoveElement DEF Amounts
<1>2. (\A x \in T : f[x] \in Nat /\ g[x] = f[x]) /\ (\A x \in S : g[x] \in Nat)
  BY <1>1
<1>3. /\ SumFunctionOnSet(f, S) = f[k] + SumFunctionOnSet(f, T)
      /\ SumFunctionOnSet(g, S) = g[k] + SumFunctionOnSet(g, T)
  BY <1>1, <1>2, SumOverFacts
<1>4. SumFunctionOnSet(g, T) = SumFunctionOnSet(f, T) /\ SumFunctionOnSet(f, T) \in Nat
  BY <1>1, <1>2, SumOverSame, SumOverFacts
<1>5. f[k] \in Nat
  BY <1>1
<1> QED
  BY <1>1, <1>2, <1>3, <1>4, <1>5 DEF SumFunction, Amounts

LEMMA SumSame ==
  ASSUME NEW f, Amounts(f), NEW g, DOMAIN g = DOMAIN f, \A x \in DOMAIN f : g[x] = f[x]
  PROVE  Amounts(g) /\ SumFunction(g) = SumFunction(f)
BY SumOverSame DEF SumFunction, Amounts

-----------------------------------------------------------------------------
(* The invariant of a run *)

RunFields ==
  {"phase", "ticket", "suite", "manifest", "case", "frame", "granted", "result",
   "results", "status", "records", "bytes", "exhausted", "trace", "lifecycle", "work",
   "truth", "lost"}

ResultFields ==
  {"name", "status", "framesScheduled", "framesRun", "frames", "finalState"}

IsResult(x) ==
  /\ DOMAIN x = ResultFields
  /\ x.name \in Nat
  /\ x.framesScheduled \in Nat
  /\ x.framesRun \in Nat
  /\ IsSeq(x.frames)
  /\ x.finalState \in Nat

IsSuite(suite) ==
  /\ IsSeq(suite)
  /\ Len(suite) # 0
  /\ \A i \in 1..Len(suite) : suite[i].name \in Nat /\ suite[i].frames \in Nat \ {0}

\* The budget: what is charged is what the trace holds.
Charged(r) ==
  /\ r.records \in Nat
  /\ r.bytes \in Nat
  /\ IsSeq(r.trace)
  /\ BatchBytes(r.trace) = r.bytes
  /\ r.bytes <= MaxEvaluationRecordBytes

RunTyped(r) ==
  /\ DOMAIN r = RunFields
  /\ IsSuite(r.suite)
  /\ IsSeq(r.manifest.capabilities)
  /\ r.case \in 1..Len(r.suite)
  /\ IsResult(r.result)
  /\ IsSeq(r.results)
  /\ \A i \in 1..Len(r.results) : IsResult(r.results[i])
  /\ IsSeq(r.truth)
  /\ Charged(r)
  /\ r.lost => r.exhausted

\* The summary x of a frame in which t happened, before and after its assertion.
FrameDone(x, t) ==
  /\ x.completed
  /\ x.lifecycle = "Success"
  /\ x.commands <= t.commands

FramePassed(x, t) == FrameDone(x, t) /\ x.asserted

\* The first n frames of a case passed.
FramesPassed(x, t, n) ==
  /\ x.framesRun = n
  /\ Len(x.frames) = n
  /\ \A f \in 1..n : FramePassed(x.frames[f], t[f])

CasePassed(x, t, n) ==
  /\ x.status = "Passed"
  /\ x.finalState = n
  /\ FramesPassed(x, t, x.framesScheduled)

Grants(r) == Len(r.manifest.capabilities)

\* The first n cases passed.
CasesPassed(r, n) ==
  /\ Len(r.results) = n
  /\ \A i \in 1..n : CasePassed(r.results[i], r.truth[i], Grants(r))

\* The case in progress, whose frames x sums up and of which t is true.
InCase(r, x, t) ==
  CASE r.phase = "prepare" ->
         r.frame = 1 /\ x.status = "Passed" /\ FramesPassed(x, t, 0) /\ Len(t) = 0
    [] r.phase \in {"input", "advance"} ->
         /\ r.frame \in 1..x.framesScheduled
         /\ x.status = "Passed"
         /\ FramesPassed(x, t, r.frame - 1)
         /\ Len(t) = r.frame - 1
    [] r.phase = "observe" ->
         /\ r.frame \in 1..x.framesScheduled
         /\ x.status = "Passed"
         /\ FramesPassed(x, t, r.frame - 1)
         /\ Len(t) = r.frame
         /\ t[r.frame] = Happened(r.work)
         /\ r.work \in Work
         /\ ~r.exhausted
    [] r.phase = "expect" ->
         /\ r.frame \in 1..x.framesScheduled
         /\ x.status = "Passed"
         /\ x.framesRun = r.frame
         /\ Len(x.frames) = r.frame
         /\ \A f \in 1..(r.frame - 1) : FramePassed(x.frames[f], t[f])
         /\ FrameDone(x.frames[r.frame], t[r.frame])
         /\ "asserted" \in DOMAIN x.frames[r.frame]
         /\ Len(t) = r.frame
         /\ ~r.exhausted
    [] r.phase = "final" ->
         x.status = "Passed" => ~r.exhausted /\ FramesPassed(x, t, x.framesScheduled)

RunInv(r) ==
  /\ RunTyped(r)
  /\ IF r.phase = "done"
     THEN r.status = "Passed" => ~r.lost /\ CasesPassed(r, Len(r.suite))
     ELSE /\ r.phase \in {"prepare", "input", "advance", "observe", "expect", "final"}
          /\ r.status = "Passed"
          /\ CasesPassed(r, r.case - 1)
          /\ Len(r.truth) = r.case
          /\ IsSeq(r.truth[r.case])
          /\ r.result.framesScheduled = r.suite[r.case].frames
          /\ InCase(r, r.result, r.truth[r.case])

-----------------------------------------------------------------------------
(* The invariant of the session *)

ScopeFields == {"owner", "grants", "revision", "targets", "payloadCharge"}

IsScope(s) ==
  /\ DOMAIN s = ScopeFields
  /\ s.owner \in Owners
  /\ s.revision \in Nat
  /\ IsSeq(s.grants)
  /\ Len(s.targets) \in Nat
  /\ s.payloadCharge \in Nat

\* A proposal keeps the targets its scope had at its revision.
Follows(p) ==
  p.scope \in DOMAIN scopes =>
    /\ p.revision <= scopes[p.scope].revision
    /\ p.revision = scopes[p.scope].revision => p.targets = scopes[p.scope].targets

IsProposal(p) ==
  /\ p.owner \in Owners
  /\ p.source \in Sources
  /\ p.scope \in 1..lastScope
  /\ p.revision \in Nat
  /\ Len(p.targets) \in Nat
  /\ Follows(p)

\* targets are those of a proposal that is retained.
Proposed(proposal, targets) ==
  proposal \in DOMAIN proposals /\ targets = proposals[proposal].targets

Kept(entry) ==
  /\ Proposed(entry.proposal, entry.targets)
  /\ EntryCharge(entry) \in Nat
  /\ entry.status = "Passed" =>
       /\ entry.complete
       /\ ~entry.lost
       /\ IsSeq(entry.cases)
       /\ Len(entry.cases) # 0
       /\ \A i \in 1..Len(entry.cases) :
            /\ CasePassed(entry.cases[i], entry.truth[i], Len(entry.targets))
            /\ IsResult(entry.cases[i])

Running ==
  /\ RunInv(run)
  /\ run.ticket.reservation = Reservation
  /\ run.ticket.id = lastEvaluation /\ lastEvaluation # 0
  /\ run.ticket.id \notin DOMAIN evaluations
  /\ Proposed(run.ticket.proposal, run.ticket.targets)
  /\ Grants(run) = Len(run.ticket.targets)

SessionInv ==
  /\ lastScope \in Nat /\ lastProposal \in Nat /\ lastEvaluation \in Nat
  /\ DOMAIN scopes \subseteq 1..lastScope
  /\ DOMAIN proposals \subseteq 1..lastProposal
  /\ DOMAIN evaluations \subseteq 1..lastEvaluation
  /\ \A s \in DOMAIN scopes : IsScope(scopes[s])
  /\ \A p \in DOMAIN proposals : IsProposal(proposals[p])
  /\ \A f \in DOMAIN suites : IsSuite(suites[f])
  /\ DOMAIN values = Components
  /\ \A c \in Components : values[c] \in ValuesOf[c]

Inv ==
  /\ SessionInv
  /\ \A id \in DOMAIN evaluations : Kept(evaluations[id])
  /\ run.phase # "idle" => Running
  /\ PayloadIsSum

-----------------------------------------------------------------------------
(* What the parts of a step do to a run *)

\* q is r but for the fields in F.
Keeps(r, q, F) == DOMAIN q = RunFields /\ \A f \in RunFields \ F : q[f] = r[f]

LEMMA StopFacts ==
  ASSUME NEW r, DOMAIN r = RunFields, IsResult(r.result), NEW status
  PROVE  /\ Keeps(r, Stop(r, status), {"result"})
         /\ IsResult(Stop(r, status).result)
         /\ \A f \in ResultFields \ {"status"} : Stop(r, status).result[f] = r.result[f]
         /\ status # "Passed" => Stop(r, status).result.status # "Passed"
<1> DEFINE q == Stop(r, status)
<1>1. CASE r.result.status # "Passed"
  <2>1. q = r
    BY <1>1 DEF Stop
  <2> QED
    BY <1>1, <2>1 DEF Keeps
<1>2. CASE r.result.status = "Passed"
  <2> DEFINE new == IF r.exhausted THEN "LimitExceeded" ELSE status
             x == [r.result EXCEPT !.status = new]
  <2>1. q = [r EXCEPT !.result = x]
    BY <1>2 DEF Stop
  <2>2. /\ DOMAIN x = ResultFields
        /\ x.status = new
        /\ \A f \in ResultFields \ {"status"} : x[f] = r.result[f]
    BY DEF IsResult, ResultFields
  <2>3. /\ x.name = r.result.name /\ x.framesScheduled = r.result.framesScheduled
        /\ x.framesRun = r.result.framesRun /\ x.frames = r.result.frames
        /\ x.finalState = r.result.finalState
    BY <2>2 DEF ResultFields
  <2> HIDE DEF x
  <2>4. IsResult(x)
    BY <2>2, <2>3 DEF IsResult
  <2>5. Keeps(r, q, {"result"}) /\ q.result = x
    BY <2>1 DEF Keeps, RunFields
  <2>6. status # "Passed" => x.status # "Passed"
    BY <2>2
  <2> QED
    BY <2>2, <2>4, <2>5, <2>6
<1> QED
  BY <1>1, <1>2

LEMMA AddSummaryFacts ==
  ASSUME NEW r, DOMAIN r = RunFields, IsResult(r.result), NEW summary
  PROVE  /\ Keeps(r, AddSummary(r, summary), {"result"})
         /\ IsResult(AddSummary(r, summary).result)
         /\ AddSummary(r, summary).result.frames = Append(r.result.frames, summary)
         /\ AddSummary(r, summary).result.framesRun = r.result.framesRun + 1
         /\ AddSummary(r, summary).result.framesScheduled = r.result.framesScheduled
         /\ AddSummary(r, summary).result.status = r.result.status
         /\ AddSummary(r, summary).result.finalState = r.result.finalState
<1> DEFINE q == AddSummary(r, summary)
           x == [r.result EXCEPT !.frames = Append(@, summary), !.framesRun = @ + 1]
<1>1. q = [r EXCEPT !.result = x]
  BY DEF AddSummary, RunFields, IsResult, ResultFields
<1>2. /\ DOMAIN x = ResultFields
      /\ x.frames = Append(r.result.frames, summary)
      /\ x.framesRun = r.result.framesRun + 1
      /\ x.framesScheduled = r.result.framesScheduled
      /\ x.status = r.result.status
      /\ x.finalState = r.result.finalState
      /\ x.name = r.result.name
  BY DEF IsResult, ResultFields
<1> HIDE DEF x
<1>3. IsResult(x)
  <2>1. IsSeq(x.frames)
    BY <1>2, AppendFacts DEF IsResult
  <2> QED
    BY <1>2, <2>1 DEF IsResult
<1>4. Keeps(r, q, {"result"}) /\ q.result = x
  BY <1>1 DEF Keeps, RunFields
<1> QED
  BY <1>2, <1>3, <1>4

LEMMA BatchBytesFacts ==
  ASSUME NEW s, IsSeq(s)
  PROVE  /\ BatchBytes(s) \in Nat
         /\ s = <<>> => BatchBytes(s) = 0
<1> DEFINE f == [i \in DOMAIN s |-> EventBytes(s[i].type)]
<1>1. Amounts(f) /\ DOMAIN f = 1..Len(s) /\ Len(s) \in Nat
  <2>1. Len(s) \in Nat /\ DOMAIN s = 1..Len(s)
    BY IsSeqFacts
  <2>2. IsFiniteSet(DOMAIN f)
    BY <2>1, FS_Interval
  <2> QED
    BY <2>1, <2>2 DEF Amounts, EventBytes
<1>2. BatchBytes(s) = SumFunction(f)
  BY DEF BatchBytes
<1> HIDE DEF f
<1>3. s = <<>> => DOMAIN f = {}
  BY <1>1, EmptyIsSeq
<1> QED
  BY <1>1, <1>2, <1>3, SumFacts

LEMMA BatchBytesAppend ==
  ASSUME NEW s, IsSeq(s), NEW e
  PROVE  BatchBytes(Append(s, e)) = BatchBytes(s) + EventBytes(e.type)
<1> DEFINE t == Append(s, e)
           k == Len(s) + 1
           f == [i \in DOMAIN s |-> EventBytes(s[i].type)]
           g == [i \in DOMAIN t |-> EventBytes(t[i].type)]
<1>1. IsSeq(t) /\ Len(t) = k /\ (\A i \in 1..Len(s) : t[i] = s[i]) /\ t[k] = e
  BY AppendFacts
<1>2. Len(s) \in Nat /\ DOMAIN s = 1..Len(s) /\ DOMAIN t = 1..k
  BY <1>1, IsSeqFacts
<1>3. Amounts(f)
  <2>1. IsFiniteSet(DOMAIN f)
    BY <1>2, FS_Interval
  <2> QED
    BY <2>1 DEF Amounts, EventBytes
<1>4. k \notin DOMAIN f /\ DOMAIN g = DOMAIN f \cup {k}
  BY <1>2
<1>5. g[k] = EventBytes(e.type) /\ EventBytes(e.type) \in Nat
  BY <1>1, <1>2 DEF EventBytes
<1>6. \A x \in DOMAIN f : g[x] = f[x]
  BY <1>1, <1>2
<1>7. BatchBytes(s) = SumFunction(f) /\ BatchBytes(t) = SumFunction(g)
  BY DEF BatchBytes
<1> HIDE DEF f, g, k, t
<1>8. SumFunction(g) = SumFunction(f) + g[k]
  BY <1>3, <1>4, <1>5, <1>6, SumAdded
<1> QED
  BY <1>5, <1>7, <1>8 DEF t

StoreFields == {"records", "bytes", "trace", "exhausted"}

\* q is r with this record, or r with its budget spent.
StoreFacts(r, e, q) ==
  /\ Keeps(r, q, StoreFields)
  /\ Charged(q)
  /\ \/ ~r.exhausted /\ ~q.exhausted /\ q.trace = Append(r.trace, Traced(r, e))
     \/ q.exhausted /\ q.trace = r.trace

LEMMA StoreOne ==
  ASSUME NEW r, DOMAIN r = RunFields, Charged(r), NEW e
  PROVE  StoreFacts(r, e, Store(r, <<e>>))
<1> DEFINE q == Store(r, <<e>>)
           b == <<e>>
           a == Traced(r, e)
           n == BatchBytes(b)
<1>1. MaxEvaluationRecords \in Nat /\ MaxEvaluationRecordBytes \in Nat
  BY AuthoringAssumption
<1>2. r.records \in Nat /\ r.bytes \in Nat /\ IsSeq(r.trace)
      /\ BatchBytes(r.trace) = r.bytes /\ r.bytes <= MaxEvaluationRecordBytes
  BY DEF Charged
<1>3. Len(b) = 1 /\ DOMAIN b = 1..1 /\ b[1] = e
  OBVIOUS
<1>4. b = Append(<<>>, e)
  OBVIOUS
<1>5. n = EventBytes(e.type) /\ EventBytes(e.type) \in Nat
  <2> DEFINE z == <<>>
  <2>1. IsSeq(z) /\ b = Append(z, e) /\ z = <<>>
    BY <1>4, EmptyIsSeq
  <2> HIDE DEF z, b
  <2>2. BatchBytes(z) = 0
    BY <2>1, BatchBytesFacts
  <2>3. EventBytes(e.type) \in Nat
    BY DEF EventBytes
  <2>4. BatchBytes(b) = BatchBytes(z) + EventBytes(e.type)
    BY <2>1, BatchBytesAppend
  <2> QED
    BY <2>2, <2>3, <2>4
<1>6. r.trace \o [i \in DOMAIN b |-> Traced(r, b[i])] = Append(r.trace, a)
  <2>1. [i \in DOMAIN b |-> Traced(r, b[i])] = <<a>>
    BY <1>3
  <2> HIDE DEF a
  <2>2. r.trace \o <<a>> = Append(r.trace, a)
    BY <1>2, AppendIsConcat DEF IsSeq
  <2> QED
    BY <2>1, <2>2 DEF a
<1>7. EventBytes(a.type) = EventBytes(e.type)
  BY DEF Traced
<1>8. CASE Admits(r, b)
  <2>1. q = [r EXCEPT !.records = @ + Len(b), !.bytes = @ + n,
                      !.trace = @ \o [i \in DOMAIN b |-> Traced(r, b[i])]]
    BY <1>8 DEF Store
  <2> HIDE DEF n, a, b
  <2>2. /\ Keeps(r, q, StoreFields)
        /\ q.records = r.records + Len(b)
        /\ q.bytes = r.bytes + n
        /\ q.trace = r.trace \o [i \in DOMAIN b |-> Traced(r, b[i])]
        /\ q.exhausted = r.exhausted
    BY <2>1 DEF Keeps, RunFields, StoreFields
  <2> HIDE DEF q
  <2>3. q.trace = Append(r.trace, a)
    BY <1>6, <2>2
  <2>4. ~r.exhausted /\ n <= MaxEvaluationRecordBytes - r.bytes
    BY <1>8 DEF Admits, Fits, n
  <2>5. IsSeq(q.trace) /\ BatchBytes(q.trace) = r.bytes + n
    BY <1>2, <1>5, <1>7, <2>3, AppendFacts, BatchBytesAppend
  <2>6. q.records \in Nat /\ q.bytes \in Nat /\ q.bytes <= MaxEvaluationRecordBytes
    BY <1>1, <1>2, <1>3, <1>5, <2>2, <2>4
  <2>7. Charged(q)
    BY <2>2, <2>5, <2>6 DEF Charged
  <2> QED
    BY <2>2, <2>3, <2>4, <2>7 DEF StoreFacts, q, a, b
<1>9. CASE ~Admits(r, b)
  <2>1. q = [r EXCEPT !.exhausted = TRUE]
    BY <1>9 DEF Store
  <2>2. /\ Keeps(r, q, StoreFields)
        /\ q.records = r.records
        /\ q.bytes = r.bytes
        /\ q.trace = r.trace
        /\ q.exhausted = TRUE
    BY <2>1 DEF Keeps, RunFields, StoreFields
  <2> HIDE DEF q
  <2>3. Charged(q)
    BY <1>2, <2>2 DEF Charged
  <2> QED
    BY <2>2, <2>3 DEF StoreFacts, q, b
<1> QED
  BY <1>8, <1>9

\* Frames are recorded one record at a time. q is r after the first n records
\* of s: those before the first refusal are on the trace.
Traces(r, s, m) == [i \in 1..m |-> Traced(r, s[i])]

StoredUpTo(r, s, n, q) ==
  /\ Keeps(r, q, StoreFields)
  /\ Charged(q)
  /\ r.exhausted => q.exhausted
  /\ \E m \in 0..n :
       /\ q.trace = r.trace \o Traces(r, s, m)
       /\ ~q.exhausted => m = n
       /\ q.exhausted /\ ~r.exhausted => m < n
       /\ r.exhausted => m = 0

LEMMA TracesFacts ==
  ASSUME NEW r, NEW s, NEW m \in Nat
  PROVE  IsSeq(Traces(r, s, m)) /\ Len(Traces(r, s, m)) = m
<1> DEFINE f == Traces(r, s, m)
           S == {Traced(r, s[i]) : i \in 1..m}
<1>1. f \in [1..m -> S]
  BY DEF Traces
<1> HIDE DEF f, S
<1>2. IsSeq(f) /\ Len(f) = m
  BY <1>1, FunctionIsSeq
<1> QED
  BY <1>2 DEF f

\* Concatenation, one element at a time.
LEMMA ConcatAppend ==
  ASSUME NEW s, IsSeq(s), NEW t, IsSeq(t), NEW e
  PROVE  Append(s \o t, e) = s \o Append(t, e)
<1> DEFINE a == Append(s \o t, e)
           b == s \o Append(t, e)
           m == Len(s)
           k == Len(t)
<1>1. m \in Nat /\ k \in Nat
  BY IsSeqFacts
<1>2. IsSeq(s \o t) /\ Len(s \o t) = m + k
      /\ \A i \in 1..(m + k) : (s \o t)[i] = IF i <= m THEN s[i] ELSE t[i - m]
  BY ConcatFacts
<1>3. /\ IsSeq(a) /\ Len(a) = m + k + 1 /\ a[m + k + 1] = e
      /\ \A i \in 1..(m + k) : a[i] = IF i <= m THEN s[i] ELSE t[i - m]
  <2>1. /\ IsSeq(a)
        /\ Len(a) = Len(s \o t) + 1
        /\ \A i \in 1..Len(s \o t) : a[i] = (s \o t)[i]
        /\ a[Len(s \o t) + 1] = e
    BY <1>2, AppendFacts
  <2> QED
    BY <1>1, <1>2, <2>1
<1>4. /\ IsSeq(Append(t, e)) /\ Len(Append(t, e)) = k + 1
      /\ \A i \in 1..k : Append(t, e)[i] = t[i]
      /\ Append(t, e)[k + 1] = e
  BY AppendFacts
<1>5. /\ IsSeq(b) /\ Len(b) = m + (k + 1)
      /\ \A i \in 1..(m + (k + 1)) : b[i] = IF i <= m THEN s[i] ELSE Append(t, e)[i - m]
  BY <1>4, ConcatFacts
<1> HIDE DEF a, b, m, k
<1>6. ASSUME NEW i \in 1..Len(a) PROVE a[i] = b[i]
  <2>1. i \in 1..(m + (k + 1)) /\ i \in Int
    BY <1>1, <1>3
  <2>2. CASE i <= m
    <3>1. i \in 1..(m + k)
      BY <1>1, <2>1, <2>2
    <3> QED
      BY <1>3, <1>5, <2>1, <2>2, <3>1
  <2>3. CASE m < i /\ i <= m + k
    <3>1. i \in 1..(m + k) /\ ~(i <= m) /\ i - m \in 1..k
      BY <1>1, <2>1, <2>3
    <3>2. a[i] = t[i - m] /\ b[i] = Append(t, e)[i - m]
      BY <1>3, <1>5, <2>1, <3>1
    <3> QED
      BY <1>4, <3>1, <3>2
  <2>4. CASE i = m + k + 1
    <3>1. ~(i <= m) /\ i - m = k + 1
      BY <1>1, <2>4
    <3>2. b[i] = Append(t, e)[k + 1]
      BY <1>5, <2>1, <3>1
    <3> QED
      BY <1>3, <1>4, <2>4, <3>2
  <2> QED
    BY <1>1, <2>1, <2>2, <2>3, <2>4
<1>7. Len(a) = Len(b)
  BY <1>1, <1>3, <1>5
<1>8. a = b
  BY <1>3, <1>5, <1>6, <1>7, SameSeq
<1> QED
  BY <1>8 DEF a, b

Appended(s, t, e, v, w) == v = Append(t, e) /\ w = Append(s \o t, e)

LEMMA ConcatAppended ==
  ASSUME NEW s, IsSeq(s), NEW t, IsSeq(t), NEW e, NEW v, NEW w, Appended(s, t, e, v, w)
  PROVE  w = s \o v
<1>1. Append(s \o t, e) = s \o Append(t, e)
  BY ONLY IsSeq(s), IsSeq(t), ConcatAppend
<1>2. v = Append(t, e) /\ w = Append(s \o t, e)
  BY DEF Appended
<1> QED
  BY ONLY <1>1, <1>2

LEMMA TracesAppend ==
  ASSUME NEW r, NEW s, NEW m \in Nat
  PROVE  Append(Traces(r, s, m), Traced(r, s[m + 1])) = Traces(r, s, m + 1)
<1> DEFINE a == Append(Traces(r, s, m), Traced(r, s[m + 1]))
           b == Traces(r, s, m + 1)
<1>1. IsSeq(Traces(r, s, m)) /\ Len(Traces(r, s, m)) = m
  BY TracesFacts
<1>2. /\ IsSeq(a) /\ Len(a) = m + 1
      /\ \A i \in 1..m : a[i] = Traces(r, s, m)[i]
      /\ a[m + 1] = Traced(r, s[m + 1])
  BY <1>1, AppendFacts
<1>3. IsSeq(b) /\ Len(b) = m + 1
  <2>1. m + 1 \in Nat
    OBVIOUS
  <2> QED
    BY <2>1, TracesFacts
<1>4. \A i \in 1..(m + 1) : b[i] = Traced(r, s[i])
  BY DEF Traces
<1>5. \A i \in 1..m : Traces(r, s, m)[i] = Traced(r, s[i])
  BY DEF Traces
<1> HIDE DEF a, b
<1>6. \A i \in 1..Len(a) : a[i] = b[i]
  BY <1>2, <1>4, <1>5
<1>7. a = b
  BY <1>2, <1>3, <1>6, SameSeq
<1> QED
  BY <1>7 DEF a, b

LEMMA StoredNext ==
  ASSUME NEW r, DOMAIN r = RunFields, IsSeq(r.trace), NEW s, NEW n \in Nat,
         NEW q, StoredUpTo(r, s, n, q), NEW u, StoreFacts(q, s[n + 1], u)
  PROVE  StoredUpTo(r, s, n + 1, u)
<1>1. Keeps(r, u, StoreFields) /\ q.case = r.case
  BY DEF StoredUpTo, StoreFacts, Keeps, RunFields, StoreFields
<1>2. Charged(u)
  BY DEF StoreFacts
<1>3. PICK m \in 0..n :
       /\ q.trace = r.trace \o Traces(r, s, m)
       /\ ~q.exhausted => m = n
       /\ q.exhausted /\ ~r.exhausted => m < n
       /\ r.exhausted => m = 0
  BY DEF StoredUpTo
<1>4. r.exhausted => q.exhausted
  BY DEF StoredUpTo
<1>5. CASE ~q.exhausted /\ ~u.exhausted /\ u.trace = Append(q.trace, Traced(q, s[n + 1]))
  <2>1. Traced(q, s[n + 1]) = Traced(r, s[n + 1])
    BY <1>1 DEF Traced
  <2>2. m = n
    BY <1>3, <1>5
  <2>3. IsSeq(Traces(r, s, n))
    BY TracesFacts
  <2>4. u.trace = Append(r.trace \o Traces(r, s, n), Traced(r, s[n + 1]))
    BY <1>3, <1>5, <2>1, <2>2
  <2>5. u.trace = r.trace \o Traces(r, s, n + 1)
    <3> DEFINE t == Traces(r, s, n)
               a == Traced(r, s[n + 1])
               v == Traces(r, s, n + 1)
    <3>1. IsSeq(t) /\ Append(t, a) = v /\ u.trace = Append(r.trace \o t, a)
      BY <2>3, <2>4, TracesAppend
    <3> HIDE DEF t, a, v
    <3> DEFINE l == r.trace
    <3>2. IsSeq(l) /\ u.trace = Append(l \o t, a)
      BY <3>1
    <3> HIDE DEF l
    <3> DEFINE w == u.trace
    <3>3. Appended(l, t, a, v, w)
      BY <3>1, <3>2 DEF Appended
    <3> HIDE DEF w
    <3>4. w = l \o v
      <4>1. IsSeq(l) /\ IsSeq(t)
        BY <3>1, <3>2
      <4> QED
        BY ONLY <4>1, <3>3, ConcatAppended
    <3> QED
      BY <3>4 DEF v, l, w
  <2>6. n + 1 \in 0..(n + 1)
    OBVIOUS
  <2>7. ~r.exhausted
    BY <1>4, <1>5
  <2> QED
    BY <1>1, <1>2, <1>5, <2>5, <2>6, <2>7 DEF StoredUpTo
<1>6. CASE u.exhausted /\ u.trace = q.trace
  <2>1. m \in 0..(n + 1) /\ m < n + 1
    OBVIOUS
  <2> QED
    BY <1>1, <1>2, <1>3, <1>6, <2>1 DEF StoredUpTo
<1> QED
  BY <1>5, <1>6 DEF StoreFacts

\* What FoldLeft chooses for the records of s up to n.
Folds(r, s, n, h) ==
  h = [t \in SUBSET (1..n) |->
         IF t = {} THEN r ELSE Store(h[t \ {Max(t)}], <<s[Max(t)]>>)]

LEMMA MaxIs ==
  ASSUME NEW t, NEW n \in Nat, t \in SUBSET (1..n), n \in t
  PROVE  Max(t) = n
<1>1. \A y \in t : n >= y
  OBVIOUS
<1>2. Max(t) \in t /\ \A y \in t : Max(t) >= y
  BY <1>1 DEF Max
<1> DEFINE m == Max(t)
<1>3. m \in t /\ m >= n
  BY <1>2
<1> HIDE DEF m
<1>4. m \in 1..n
  BY <1>3
<1>5. m = n
  BY <1>3, <1>4
<1> QED
  BY <1>5 DEF m

LEMMA FoldsExtends ==
  ASSUME NEW r, NEW s, NEW n \in Nat, NEW h, Folds(r, s, n, h)
  PROVE  \E g : Folds(r, s, n + 1, g)
<1> DEFINE k == n + 1
           g == [t \in SUBSET (1..k) |->
                   IF k \in t THEN Store(h[t \ {k}], <<s[k]>>) ELSE h[t]]
<1>1. ASSUME NEW t \in SUBSET (1..k)
      PROVE  g[t] = IF t = {} THEN r ELSE Store(g[t \ {Max(t)}], <<s[Max(t)]>>)
  <2>1. CASE k \in t
    <3>1. Max(t) = k
      <4>1. k \in Nat
        OBVIOUS
      <4> QED
        BY <2>1, <4>1, MaxIs
    <3>2. t \ {k} \in SUBSET (1..k) /\ k \notin t \ {k}
      OBVIOUS
    <3>3. g[t \ {k}] = h[t \ {k}]
      BY <3>2
    <3>4. g[t] = Store(h[t \ {k}], <<s[k]>>) /\ t # {}
      BY <2>1
    <3> HIDE DEF g, k
    <3> QED
      BY <3>1, <3>3, <3>4
  <2>2. CASE k \notin t
    <3>1. t \in SUBSET (1..n)
      BY <2>2
    <3>2. g[t] = h[t]
      BY <2>2
    <3>3. t \ {Max(t)} \in SUBSET (1..k) /\ k \notin t \ {Max(t)}
      BY <2>2
    <3>4. g[t \ {Max(t)}] = h[t \ {Max(t)}]
      BY <3>3
    <3>5. h[t] = IF t = {} THEN r ELSE Store(h[t \ {Max(t)}], <<s[Max(t)]>>)
      BY <3>1 DEF Folds
    <3> HIDE DEF g, k
    <3> QED
      BY <3>2, <3>4, <3>5
  <2> QED
    BY <2>1, <2>2
<1>2. g = [t \in SUBSET (1..k) |-> g[t]]
  OBVIOUS
<1> HIDE DEF g
<1>3. Folds(r, s, k, g)
  BY <1>1, <1>2 DEF Folds
<1> QED
  BY <1>3

LEMMA FoldsSome ==
  ASSUME NEW r, NEW s, NEW n \in Nat
  PROVE  \E h : Folds(r, s, n, h)
<1> DEFINE Bad == {k \in Nat : ~(\E h : Folds(r, s, k, h))}
<1>1. ASSUME Bad # {} PROVE FALSE
  <2>1. PICK k \in Bad : \A j \in Bad : k <= j
    BY <1>1, LeastOf
  <2>2. k # 0
    <3> DEFINE h == [t \in SUBSET (1..0) |-> r]
    <3>1. Folds(r, s, 0, h)
      BY DEF Folds
    <3> QED
      BY <3>1
  <2>3. k - 1 \in Nat /\ k - 1 \notin Bad /\ (k - 1) + 1 = k
    BY <2>1, <2>2
  <2>4. PICK h : Folds(r, s, k - 1, h)
    BY <2>3
  <2>5. \E g : Folds(r, s, (k - 1) + 1, g)
    <3> DEFINE j == k - 1
    <3>1. j \in Nat /\ Folds(r, s, j, h)
      BY <2>3, <2>4
    <3> HIDE DEF j
    <3>2. \E g : Folds(r, s, j + 1, g)
      BY <3>1, FoldsExtends
    <3> QED
      BY <3>2 DEF j
  <2> QED
    BY <2>1, <2>3, <2>5
<1> QED
  BY <1>1

LEMMA FoldsStart ==
  ASSUME NEW r, NEW s, NEW n \in Nat, NEW h, Folds(r, s, n, h), NEW t, t = {}
  PROVE  h[t] = r
<1>1. t \in SUBSET (1..n)
  OBVIOUS
<1> QED
  BY <1>1 DEF Folds

LEMMA FoldsAt ==
  ASSUME NEW r, NEW s, NEW n \in Nat, NEW h, Folds(r, s, n, h), NEW k \in 0..n
  PROVE  k # 0 => h[1..k] = Store(h[1..(k - 1)], <<s[k]>>)
<1>1. 1..k \in SUBSET (1..n)
  OBVIOUS
<1>2. h[1..k] = IF 1..k = {} THEN r
                ELSE Store(h[(1..k) \ {Max(1..k)}], <<s[Max(1..k)]>>)
  BY <1>1 DEF Folds
<1>3. k # 0 => 1..k # {} /\ Max(1..k) = k /\ (1..k) \ {k} = 1..(k - 1)
  <2> SUFFICES ASSUME k # 0 PROVE 1..k # {} /\ Max(1..k) = k /\ (1..k) \ {k} = 1..(k - 1)
    OBVIOUS
  <2>1. k \in 1..k /\ k \in Nat /\ 1..k \in SUBSET (1..k)
    OBVIOUS
  <2>2. Max(1..k) = k
    BY <2>1, MaxIs
  <2>3. (1..k) \ {k} = 1..(k - 1)
    BY <2>1
  <2> QED
    BY <2>1, <2>2, <2>3
<1> QED
  BY <1>2, <1>3

\* RecordFrame stores the records of a frame in their order.
LEMMA FrameStored ==
  ASSUME NEW r, DOMAIN r = RunFields, Charged(r), NEW s, IsSeq(s)
  PROVE  StoredUpTo(r, s, Len(s), FoldLeft(LAMBDA acc, e : Store(acc, <<e>>), r, s))
<1> DEFINE n == Len(s)
           h == CHOOSE g : Folds(r, s, n, g)
<1>1. n \in Nat /\ DOMAIN s = 1..n
  BY IsSeqFacts
<1>2. FoldLeft(LAMBDA acc, e : Store(acc, <<e>>), r, s) = h[1..n]
  BY <1>1 DEF FoldLeft, MapThenFoldSet, Folds
<1> HIDE DEF n
<1>3. Folds(r, s, n, h)
  BY <1>1, FoldsSome
<1> HIDE DEF h
<1>4. IsSeq(r.trace)
  BY DEF Charged
<1> DEFINE Bad == {k \in Nat : k <= n /\ ~StoredUpTo(r, s, k, h[1..k])}
<1>5. ASSUME Bad # {} PROVE FALSE
  <2>1. PICK k \in Bad : \A j \in Bad : k <= j
    BY <1>5, LeastOf
  <2>2. k \in 0..n /\ k \in Nat
    BY <1>1, <2>1
  <2>3. k # 0
    <3> SUFFICES ASSUME k = 0 PROVE FALSE
      OBVIOUS
    <3>1. h[1..k] = r
      <4>1. 1..k = {}
        OBVIOUS
      <4> QED
        BY <1>1, <1>3, <4>1, FoldsStart
    <3> DEFINE z == Traces(r, s, 0)
    <3>2. z = <<>>
      <4>1. IsSeq(z) /\ Len(z) = 0
        BY TracesFacts
      <4> HIDE DEF z
      <4> QED
        BY <4>1, OnlyEmptyIsEmpty
    <3>3. r.trace = r.trace \o z
      BY <1>4, <3>2, ConcatEmptySeq DEF IsSeq
    <3>4. Keeps(r, r, StoreFields)
      BY DEF Keeps
    <3>5. 0 \in 0..0
      OBVIOUS
    <3>6. StoredUpTo(r, s, 0, r)
      BY <3>3, <3>4, <3>5 DEF StoredUpTo
    <3> QED
      BY <2>1, <3>1, <3>6
  <2> DEFINE j == k - 1
             q == h[1..j]
             u == h[1..k]
  <2>4. j \in Nat /\ j + 1 = k /\ j \notin Bad /\ j <= n
    BY <1>1, <2>1, <2>2, <2>3
  <2>5. StoredUpTo(r, s, j, q)
    BY <2>4
  <2>6. u = Store(q, <<s[k]>>)
    BY <1>1, <1>3, <2>2, <2>3, FoldsAt
  <2> HIDE DEF q, u, j
  <2>7. DOMAIN q = RunFields /\ Charged(q)
    BY <2>5 DEF StoredUpTo, Keeps
  <2>8. StoreFacts(q, s[k], u)
    BY <2>6, <2>7, StoreOne
  <2>9. StoredUpTo(r, s, j + 1, u)
    BY <1>4, <2>4, <2>5, <2>8, StoredNext
  <2> QED
    BY <2>1, <2>4, <2>9 DEF u
<1>6. StoredUpTo(r, s, n, h[1..n])
  BY <1>1, <1>5
<1> QED
  BY <1>2, <1>6 DEF n

-----------------------------------------------------------------------------
(* Cases begin and end *)

LEMMA NewResultFacts ==
  ASSUME NEW c, c.name \in Nat, c.frames \in Nat, NEW status
  PROVE  /\ IsResult(NewResult(c, status))
         /\ NewResult(c, status).status = status
         /\ NewResult(c, status).framesScheduled = c.frames
         /\ NewResult(c, status).framesRun = 0
         /\ Len(NewResult(c, status).frames) = 0
<1> DEFINE x == NewResult(c, status)
<1>1. /\ DOMAIN x = ResultFields
      /\ x.name = c.name /\ x.status = status /\ x.framesScheduled = c.frames
      /\ x.framesRun = 0 /\ x.frames = <<>> /\ x.finalState = 0
  BY DEF NewResult, ResultFields
<1> HIDE DEF x
<1>2. IsSeq(x.frames) /\ Len(x.frames) = 0
  BY <1>1, EmptyIsSeq
<1>3. IsResult(x)
  BY <1>1, <1>2 DEF IsResult
<1> QED
  BY <1>1, <1>2, <1>3 DEF x

BeginFields == {"case", "frame", "granted", "phase", "result", "truth"}

LEMMA BeginCaseFacts ==
  ASSUME NEW r, DOMAIN r = RunFields, IsSuite(r.suite), NEW k \in 1..Len(r.suite)
  PROVE  LET q == BeginCase(r, k)
         IN  /\ Keeps(r, q, BeginFields)
             /\ q.case = k /\ q.frame = 1 /\ q.phase = "prepare"
             /\ q.truth = Append(r.truth, <<>>)
             /\ IsResult(q.result)
             /\ q.result.status = "Passed"
             /\ q.result.framesScheduled = r.suite[k].frames
             /\ q.result.framesRun = 0
             /\ Len(q.result.frames) = 0
<1> DEFINE q == BeginCase(r, k)
           x == NewResult(r.suite[k], "Passed")
<1>1. /\ Keeps(r, q, BeginFields)
      /\ q.case = k /\ q.frame = 1 /\ q.phase = "prepare"
      /\ q.truth = Append(r.truth, <<>>)
      /\ q.result = x
  BY DEF BeginCase, Keeps, RunFields, BeginFields
<1>2. r.suite[k].name \in Nat /\ r.suite[k].frames \in Nat
  BY DEF IsSuite
<1>3. /\ IsResult(x)
      /\ x.status = "Passed"
      /\ x.framesScheduled = r.suite[k].frames
      /\ x.framesRun = 0
      /\ Len(x.frames) = 0
  BY <1>2, NewResultFacts
<1> QED
  BY <1>1, <1>3

\* A run between two cases, of which n passed.
Between(r, n) ==
  /\ DOMAIN r = RunFields
  /\ IsSuite(r.suite)
  /\ IsSeq(r.manifest.capabilities)
  /\ IsSeq(r.results)
  /\ \A i \in 1..Len(r.results) : IsResult(r.results[i])
  /\ IsSeq(r.truth)
  /\ Len(r.truth) = n
  /\ Charged(r)
  /\ r.lost => r.exhausted
  /\ r.status = "Passed"
  /\ CasesPassed(r, n)

LEMMA BeginCaseInv ==
  ASSUME NEW r, NEW n \in Nat, Between(r, n), NEW k \in 1..Len(r.suite), k = n + 1
  PROVE  RunInv(BeginCase(r, k))
<1> DEFINE q == BeginCase(r, k)
<1>1. DOMAIN r = RunFields /\ IsSuite(r.suite) /\ IsSeq(r.truth) /\ Len(r.truth) = n
  BY DEF Between
<1>2. /\ Keeps(r, q, BeginFields)
      /\ q.case = k /\ q.frame = 1 /\ q.phase = "prepare"
      /\ q.truth = Append(r.truth, <<>>)
      /\ IsResult(q.result)
      /\ q.result.status = "Passed"
      /\ q.result.framesScheduled = r.suite[k].frames
      /\ q.result.framesRun = 0
      /\ Len(q.result.frames) = 0
  BY <1>1, BeginCaseFacts
<1> HIDE DEF q
<1>3. /\ q.suite = r.suite /\ q.results = r.results /\ q.records = r.records
      /\ q.bytes = r.bytes /\ q.trace = r.trace /\ q.lost = r.lost
      /\ q.exhausted = r.exhausted /\ q.status = r.status /\ q.manifest = r.manifest
      /\ DOMAIN q = RunFields
  BY <1>2 DEF Keeps, RunFields, BeginFields
<1>4. /\ IsSeq(q.truth) /\ Len(q.truth) = k
      /\ (\A i \in 1..n : q.truth[i] = r.truth[i])
      /\ q.truth[k] = <<>>
  BY <1>1, <1>2, AppendFacts
<1>5. RunTyped(q)
  BY <1>2, <1>3, <1>4 DEF RunTyped, Between, Charged
<1>6. CasesPassed(q, n)
  BY <1>3, <1>4 DEF Between, CasesPassed, Grants
<1>7. InCase(q, q.result, q.truth[q.case])
  BY <1>2, <1>4, EmptyIsSeq DEF InCase, FramesPassed
<1>8. IsSeq(q.truth[q.case])
  BY <1>2, <1>4, EmptyIsSeq
<1>9. q.case - 1 = n /\ q.status = "Passed"
  BY <1>2, <1>3 DEF Between
<1> QED
  BY <1>2, <1>3, <1>4, <1>5, <1>6, <1>7, <1>8, <1>9 DEF RunInv, q

\* A run whose last case has ended.
Ended(r) ==
  /\ RunTyped(r)
  /\ Len(r.truth) = r.case
  /\ Len(r.results) = r.case
  /\ r.status = "Passed" => ~r.lost /\ CasesPassed(r, r.case)

Rest(r) == SubSeq(r.suite, r.case + 1, Len(r.suite))

LEMMA RestFacts ==
  ASSUME NEW r, IsSuite(r.suite), r.case \in 1..Len(r.suite)
  PROVE  /\ IsSeq(Rest(r))
         /\ Len(Rest(r)) = Len(r.suite) - r.case
         /\ Rest(r) # <<>> <=> r.case < Len(r.suite)
         /\ \A i \in 1..Len(Rest(r)) : Rest(r)[i].name \in Nat /\ Rest(r)[i].frames \in Nat
<1> DEFINE n == Len(r.suite)
           c == r.case
           z == Rest(r)
<1>1. n \in Nat /\ c \in 1..n
  BY IsSeqFacts DEF IsSuite
<1>2. /\ IsSeq(z)
      /\ Len(z) = IF c + 1 <= n THEN n - (c + 1) + 1 ELSE 0
      /\ \A i \in 1..(n - (c + 1) + 1) : z[i] = r.suite[c + 1 + i - 1]
  <2>1. c + 1 \in Int /\ n \in Int
    BY <1>1
  <2> QED
    BY <2>1, SubSeqFacts DEF Rest
<1>3. \A i \in 1..n : r.suite[i].name \in Nat /\ r.suite[i].frames \in Nat
  BY DEF IsSuite
<1> HIDE DEF n, c, z
<1>4. Len(z) = n - c
  BY <1>1, <1>2
<1>5. ASSUME NEW i \in 1..Len(z) PROVE z[i].name \in Nat /\ z[i].frames \in Nat
  <2>1. i \in 1..(n - (c + 1) + 1) /\ c + 1 + i - 1 \in 1..n
    BY <1>1, <1>4
  <2> QED
    BY <1>2, <1>3, <2>1
<1>6. z # <<>> <=> Len(z) # 0
  BY <1>2, OnlyEmptyIsEmpty
<1>7. z # <<>> <=> c < n
  BY <1>1, <1>4, <1>6
<1> QED
  BY <1>2, <1>4, <1>5, <1>7 DEF n, c, z

\* What NextCase does when no case is left to run.
Finished(r) ==
  [r EXCEPT !.phase = "done",
            !.results = @ \o [i \in DOMAIN Rest(r) |-> NewResult(Rest(r)[i], "NotRun")],
            !.truth = @ \o [i \in DOMAIN Rest(r) |-> <<>>]]

LEMMA NextCaseIs ==
  ASSUME NEW r
  PROVE  NextCase(r) = IF Rest(r) # <<>> /\ r.status = "Passed" THEN BeginCase(r, r.case + 1)
                       ELSE Finished(r)
BY DEF NextCase, Finished, Rest

LEMMA FinishedFacts ==
  ASSUME NEW r, RunTyped(r)
  PROVE  LET q == Finished(r)
             n == Len(r.suite) - r.case
         IN  /\ Keeps(r, q, {"phase", "results", "truth"})
             /\ q.phase = "done"
             /\ IsSeq(q.results) /\ Len(q.results) = Len(r.results) + n
             /\ \A i \in 1..Len(q.results) : IsResult(q.results[i])
             /\ \A i \in 1..Len(r.results) : q.results[i] = r.results[i]
             /\ IsSeq(q.truth) /\ Len(q.truth) = Len(r.truth) + n
             /\ \A i \in 1..Len(r.truth) : q.truth[i] = r.truth[i]
             /\ \A i \in (Len(r.truth) + 1)..(Len(r.truth) + n) : q.truth[i] = <<>>
<1> DEFINE q == Finished(r)
           z == Rest(r)
           n == Len(z)
           a == [i \in DOMAIN z |-> NewResult(z[i], "NotRun")]
           b == [i \in DOMAIN z |-> <<>>]
           l == Len(r.results)
           m == Len(r.truth)
<1>1. DOMAIN r = RunFields /\ IsSeq(r.results) /\ IsSeq(r.truth)
      /\ (\A i \in 1..Len(r.results) : IsResult(r.results[i]))
  BY DEF RunTyped
<1>2. /\ IsSeq(z) /\ n = Len(r.suite) - r.case
      /\ \A i \in 1..n : z[i].name \in Nat /\ z[i].frames \in Nat
  BY RestFacts DEF RunTyped
<1>3. n \in Nat /\ DOMAIN z = 1..n
  BY <1>2, IsSeqFacts
<1>4. IsSeq(a) /\ Len(a) = n
  <2> DEFINE S == {NewResult(z[i], "NotRun") : i \in 1..n}
  <2>1. a \in [1..n -> S]
    BY <1>3
  <2> HIDE DEF S, a, n
  <2> QED
    BY <1>3, <2>1, FunctionIsSeq
<1>5. IsSeq(b) /\ Len(b) = n
  <2> DEFINE S == {<<>>}
  <2>1. b \in [1..n -> S]
    BY <1>3
  <2> HIDE DEF S, b, n
  <2> QED
    BY <1>3, <2>1, FunctionIsSeq
<1>6. \A i \in 1..n : b[i] = <<>>
  BY <1>3
<1>7. \A i \in 1..n : IsResult(a[i])
  <2>1. \A i \in 1..n : a[i] = NewResult(z[i], "NotRun")
    BY <1>3
  <2> HIDE DEF a, z, n
  <2> QED
    BY <1>2, <2>1, NewResultFacts
<1>8. /\ Keeps(r, q, {"phase", "results", "truth"})
      /\ q.phase = "done"
      /\ q.results = r.results \o a
      /\ q.truth = r.truth \o b
  BY <1>1 DEF Finished, Keeps, RunFields
<1>9. l \in Nat /\ m \in Nat
  BY <1>1, IsSeqFacts
<1> DEFINE x == q.results
           y == q.truth
           w == r.results
           v == r.truth
<1>10. x = w \o a /\ y = v \o b /\ IsSeq(w) /\ IsSeq(v) /\ Len(w) = l /\ Len(v) = m
  BY <1>1, <1>8
<1> HIDE DEF q, a, b, l, m, n, z, x, y, w, v
<1>11. /\ IsSeq(x) /\ Len(x) = l + n
       /\ \A i \in 1..(l + n) : x[i] = IF i <= l THEN w[i] ELSE a[i - l]
  BY <1>4, <1>10, ConcatFacts
<1>12. /\ IsSeq(y) /\ Len(y) = m + n
       /\ \A i \in 1..(m + n) : y[i] = IF i <= m THEN v[i] ELSE b[i - m]
  BY <1>5, <1>10, ConcatFacts
<1>13. \A i \in 1..l : x[i] = w[i]
  <2> SUFFICES ASSUME NEW i \in 1..l PROVE x[i] = w[i]
    OBVIOUS
  <2>1. i \in 1..(l + n) /\ i <= l
    BY <1>3, <1>9
  <2> QED
    BY <1>11, <2>1
<1>14. \A i \in 1..m : y[i] = v[i]
  <2> SUFFICES ASSUME NEW i \in 1..m PROVE y[i] = v[i]
    OBVIOUS
  <2>1. i \in 1..(m + n) /\ i <= m
    BY <1>3, <1>9
  <2> QED
    BY <1>12, <2>1
<1>15. ASSUME NEW i \in (m + 1)..(m + n) PROVE y[i] = <<>>
  <2>1. i \in 1..(m + n) /\ ~(i <= m) /\ i - m \in 1..n
    BY <1>3, <1>9
  <2> QED
    BY <1>6, <1>12, <2>1
<1>16. ASSUME NEW i \in 1..Len(x) PROVE IsResult(x[i])
  <2>1. CASE i <= l
    <3>1. i \in 1..l /\ x[i] = w[i]
      BY <1>13, <2>1
    <3> QED
      BY <1>1, <3>1 DEF w, l
  <2>2. CASE ~(i <= l)
    <3>1. i \in 1..(l + n) /\ i - l \in 1..n
      BY <1>3, <1>9, <1>11, <2>2
    <3> QED
      BY <1>7, <1>11, <2>2, <3>1
  <2> QED
    BY <2>1, <2>2
<1> QED
  BY <1>2, <1>8, <1>11, <1>12, <1>13, <1>14, <1>15, <1>16 DEF q, l, m, n, z, x, y, w, v

\* A step of a run is for the same evaluation.
SameRun(r, q) == q.ticket = r.ticket /\ q.manifest = r.manifest

LEMMA NextCaseInv ==
  ASSUME NEW r, Ended(r)
  PROVE  RunInv(NextCase(r)) /\ SameRun(r, NextCase(r))
<1> DEFINE n == Len(r.suite)
           c == r.case
<1>1. RunTyped(r) /\ Len(r.truth) = c /\ Len(r.results) = c
      /\ (r.status = "Passed" => ~r.lost /\ CasesPassed(r, c))
  BY DEF Ended
<1>2. DOMAIN r = RunFields /\ IsSuite(r.suite) /\ c \in 1..n
  BY <1>1 DEF RunTyped
<1>3. n \in Nat
  BY <1>2, IsSeqFacts DEF IsSuite
<1>4. Rest(r) # <<>> <=> c < n
  BY <1>2, RestFacts
<1>5. CASE Rest(r) # <<>> /\ r.status = "Passed"
  <2>1. NextCase(r) = BeginCase(r, c + 1)
    BY <1>5, NextCaseIs
  <2>2. Between(r, c)
    BY <1>1, <1>5 DEF Between, RunTyped
  <2>3. c \in Nat /\ c + 1 \in 1..n
    BY <1>2, <1>3, <1>4, <1>5
  <2> DEFINE k == c + 1
  <2>4. k \in 1..n /\ k = c + 1
    BY <2>3
  <2> HIDE DEF k, c
  <2>5. RunInv(BeginCase(r, k))
    BY <2>2, <2>3, <2>4, BeginCaseInv
  <2>6. Keeps(r, BeginCase(r, k), BeginFields)
    BY <1>2, <2>4, BeginCaseFacts
  <2>7. SameRun(r, BeginCase(r, k))
    BY <2>6 DEF Keeps, SameRun, RunFields, BeginFields
  <2> QED
    BY <2>1, <2>4, <2>5, <2>7
<1>6. CASE ~(Rest(r) # <<>> /\ r.status = "Passed")
  <2> DEFINE q == Finished(r)
             d == Len(r.suite) - r.case
  <2>1. NextCase(r) = q
    BY <1>6, NextCaseIs
  <2>2. /\ Keeps(r, q, {"phase", "results", "truth"})
        /\ q.phase = "done"
        /\ IsSeq(q.results) /\ Len(q.results) = Len(r.results) + d
        /\ \A i \in 1..Len(q.results) : IsResult(q.results[i])
        /\ \A i \in 1..Len(r.results) : q.results[i] = r.results[i]
        /\ IsSeq(q.truth) /\ Len(q.truth) = Len(r.truth) + d
        /\ \A i \in 1..Len(r.truth) : q.truth[i] = r.truth[i]
    BY <1>1, FinishedFacts
  <2> HIDE DEF q
  <2>3. /\ q.suite = r.suite /\ q.records = r.records /\ q.case = r.case
        /\ q.bytes = r.bytes /\ q.trace = r.trace /\ q.lost = r.lost
        /\ q.exhausted = r.exhausted /\ q.status = r.status /\ q.manifest = r.manifest
        /\ q.result = r.result /\ q.ticket = r.ticket
        /\ DOMAIN q = RunFields
    BY <2>2 DEF Keeps, RunFields
  <2>4. RunTyped(q)
    BY <1>1, <2>2, <2>3 DEF RunTyped, Charged
  <2>5. ASSUME q.status = "Passed" PROVE ~q.lost /\ CasesPassed(q, Len(q.suite))
    <3>1. r.status = "Passed" /\ c = n
      BY <1>2, <1>3, <1>4, <1>6, <2>3, <2>5
    <3>2. ~q.lost /\ CasesPassed(r, c)
      BY <1>1, <2>3, <3>1
    <3>3. Len(q.results) = c
      BY <1>1, <1>2, <1>3, <2>2, <3>1
    <3>4. \A i \in 1..c : q.results[i] = r.results[i] /\ q.truth[i] = r.truth[i]
      BY <1>1, <2>2
    <3>5. CasesPassed(q, c)
      BY <2>3, <3>2, <3>3, <3>4 DEF CasesPassed, Grants
    <3> QED
      BY <2>3, <3>1, <3>2, <3>5
  <2>6. RunInv(q)
    BY <2>2, <2>4, <2>5 DEF RunInv
  <2> QED
    BY <2>1, <2>3, <2>6 DEF SameRun
<1> QED
  BY <1>5, <1>6

\* A case that ends, whether it passed or not.
Ending(r) ==
  /\ RunTyped(r)
  /\ r.status = "Passed"
  /\ CasesPassed(r, r.case - 1)
  /\ Len(r.truth) = r.case
  /\ r.result.status = "Passed" =>
       ~r.exhausted /\ CasePassed(r.result, r.truth[r.case], Grants(r))

LEMMA CaseEndsFacts ==
  ASSUME NEW r, RunTyped(r), Len(r.results) = r.case - 1
  PROVE  LET q == CaseEnds(r)
         IN  /\ Keeps(r, q, {"results", "status"})
             /\ q.status = "Passed" <=> r.result.status = "Passed"
             /\ IsSeq(q.results) /\ Len(q.results) = r.case
             /\ \A i \in 1..(r.case - 1) : q.results[i] = r.results[i]
             /\ q.results[r.case] = r.result
<1> DEFINE q == CaseEnds(r)
           c == r.case
<1>1. DOMAIN r = RunFields /\ IsSeq(r.results) /\ c \in Nat \ {0}
  <2>1. IsSeq(r.suite) /\ c \in 1..Len(r.suite)
    BY DEF RunTyped, IsSuite
  <2>2. Len(r.suite) \in Nat
    BY <2>1, IsSeqFacts
  <2> QED
    BY <2>1, <2>2 DEF RunTyped
<1>2. /\ Keeps(r, q, {"results", "status"})
      /\ q.status = RecordStatus(r.result.status)
      /\ q.results = Append(r.results, r.result)
  BY <1>1 DEF CaseEnds, Keeps, RunFields
<1>3. q.status = "Passed" <=> r.result.status = "Passed"
  BY <1>2 DEF RecordStatus
<1> DEFINE x == r.results
           e == r.result
           y == q.results
<1>4. IsSeq(x) /\ Len(x) = c - 1 /\ y = Append(x, e)
  BY <1>1, <1>2
<1> HIDE DEF x, e, y, c, q
<1>5. /\ IsSeq(y) /\ Len(y) = Len(x) + 1
      /\ \A i \in 1..Len(x) : y[i] = x[i]
      /\ y[Len(x) + 1] = e
  BY <1>4, AppendFacts
<1>6. Len(x) + 1 = c
  BY <1>1, <1>4
<1> QED
  BY <1>2, <1>3, <1>4, <1>5, <1>6 DEF x, e, y, c, q

LEMMA CaseEndsEnded ==
  ASSUME NEW r, Ending(r)
  PROVE  Ended(CaseEnds(r)) /\ SameRun(r, CaseEnds(r))
<1> DEFINE q == CaseEnds(r)
           c == r.case
<1>1. RunTyped(r) /\ CasesPassed(r, c - 1) /\ Len(r.truth) = c
  BY DEF Ending
<1>2. /\ Keeps(r, q, {"results", "status"})
      /\ q.status = "Passed" <=> r.result.status = "Passed"
      /\ IsSeq(q.results) /\ Len(q.results) = c
      /\ \A i \in 1..(c - 1) : q.results[i] = r.results[i]
      /\ q.results[c] = r.result
  BY <1>1, CaseEndsFacts DEF CasesPassed
<1>3. c \in Nat \ {0}
  <2>1. IsSeq(r.suite) /\ c \in 1..Len(r.suite)
    BY <1>1 DEF RunTyped, IsSuite
  <2>2. Len(r.suite) \in Nat
    BY <2>1, IsSeqFacts
  <2> QED
    BY <2>1, <2>2
<1> HIDE DEF q
<1>4. /\ q.suite = r.suite /\ q.records = r.records /\ q.case = r.case
      /\ q.bytes = r.bytes /\ q.trace = r.trace /\ q.lost = r.lost
      /\ q.exhausted = r.exhausted /\ q.manifest = r.manifest
      /\ q.result = r.result /\ q.ticket = r.ticket /\ q.truth = r.truth
      /\ DOMAIN q = RunFields
  BY <1>2 DEF Keeps, RunFields
<1>5. \A i \in 1..Len(q.results) : IsResult(q.results[i])
  <2> SUFFICES ASSUME NEW i \in 1..c PROVE IsResult(q.results[i])
    BY <1>2
  <2>1. Len(r.results) = c - 1
    BY <1>1 DEF CasesPassed
  <2>2. (\A j \in 1..(c - 1) : IsResult(r.results[j])) /\ IsResult(r.result)
    BY <1>1, <2>1 DEF RunTyped
  <2>3. i = c \/ i \in 1..(c - 1)
    BY <1>3
  <2> QED
    BY <1>2, <2>2, <2>3
<1>6. RunTyped(q)
  BY <1>1, <1>2, <1>4, <1>5 DEF RunTyped, Charged
<1>7. ASSUME q.status = "Passed" PROVE ~q.lost /\ CasesPassed(q, q.case)
  <2>1. ~r.exhausted /\ CasePassed(r.result, r.truth[c], Grants(r))
    BY <1>2, <1>7 DEF Ending
  <2>2. ~q.lost
    BY <1>1, <1>4, <2>1 DEF RunTyped
  <2>3. ASSUME NEW i \in 1..c PROVE CasePassed(q.results[i], q.truth[i], Grants(q))
    <3>1. Grants(q) = Grants(r) /\ q.truth = r.truth
      BY <1>4 DEF Grants
    <3>2. i = c \/ i \in 1..(c - 1)
      BY <1>3
    <3>3. \A j \in 1..(c - 1) : CasePassed(r.results[j], r.truth[j], Grants(r))
      BY <1>1 DEF CasesPassed
    <3> QED
      BY <1>2, <2>1, <3>1, <3>2, <3>3
  <2> QED
    BY <1>2, <1>4, <2>2, <2>3 DEF CasesPassed
<1>8. Ended(q)
  BY <1>1, <1>2, <1>4, <1>6, <1>7 DEF Ended
<1> QED
  BY <1>4, <1>8 DEF SameRun, q

LEMMA EndCaseInv ==
  ASSUME NEW r, Ending(r)
  PROVE  RunInv(EndCase(r)) /\ SameRun(r, EndCase(r))
<1> DEFINE q == CaseEnds(r)
<1>1. Ended(q) /\ SameRun(r, q)
  BY CaseEndsEnded
<1> HIDE DEF q
<1>2. RunInv(NextCase(q)) /\ SameRun(q, NextCase(q))
  BY <1>1, NextCaseInv
<1> QED
  BY <1>1, <1>2 DEF SameRun, EndCase, q

-----------------------------------------------------------------------------
(* The steps of a run *)

Phases == {"prepare", "input", "advance", "observe", "expect", "final"}

\* What holds of a run in the middle of a case, whatever the phase.
Core(r) ==
  /\ RunTyped(r)
  /\ r.status = "Passed"
  /\ CasesPassed(r, r.case - 1)
  /\ Len(r.truth) = r.case
  /\ IsSeq(r.truth[r.case])
  /\ r.result.framesScheduled = r.suite[r.case].frames

LEMMA RunInvIs ==
  ASSUME NEW r, r.phase # "done"
  PROVE  RunInv(r) <=> Core(r) /\ r.phase \in Phases /\ InCase(r, r.result, r.truth[r.case])
BY DEF RunInv, Core, Phases

MidFields ==
  {"phase", "frame", "granted", "work", "lifecycle", "result", "lost"} \cup StoreFields

LEMMA CoreKept ==
  ASSUME NEW r, Core(r), NEW q, Keeps(r, q, MidFields),
         IsResult(q.result), q.result.framesScheduled = r.result.framesScheduled,
         Charged(q), q.lost => q.exhausted
  PROVE  Core(q) /\ SameRun(r, q)
<1>1. /\ q.suite = r.suite /\ q.case = r.case /\ q.results = r.results
      /\ q.status = r.status /\ q.manifest = r.manifest /\ q.truth = r.truth
      /\ q.ticket = r.ticket
      /\ DOMAIN q = RunFields
  BY DEF Keeps, RunFields, MidFields, StoreFields
<1>2. RunTyped(q)
  BY <1>1 DEF RunTyped, Core
<1>3. CasesPassed(q, q.case - 1)
  BY <1>1 DEF CasesPassed, Core, Grants
<1> QED
  BY <1>1, <1>2, <1>3 DEF Core, SameRun

LEMMA StopCore ==
  ASSUME NEW r, Core(r), NEW status, status # "Passed",
         NEW q, Keeps(Stop(r, status), q, {"phase", "work"})
  PROVE  Core(q) /\ SameRun(r, q) /\ q.result.status # "Passed"
<1> DEFINE s == Stop(r, status)
<1>1. DOMAIN r = RunFields /\ IsResult(r.result)
  BY DEF Core, RunTyped
<1>2. /\ Keeps(r, s, {"result"})
      /\ IsResult(s.result)
      /\ \A f \in ResultFields \ {"status"} : s.result[f] = r.result[f]
      /\ s.result.status # "Passed"
  BY <1>1, StopFacts
<1> HIDE DEF s
<1>3. q.result = s.result /\ Keeps(r, q, MidFields)
  BY <1>2 DEF Keeps, RunFields, MidFields, StoreFields, s
<1>4. q.result.framesScheduled = r.result.framesScheduled
  BY <1>2, <1>3 DEF ResultFields
<1>5. /\ q.records = r.records /\ q.bytes = r.bytes /\ q.trace = r.trace
      /\ q.exhausted = r.exhausted /\ q.lost = r.lost
  BY <1>2 DEF Keeps, RunFields, MidFields, StoreFields, s
<1>6. Charged(q) /\ (q.lost => q.exhausted)
  BY <1>5 DEF Core, RunTyped, Charged
<1> QED
  BY <1>2, <1>3, <1>4, <1>6, CoreKept

LEMMA StopEnding ==
  ASSUME NEW r, Core(r), NEW status, status # "Passed"
  PROVE  Ending(Stop(r, status)) /\ SameRun(r, Stop(r, status))
<1> DEFINE s == Stop(r, status)
<1>1. Keeps(s, s, {"phase", "work"})
  <2>1. DOMAIN s = RunFields
    BY StopFacts DEF Core, RunTyped, Keeps
  <2> QED
    BY <2>1 DEF Keeps
<1>2. Core(s) /\ SameRun(r, s) /\ s.result.status # "Passed"
  BY <1>1, StopCore
<1> HIDE DEF s
<1> QED
  BY <1>2 DEF Core, Ending, s

LEMMA StopEnds ==
  ASSUME NEW r, Core(r), NEW status, status # "Passed"
  PROVE  RunInv(EndCase(Stop(r, status))) /\ SameRun(r, EndCase(Stop(r, status)))
<1> DEFINE s == Stop(r, status)
<1>1. Ending(s) /\ SameRun(r, s)
  BY StopEnding
<1> HIDE DEF s
<1>2. RunInv(EndCase(s)) /\ SameRun(s, EndCase(s))
  BY <1>1, EndCaseInv
<1> QED
  BY <1>1, <1>2 DEF SameRun, s

LEMMA StopFinal ==
  ASSUME NEW r, Core(r), NEW status, status # "Passed",
         NEW q, Keeps(Stop(r, status), q, {"phase", "work"}), q.phase = "final"
  PROVE  RunInv(q) /\ SameRun(r, q)
<1>1. Core(q) /\ SameRun(r, q) /\ q.result.status # "Passed"
  BY StopCore
<1>2. InCase(q, q.result, q.truth[q.case])
  BY <1>1 DEF InCase
<1> QED
  BY <1>1, <1>2, RunInvIs DEF Phases

\* What PrepareCase makes of the run before it looks at the world.
Opened(r) ==
  LET started == Store(r, <<Event("SessionStarted")>>)
  IN  [started EXCEPT !.lost = @ \/ started.exhausted]

LEMMA OpenedFacts ==
  ASSUME NEW r, RunTyped(r)
  PROVE  LET q == Opened(r)
             s == Store(r, <<Event("SessionStarted")>>)
         IN  /\ StoreFacts(r, Event("SessionStarted"), s)
             /\ Keeps(s, q, {"lost"})
             /\ q.lost <=> s.exhausted
             /\ Keeps(r, q, StoreFields \cup {"lost"})
             /\ Charged(q)
<1> DEFINE e == Event("SessionStarted")
           s == Store(r, <<e>>)
           q == Opened(r)
<1>1. DOMAIN r = RunFields /\ Charged(r) /\ (r.lost => r.exhausted)
  BY DEF RunTyped
<1> HIDE DEF e
<1>2. StoreFacts(r, e, s)
  BY <1>1, StoreOne
<1>3. q = [s EXCEPT !.lost = @ \/ s.exhausted]
  BY DEF Opened, e
<1> HIDE DEF q, s
<1>4. DOMAIN s = RunFields /\ s.lost = r.lost /\ (r.exhausted => s.exhausted) /\ Charged(s)
  BY <1>2 DEF StoreFacts, Keeps, StoreFields, RunFields
<1>5. Keeps(s, q, {"lost"}) /\ q.lost = (s.lost \/ s.exhausted)
  BY <1>3, <1>4 DEF Keeps, RunFields
<1>6. q.lost <=> s.exhausted
  BY <1>1, <1>4, <1>5
<1>7. Keeps(r, q, StoreFields \cup {"lost"})
  BY <1>2, <1>5 DEF StoreFacts, Keeps
<1>8. Charged(q)
  BY <1>4, <1>5 DEF Charged, Keeps, RunFields
<1> QED
  BY <1>2, <1>5, <1>6, <1>7, <1>8 DEF q, s, e

LEMMA OpenedCore ==
  ASSUME NEW r, Core(r)
  PROVE  Core(Opened(r)) /\ SameRun(r, Opened(r)) /\ Opened(r).result = r.result
         /\ Opened(r).truth = r.truth /\ Opened(r).case = r.case
         /\ Opened(r).frame = r.frame /\ DOMAIN Opened(r) = RunFields
         /\ (Opened(r).lost => Opened(r).exhausted)
<1> DEFINE q == Opened(r)
           s == Store(r, <<Event("SessionStarted")>>)
<1>1. RunTyped(r)
  BY DEF Core
<1>2. /\ Keeps(s, q, {"lost"})
      /\ q.lost <=> s.exhausted
      /\ Keeps(r, q, StoreFields \cup {"lost"})
      /\ Charged(q)
  BY <1>1, OpenedFacts
<1> HIDE DEF q, s
<1>3. Keeps(r, q, MidFields) /\ q.result = r.result /\ q.truth = r.truth
      /\ q.case = r.case /\ q.frame = r.frame /\ DOMAIN q = RunFields
  BY <1>2 DEF Keeps, RunFields, StoreFields, MidFields
<1>4. q.lost => q.exhausted
  BY <1>2 DEF Keeps, RunFields
<1>5. IsResult(q.result)
  BY <1>1, <1>3 DEF RunTyped
<1>6. Core(q) /\ SameRun(r, q)
  BY <1>2, <1>3, <1>4, <1>5, CoreKept
<1> QED
  BY <1>3, <1>4, <1>6 DEF q

\* The case goes on: the world is as it should be.
LEMMA OpenedInput ==
  ASSUME NEW r, RunInv(r), r.phase = "prepare",
         NEW q, Keeps(Opened(r), q, {"phase", "granted"}), q.phase = "input"
  PROVE  RunInv(q) /\ SameRun(r, q)
<1> DEFINE o == Opened(r)
<1>1. Core(r) /\ InCase(r, r.result, r.truth[r.case])
  BY RunInvIs
<1>2. /\ Core(o) /\ SameRun(r, o) /\ o.result = r.result /\ o.truth = r.truth
      /\ o.case = r.case /\ o.frame = r.frame /\ (o.lost => o.exhausted)
  BY <1>1, OpenedCore
<1> HIDE DEF o
<1>3. /\ Keeps(o, q, MidFields) /\ q.result = o.result /\ q.truth = o.truth
      /\ q.case = o.case /\ q.frame = o.frame /\ q.lost = o.lost /\ q.exhausted = o.exhausted
      /\ q.records = o.records /\ q.bytes = o.bytes /\ q.trace = o.trace
  BY DEF Keeps, RunFields, StoreFields, MidFields, o
<1>4. IsResult(q.result) /\ Charged(q)
  BY <1>2, <1>3 DEF Core, RunTyped, Charged
<1>5. Core(q) /\ SameRun(o, q)
  BY <1>2, <1>3, <1>4, CoreKept
<1> DEFINE x == q.result
           t == q.truth[q.case]
<1>6. r.frame = 1 /\ x.status = "Passed" /\ FramesPassed(x, t, 0) /\ Len(t) = 0
  BY <1>1, <1>2, <1>3 DEF InCase
<1>7. x.framesScheduled \in Nat \ {0}
  BY <1>5 DEF Core, RunTyped, IsSuite
<1> HIDE DEF x, t
<1>8. q.frame = 1 /\ q.frame - 1 = 0
  BY <1>2, <1>3, <1>6
<1>9. q.frame \in 1..x.framesScheduled
  BY <1>7, <1>8
<1>10. InCase(q, x, t)
  BY <1>6, <1>8, <1>9 DEF InCase
<1>11. RunInv(q)
  BY <1>5, <1>10, RunInvIs DEF Phases, x, t
<1> QED
  BY <1>2, <1>5, <1>11 DEF SameRun

LEMMA PrepareCaseInv ==
  ASSUME RunInv(run), PrepareCase
  PROVE  RunInv(run') /\ SameRun(run, run')
<1> DEFINE o == Opened(run)
<1>1. run.phase = "prepare" /\ Core(run)
  BY RunInvIs DEF PrepareCase
<1>2. Core(o) /\ SameRun(run, o) /\ DOMAIN o = RunFields
  BY <1>1, OpenedCore
<1>3. PICK p \in Preparations(run.manifest), caught \in BOOLEAN :
        run' = CASE o.exhausted /\ ~caught -> EndCase(Stop(o, "HostError"))
                 [] p.made # "world" -> EndCase(Stop(o, "HostError"))
                 [] ManifestMismatch(run.manifest, p.isolated) -> EndCase(Stop(o, "HostError"))
                 [] ~EffectsFit(run.manifest, p.addresses) -> EndCase(Stop(o, "HostError"))
                 [] OTHER -> [o EXCEPT !.phase = "input",
                                       !.granted = {a.component : a \in ToSet(p.addresses)}]
  BY DEF PrepareCase, Opened
<1> DEFINE g == {a.component : a \in ToSet(p.addresses)}
<1> HIDE DEF o, g
<1>4. run' = EndCase(Stop(o, "HostError")) \/ run' = [o EXCEPT !.phase = "input", !.granted = g]
  BY <1>3 DEF g
<1>5. CASE run' = EndCase(Stop(o, "HostError"))
  <2>1. RunInv(run') /\ SameRun(o, run')
    BY <1>2, <1>5, StopEnds
  <2> QED
    BY <1>2, <2>1 DEF SameRun
<1>6. CASE run' = [o EXCEPT !.phase = "input", !.granted = g]
  <2>1. Keeps(o, run', {"phase", "granted"}) /\ run'.phase = "input"
    BY <1>2, <1>6 DEF Keeps, RunFields
  <2> QED
    BY <1>1, <2>1, OpenedInput DEF o
<1> QED
  BY <1>4, <1>5, <1>6

LEMMA ApplyInputInv ==
  ASSUME RunInv(run), ApplyInput
  PROVE  RunInv(run') /\ SameRun(run, run')
<1>1. run.phase = "input" /\ Core(run) /\ InCase(run, run.result, run.truth[run.case])
  BY RunInvIs DEF ApplyInput
<1>2. DOMAIN run = RunFields
  BY <1>1 DEF Core, RunTyped
<1>3. CASE run' = [run EXCEPT !.phase = "advance"]
  <2>1. Keeps(run, run', {"phase"}) /\ run'.phase = "advance"
    BY <1>2, <1>3 DEF Keeps, RunFields
  <2>2. /\ run'.result = run.result /\ run'.truth = run.truth /\ run'.case = run.case
        /\ run'.frame = run.frame /\ run'.lost = run.lost /\ run'.exhausted = run.exhausted
        /\ run'.records = run.records /\ run'.bytes = run.bytes /\ run'.trace = run.trace
        /\ Keeps(run, run', MidFields)
    BY <2>1 DEF Keeps, RunFields, MidFields
  <2>3. IsResult(run'.result) /\ Charged(run') /\ (run'.lost => run'.exhausted)
    BY <1>1, <2>2 DEF Core, RunTyped, Charged
  <2>4. Core(run') /\ SameRun(run, run')
    BY <1>1, <2>2, <2>3, CoreKept
  <2>5. InCase(run', run'.result, run'.truth[run'.case])
    BY <1>1, <2>1, <2>2 DEF InCase
  <2> QED
    BY <2>1, <2>4, <2>5, RunInvIs DEF Phases
<1>4. CASE run' = [Stop(run, "HostError") EXCEPT !.phase = "final"]
  <2> DEFINE s == Stop(run, "HostError")
  <2>1. DOMAIN s = RunFields
    BY <1>1, <1>2, StopFacts DEF Core, RunTyped, Keeps
  <2>2. Keeps(s, run', {"phase", "work"}) /\ run'.phase = "final"
    BY <1>4, <2>1 DEF Keeps, RunFields
  <2> QED
    BY <1>1, <2>2, StopFinal
<1> QED
  BY <1>3, <1>4 DEF ApplyInput

Replaced(s, k, e, f) == f = [s EXCEPT ![k] = e]

LEMMA SeqExcept ==
  ASSUME NEW s, IsSeq(s), NEW k \in 1..Len(s), NEW e, NEW f, Replaced(s, k, e, f)
  PROVE  /\ IsSeq(f)
         /\ Len(f) = Len(s)
         /\ f[k] = e
         /\ \A i \in 1..Len(s) : i # k => f[i] = s[i]
<1> DEFINE S == {s[i] : i \in 1..Len(s)} \cup {e}
           n == Len(s)
<1>1. n \in Nat /\ DOMAIN s = 1..n
  BY IsSeqFacts
<1>2. f[k] = e /\ \A i \in 1..n : i # k => f[i] = s[i]
  BY <1>1 DEF Replaced
<1>3. f \in [1..n -> S]
  BY <1>1 DEF Replaced
<1> HIDE DEF S, n
<1>4. IsSeq(f) /\ Len(f) = n
  BY <1>1, <1>3, FunctionIsSeq
<1> QED
  BY <1>2, <1>4 DEF n

\* The records of a frame: its start, its work and its end.
LEMMA FrameRecordsFacts ==
  ASSUME NEW work \in Work, NEW failed
  PROVE  LET s == FrameRecords(work, failed)
             n == Len(work)
         IN  /\ IsSeq(work) /\ n \in Nat
             /\ IsSeq(s) /\ Len(s) = n + 2
             /\ s[1] = Event("FrameStarted")
             /\ \A i \in 1..n : s[i + 1] = work[i]
             /\ s[n + 2] = Event(IF failed THEN "FrameFailed" ELSE "FrameCompleted")
<1> DEFINE a == <<Event("FrameStarted")>>
           z == Event(IF failed THEN "FrameFailed" ELSE "FrameCompleted")
           b == <<z>>
           n == Len(work)
           u == a \o work
           s == u \o b
<1>1. IsSeq(work)
  BY WorkAssumption DEF IsSeq
<1>2. n \in Nat
  BY <1>1, IsSeqFacts
<1>3. IsSeq(a) /\ Len(a) = 1 /\ a[1] = Event("FrameStarted")
  <2>1. a \in Seq({Event("FrameStarted")})
    OBVIOUS
  <2> QED
    BY <2>1, SeqIsSeq
<1>4. IsSeq(b) /\ Len(b) = 1 /\ b[1] = z
  <2> HIDE DEF z
  <2>1. b \in Seq({z})
    OBVIOUS
  <2> QED
    BY <2>1, SeqIsSeq
<1>5. s = FrameRecords(work, failed)
  BY DEF FrameRecords
<1> HIDE DEF a, b, z
<1>6. /\ IsSeq(u) /\ Len(u) = 1 + n
      /\ \A i \in 1..(1 + n) : u[i] = IF i <= 1 THEN a[i] ELSE work[i - 1]
  <2>1. /\ IsSeq(u) /\ Len(u) = Len(a) + Len(work)
        /\ \A i \in 1..(Len(a) + Len(work)) :
             u[i] = IF i <= Len(a) THEN a[i] ELSE work[i - Len(a)]
    <3>1. IsSeq(a) /\ IsSeq(work)
      BY <1>1, <1>3
    <3> QED
      BY ONLY <3>1, ConcatFacts
  <2> QED
    BY <1>3, <2>1
<1> HIDE DEF u
<1>7. /\ IsSeq(s) /\ Len(s) = (1 + n) + 1
      /\ \A i \in 1..((1 + n) + 1) : s[i] = IF i <= 1 + n THEN u[i] ELSE b[i - (1 + n)]
  <2>1. /\ IsSeq(s) /\ Len(s) = Len(u) + Len(b)
        /\ \A i \in 1..(Len(u) + Len(b)) :
             s[i] = IF i <= Len(u) THEN u[i] ELSE b[i - Len(u)]
    <3>1. IsSeq(u) /\ IsSeq(b)
      BY <1>4, <1>6
    <3> QED
      BY ONLY <3>1, ConcatFacts
  <2> QED
    BY <1>4, <1>6, <2>1
<1> HIDE DEF s, n
<1>8. s[1] = Event("FrameStarted")
  <2>1. 1 \in 1..((1 + n) + 1) /\ 1 \in 1..(1 + n) /\ 1 <= 1 + n
    BY <1>2
  <2> QED
    BY <1>3, <1>6, <1>7, <2>1
<1>9. ASSUME NEW i \in 1..n PROVE s[i + 1] = work[i]
  <2> DEFINE j == i + 1
  <2>1. j \in 1..((1 + n) + 1) /\ j \in 1..(1 + n) /\ j <= 1 + n /\ ~(j <= 1) /\ j - 1 = i
    BY <1>2
  <2> HIDE DEF j
  <2>2. s[j] = work[i]
    BY <1>6, <1>7, <2>1
  <2> QED
    BY <2>2 DEF j
<1>10. s[n + 2] = z
  <2> DEFINE j == n + 2
  <2>1. j \in 1..((1 + n) + 1) /\ ~(j <= 1 + n) /\ j - (1 + n) = 1
    BY <1>2
  <2> HIDE DEF j
  <2>2. s[j] = z
    BY <1>4, <1>7, <2>1
  <2> QED
    BY <2>2 DEF j
<1>11. Len(s) = n + 2
  BY <1>2, <1>7
<1> QED
  BY <1>1, <1>2, <1>5, <1>7, <1>8, <1>9, <1>10, <1>11 DEF n, z

\* What Advance makes of the run, once the records of the frame are stored.
After(r, work, failed) ==
  LET recorded == RecordFrame(r, work, failed)
  IN  [recorded EXCEPT !.truth[r.case] = Append(@, Happened(work)),
                       !.lost = @ \/ recorded.exhausted]

AfterFields == StoreFields \cup {"lost", "truth"}

LEMMA AfterFacts ==
  ASSUME NEW r, Core(r), NEW work \in Work, NEW failed
  PROVE  LET s == FrameRecords(work, failed)
             q == RecordFrame(r, work, failed)
             a == After(r, work, failed)
         IN  /\ StoredUpTo(r, s, Len(s), q)
             /\ Keeps(q, a, {"lost", "truth"})
             /\ Keeps(r, a, AfterFields)
             /\ a.lost <=> q.exhausted
             /\ a.truth = [r.truth EXCEPT ![r.case] = Append(@, Happened(work))]
             /\ Charged(a)
<1> DEFINE s == FrameRecords(work, failed)
           q == RecordFrame(r, work, failed)
           a == After(r, work, failed)
           h == Happened(work)
<1>1. DOMAIN r = RunFields /\ Charged(r) /\ IsSeq(s) /\ (r.lost => r.exhausted)
  BY FrameRecordsFacts DEF Core, RunTyped
<1>2. StoredUpTo(r, s, Len(s), q)
  <2>1. q = FoldLeft(LAMBDA acc, e : Store(acc, <<e>>), r, s)
    BY DEF RecordFrame
  <2> HIDE DEF s, q
  <2> QED
    BY <1>1, <2>1, FrameStored
<1>3. a = [q EXCEPT !.truth[r.case] = Append(@, h), !.lost = @ \/ q.exhausted]
  BY DEF After
<1> HIDE DEF s, q, a, h
<1>4. Keeps(r, q, StoreFields) /\ Charged(q) /\ (r.exhausted => q.exhausted)
  BY <1>2 DEF StoredUpTo
<1>5. q.lost = r.lost /\ q.truth = r.truth /\ DOMAIN q = RunFields
  BY <1>4 DEF Keeps, RunFields, StoreFields
<1>6. /\ Keeps(q, a, {"lost", "truth"})
      /\ a.lost = (q.lost \/ q.exhausted)
      /\ a.truth = [q.truth EXCEPT ![r.case] = Append(@, h)]
  BY <1>3, <1>5 DEF Keeps, RunFields
<1>7. Keeps(r, a, AfterFields)
  BY <1>4, <1>6 DEF Keeps, AfterFields
<1>8. a.lost <=> q.exhausted
  BY <1>1, <1>4, <1>5, <1>6
<1>9. Charged(a)
  BY <1>4, <1>6 DEF Charged, Keeps, RunFields
<1> QED
  BY <1>2, <1>5, <1>6, <1>7, <1>8, <1>9 DEF s, q, a, h

LEMMA AfterCore ==
  ASSUME NEW r, Core(r), NEW work \in Work, NEW failed
  PROVE  LET a == After(r, work, failed)
             t == r.truth[r.case]
         IN  /\ Core(a) /\ SameRun(r, a)
             /\ a.result = r.result /\ a.case = r.case /\ a.frame = r.frame
             /\ a.lost <=> a.exhausted
             /\ a.truth[r.case] = Append(t, Happened(work))
             /\ \A i \in 1..Len(r.truth) : i # r.case => a.truth[i] = r.truth[i]
             /\ Len(a.truth) = Len(r.truth)
<1> DEFINE q == RecordFrame(r, work, failed)
           a == After(r, work, failed)
           c == r.case
           y == r.truth
           e == Append(y[c], Happened(work))
<1>1. /\ Keeps(q, a, {"lost", "truth"})
      /\ Keeps(r, a, AfterFields)
      /\ a.lost <=> q.exhausted
      /\ a.truth = [y EXCEPT ![c] = e]
      /\ Charged(a)
  BY AfterFacts
<1>2. IsSeq(y) /\ Len(y) = c /\ IsSeq(y[c]) /\ RunTyped(r) /\ CasesPassed(r, c - 1)
  BY DEF Core, RunTyped
<1>3. c \in 1..Len(y) /\ c \in Nat
  <2>1. Len(y) \in Nat /\ c \in 1..Len(r.suite) /\ IsSeq(r.suite)
    BY <1>2, IsSeqFacts DEF RunTyped, IsSuite
  <2>2. Len(r.suite) \in Nat
    BY <2>1, IsSeqFacts
  <2> QED
    BY <1>2, <2>1, <2>2
<1>4. IsSeq(e)
  BY <1>2, AppendFacts
<1> HIDE DEF a, q, e
<1>5. /\ a.suite = r.suite /\ a.case = c /\ a.results = r.results
      /\ a.status = r.status /\ a.manifest = r.manifest /\ a.ticket = r.ticket
      /\ a.result = r.result /\ a.frame = r.frame /\ a.exhausted = q.exhausted
      /\ DOMAIN a = RunFields
  BY <1>1 DEF Keeps, RunFields, AfterFields, StoreFields
<1> HIDE DEF y, c
<1> DEFINE z == a.truth
<1>6. /\ IsSeq(z) /\ Len(z) = Len(y) /\ z[c] = e
      /\ \A i \in 1..Len(y) : i # c => z[i] = y[i]
  <2>1. Replaced(y, c, e, z)
    BY <1>1 DEF Replaced
  <2> HIDE DEF z
  <2> QED
    BY <1>2, <1>3, <2>1, SeqExcept
<1>7. RunTyped(a)
  BY <1>1, <1>2, <1>5, <1>6 DEF RunTyped, c
<1>8. CasesPassed(a, a.case - 1)
  <2>1. ASSUME NEW i \in 1..(c - 1) PROVE CasePassed(a.results[i], a.truth[i], Grants(a))
    <3>1. i \in 1..Len(y) /\ i # c
      BY <1>2, <1>3
    <3>2. a.truth[i] = r.truth[i]
      BY <1>6, <3>1 DEF y
    <3>3. Grants(a) = Grants(r) /\ a.results = r.results
      BY <1>5 DEF Grants
    <3> QED
      BY <1>2, <3>2, <3>3 DEF CasesPassed
  <2>2. Len(a.results) = c - 1
    BY <1>2, <1>5 DEF CasesPassed
  <2> QED
    BY <1>5, <2>1, <2>2 DEF CasesPassed
<1>9. a.status = "Passed" /\ a.result.framesScheduled = a.suite[a.case].frames
  BY <1>5 DEF Core, c
<1>10. Len(a.truth) = a.case /\ IsSeq(a.truth[a.case])
  BY <1>2, <1>4, <1>5, <1>6
<1>11. Core(a)
  BY <1>7, <1>8, <1>9, <1>10 DEF Core
<1>12. SameRun(r, a)
  BY <1>5 DEF SameRun
<1> QED
  BY <1>1, <1>5, <1>6, <1>11, <1>12 DEF a, c, y, e

LEMMA SummaryCore ==
  ASSUME NEW r, Core(r), NEW summary,
         NEW q, Keeps(AddSummary(r, summary), q, {"phase", "work"})
  PROVE  /\ Core(q) /\ SameRun(r, q)
         /\ q.case = r.case /\ q.frame = r.frame /\ q.truth = r.truth
         /\ q.exhausted = r.exhausted /\ q.lost = r.lost /\ q.trace = r.trace
         /\ q.result.frames = Append(r.result.frames, summary)
         /\ q.result.framesRun = r.result.framesRun + 1
         /\ q.result.framesScheduled = r.result.framesScheduled
         /\ q.result.status = r.result.status
         /\ DOMAIN q = RunFields
<1> DEFINE s == AddSummary(r, summary)
<1>1. DOMAIN r = RunFields /\ IsResult(r.result)
  BY DEF Core, RunTyped
<1>2. /\ Keeps(r, s, {"result"})
      /\ IsResult(s.result)
      /\ s.result.frames = Append(r.result.frames, summary)
      /\ s.result.framesRun = r.result.framesRun + 1
      /\ s.result.framesScheduled = r.result.framesScheduled
      /\ s.result.status = r.result.status
  BY <1>1, AddSummaryFacts
<1> HIDE DEF s
<1>3. /\ q.result = s.result /\ Keeps(r, q, MidFields)
      /\ q.records = r.records /\ q.bytes = r.bytes /\ q.trace = r.trace
      /\ q.exhausted = r.exhausted /\ q.lost = r.lost /\ q.truth = r.truth
      /\ q.case = r.case /\ q.frame = r.frame /\ DOMAIN q = RunFields
  BY <1>2 DEF Keeps, RunFields, MidFields, StoreFields, s
<1>4. Charged(q) /\ (q.lost => q.exhausted)
  BY <1>3 DEF Core, RunTyped, Charged
<1>5. Core(q) /\ SameRun(r, q)
  BY <1>2, <1>3, <1>4, CoreKept
<1> QED
  BY <1>2, <1>3, <1>5

\* A frame that failed is a summary, and the case is over.
LEMMA FailedFinal ==
  ASSUME NEW r, Core(r), NEW q,
         q = [Stop(AddSummary(r, FailedFrame), "HostError") EXCEPT !.phase = "final"]
  PROVE  RunInv(q) /\ SameRun(r, q)
<1> DEFINE f == FailedFrame
           s == AddSummary(r, f)
           u == Stop(s, "HostError")
<1>1. Keeps(s, s, {"phase", "work"})
  <2>1. DOMAIN s = RunFields
    BY AddSummaryFacts DEF Core, RunTyped, Keeps
  <2> QED
    BY <2>1 DEF Keeps
<1> HIDE DEF f
<1>2. Core(s) /\ SameRun(r, s)
  BY <1>1, SummaryCore
<1>3. q = [u EXCEPT !.phase = "final"]
  BY DEF f
<1> HIDE DEF s
<1>4. DOMAIN u = RunFields
  BY <1>2, StopFacts DEF Core, RunTyped, Keeps
<1>5. Keeps(u, q, {"phase", "work"}) /\ q.phase = "final"
  BY <1>3, <1>4 DEF Keeps, RunFields
<1>6. RunInv(q) /\ SameRun(s, q)
  BY <1>2, <1>5, StopFinal
<1> QED
  BY <1>2, <1>6 DEF SameRun

LEMMA AdvanceIs ==
  ASSUME Advance
  PROVE  \/ run' = [Stop(AddSummary(run, FailedFrame), "HostError") EXCEPT !.phase = "final"]
         \/ \E work \in Work, failed \in BOOLEAN :
              LET a == After(run, work, failed)
              IN  run' = IF failed \/ a.exhausted
                         THEN [Stop(AddSummary(a, FailedFrame), "HostError") EXCEPT !.phase = "final"]
                         ELSE [a EXCEPT !.phase = "observe", !.work = work]
BY DEF Advance, After

\* The frame was recorded and the host may look at it.
LEMMA AdvancedObserve ==
  ASSUME NEW r, RunInv(r), r.phase = "advance", NEW work \in Work, NEW failed,
         ~After(r, work, failed).exhausted,
         NEW q, q = [After(r, work, failed) EXCEPT !.phase = "observe", !.work = work]
  PROVE  RunInv(q) /\ SameRun(r, q)
<1> DEFINE a == After(r, work, failed)
           t == r.truth[r.case]
           n == r.frame
           h == Happened(work)
<1>1. Core(r) /\ InCase(r, r.result, t)
  BY RunInvIs
<1>2. /\ Core(a) /\ SameRun(r, a)
      /\ a.result = r.result /\ a.case = r.case /\ a.frame = n
      /\ a.truth[r.case] = Append(t, h)
  BY <1>1, AfterCore
<1> HIDE DEF a, h
<1>3. DOMAIN a = RunFields /\ q = [a EXCEPT !.phase = "observe", !.work = work]
  BY <1>2 DEF Core, RunTyped, a
<1>4. /\ Keeps(a, q, {"phase", "work"}) /\ q.phase = "observe" /\ q.work = work
  BY <1>3 DEF Keeps, RunFields
<1>5. /\ Keeps(a, q, MidFields) /\ q.result = a.result /\ q.truth = a.truth
      /\ q.case = a.case /\ q.frame = a.frame /\ q.lost = a.lost /\ q.exhausted = a.exhausted
      /\ q.records = a.records /\ q.bytes = a.bytes /\ q.trace = a.trace
  BY <1>4 DEF Keeps, RunFields, StoreFields, MidFields
<1>6. IsResult(q.result) /\ Charged(q) /\ (q.lost => q.exhausted)
  BY <1>2, <1>5 DEF Core, RunTyped, Charged
<1>7. Core(q) /\ SameRun(a, q)
  BY <1>2, <1>5, <1>6, CoreKept
<1> DEFINE x == r.result
           u == q.truth[q.case]
<1>8. /\ n \in 1..x.framesScheduled
      /\ x.status = "Passed"
      /\ FramesPassed(x, t, n - 1)
      /\ Len(t) = n - 1
      /\ IsSeq(t)
  BY <1>1 DEF InCase, Core
<1>9. x.framesScheduled \in Nat
  BY <1>1 DEF Core, RunTyped, IsResult
<1>10. u = Append(t, h) /\ q.result = x /\ q.frame = n
  BY <1>2, <1>5
<1> HIDE DEF u, t, x, n
<1>11. /\ Len(u) = Len(t) + 1
       /\ \A i \in 1..Len(t) : u[i] = t[i]
       /\ u[Len(t) + 1] = h
  BY <1>8, <1>10, AppendFacts
<1>12. Len(t) + 1 = n
  BY <1>8, <1>9
<1>13. Len(u) = n /\ u[n] = h /\ \A i \in 1..(n - 1) : u[i] = t[i]
  BY <1>8, <1>11, <1>12
<1>14. FramesPassed(x, u, n - 1)
  BY <1>8, <1>13 DEF FramesPassed
<1>15. InCase(q, x, u)
  BY <1>4, <1>5, <1>8, <1>10, <1>13, <1>14 DEF InCase, h, a
<1>16. RunInv(q)
  BY <1>4, <1>7, <1>10, <1>15, RunInvIs DEF Phases, u
<1> QED
  BY <1>2, <1>7, <1>16 DEF SameRun

LEMMA AdvanceInv ==
  ASSUME RunInv(run), Advance
  PROVE  RunInv(run') /\ SameRun(run, run')
<1>1. run.phase = "advance" /\ Core(run)
  BY RunInvIs DEF Advance
<1>2. CASE run' = [Stop(AddSummary(run, FailedFrame), "HostError") EXCEPT !.phase = "final"]
  BY <1>1, <1>2, FailedFinal
<1>3. ASSUME NEW work \in Work, NEW failed \in BOOLEAN,
             LET a == After(run, work, failed)
             IN  run' = IF failed \/ a.exhausted
                        THEN [Stop(AddSummary(a, FailedFrame), "HostError") EXCEPT !.phase = "final"]
                        ELSE [a EXCEPT !.phase = "observe", !.work = work]
      PROVE  RunInv(run') /\ SameRun(run, run')
  <2> DEFINE a == After(run, work, failed)
  <2>1. Core(a) /\ SameRun(run, a)
    BY <1>1, AfterCore
  <2>2. CASE failed \/ a.exhausted
    <3>1. run' = [Stop(AddSummary(a, FailedFrame), "HostError") EXCEPT !.phase = "final"]
      BY <1>3, <2>2
    <3> HIDE DEF a
    <3>2. RunInv(run') /\ SameRun(a, run')
      BY <2>1, <3>1, FailedFinal
    <3> QED
      BY <2>1, <3>2 DEF SameRun
  <2>3. CASE ~(failed \/ a.exhausted)
    <3>1. run' = [a EXCEPT !.phase = "observe", !.work = work]
      BY <1>3, <2>3
    <3> QED
      BY <1>1, <2>3, <3>1, AdvancedObserve
  <2> QED
    BY <2>2, <2>3
<1> QED
  BY <1>2, <1>3, AdvanceIs

\* A summary counts no command that the frame did not have.
LEMMA SummaryFacts ==
  ASSUME NEW r, r.work \in Work, NEW lifecycle
  PROVE  LET x == Summary(r, lifecycle)
         IN  /\ x.completed
             /\ x.lifecycle = lifecycle
             /\ x.commands <= Happened(r.work).commands
             /\ "asserted" \in DOMAIN x
<1> DEFINE x == Summary(r, lifecycle)
           w == r.work
           S == {i \in DOMAIN w : w[i].type = "CommandIssued"}
           T == {i \in DOMAIN w : w[i].type = "CommandIssued" /\ w[i].component \in r.granted}
<1>1. x.completed /\ x.lifecycle = lifecycle /\ "asserted" \in DOMAIN x
  BY DEF Summary
<1>2. x.commands = Cardinality(T)
  BY DEF Summary, NumberOf
<1>3. Happened(w).commands = Cardinality(S)
  BY DEF Happened, NumberOf
<1>4. IsFiniteSet(S)
  <2>1. IsSeq(w)
    BY WorkAssumption DEF IsSeq
  <2>2. Len(w) \in Nat /\ DOMAIN w = 1..Len(w)
    BY <2>1, IsSeqFacts
  <2>3. IsFiniteSet(1..Len(w)) /\ S \subseteq 1..Len(w)
    BY <2>2, FS_Interval
  <2> QED
    BY <2>3, FS_Subset
<1>5. T \subseteq S
  OBVIOUS
<1> HIDE DEF S, T, x
<1>6. Cardinality(T) <= Cardinality(S)
  BY <1>4, <1>5, FS_Subset
<1> QED
  BY <1>1, <1>2, <1>3, <1>6 DEF x, w

LEMMA FrameStatusPassed ==
  ASSUME NEW r, NEW lifecycle, FrameStatus(r, lifecycle) = "Passed"
  PROVE  lifecycle = "Success"
BY DEF FrameStatus, LifecycleCaseStatus

LEMMA SeenExpect ==
  ASSUME NEW r, RunInv(r), r.phase = "observe", NEW summary,
         FrameDone(summary, Happened(r.work)), "asserted" \in DOMAIN summary,
         NEW q, Keeps(AddSummary(r, summary), q, {"phase", "work"}), q.phase = "expect"
  PROVE  RunInv(q) /\ SameRun(r, q)
<1> DEFINE t == r.truth[r.case]
           n == r.frame
           x == r.result
           l == x.frames
           y == q.result
           k == y.frames
<1>1. Core(r) /\ InCase(r, x, t)
  BY RunInvIs
<1>2. /\ Core(q) /\ SameRun(r, q)
      /\ q.case = r.case /\ q.frame = n /\ q.truth = r.truth
      /\ q.exhausted = r.exhausted
      /\ k = Append(l, summary)
      /\ y.framesRun = x.framesRun + 1
      /\ y.framesScheduled = x.framesScheduled
      /\ y.status = x.status
  BY <1>1, SummaryCore
<1>3. /\ n \in 1..x.framesScheduled
      /\ x.status = "Passed"
      /\ FramesPassed(x, t, n - 1)
      /\ Len(t) = n
      /\ t[n] = Happened(r.work)
      /\ ~r.exhausted
  BY <1>1 DEF InCase
<1>4. IsSeq(l) /\ x.framesScheduled \in Nat
  BY <1>1 DEF Core, RunTyped, IsResult
<1>5. x.framesRun = n - 1 /\ Len(l) = n - 1 /\ \A f \in 1..(n - 1) : FramePassed(l[f], t[f])
  BY <1>3 DEF FramesPassed
<1> HIDE DEF t, x, l, n, y, k
<1>6. /\ Len(k) = Len(l) + 1
      /\ \A i \in 1..Len(l) : k[i] = l[i]
      /\ k[Len(l) + 1] = summary
  BY <1>2, <1>4, AppendFacts
<1>7. Len(l) + 1 = n /\ n \in Int
  BY <1>3, <1>4, <1>5
<1>8. Len(k) = n /\ k[n] = summary /\ \A f \in 1..(n - 1) : FramePassed(k[f], t[f])
  BY <1>5, <1>6, <1>7
<1>9. y.framesRun = n
  BY <1>2, <1>5, <1>7
<1>10. FrameDone(k[n], t[n]) /\ "asserted" \in DOMAIN k[n]
  BY <1>3, <1>8
<1>11. InCase(q, y, t)
  BY <1>2, <1>3, <1>8, <1>9, <1>10 DEF InCase, k
<1> QED
  BY <1>2, <1>11, RunInvIs DEF Phases, t, y

LEMMA ObserveInv ==
  ASSUME RunInv(run), Observe
  PROVE  RunInv(run') /\ SameRun(run, run')
<1>1. run.phase = "observe" /\ Core(run) /\ InCase(run, run.result, run.truth[run.case])
  BY RunInvIs DEF Observe
<1>2. run.work \in Work
  BY <1>1 DEF InCase
<1>3. CASE run' = [Stop(run, "HostError") EXCEPT !.phase = "final", !.work = <<>>]
  <2> DEFINE s == Stop(run, "HostError")
  <2>1. DOMAIN s = RunFields
    BY <1>1, StopFacts DEF Core, RunTyped, Keeps
  <2>2. Keeps(s, run', {"phase", "work"}) /\ run'.phase = "final"
    BY <1>3, <2>1 DEF Keeps, RunFields
  <2> QED
    BY <1>1, <2>2, StopFinal
<1>4. ASSUME NEW lifecycle \in LifecycleStatuses,
             LET seen == [AddSummary(run, Summary(run, lifecycle)) EXCEPT !.work = <<>>]
                 status == FrameStatus(run, lifecycle)
             IN  run' = IF status = "Passed" THEN [seen EXCEPT !.phase = "expect"]
                        ELSE [Stop(seen, status) EXCEPT !.phase = "final"]
      PROVE  RunInv(run') /\ SameRun(run, run')
  <2> DEFINE x == Summary(run, lifecycle)
             a == AddSummary(run, x)
             seen == [a EXCEPT !.work = <<>>]
             status == FrameStatus(run, lifecycle)
  <2>1. DOMAIN a = RunFields
    BY <1>1, AddSummaryFacts DEF Core, RunTyped, Keeps
  <2>2. /\ x.completed
        /\ x.lifecycle = lifecycle
        /\ x.commands <= Happened(run.work).commands
        /\ "asserted" \in DOMAIN x
    BY <1>2, SummaryFacts
  <2> HIDE DEF x
  <2>3. CASE status = "Passed"
    <3>1. lifecycle = "Success"
      BY <2>3, FrameStatusPassed
    <3>2. FrameDone(x, Happened(run.work))
      BY <2>2, <3>1 DEF FrameDone
    <3>3. run' = [seen EXCEPT !.phase = "expect"]
      BY <1>4, <2>3 DEF x
    <3> HIDE DEF a
    <3>4. Keeps(a, run', {"phase", "work"}) /\ run'.phase = "expect"
      BY <2>1, <3>3 DEF Keeps, RunFields
    <3> QED
      BY <1>1, <2>2, <3>2, <3>4, SeenExpect DEF a
  <2>4. CASE status # "Passed"
    <3>1. run' = [Stop(seen, status) EXCEPT !.phase = "final"]
      BY <1>4, <2>4 DEF x
    <3>2. Keeps(a, seen, {"phase", "work"})
      <4> HIDE DEF a
      <4> QED
        BY <2>1 DEF Keeps, RunFields
    <3> HIDE DEF seen, status
    <3>3. Core(seen) /\ SameRun(run, seen)
      BY <1>1, <3>2, SummaryCore
    <3> DEFINE s == Stop(seen, status)
    <3>4. DOMAIN s = RunFields
      BY <3>3, StopFacts DEF Core, RunTyped, Keeps
    <3>5. Keeps(s, run', {"phase", "work"}) /\ run'.phase = "final"
      BY <3>1, <3>4 DEF Keeps, RunFields
    <3>6. RunInv(run') /\ SameRun(seen, run')
      BY <2>4, <3>3, <3>5, StopFinal
    <3> QED
      BY <3>3, <3>6 DEF SameRun
  <2> QED
    BY <2>3, <2>4
<1> QED
  BY <1>3, <1>4 DEF Observe

\* The result x with the assertion of its frame n noted.
Asserted(x, n) ==
  [x EXCEPT !.frames = [x.frames EXCEPT ![n] = [x.frames[n] EXCEPT !.asserted = TRUE]]]

LEMMA AssertedFacts ==
  ASSUME NEW x, IsResult(x), NEW n \in 1..Len(x.frames), "asserted" \in DOMAIN x.frames[n]
  PROVE  LET y == Asserted(x, n)
         IN  /\ IsResult(y)
             /\ y.status = x.status
             /\ y.framesScheduled = x.framesScheduled
             /\ y.framesRun = x.framesRun
             /\ Len(y.frames) = Len(x.frames)
             /\ \A i \in 1..Len(x.frames) : i # n => y.frames[i] = x.frames[i]
             /\ \A t : FrameDone(x.frames[n], t) => FramePassed(y.frames[n], t)
<1> DEFINE y == Asserted(x, n)
           l == x.frames
           e == [l[n] EXCEPT !.asserted = TRUE]
           k == [l EXCEPT ![n] = e]
<1>1. y = [x EXCEPT !.frames = k]
  BY DEF Asserted
<1>2. IsSeq(l) /\ n \in 1..Len(l)
  BY DEF IsResult
<1>3. /\ e.asserted = TRUE
      /\ e.completed = l[n].completed /\ e.lifecycle = l[n].lifecycle
      /\ e.commands = l[n].commands
  OBVIOUS
<1>4. Replaced(l, n, e, k)
  BY DEF Replaced
<1> HIDE DEF e, k, l
<1>5. /\ IsSeq(k) /\ Len(k) = Len(l) /\ k[n] = e
      /\ \A i \in 1..Len(l) : i # n => k[i] = l[i]
  BY <1>2, <1>4, SeqExcept
<1>6. /\ DOMAIN y = ResultFields /\ y.frames = k /\ y.name = x.name
      /\ y.status = x.status /\ y.framesScheduled = x.framesScheduled
      /\ y.framesRun = x.framesRun /\ y.finalState = x.finalState
  BY <1>1 DEF IsResult, ResultFields
<1> HIDE DEF y
<1>7. IsResult(y)
  BY <1>5, <1>6 DEF IsResult
<1>8. ASSUME NEW t, FrameDone(l[n], t) PROVE FramePassed(k[n], t)
  BY <1>3, <1>5, <1>8 DEF FrameDone, FramePassed
<1> QED
  BY <1>5, <1>6, <1>7, <1>8 DEF y, l

\* The assertion held: the next frame, or the end of the case.
LEMMA AssertedInv ==
  ASSUME NEW r, RunInv(r), r.phase = "expect",
         NEW q, Keeps(r, q, {"phase", "frame", "result"}),
         q.result = Asserted(r.result, r.frame),
         \/ q.phase = "input" /\ q.frame = r.frame + 1 /\ r.frame < r.suite[r.case].frames
         \/ q.phase = "final" /\ q.frame = r.frame /\ ~(r.frame < r.suite[r.case].frames)
  PROVE  RunInv(q) /\ SameRun(r, q)
<1> DEFINE t == r.truth[r.case]
           n == r.frame
           x == r.result
           y == q.result
           m == x.framesScheduled
<1>1. Core(r) /\ InCase(r, x, t)
  BY RunInvIs
<1>2. /\ n \in 1..m
      /\ x.status = "Passed"
      /\ x.framesRun = n
      /\ Len(x.frames) = n
      /\ \A f \in 1..(n - 1) : FramePassed(x.frames[f], t[f])
      /\ FrameDone(x.frames[n], t[n])
      /\ "asserted" \in DOMAIN x.frames[n]
      /\ Len(t) = n
      /\ ~r.exhausted
  BY <1>1 DEF InCase
<1>3. IsResult(x) /\ m \in Nat /\ m = r.suite[r.case].frames
  BY <1>1 DEF Core, RunTyped, IsResult
<1>4. n \in 1..Len(x.frames) /\ y = Asserted(x, n)
  BY <1>2, <1>3
<1> HIDE DEF n, x, y
<1>5. /\ IsResult(y)
      /\ y.status = x.status
      /\ y.framesScheduled = m
      /\ y.framesRun = x.framesRun
      /\ Len(y.frames) = Len(x.frames)
      /\ \A i \in 1..Len(x.frames) : i # n => y.frames[i] = x.frames[i]
      /\ \A z : FrameDone(x.frames[n], z) => FramePassed(y.frames[n], z)
  BY <1>2, <1>3, <1>4, AssertedFacts
<1>6. /\ Keeps(r, q, MidFields) /\ q.truth = r.truth /\ q.case = r.case
      /\ q.exhausted = r.exhausted /\ q.lost = r.lost /\ q.records = r.records
      /\ q.bytes = r.bytes /\ q.trace = r.trace
  BY DEF Keeps, RunFields, MidFields, StoreFields
<1>7. Charged(q) /\ (q.lost => q.exhausted)
  BY <1>1, <1>6 DEF Core, RunTyped, Charged
<1>8. Core(q) /\ SameRun(r, q)
  BY <1>1, <1>5, <1>6, <1>7, CoreKept DEF x, y
<1>9. FramesPassed(y, t, n)
  <2>1. ASSUME NEW f \in 1..n PROVE FramePassed(y.frames[f], t[f])
    <3>1. CASE f = n
      BY <1>2, <1>5, <3>1
    <3>2. CASE f # n
      <4>1. f \in 1..(n - 1) /\ f \in 1..Len(x.frames)
        BY <1>2, <1>3, <3>2
      <4> QED
        BY <1>2, <1>5, <3>2, <4>1
    <3> QED
      BY <3>1, <3>2
  <2> QED
    BY <1>2, <1>5, <2>1 DEF FramesPassed
<1>10. CASE q.phase = "input" /\ q.frame = n + 1 /\ n < m
  <2>1. q.frame \in 1..m /\ q.frame - 1 = n
    BY <1>2, <1>3, <1>10
  <2>2. InCase(q, y, t)
    BY <1>2, <1>5, <1>9, <1>10, <2>1 DEF InCase
  <2> QED
    BY <1>6, <1>8, <1>10, <2>2, RunInvIs DEF Phases, y
<1>11. CASE q.phase = "final" /\ ~(n < m)
  <2>1. n = m
    BY <1>2, <1>3, <1>11
  <2>2. InCase(q, y, t)
    BY <1>2, <1>5, <1>6, <1>9, <1>11, <2>1 DEF InCase
  <2> QED
    BY <1>6, <1>8, <1>11, <2>2, RunInvIs DEF Phases, y
<1> QED
  BY <1>3, <1>10, <1>11 DEF n

LEMMA ExpectInv ==
  ASSUME RunInv(run), Expect
  PROVE  RunInv(run') /\ SameRun(run, run')
<1>1. run.phase = "expect" /\ Core(run) /\ InCase(run, run.result, run.truth[run.case])
  BY RunInvIs DEF Expect
<1>2. DOMAIN run = RunFields /\ IsResult(run.result)
  BY <1>1 DEF Core, RunTyped
<1> DEFINE last == Len(run.result.frames)
           next == IF run.frame < TestCase(run).frames
                   THEN [run EXCEPT !.phase = "input", !.frame = @ + 1]
                   ELSE [run EXCEPT !.phase = "final"]
<1>3. CASE run' = [next EXCEPT !.result.frames[last].asserted = TRUE]
  <2>1. last = run.frame
    BY <1>1 DEF InCase
  <2>2. DOMAIN next = RunFields /\ next.result = run.result
        /\ Keeps(run, next, {"phase", "frame"})
    BY <1>2 DEF Keeps, RunFields
  <2>3. \/ next.phase = "input" /\ next.frame = run.frame + 1
             /\ run.frame < run.suite[run.case].frames
        \/ next.phase = "final" /\ next.frame = run.frame
             /\ ~(run.frame < run.suite[run.case].frames)
    BY <1>2 DEF TestCase, RunFields
  <2> HIDE DEF next, last
  <2>4. run' = [next EXCEPT !.result = Asserted(run.result, last)]
    <3>1. [next EXCEPT !.result.frames[last].asserted = TRUE]
          = [next EXCEPT !.result = [next.result EXCEPT !.frames[last].asserted = TRUE]]
      OBVIOUS
    <3>2. [next.result EXCEPT !.frames[last].asserted = TRUE]
          = [next.result EXCEPT !.frames = [next.result.frames EXCEPT ![last].asserted = TRUE]]
      OBVIOUS
    <3>3. [next.result.frames EXCEPT ![last].asserted = TRUE]
          = [next.result.frames EXCEPT ![last] =
               [next.result.frames[last] EXCEPT !.asserted = TRUE]]
      OBVIOUS
    <3> QED
      BY <1>3, <2>2, <3>1, <3>2, <3>3 DEF Asserted
  <2>5. /\ Keeps(run, run', {"phase", "frame", "result"})
        /\ run'.result = Asserted(run.result, run.frame)
        /\ run'.phase = next.phase /\ run'.frame = next.frame
    BY <2>1, <2>2, <2>4 DEF Keeps, RunFields
  <2> QED
    BY <1>1, <2>3, <2>5, AssertedInv
<1>4. ASSUME NEW status \in {"Failed", "HostError"},
             run' = [Stop(run, status) EXCEPT !.phase = "final"]
      PROVE  RunInv(run') /\ SameRun(run, run')
  <2> DEFINE s == Stop(run, status)
  <2>1. DOMAIN s = RunFields
    BY <1>2, StopFacts DEF Keeps
  <2>2. Keeps(s, run', {"phase", "work"}) /\ run'.phase = "final"
    BY <1>4, <2>1 DEF Keeps, RunFields
  <2>3. status # "Passed"
    OBVIOUS
  <2> QED
    BY <1>1, <2>2, <2>3, StopFinal
<1> QED
  BY <1>3, <1>4 DEF Expect

\* The case ends with a summary of every grant.
WithState(r) == [r EXCEPT !.result.finalState = Grants(r)]

LEMMA FinalEnding ==
  ASSUME NEW r, RunInv(r), r.phase = "final"
  PROVE  LET q == WithState(r)
         IN  /\ Ending(q) /\ SameRun(r, q)
             /\ q.truth = r.truth /\ q.case = r.case /\ q.lost = r.lost /\ q.trace = r.trace
             /\ q.result.status = r.result.status
             /\ q.result.framesRun = r.result.framesRun
<1>1. Core(r) /\ InCase(r, r.result, r.truth[r.case])
  BY RunInvIs
<1>2. DOMAIN r = RunFields /\ IsResult(r.result)
  BY <1>1 DEF Core, RunTyped
<1> DEFINE n == Grants(r)
           q == [r EXCEPT !.result.finalState = n]
           x == r.result
           y == [x EXCEPT !.finalState = n]
           t == r.truth[r.case]
<1>3. WithState(r) = q
  BY DEF WithState
<1>4. n \in Nat
  BY <1>1, IsSeqFacts DEF Core, RunTyped, Grants
<1> HIDE DEF n
<1>5. Keeps(r, q, {"result"}) /\ q.result = y
  BY <1>2 DEF Keeps, RunFields
<1>6. /\ DOMAIN y = ResultFields /\ y.frames = x.frames /\ y.name = x.name
      /\ y.status = x.status /\ y.framesScheduled = x.framesScheduled
      /\ y.framesRun = x.framesRun /\ y.finalState = n
  BY <1>2 DEF IsResult, ResultFields
<1> HIDE DEF q, y
<1>7. IsResult(y)
  BY <1>2, <1>4, <1>6 DEF IsResult
<1>8. /\ Keeps(r, q, MidFields) /\ q.truth = r.truth /\ q.case = r.case
      /\ q.exhausted = r.exhausted /\ q.lost = r.lost /\ q.records = r.records
      /\ q.bytes = r.bytes /\ q.trace = r.trace /\ q.manifest = r.manifest
  BY <1>5 DEF Keeps, RunFields, MidFields, StoreFields
<1>9. Charged(q) /\ (q.lost => q.exhausted)
  BY <1>1, <1>8 DEF Core, RunTyped, Charged
<1>10. Core(q) /\ SameRun(r, q)
  BY <1>1, <1>5, <1>6, <1>7, <1>8, <1>9, CoreKept
<1>11. ASSUME y.status = "Passed" PROVE ~q.exhausted /\ CasePassed(y, t, n)
  <2>1. ~r.exhausted /\ FramesPassed(x, t, x.framesScheduled)
    BY <1>1, <1>6, <1>11 DEF InCase
  <2>2. FramesPassed(y, t, y.framesScheduled)
    BY <1>6, <2>1 DEF FramesPassed
  <2> QED
    BY <1>6, <1>8, <1>11, <2>1, <2>2 DEF CasePassed
<1>12. Grants(q) = n
  BY <1>8 DEF n, Grants
<1>13. Ending(q)
  BY <1>5, <1>8, <1>10, <1>11, <1>12 DEF Ending, Core
<1> QED
  BY <1>3, <1>5, <1>6, <1>8, <1>10, <1>13

LEMMA CaptureFinalStateIs ==
  ASSUME CaptureFinalState
  PROVE  /\ run.phase = "final"
         /\ run' = EndCase(WithState(run)) \/ run' = EndCase(Stop(run, "HostError"))
BY DEF CaptureFinalState, WithState, Grants

LEMMA CaptureFinalStateInv ==
  ASSUME RunInv(run), CaptureFinalState
  PROVE  RunInv(run') /\ SameRun(run, run')
<1>1. run.phase = "final" /\ Core(run)
  BY RunInvIs DEF CaptureFinalState
<1> DEFINE q == WithState(run)
<1>2. CASE run' = EndCase(q)
  <2>1. Ending(q) /\ SameRun(run, q)
    BY <1>1, FinalEnding
  <2> HIDE DEF q
  <2>2. RunInv(EndCase(q)) /\ SameRun(q, EndCase(q))
    BY <2>1, EndCaseInv
  <2> QED
    BY <1>2, <2>1, <2>2 DEF SameRun
<1>3. CASE run' = EndCase(Stop(run, "HostError"))
  BY <1>1, <1>3, StopEnds
<1> QED
  BY <1>2, <1>3, CaptureFinalStateIs

LEMMA EvaluationStepInv ==
  ASSUME RunInv(run), EvaluationStep
  PROVE  RunInv(run') /\ SameRun(run, run')
BY PrepareCaseInv, ApplyInputInv, AdvanceInv, ObserveInv, ExpectInv, CaptureFinalStateInv
   DEF EvaluationStep

-----------------------------------------------------------------------------
(* Checks, captures and charges *)

LEMMA FirstErrorOk ==
  ASSUME NEW checks, DOMAIN checks \subseteq Nat, FirstError(checks) = "Ok"
  PROVE  \A i \in DOMAIN checks : checks[i] = "Ok"
<1> DEFINE failed == {i \in DOMAIN checks : checks[i] # "Ok"}
<1>1. ASSUME failed # {} PROVE FALSE
  <2>1. failed \in SUBSET Nat
    OBVIOUS
  <2>2. FirstError(checks) = checks[Min(failed)]
    BY <1>1 DEF FirstError
  <2>3. \A i \in failed : checks[i] # "Ok"
    OBVIOUS
  <2> HIDE DEF failed
  <2>4. \E m \in failed : \A k \in failed : m <= k
    BY <1>1, <2>1, LeastOf
  <2>5. Min(failed) \in failed
    BY <2>4 DEF Min
  <2> QED
    BY <2>2, <2>3, <2>5
<1> QED
  BY <1>1

LEMMA ManifestBytesNat ==
  ASSUME NEW grants, IsSeq(grants), \A c \in Components : values[c] \in ValuesOf[c]
  PROVE  ManifestBytes(grants) \in Nat
<1> DEFINE f == [i \in DOMAIN grants |-> GrantBytes(grants[i])]
<1>1. \A g : GrantBytes(g) \in Nat
  <2> SUFFICES ASSUME NEW g PROVE GrantBytes(g) \in Nat
    OBVIOUS
  <2>1. CASE Reads(g) /\ g.component \in Components
    <3>1. ValueBytes[values[g.component]] \in Nat
      BY <2>1, InputAssumption
    <3>2. GrantBytes(g) = 1 + ValueBytes[values[g.component]]
      BY <2>1 DEF GrantBytes
    <3> QED
      BY <3>1, <3>2
  <2>2. CASE ~(Reads(g) /\ g.component \in Components)
    <3>1. GrantBytes(g) = 1 + 0
      BY <2>2 DEF GrantBytes
    <3> QED
      BY <3>1
  <2> QED
    BY <2>1, <2>2
<1>2. Len(grants) \in Nat /\ DOMAIN grants = 1..Len(grants)
  BY IsSeqFacts
<1>3. IsFiniteSet(DOMAIN grants)
  BY <1>2, FS_Interval
<1>4. Amounts(f)
  BY <1>1, <1>3 DEF Amounts
<1>5. ManifestBytes(grants) = SumFunction(f)
  BY DEF ManifestBytes
<1> HIDE DEF f
<1> QED
  BY <1>4, <1>5, SumFacts

LEMMA ScopeChargeNat ==
  ASSUME NEW owner \in Owners, NEW grants, IsSeq(grants),
         \A c \in Components : values[c] \in ValuesOf[c]
  PROVE  ScopeCharge(owner, grants) \in Nat
<1>1. TextBytes[owner] \in Nat
  <2>1. \A text \in Owners \union Sources : TextBytes[text] \in Nat
    BY InputAssumption
  <2> QED
    BY <2>1
<1>2. Len(grants) \in Nat
  BY IsSeqFacts
<1>3. ManifestBytes(grants) \in Nat
  BY ManifestBytesNat
<1> QED
  BY <1>1, <1>2, <1>3 DEF ScopeCharge, CaptureBytes

LEMMA ProposalChargeNat ==
  ASSUME NEW p, p.owner \in Owners, p.source \in Sources, Len(p.targets) \in Nat
  PROVE  ProposalCharge(p) \in Nat
<1>1. TextBytes[p.owner] \in Nat /\ TextBytes[p.source] \in Nat
  <2>1. \A text \in Owners \union Sources : TextBytes[text] \in Nat
    BY InputAssumption
  <2>2. p.owner \in Owners \union Sources /\ p.source \in Owners \union Sources
    OBVIOUS
  <2> QED
    BY <2>1, <2>2
<1> DEFINE a == TextBytes[p.source]
           b == TextBytes[p.owner]
           n == Len(p.targets)
<1>2. ProposalCharge(p) = 1 + a + b + (1 + n)
  BY DEF ProposalCharge, CaptureBytes
<1>3. a \in Nat /\ b \in Nat /\ n \in Nat
  BY <1>1
<1> HIDE DEF a, b, n
<1> QED
  BY <1>2, <1>3

\* A capture of grants that all resolve has as many targets.
LEMMA ScopeTargetsFacts ==
  ASSUME NEW grants, IsSeq(grants)
  PROVE  /\ Len(ScopeTargets(grants)) \in Nat
         /\ (\A i \in DOMAIN grants : AdmitGrant(grants, i) = "Ok")
              => Len(ScopeTargets(grants)) = Len(grants)
<1> DEFINE f == [i \in DOMAIN grants |-> [component |-> grants[i].component,
                                          slot |-> slots[grants[i].component].generation]]
           n == Len(grants)
           z == <<>>
           t == ScopeTargets(grants)
           ok == \A i \in DOMAIN grants : AdmitGrant(grants, i) = "Ok"
<1>1. n \in Nat /\ DOMAIN grants = 1..n
  BY IsSeqFacts
<1>2. IsSeq(f) /\ Len(f) = n
  <2> DEFINE S == {f[i] : i \in 1..n}
  <2>1. f \in [1..n -> S]
    BY <1>1
  <2> HIDE DEF f, S, n
  <2> QED
    BY <1>1, <2>1, FunctionIsSeq
<1>3. t = IF ok THEN f ELSE z
  BY DEF ScopeTargets
<1>4. Len(z) = 0
  BY EmptyIsSeq
<1> HIDE DEF f, z, t, n, ok
<1>5. Len(t) \in Nat /\ (ok => Len(t) = n)
  BY <1>1, <1>2, <1>3, <1>4
<1> QED
  BY <1>5 DEF t, n, ok

LEMMA ScopeManifestOk ==
  ASSUME NEW grants, IsSeq(grants), ScopeManifest(grants) = "Ok"
  PROVE  \A i \in DOMAIN grants : AdmitGrant(grants, i) = "Ok"
<1> DEFINE checks == [i \in DOMAIN grants |->
             LET admitted == AdmitGrant(grants, i)
                 read == ReadGrant(grants[i])
             IN  IF admitted # "Ok" THEN admitted
                 ELSE IF read # "Ok" THEN read
                 ELSE Check(ManifestBytes(SubSeq(grants, 1, i)) <= LuaManifestMaxLogicalBytes,
                            "LimitExceeded")]
<1>1. FirstError(checks) = "Ok"
  BY DEF ScopeManifest
<1>2. DOMAIN checks = DOMAIN grants /\ DOMAIN grants \subseteq Nat
  BY IsSeqFacts
<1>3. ASSUME NEW i \in DOMAIN grants, AdmitGrant(grants, i) # "Ok"
      PROVE  checks[i] = AdmitGrant(grants, i)
  BY <1>3
<1> HIDE DEF checks
<1>4. \A i \in DOMAIN checks : checks[i] = "Ok"
  BY <1>1, <1>2, FirstErrorOk
<1> QED
  BY <1>2, <1>3, <1>4

LEMMA CaptureErrorOk ==
  ASSUME NEW code, NEW stage, CaptureError(code, stage) = "Ok"
  PROVE  code = "Ok"
BY DEF CaptureError

LEMMA RecaptureOk ==
  ASSUME NEW record, IsSeq(record.grants), Recapture(record) = "Ok"
  PROVE  /\ ScopeTargets(record.grants) = record.targets
         /\ Len(record.targets) = Len(record.grants)
<1>1. ScopeTargets(record.grants) = record.targets
  BY DEF Recapture
<1>2. CaptureError(ScopeManifest(record.grants), "Recapture") = "Ok"
  BY <1>1 DEF Recapture
<1>3. ScopeManifest(record.grants) = "Ok"
  BY <1>2, CaptureErrorOk
<1>4. \A i \in DOMAIN record.grants : AdmitGrant(record.grants, i) = "Ok"
  BY <1>3, ScopeManifestOk
<1>5. Len(ScopeTargets(record.grants)) = Len(record.grants)
  BY <1>4, ScopeTargetsFacts
<1> QED
  BY <1>1, <1>5

-----------------------------------------------------------------------------
(* The payload counter *)

ScopeSum(map) == SumFunction([k \in DOMAIN map |-> map[k].payloadCharge])
ProposalSum(map) == SumFunction([k \in DOMAIN map |-> ProposalCharge(map[k])])
EntrySum(map) == SumFunction([k \in DOMAIN map |-> EntryCharge(map[k])])

Reserved(r) == IF r.phase = "idle" THEN 0 ELSE r.ticket.reservation

LEMMA PayloadIs ==
  PayloadIsSum <=>
    /\ sessionPayloadBytes = ScopeSum(scopes) + ProposalSum(proposals) + EntrySum(evaluations)
                               + Reserved(run)
    /\ sessionPayloadBytes <= MaxSessionPayloadBytes
BY DEF PayloadIsSum, Charges, ScopeSum, ProposalSum, EntrySum, Reserved

\* Maps whose entries have charges.
ScopeMap(map) == Amounts([k \in DOMAIN map |-> map[k].payloadCharge])
ProposalMap(map) == Amounts([k \in DOMAIN map |-> ProposalCharge(map[k])])
EntryMap(map) == Amounts([k \in DOMAIN map |-> EntryCharge(map[k])])

LEMMA MapsCharged ==
  ASSUME Inv
  PROVE  /\ ScopeMap(scopes) /\ ScopeSum(scopes) \in Nat
         /\ ProposalMap(proposals) /\ ProposalSum(proposals) \in Nat
         /\ EntryMap(evaluations) /\ EntrySum(evaluations) \in Nat
<1>1. /\ lastScope \in Nat /\ lastProposal \in Nat /\ lastEvaluation \in Nat
      /\ DOMAIN scopes \subseteq 1..lastScope
      /\ DOMAIN proposals \subseteq 1..lastProposal
      /\ DOMAIN evaluations \subseteq 1..lastEvaluation
  BY DEF Inv, SessionInv
<1>2. \A n \in Nat : \A S \in SUBSET (1..n) : IsFiniteSet(S)
  <2> SUFFICES ASSUME NEW n \in Nat, NEW S \in SUBSET (1..n) PROVE IsFiniteSet(S)
    OBVIOUS
  <2>1. IsFiniteSet(1..n)
    BY FS_Interval
  <2> QED
    BY <2>1, FS_Subset
<1>3. IsFiniteSet(DOMAIN scopes) /\ IsFiniteSet(DOMAIN proposals)
      /\ IsFiniteSet(DOMAIN evaluations)
  BY <1>1, <1>2
<1>4. ScopeMap(scopes)
  BY <1>3 DEF ScopeMap, Amounts, Inv, SessionInv, IsScope
<1>5. ProposalMap(proposals)
  <2>1. \A p \in DOMAIN proposals : ProposalCharge(proposals[p]) \in Nat
    BY ProposalChargeNat DEF Inv, SessionInv, IsProposal
  <2> QED
    BY <1>3, <2>1 DEF ProposalMap, Amounts
<1>6. EntryMap(evaluations)
  BY <1>3 DEF EntryMap, Amounts, Inv, Kept
<1> QED
  BY <1>4, <1>5, <1>6, SumFacts DEF ScopeMap, ScopeSum, ProposalMap, ProposalSum,
                                    EntryMap, EntrySum

LEMMA ScopeSumWith ==
  ASSUME NEW map, ScopeMap(map), NEW key, key \notin DOMAIN map, NEW value,
         value.payloadCharge \in Nat
  PROVE  ScopeSum(With(map, key, value)) = ScopeSum(map) + value.payloadCharge
<1> DEFINE m == With(map, key, value)
           f == [k \in DOMAIN map |-> map[k].payloadCharge]
           g == [k \in DOMAIN m |-> m[k].payloadCharge]
<1>1. DOMAIN m = DOMAIN map \cup {key} /\ m[key] = value
      /\ \A k \in DOMAIN map : k # key => m[k] = map[k]
  BY DEF With
<1> HIDE DEF m
<1>2. /\ Amounts(f) /\ key \notin DOMAIN f /\ DOMAIN g = DOMAIN f \cup {key}
      /\ g[key] = value.payloadCharge /\ g[key] \in Nat /\ \A k \in DOMAIN f : g[k] = f[k]
  BY <1>1 DEF ScopeMap
<1>3. ScopeSum(map) = SumFunction(f) /\ ScopeSum(m) = SumFunction(g)
  BY DEF ScopeSum
<1> HIDE DEF f, g
<1>4. SumFunction(g) = SumFunction(f) + g[key]
  BY <1>2, SumAdded
<1> QED
  BY <1>2, <1>3, <1>4 DEF m

LEMMA ProposalSumWith ==
  ASSUME NEW map, ProposalMap(map), NEW key, key \notin DOMAIN map, NEW value,
         ProposalCharge(value) \in Nat
  PROVE  ProposalSum(With(map, key, value)) = ProposalSum(map) + ProposalCharge(value)
<1> DEFINE m == With(map, key, value)
           f == [k \in DOMAIN map |-> ProposalCharge(map[k])]
           g == [k \in DOMAIN m |-> ProposalCharge(m[k])]
<1>1. DOMAIN m = DOMAIN map \cup {key} /\ m[key] = value
      /\ \A k \in DOMAIN map : k # key => m[k] = map[k]
  BY DEF With
<1> HIDE DEF m
<1>2. /\ Amounts(f) /\ key \notin DOMAIN f /\ DOMAIN g = DOMAIN f \cup {key}
      /\ g[key] = ProposalCharge(value) /\ g[key] \in Nat /\ \A k \in DOMAIN f : g[k] = f[k]
  BY <1>1 DEF ProposalMap
<1>3. ProposalSum(map) = SumFunction(f) /\ ProposalSum(m) = SumFunction(g)
  BY DEF ProposalSum
<1> HIDE DEF f, g
<1>4. SumFunction(g) = SumFunction(f) + g[key]
  BY <1>2, SumAdded
<1> QED
  BY <1>2, <1>3, <1>4 DEF m

LEMMA EntrySumWith ==
  ASSUME NEW map, EntryMap(map), NEW key, key \notin DOMAIN map, NEW value,
         EntryCharge(value) \in Nat
  PROVE  EntrySum(With(map, key, value)) = EntrySum(map) + EntryCharge(value)
<1> DEFINE m == With(map, key, value)
           f == [k \in DOMAIN map |-> EntryCharge(map[k])]
           g == [k \in DOMAIN m |-> EntryCharge(m[k])]
<1>1. DOMAIN m = DOMAIN map \cup {key} /\ m[key] = value
      /\ \A k \in DOMAIN map : k # key => m[k] = map[k]
  BY DEF With
<1> HIDE DEF m
<1>2. /\ Amounts(f) /\ key \notin DOMAIN f /\ DOMAIN g = DOMAIN f \cup {key}
      /\ g[key] = EntryCharge(value) /\ g[key] \in Nat /\ \A k \in DOMAIN f : g[k] = f[k]
  BY <1>1 DEF EntryMap
<1>3. EntrySum(map) = SumFunction(f) /\ EntrySum(m) = SumFunction(g)
  BY DEF EntrySum
<1> HIDE DEF f, g
<1>4. SumFunction(g) = SumFunction(f) + g[key]
  BY <1>2, SumAdded
<1> QED
  BY <1>2, <1>3, <1>4 DEF m

LEMMA ScopeSumReplaced ==
  ASSUME NEW map, ScopeMap(map), NEW key \in DOMAIN map, NEW m, DOMAIN m = DOMAIN map,
         m[key].payloadCharge \in Nat, \A k \in DOMAIN map : k # key => m[k] = map[k]
  PROVE  ScopeSum(m) = ScopeSum(map) - map[key].payloadCharge + m[key].payloadCharge
<1> DEFINE f == [k \in DOMAIN map |-> map[k].payloadCharge]
           g == [k \in DOMAIN m |-> m[k].payloadCharge]
<1>1. /\ Amounts(f) /\ key \in DOMAIN f /\ DOMAIN g = DOMAIN f
      /\ g[key] = m[key].payloadCharge /\ f[key] = map[key].payloadCharge
      /\ g[key] \in Nat /\ \A k \in DOMAIN f \ {key} : g[k] = f[k]
  BY DEF ScopeMap
<1>2. ScopeSum(map) = SumFunction(f) /\ ScopeSum(m) = SumFunction(g)
  BY DEF ScopeSum
<1> HIDE DEF f, g
<1>3. SumFunction(g) = SumFunction(f) - f[key] + g[key]
  BY <1>1, SumReplaced
<1> QED
  BY <1>1, <1>2, <1>3

LEMMA ScopeSumWithout ==
  ASSUME NEW map, ScopeMap(map), NEW key \in DOMAIN map
  PROVE  ScopeSum(Without(map, key)) = ScopeSum(map) - map[key].payloadCharge
<1> DEFINE m == Without(map, key)
           f == [k \in DOMAIN map |-> map[k].payloadCharge]
           g == [k \in DOMAIN m |-> m[k].payloadCharge]
<1>1. DOMAIN m = DOMAIN map \ {key} /\ \A k \in DOMAIN m : m[k] = map[k]
  BY DEF Without
<1> HIDE DEF m
<1>2. /\ Amounts(f) /\ key \in DOMAIN f /\ DOMAIN g = DOMAIN f \ {key}
      /\ f[key] = map[key].payloadCharge /\ \A k \in DOMAIN g : g[k] = f[k]
  BY <1>1 DEF ScopeMap
<1>3. ScopeSum(map) = SumFunction(f) /\ ScopeSum(m) = SumFunction(g)
  BY DEF ScopeSum
<1> HIDE DEF f, g
<1>4. SumFunction(g) = SumFunction(f) - f[key]
  BY <1>2, SumRemoved
<1> QED
  BY <1>2, <1>3, <1>4 DEF m

LEMMA PayloadNext ==
  ASSUME sessionPayloadBytes' = ScopeSum(scopes') + ProposalSum(proposals')
                                  + EntrySum(evaluations') + Reserved(run'),
         sessionPayloadBytes' <= MaxSessionPayloadBytes
  PROVE  PayloadIsSum'
BY DEF PayloadIsSum, Charges, ScopeSum, ProposalSum, EntrySum, Reserved

\* What the counter is made of while no evaluation runs.
LEMMA IdlePayload ==
  ASSUME Inv, run.phase = "idle"
  PROVE  /\ sessionPayloadBytes = ScopeSum(scopes) + ProposalSum(proposals)
                                    + EntrySum(evaluations)
         /\ sessionPayloadBytes \in Nat
         /\ MaxSessionPayloadBytes \in Nat
<1>1. sessionPayloadBytes = ScopeSum(scopes) + ProposalSum(proposals) + EntrySum(evaluations)
                              + Reserved(run)
  BY PayloadIs DEF Inv
<1>2. Reserved(run) = 0
  BY DEF Reserved
<1>3. ScopeSum(scopes) \in Nat /\ ProposalSum(proposals) \in Nat /\ EntrySum(evaluations) \in Nat
  BY MapsCharged
<1>4. MaxSessionPayloadBytes \in Nat
  BY AuthoringAssumption
<1> QED
  BY <1>1, <1>2, <1>3, <1>4

\* Evaluations stay kept while the proposals they are of stay.
LEMMA KeptStays ==
  ASSUME \A id \in DOMAIN evaluations : Kept(evaluations[id]), evaluations' = evaluations,
         \A p \in DOMAIN proposals : p \in DOMAIN proposals' /\ proposals'[p] = proposals[p]
  PROVE  (\A id \in DOMAIN evaluations : Kept(evaluations[id]))'
BY DEF Kept, Proposed

LEMMA UnchangedInv ==
  ASSUME Inv, UNCHANGED vars
  PROVE  Inv'
<1>1. /\ UNCHANGED <<slots, values>> /\ UNCHANGED run
      /\ UNCHANGED <<lastNow, lastScope, lastProposal, lastEvaluation, scopes, proposals,
                     suites, evaluations, sessionPayloadBytes>>
  BY DEF vars, worldVars, sessionVars
<1>2. SessionInv'
  BY <1>1 DEF Inv, SessionInv, IsScope, IsProposal, Follows, IsSuite
<1>3. (\A id \in DOMAIN evaluations : Kept(evaluations[id]))'
  BY <1>1, KeptStays DEF Inv
<1>4. (run.phase # "idle" => Running)'
  BY <1>1 DEF Inv, Running, Proposed
<1>5. PayloadIsSum'
  <2>1. /\ sessionPayloadBytes = ScopeSum(scopes) + ProposalSum(proposals)
                                    + EntrySum(evaluations) + Reserved(run)
        /\ sessionPayloadBytes <= MaxSessionPayloadBytes
    BY PayloadIs DEF Inv
  <2> QED
    BY <1>1, <2>1, PayloadNext
<1> QED
  BY <1>2, <1>3, <1>4, <1>5 DEF Inv

LEMMA RefusedInv ==
  ASSUME Inv, NEW code, Refused(code)
  PROVE  Inv'
BY UnchangedInv DEF Refused

LEMMA CreateScopeInv ==
  ASSUME Inv, run.phase = "idle", NEW owner \in Owners, NEW grants \in GrantLists, NEW now,
         CreateScope(owner, grants, now)
  PROVE  Inv'
<1> DEFINE charge == ScopeCharge(owner, grants)
           targets == ScopeTargets(grants)
           record == [owner |-> owner, grants |-> grants, revision |-> 1,
                      targets |-> targets, payloadCharge |-> charge]
           id == lastScope + 1
<1>1. CASE \E code : Refused(code)
  BY <1>1, RefusedInv
<1>2. CASE ~(\E code : Refused(code))
  <2>1. /\ PayloadFits(0, charge)
        /\ scopes' = With(scopes, id, record)
        /\ sessionPayloadBytes' = sessionPayloadBytes + charge
        /\ lastScope' = id
        /\ UNCHANGED <<worldVars, lastProposal, lastEvaluation, proposals, suites,
                       evaluations, run>>
    BY <1>2 DEF CreateScope
  <2>2. IsSeq(grants)
    BY InputAssumption DEF IsSeq
  <2>3. SessionInv
    BY DEF Inv
  <2>4. charge \in Nat
    BY <2>2, <2>3, ScopeChargeNat DEF SessionInv
  <2>5. Len(targets) \in Nat
    BY <2>2, ScopeTargetsFacts
  <2> HIDE DEF charge, targets
  <2>6. IsScope(record) /\ record.payloadCharge = charge
    BY <2>2, <2>4, <2>5 DEF IsScope, ScopeFields
  <2>7. id \in Nat /\ id \notin DOMAIN scopes /\ lastScope \in Nat /\ lastScope < id
    BY <2>3 DEF SessionInv
  <2> HIDE DEF record, id
  <2>8. /\ DOMAIN scopes' = DOMAIN scopes \cup {id}
        /\ scopes'[id] = record
        /\ \A s \in DOMAIN scopes : scopes'[s] = scopes[s]
    BY <2>1, <2>7 DEF With
  <2>9. SessionInv'
    <3>1. \A s \in DOMAIN scopes' : IsScope(scopes'[s])
      BY <2>3, <2>6, <2>8 DEF SessionInv
    <3>2. DOMAIN scopes' \subseteq 1..lastScope'
      <4>1. 1..lastScope \subseteq 1..id /\ id \in 1..id
        BY <2>7
      <4> QED
        BY <2>1, <2>3, <2>8, <4>1 DEF SessionInv
    <3>3. (\A p \in DOMAIN proposals : IsProposal(proposals[p]))'
      <4> SUFFICES ASSUME NEW p \in DOMAIN proposals
                   PROVE  IsProposal(proposals[p])'
        BY <2>1
      <4> DEFINE x == proposals[p]
      <4>1. IsProposal(x) /\ proposals' = proposals
        BY <2>1, <2>3 DEF SessionInv
      <4>2. x.scope \in 1..lastScope /\ x.scope # id
        BY <2>7, <4>1 DEF IsProposal
      <4>3. x.scope \in 1..id
        BY <2>7, <4>2
      <4>4. x.scope \in DOMAIN scopes' => x.scope \in DOMAIN scopes
                                          /\ scopes'[x.scope] = scopes[x.scope]
        BY <2>8, <4>2
      <4> QED
        BY <2>1, <4>1, <4>3, <4>4 DEF IsProposal, Follows
    <3> QED
      BY <2>1, <2>3, <2>7, <3>1, <3>2, <3>3 DEF SessionInv, worldVars
  <2>10. (\A e \in DOMAIN evaluations : Kept(evaluations[e]))'
    BY <2>1, KeptStays DEF Inv
  <2>11. PayloadIsSum'
    <3>1. ScopeSum(scopes') = ScopeSum(scopes) + charge
      BY <2>1, <2>4, <2>6, <2>7, ScopeSumWith, MapsCharged
    <3>2. /\ sessionPayloadBytes = ScopeSum(scopes) + ProposalSum(proposals)
                                     + EntrySum(evaluations)
          /\ sessionPayloadBytes \in Nat /\ MaxSessionPayloadBytes \in Nat
      BY IdlePayload
    <3>3. ScopeSum(scopes) \in Nat /\ ProposalSum(proposals) \in Nat
          /\ EntrySum(evaluations) \in Nat
      BY MapsCharged
    <3>4. Reserved(run') = 0
      BY <2>1 DEF Reserved
    <3>5. charge <= MaxSessionPayloadBytes - (sessionPayloadBytes - 0)
      BY <2>1 DEF PayloadFits
    <3>6. sessionPayloadBytes' <= MaxSessionPayloadBytes
      BY <2>1, <2>4, <3>2, <3>5
    <3>7. proposals' = proposals /\ evaluations' = evaluations
      BY <2>1
    <3>8. sessionPayloadBytes' = ScopeSum(scopes') + ProposalSum(proposals')
                                   + EntrySum(evaluations') + Reserved(run')
      BY <2>1, <2>4, <3>1, <3>2, <3>3, <3>4, <3>7
    <3> QED
      BY <3>6, <3>8, PayloadNext
  <2> QED
    BY <2>1, <2>9, <2>10, <2>11 DEF Inv
<1> QED
  BY <1>1, <1>2

\* The counter after a call on the scopes.
LEMMA ScopePayloadNext ==
  ASSUME Inv, run.phase = "idle", run' = run, proposals' = proposals,
         evaluations' = evaluations, NEW old \in Nat, NEW new \in Nat,
         ScopeSum(scopes') = ScopeSum(scopes) - old + new,
         sessionPayloadBytes' = sessionPayloadBytes - old + new,
         new <= MaxSessionPayloadBytes - (sessionPayloadBytes - old) \/ new = 0
  PROVE  PayloadIsSum'
<1>1. /\ sessionPayloadBytes = ScopeSum(scopes) + ProposalSum(proposals)
                                 + EntrySum(evaluations)
      /\ sessionPayloadBytes \in Nat /\ MaxSessionPayloadBytes \in Nat
  BY IdlePayload
<1>2. ScopeSum(scopes) \in Nat /\ ProposalSum(proposals) \in Nat
      /\ EntrySum(evaluations) \in Nat
  BY MapsCharged
<1>3. Reserved(run') = 0
  BY DEF Reserved
<1>4. sessionPayloadBytes <= MaxSessionPayloadBytes
  BY DEF Inv, PayloadIsSum
<1>5. sessionPayloadBytes' <= MaxSessionPayloadBytes
  BY <1>1, <1>4
<1>6. sessionPayloadBytes' = ScopeSum(scopes') + ProposalSum(proposals')
                               + EntrySum(evaluations') + Reserved(run')
  BY <1>1, <1>2, <1>3
<1> QED
  BY <1>5, <1>6, PayloadNext

LEMMA ReplaceScopeInv ==
  ASSUME Inv, run.phase = "idle", NEW scope, NEW expected, NEW grants \in GrantLists, NEW now,
         ReplaceScope(scope, expected, grants, now)
  PROVE  Inv'
<1> DEFINE record == scopes[scope]
           charge == ScopeCharge(record.owner, grants)
           targets == ScopeTargets(grants)
           new == [record EXCEPT !.grants = grants, !.revision = @ + 1,
                                 !.targets = targets, !.payloadCharge = charge]
<1>1. CASE \E code : Refused(code)
  BY <1>1, RefusedInv
<1>2. CASE ~(\E code : Refused(code))
  <2>1. /\ scope \in DOMAIN scopes
        /\ PayloadFits(record.payloadCharge, charge)
        /\ scopes' = [scopes EXCEPT ![scope] = new]
        /\ sessionPayloadBytes' = ReplacedPayload(record, charge)
        /\ UNCHANGED <<worldVars, lastScope, lastProposal, lastEvaluation, proposals,
                       suites, evaluations, run>>
    BY <1>2 DEF ReplaceScope
  <2>2. IsSeq(grants)
    BY InputAssumption DEF IsSeq
  <2>3. SessionInv
    BY DEF Inv
  <2>4. IsScope(record)
    BY <2>1, <2>3 DEF SessionInv
  <2>5. charge \in Nat
    BY <2>2, <2>3, <2>4, ScopeChargeNat DEF SessionInv, IsScope
  <2>6. Len(targets) \in Nat
    BY <2>2, ScopeTargetsFacts
  <2> HIDE DEF charge, targets, record
  <2>7. /\ DOMAIN new = ScopeFields /\ new.owner = record.owner /\ new.grants = grants
        /\ new.revision = record.revision + 1 /\ new.targets = targets
        /\ new.payloadCharge = charge
    BY <2>4 DEF IsScope, ScopeFields
  <2> HIDE DEF new
  <2>8. IsScope(new) /\ record.revision \in Nat /\ record.payloadCharge \in Nat
    BY <2>2, <2>4, <2>5, <2>6, <2>7 DEF IsScope
  <2>9. /\ DOMAIN scopes' = DOMAIN scopes
        /\ scopes'[scope] = new
        /\ \A s \in DOMAIN scopes : s # scope => scopes'[s] = scopes[s]
    BY <2>1
  <2>10. SessionInv'
    <3>1. \A s \in DOMAIN scopes' : IsScope(scopes'[s])
      BY <2>3, <2>8, <2>9 DEF SessionInv
    <3>2. (\A p \in DOMAIN proposals : IsProposal(proposals[p]))'
      <4> SUFFICES ASSUME NEW p \in DOMAIN proposals
                   PROVE  IsProposal(proposals[p])'
        BY <2>1
      <4> DEFINE x == proposals[p]
      <4>1. IsProposal(x) /\ proposals' = proposals
        BY <2>1, <2>3 DEF SessionInv
      <4>2. CASE x.scope = scope
        <5>1. x.revision <= record.revision /\ x.revision \in Nat
          BY <2>1, <4>1, <4>2 DEF IsProposal, Follows, record
        <5>2. x.revision <= new.revision /\ x.revision # new.revision
          BY <2>7, <2>8, <5>1
        <5> QED
          BY <2>1, <2>9, <4>1, <4>2, <5>2 DEF IsProposal, Follows
      <4>3. CASE x.scope # scope
        BY <2>1, <2>9, <4>1, <4>3 DEF IsProposal, Follows
      <4> QED
        BY <4>2, <4>3
    <3> QED
      BY <2>1, <2>3, <2>9, <3>1, <3>2 DEF SessionInv, worldVars
  <2>11. (\A e \in DOMAIN evaluations : Kept(evaluations[e]))'
    BY <2>1, KeptStays DEF Inv
  <2>12. PayloadIsSum'
    <3> DEFINE old == record.payloadCharge
    <3>1. ScopeSum(scopes') = ScopeSum(scopes) - old + charge
      <4>1. ScopeMap(scopes) /\ scopes'[scope].payloadCharge \in Nat
        BY <2>5, <2>7, <2>9, MapsCharged
      <4>2. ScopeSum(scopes') = ScopeSum(scopes) - scopes[scope].payloadCharge
                                  + scopes'[scope].payloadCharge
        BY <2>1, <2>9, <4>1, ScopeSumReplaced
      <4> QED
        BY <2>7, <2>9, <4>2 DEF record
    <3>2. sessionPayloadBytes' = sessionPayloadBytes - old + charge
      BY <2>1 DEF ReplacedPayload
    <3>3. charge <= MaxSessionPayloadBytes - (sessionPayloadBytes - old)
      BY <2>1 DEF PayloadFits
    <3>4. old \in Nat /\ run' = run /\ proposals' = proposals /\ evaluations' = evaluations
      BY <2>1, <2>8
    <3> HIDE DEF old
    <3> QED
      BY <2>5, <3>1, <3>2, <3>3, <3>4, ScopePayloadNext
  <2> QED
    BY <2>1, <2>10, <2>11, <2>12 DEF Inv
<1> QED
  BY <1>1, <1>2

LEMMA RevokeScopeInv ==
  ASSUME Inv, run.phase = "idle", NEW scope, NEW expected, RevokeScope(scope, expected)
  PROVE  Inv'
<1> DEFINE old == scopes[scope].payloadCharge
<1>1. CASE \E code : Refused(code)
  BY <1>1, RefusedInv
<1>2. CASE ~(\E code : Refused(code))
  <2>1. /\ scope \in DOMAIN scopes
        /\ sessionPayloadBytes' = sessionPayloadBytes - old
        /\ scopes' = Without(scopes, scope)
        /\ UNCHANGED <<worldVars, lastNow, lastScope, lastProposal, lastEvaluation,
                       proposals, suites, evaluations, run>>
    BY <1>2 DEF RevokeScope
  <2>2. SessionInv
    BY DEF Inv
  <2>3. /\ DOMAIN scopes' \subseteq DOMAIN scopes
        /\ \A s \in DOMAIN scopes' : scopes'[s] = scopes[s]
    BY <2>1 DEF Without
  <2>4. SessionInv'
    <3>1. (\A p \in DOMAIN proposals : IsProposal(proposals[p]))'
      BY <2>1, <2>2, <2>3 DEF SessionInv, IsProposal, Follows
    <3> QED
      BY <2>1, <2>2, <2>3, <3>1 DEF SessionInv, worldVars
  <2>5. (\A e \in DOMAIN evaluations : Kept(evaluations[e]))'
    BY <2>1, KeptStays DEF Inv
  <2>6. PayloadIsSum'
    <3>1. old \in Nat /\ 0 \in Nat /\ run' = run /\ proposals' = proposals
          /\ evaluations' = evaluations
      BY <2>1, <2>2 DEF SessionInv, IsScope
    <3>2. ScopeSum(scopes') = ScopeSum(scopes) - old /\ ScopeSum(scopes) \in Nat
      BY <2>1, MapsCharged, ScopeSumWithout
    <3>3. sessionPayloadBytes \in Nat
      BY IdlePayload
    <3> DEFINE new == 0
    <3> HIDE DEF old
    <3>4. /\ ScopeSum(scopes') = ScopeSum(scopes) - old + new
          /\ sessionPayloadBytes' = sessionPayloadBytes - old + new
          /\ new = 0 /\ new \in Nat
      BY <2>1, <3>1, <3>2, <3>3 DEF old
    <3> HIDE DEF new
    <3> QED
      BY <3>1, <3>4, ScopePayloadNext
  <2> QED
    BY <2>1, <2>4, <2>5, <2>6 DEF Inv
<1> QED
  BY <1>1, <1>2

LEMMA DiscoverInv ==
  ASSUME Inv, run.phase = "idle", NEW caller, NEW scope, NEW now, Discover(caller, scope, now)
  PROVE  Inv'
<1>1. CASE \E code : Refused(code)
  BY <1>1, RefusedInv
<1>2. CASE ~(\E code : Refused(code))
  <2>1. UNCHANGED <<worldVars, lastScope, lastProposal, lastEvaluation, scopes,
                    proposals, suites, evaluations, sessionPayloadBytes, run>>
    BY <1>2 DEF Discover
  <2>2. SessionInv'
    BY <2>1 DEF Inv, SessionInv, IsProposal, Follows, worldVars
  <2>3. (\A e \in DOMAIN evaluations : Kept(evaluations[e]))'
    BY <2>1, KeptStays DEF Inv
  <2>4. PayloadIsSum'
    <3>1. /\ sessionPayloadBytes = ScopeSum(scopes) + ProposalSum(proposals)
                                     + EntrySum(evaluations) + Reserved(run)
          /\ sessionPayloadBytes <= MaxSessionPayloadBytes
      BY PayloadIs DEF Inv
    <3> QED
      BY <2>1, <3>1, PayloadNext
  <2> QED
    BY <2>1, <2>2, <2>3, <2>4 DEF Inv
<1> QED
  BY <1>1, <1>2

LEMMA SubmitInv ==
  ASSUME Inv, run.phase = "idle", NEW caller, NEW scope, NEW expected, NEW source \in Sources,
         NEW managed, Submit(caller, scope, expected, source, managed)
  PROVE  Inv'
<1> DEFINE record == scopes[scope]
           candidate == [owner |-> record.owner, scope |-> scope, revision |-> record.revision,
                         source |-> source, targets |-> record.targets]
           charge == ProposalCharge(candidate)
           id == lastProposal + 1
           checks == <<
             Check(record.revision = expected, "StaleScope"), CheckText(source, MaxSourceBytes),
             CheckManaged(managed),
             Check(Cardinality(DOMAIN proposals) < MaxProposals, "LimitExceeded"),
             Check(HasNext(lastProposal), "LimitExceeded"),
             Check(PayloadFits(0, charge), "LimitExceeded"),
             Recapture(record)>>
<1>1. CASE \E code : Refused(code)
  BY <1>1, RefusedInv
<1>2. CASE ~(\E code : Refused(code))
  <2>1. /\ scope \in DOMAIN scopes
        /\ FirstError(checks) = "Ok"
        /\ proposals' = With(proposals, id, candidate)
        /\ sessionPayloadBytes' = sessionPayloadBytes + charge
        /\ lastProposal' = id
        /\ UNCHANGED <<worldVars, lastNow, lastScope, lastEvaluation, scopes, suites,
                       evaluations, run>>
    BY <1>2 DEF Submit, OwnedScope
  <2>2. PayloadFits(0, charge)
    <3>1. DOMAIN checks = 1..7 /\ checks[6] = Check(PayloadFits(0, charge), "LimitExceeded")
      OBVIOUS
    <3> HIDE DEF checks, charge
    <3>2. DOMAIN checks \subseteq Nat /\ 6 \in DOMAIN checks
      BY <3>1
    <3>3. \A i \in DOMAIN checks : checks[i] = "Ok"
      BY <2>1, <3>2, FirstErrorOk
    <3>4. Check(PayloadFits(0, charge), "LimitExceeded") = "Ok"
      BY <3>1, <3>2, <3>3
    <3> QED
      BY <3>4 DEF Check
  <2>3. SessionInv
    BY DEF Inv
  <2>4. IsScope(record) /\ scope \in 1..lastScope
    BY <2>1, <2>3 DEF SessionInv
  <2>5. /\ candidate.owner = record.owner /\ candidate.scope = scope
        /\ candidate.revision = record.revision /\ candidate.source = source
        /\ candidate.targets = record.targets
    OBVIOUS
  <2> HIDE DEF checks, record, candidate
  <2>6. charge \in Nat
    BY <2>4, <2>5, ProposalChargeNat DEF IsScope
  <2>7. id \in Nat /\ id \notin DOMAIN proposals /\ lastProposal \in Nat /\ lastProposal < id
    BY <2>3 DEF SessionInv
  <2> HIDE DEF charge, id
  <2>8. /\ DOMAIN proposals' = DOMAIN proposals \cup {id}
        /\ proposals'[id] = candidate
        /\ \A p \in DOMAIN proposals : proposals'[p] = proposals[p]
    BY <2>1, <2>7 DEF With
  <2>9. IsProposal(candidate)
    BY <2>4, <2>5 DEF IsProposal, Follows, IsScope, record
  <2>10. SessionInv'
    <3>1. (\A p \in DOMAIN proposals : IsProposal(proposals[p]))'
      <4> SUFFICES ASSUME NEW p \in DOMAIN proposals' PROVE IsProposal(proposals[p])'
        OBVIOUS
      <4>1. IsProposal(proposals'[p])
        BY <2>3, <2>8, <2>9 DEF SessionInv
      <4> QED
        BY <2>1, <4>1 DEF IsProposal, Follows
    <3>2. DOMAIN proposals' \subseteq 1..lastProposal'
      <4>1. 1..lastProposal \subseteq 1..id /\ id \in 1..id
        BY <2>7
      <4> QED
        BY <2>1, <2>3, <2>8, <4>1 DEF SessionInv
    <3> QED
      BY <2>1, <2>3, <2>7, <3>1, <3>2 DEF SessionInv, worldVars
  <2>11. (\A e \in DOMAIN evaluations : Kept(evaluations[e]))'
    BY <2>1, <2>8, KeptStays DEF Inv
  <2>12. PayloadIsSum'
    <3>1. ProposalSum(proposals') = ProposalSum(proposals) + charge
      BY <2>1, <2>6, <2>7, ProposalSumWith, MapsCharged DEF charge
    <3>2. /\ sessionPayloadBytes = ScopeSum(scopes) + ProposalSum(proposals)
                                     + EntrySum(evaluations)
          /\ sessionPayloadBytes \in Nat /\ MaxSessionPayloadBytes \in Nat
      BY IdlePayload
    <3>3. ScopeSum(scopes) \in Nat /\ ProposalSum(proposals) \in Nat
          /\ EntrySum(evaluations) \in Nat
      BY MapsCharged
    <3>4. Reserved(run') = 0
      BY <2>1 DEF Reserved
    <3>5. charge <= MaxSessionPayloadBytes - (sessionPayloadBytes - 0)
      BY <2>2 DEF PayloadFits
    <3>6. sessionPayloadBytes' <= MaxSessionPayloadBytes
      BY <2>1, <2>6, <3>2, <3>5
    <3>7. scopes' = scopes /\ evaluations' = evaluations
      BY <2>1
    <3>8. sessionPayloadBytes' = ScopeSum(scopes') + ProposalSum(proposals')
                                   + EntrySum(evaluations') + Reserved(run')
      BY <2>1, <2>6, <3>1, <3>2, <3>3, <3>4, <3>7
    <3> QED
      BY <3>6, <3>8, PayloadNext
  <2> QED
    BY <2>1, <2>10, <2>11, <2>12 DEF Inv
<1> QED
  BY <1>1, <1>2

LEMMA CheckSuiteOk ==
  ASSUME NEW suite \in SuiteDefinitions, CheckSuite(suite.cases) = "Ok"
  PROVE  IsSuite(suite.cases)
<1> DEFINE cases == suite.cases
           each == [i \in DOMAIN cases |-> CheckCase(cases[i])]
           checks == <<Check(cases # <<>>, "InvalidInput"),
                       Check(Len(cases) <= MaxEvaluationCases, "LimitExceeded"),
                       FirstError(each)>>
<1>1. IsSeq(cases) /\ \A i \in DOMAIN cases : cases[i].frames \in Nat
  BY InputAssumption DEF IsSeq
<1>2. Len(cases) \in Nat /\ DOMAIN cases = 1..Len(cases)
  BY <1>1, IsSeqFacts
<1>3. FirstError(checks) = "Ok"
  BY DEF CheckSuite
<1>4. /\ DOMAIN checks = 1..3 /\ checks[1] = Check(cases # <<>>, "InvalidInput")
      /\ checks[3] = FirstError(each)
  OBVIOUS
<1>5. DOMAIN each = 1..Len(cases) /\ \A i \in 1..Len(cases) : each[i] = CheckCase(cases[i])
  BY <1>2
<1> HIDE DEF checks, each, cases
<1>6. DOMAIN checks \subseteq Nat /\ 1 \in DOMAIN checks /\ 3 \in DOMAIN checks
  BY <1>4
<1>7. \A i \in DOMAIN checks : checks[i] = "Ok"
  BY <1>3, <1>6, FirstErrorOk
<1>8. Check(cases # <<>>, "InvalidInput") = "Ok" /\ FirstError(each) = "Ok"
  BY <1>4, <1>6, <1>7
<1>9. cases # <<>>
  BY <1>8 DEF Check
<1>10. DOMAIN each \subseteq Nat
  BY <1>2, <1>5
<1>11. \A i \in DOMAIN each : each[i] = "Ok"
  BY <1>8, <1>10, FirstErrorOk
<1>12. ASSUME NEW i \in 1..Len(cases)
       PROVE  cases[i].name \in Nat /\ cases[i].frames \in Nat \ {0}
  <2> DEFINE c == cases[i]
             three == <<Check(c.name \in 1..MaxLabelBytes /\ c.callbacks /\ c.frames > 0,
                              "InvalidInput"),
                        Check(c.frames <= MaxEvaluationFrames, "LimitExceeded"),
                        Check(c.sorted, "InvalidInput")>>
  <2>1. CheckCase(c) = "Ok" /\ c.frames \in Nat
    BY <1>1, <1>2, <1>5, <1>11
  <2>2. FirstError(three) = "Ok"
    BY <2>1 DEF CheckCase
  <2>3. DOMAIN three = 1..3
        /\ three[1] = Check(c.name \in 1..MaxLabelBytes /\ c.callbacks /\ c.frames > 0,
                            "InvalidInput")
    OBVIOUS
  <2> HIDE DEF three, c
  <2>4. DOMAIN three \subseteq Nat /\ 1 \in DOMAIN three
    BY <2>3
  <2>5. \A k \in DOMAIN three : three[k] = "Ok"
    BY <2>2, <2>4, FirstErrorOk
  <2>6. Check(c.name \in 1..MaxLabelBytes /\ c.callbacks /\ c.frames > 0, "InvalidInput") = "Ok"
    BY <2>3, <2>4, <2>5
  <2>7. c.name \in 1..MaxLabelBytes /\ c.frames > 0
    BY <2>6 DEF Check
  <2>8. MaxLabelBytes \in Nat
    BY AuthoringAssumption
  <2>9. c.name \in Nat /\ c.frames \in Nat \ {0}
    BY <2>1, <2>7, <2>8
  <2> QED
    BY <2>9 DEF c
<1>13. Len(cases) # 0
  BY <1>1, <1>9, OnlyEmptyIsEmpty
<1> QED
  BY <1>1, <1>12, <1>13 DEF IsSuite, cases

LEMMA RegisterEvaluationSuiteInv ==
  ASSUME Inv, run.phase = "idle", NEW suite \in SuiteDefinitions,
         RegisterEvaluationSuite(suite)
  PROVE  Inv'
<1> DEFINE cases == suite.cases
           checks == <<Check(lastProposal = 0, "Unsupported"),
                       Check(suite.id \notin DOMAIN suites, "InvalidInput"), CheckSuite(cases)>>
<1>1. CASE \E code : Refused(code)
  BY <1>1, RefusedInv
<1>2. CASE ~(\E code : Refused(code))
  <2>1. /\ FirstError(checks) = "Ok"
        /\ suites' = With(suites, suite.id, cases)
        /\ UNCHANGED <<worldVars, lastNow, lastScope, lastProposal, lastEvaluation,
                       scopes, proposals, evaluations, sessionPayloadBytes, run>>
    BY <1>2 DEF RegisterEvaluationSuite
  <2>2. IsSuite(cases)
    <3>1. DOMAIN checks = 1..3 /\ checks[3] = CheckSuite(cases)
      OBVIOUS
    <3> HIDE DEF checks
    <3>2. DOMAIN checks \subseteq Nat /\ 3 \in DOMAIN checks
      BY <3>1
    <3>3. \A i \in DOMAIN checks : checks[i] = "Ok"
      BY <2>1, <3>2, FirstErrorOk
    <3>4. CheckSuite(cases) = "Ok"
      BY <3>1, <3>2, <3>3
    <3> QED
      BY <3>4, CheckSuiteOk
  <2> HIDE DEF cases, checks
  <2>3. \A f \in DOMAIN suites' :
          (f = suite.id => suites'[f] = cases)
          /\ (f # suite.id => f \in DOMAIN suites /\ suites'[f] = suites[f])
    <3>1. suites' = [k \in DOMAIN suites \cup {suite.id} |->
                       IF k = suite.id THEN cases ELSE suites[k]]
      BY <2>1 DEF With
    <3> QED
      BY <3>1
  <2>4. \A f \in DOMAIN suites' : IsSuite(suites'[f])
    BY <2>2, <2>3 DEF Inv, SessionInv
  <2>5. SessionInv'
    BY <2>1, <2>4 DEF Inv, SessionInv, IsProposal, Follows, worldVars
  <2>6. (\A e \in DOMAIN evaluations : Kept(evaluations[e]))'
    BY <2>1, KeptStays DEF Inv
  <2>7. PayloadIsSum'
    <3>1. /\ sessionPayloadBytes = ScopeSum(scopes) + ProposalSum(proposals)
                                     + EntrySum(evaluations) + Reserved(run)
          /\ sessionPayloadBytes <= MaxSessionPayloadBytes
      BY PayloadIs DEF Inv
    <3> QED
      BY <2>1, <3>1, PayloadNext
  <2> QED
    BY <2>1, <2>5, <2>6, <2>7 DEF Inv
<1> QED
  BY <1>1, <1>2

-----------------------------------------------------------------------------
(* Evaluations begin and are kept *)

LEMMA NewRunInv ==
  ASSUME NEW ticket, NEW suite, IsSuite(suite), NEW manifest, IsSeq(manifest.capabilities)
  PROVE  LET q == NewRun(ticket, suite, manifest)
         IN  RunInv(q) /\ q.ticket = ticket /\ q.manifest = manifest /\ q.phase = "prepare"
<1> DEFINE x == NewResult(suite[1], "Passed")
           z == <<>>
           r == [phase |-> "prepare", ticket |-> ticket, suite |-> suite,
                 manifest |-> manifest, case |-> 1, frame |-> 1, granted |-> {},
                 result |-> x, results |-> z, status |-> "Passed", records |-> 0,
                 bytes |-> 0, exhausted |-> FALSE, trace |-> z, lifecycle |-> "None",
                 work |-> z, truth |-> z, lost |-> FALSE]
           one == 1
           none == 0
           q == BeginCase(r, one)
<1>1. NewRun(ticket, suite, manifest) = q
  BY DEF NewRun
<1>2. IsSeq(z) /\ Len(z) = 0 /\ BatchBytes(z) = 0
  <2>1. IsSeq(z) /\ Len(z) = 0 /\ z = <<>>
    BY EmptyIsSeq
  <2> HIDE DEF z
  <2> QED
    BY <2>1, BatchBytesFacts
<1> HIDE DEF x, z
<1>3. /\ DOMAIN r = RunFields /\ r.suite = suite /\ r.manifest = manifest
      /\ r.results = z /\ r.truth = z /\ r.trace = z /\ r.records = 0 /\ r.bytes = 0
      /\ r.lost = FALSE /\ r.status = "Passed" /\ r.ticket = ticket
  BY DEF RunFields
<1> HIDE DEF r
<1>4. Charged(r)
  <2>1. MaxEvaluationRecordBytes \in Nat
    BY AuthoringAssumption
  <2> QED
    BY <1>2, <1>3, <2>1 DEF Charged
<1>5. none \in Nat /\ one = none + 1 /\ one \in 1..Len(r.suite) /\ none = 0
  <2>1. Len(suite) \in Nat \ {0}
    BY IsSeqFacts DEF IsSuite
  <2> QED
    BY <1>3, <2>1
<1>6. Between(r, none)
  BY <1>2, <1>3, <1>4, <1>5 DEF Between, CasesPassed
<1> HIDE DEF one, none
<1>7. RunInv(q)
  BY <1>5, <1>6, BeginCaseInv
<1>8. Keeps(r, q, BeginFields) /\ q.phase = "prepare"
  BY <1>3, <1>5, BeginCaseFacts
<1>9. q.ticket = ticket /\ q.manifest = manifest
  BY <1>3, <1>8 DEF Keeps, BeginFields, RunFields
<1> QED
  BY <1>1, <1>7, <1>8, <1>9

LEMMA ReservationNat ==
  /\ Reservation \in Nat
  /\ MaxEvaluationResponseBytes \in Nat
  /\ MaxEvaluationRecordBytes \in Nat
  /\ MaxSessionPayloadBytes \in Nat
<1>1. /\ MaxEvaluationResponseBytes \in Nat
      /\ MaxEvaluationRecordBytes \in Nat
      /\ MaxSessionPayloadBytes \in Nat
  BY AuthoringAssumption
<1> QED
  BY <1>1 DEF Reservation, EntryBytes, HeaderBytes

LEMMA AdmitEvaluationOk ==
  ASSUME NEW caller, NEW proposal, NEW fixture,
         AdmitEvaluation(caller, proposal, fixture) = "Ok"
  PROVE  /\ proposal \in DOMAIN proposals
         /\ fixture \in DOMAIN suites
         /\ ScopeIsCurrent(proposals[proposal])
         /\ PayloadFits(0, Reservation)
         /\ Recapture(scopes[proposals[proposal].scope]) = "Ok"
<1> DEFINE record == scopes[proposals[proposal].scope]
           two == <<CheckReservation, Recapture(record)>>
           three == <<Check(Cardinality(DOMAIN evaluations) < MaxEvaluations, "LimitExceeded"),
                      Check(HasNext(lastEvaluation), "LimitExceeded"),
                      Check(PayloadFits(0, Reservation), "LimitExceeded")>>
<1>1. /\ proposal \in DOMAIN proposals
      /\ fixture \in DOMAIN suites
      /\ ScopeIsCurrent(proposals[proposal])
      /\ FirstError(two) = "Ok"
  BY DEF AdmitEvaluation
<1>2. DOMAIN two = 1..2 /\ two[1] = CheckReservation /\ two[2] = Recapture(record)
  OBVIOUS
<1> HIDE DEF two, record
<1>3. DOMAIN two \subseteq Nat /\ 1 \in DOMAIN two /\ 2 \in DOMAIN two
  BY <1>2
<1>4. \A i \in DOMAIN two : two[i] = "Ok"
  BY <1>1, <1>3, FirstErrorOk
<1>5. CheckReservation = "Ok" /\ Recapture(record) = "Ok"
  BY <1>2, <1>3, <1>4
<1>6. FirstError(three) = "Ok"
  BY <1>5 DEF CheckReservation
<1>7. DOMAIN three = 1..3 /\ three[3] = Check(PayloadFits(0, Reservation), "LimitExceeded")
  OBVIOUS
<1> HIDE DEF three
<1>8. DOMAIN three \subseteq Nat /\ 3 \in DOMAIN three
  BY <1>7
<1>9. \A i \in DOMAIN three : three[i] = "Ok"
  BY <1>6, <1>8, FirstErrorOk
<1>10. Check(PayloadFits(0, Reservation), "LimitExceeded") = "Ok"
  BY <1>7, <1>8, <1>9
<1>11. PayloadFits(0, Reservation)
  BY <1>10 DEF Check
<1> QED
  BY <1>1, <1>5, <1>11 DEF record

LEMMA EvaluateInv ==
  ASSUME Inv, run.phase = "idle", NEW caller, NEW proposal, NEW fixture,
         Evaluate(caller, proposal, fixture)
  PROVE  Inv'
<1> DEFINE p == proposals[proposal]
           record == scopes[p.scope]
           grants == record.grants
           id == lastEvaluation + 1
           targets == ScopeTargets(grants)
           ticket == [id |-> id, proposal |-> proposal, reservation |-> Reservation,
                      targets |-> targets]
           suite == suites[fixture]
           manifest == ManifestOf(grants)
<1>1. CASE \E code : Refused(code)
  BY <1>1, RefusedInv
<1>2. CASE ~(\E code : Refused(code))
  <2>1. /\ AdmitEvaluation(caller, proposal, fixture) = "Ok"
        /\ lastEvaluation' = id
        /\ sessionPayloadBytes' = sessionPayloadBytes + Reservation
        /\ run' = NewRun(ticket, suite, manifest)
        /\ UNCHANGED <<worldVars, lastNow, lastScope, lastProposal, scopes,
                       proposals, suites, evaluations>>
    BY <1>2 DEF Evaluate
  <2>2. /\ proposal \in DOMAIN proposals
        /\ fixture \in DOMAIN suites
        /\ ScopeIsCurrent(p)
        /\ PayloadFits(0, Reservation)
        /\ Recapture(record) = "Ok"
    BY <2>1, AdmitEvaluationOk
  <2>3. SessionInv
    BY DEF Inv
  <2>4. IsProposal(p) /\ IsScope(record) /\ IsSuite(suite) /\ p.scope \in DOMAIN scopes
        /\ record.revision = p.revision
    BY <2>2, <2>3 DEF SessionInv, ScopeIsCurrent
  <2>5. p.targets = record.targets
    BY <2>4 DEF IsProposal, Follows
  <2>6. IsSeq(grants)
    BY <2>4 DEF IsScope
  <2>7. targets = record.targets /\ Len(record.targets) = Len(grants)
    BY <2>2, <2>6, RecaptureOk
  <2>8. manifest.capabilities = grants
    BY DEF ManifestOf
  <2>9. ticket.id = id /\ ticket.proposal = proposal /\ ticket.reservation = Reservation
        /\ ticket.targets = targets
    OBVIOUS
  <2> HIDE DEF p, record, grants, targets, ticket, suite, manifest
  <2>10. RunInv(run') /\ run'.ticket = ticket /\ run'.manifest = manifest
         /\ run'.phase = "prepare"
    BY <2>1, <2>4, <2>6, <2>8, NewRunInv
  <2>11. id \in Nat /\ id \notin DOMAIN evaluations /\ lastEvaluation \in Nat
         /\ lastEvaluation < id
    BY <2>3 DEF SessionInv
  <2> HIDE DEF id
  <2>12. Running'
    <3>1. (Proposed(run.ticket.proposal, run.ticket.targets))'
      BY <2>1, <2>2, <2>5, <2>7, <2>9, <2>10 DEF Proposed, p
    <3>2. Grants(run') = Len(run'.ticket.targets)
      BY <2>7, <2>8, <2>9, <2>10 DEF Grants
    <3>3. id # 0
      BY <2>11
    <3> QED
      BY <2>1, <2>9, <2>10, <2>11, <3>1, <3>2, <3>3 DEF Running
  <2>13. SessionInv'
    <3>1. DOMAIN evaluations' \subseteq 1..lastEvaluation'
      <4>1. 1..lastEvaluation \subseteq 1..id
        BY <2>11
      <4> QED
        BY <2>1, <2>3, <4>1 DEF SessionInv
    <3> QED
      BY <2>1, <2>3, <2>11, <3>1 DEF SessionInv, IsProposal, Follows, worldVars
  <2>14. (\A e \in DOMAIN evaluations : Kept(evaluations[e]))'
    BY <2>1, KeptStays DEF Inv
  <2>15. PayloadIsSum'
    <3>1. /\ sessionPayloadBytes = ScopeSum(scopes) + ProposalSum(proposals)
                                     + EntrySum(evaluations)
          /\ sessionPayloadBytes \in Nat /\ MaxSessionPayloadBytes \in Nat
      BY IdlePayload
    <3>2. ScopeSum(scopes) \in Nat /\ ProposalSum(proposals) \in Nat
          /\ EntrySum(evaluations) \in Nat /\ Reservation \in Nat
      BY MapsCharged, ReservationNat
    <3>3. Reserved(run') = Reservation
      BY <2>9, <2>10 DEF Reserved
    <3>4. Reservation <= MaxSessionPayloadBytes - (sessionPayloadBytes - 0)
      BY <2>2 DEF PayloadFits
    <3>5. sessionPayloadBytes' <= MaxSessionPayloadBytes
      BY <2>1, <3>1, <3>2, <3>4
    <3>6. scopes' = scopes /\ evaluations' = evaluations /\ proposals' = proposals
      BY <2>1
    <3>7. sessionPayloadBytes' = ScopeSum(scopes') + ProposalSum(proposals')
                                   + EntrySum(evaluations') + Reserved(run')
      BY <2>1, <3>1, <3>2, <3>3, <3>6
    <3> QED
      BY <3>5, <3>7, PayloadNext
  <2> QED
    BY <2>12, <2>13, <2>14, <2>15 DEF Inv
<1> QED
  BY <1>1, <1>2

LEMMA RecordBytesFacts ==
  ASSUME NEW cases, IsSeq(cases), \A i \in 1..Len(cases) : IsResult(cases[i])
  PROVE  /\ RecordBytes(cases) \in Nat
         /\ cases = <<>> => RecordBytes(cases) = HeaderBytes
<1> DEFINE f == [i \in DOMAIN cases |-> CaseBytes(cases[i])]
<1>1. Len(cases) \in Nat /\ DOMAIN cases = 1..Len(cases)
  BY IsSeqFacts
<1>2. \A i \in DOMAIN cases : CaseBytes(cases[i]) \in Nat
  <2> SUFFICES ASSUME NEW i \in DOMAIN cases PROVE CaseBytes(cases[i]) \in Nat
    OBVIOUS
  <2> DEFINE x == cases[i]
  <2>1. IsResult(x)
    BY <1>1
  <2> HIDE DEF x
  <2>2. x.name \in Nat /\ x.finalState \in Nat /\ Len(x.frames) \in Nat
    BY <2>1, IsSeqFacts DEF IsResult
  <2>3. CaseBytes(x) \in Nat
    BY <2>2 DEF CaseBytes
  <2> QED
    BY <2>3 DEF x
<1>3. Amounts(f)
  <2>1. IsFiniteSet(DOMAIN cases)
    BY <1>1, FS_Interval
  <2> QED
    BY <1>2, <2>1 DEF Amounts
<1>4. RecordBytes(cases) = 1 + SumFunction(f) /\ HeaderBytes = 1
  BY DEF RecordBytes, HeaderBytes
<1>5. cases = <<>> => DOMAIN f = {}
  BY <1>1, EmptyIsSeq
<1> HIDE DEF f
<1>6. SumFunction(f) \in Nat /\ (DOMAIN f = {} => SumFunction(f) = 0)
  BY <1>3, SumFacts
<1> QED
  BY <1>4, <1>5, <1>6

\* What bound_response keeps of the cases: all of it, the outcome of each, or
\* nothing; and it is within the bound.
Bounded(status, cases, b) ==
  /\ b.status = "Passed" => status = "Passed" /\ b.cases = cases /\ b.complete
  /\ IsSeq(b.cases)
  /\ \A i \in 1..Len(b.cases) : IsResult(b.cases[i])
  /\ RecordBytes(b.cases) \in Nat
  /\ RecordBytes(b.cases) <= HeaderBytes + MaxEvaluationResponseBytes
  /\ Len(b.cases) # 0 => Len(b.cases) = Len(cases)
  /\ \A i \in 1..Len(b.cases) : /\ b.cases[i].framesRun = cases[i].framesRun
                                /\ b.cases[i].status = cases[i].status

LEMMA BoundResponseFacts ==
  ASSUME NEW status, NEW cases, IsSeq(cases), \A i \in 1..Len(cases) : IsResult(cases[i])
  PROVE  Bounded(status, cases, BoundResponse(status, cases))
<1> DEFINE b == BoundResponse(status, cases)
           bare == [i \in DOMAIN cases |-> [cases[i] EXCEPT !.frames = <<>>, !.finalState = 0]]
           n == Len(cases)
           z == <<>>
           most == MaxEvaluationResponseBytes
<1>1. n \in Nat /\ DOMAIN cases = 1..n
  BY IsSeqFacts
<1>2. IsSeq(bare) /\ Len(bare) = n
  <2> DEFINE S == {bare[i] : i \in 1..n}
  <2>1. bare \in [1..n -> S]
    BY <1>1
  <2> HIDE DEF bare, S, n
  <2> QED
    BY <1>1, <2>1, FunctionIsSeq
<1>3. ASSUME NEW i \in 1..n
      PROVE  /\ IsResult(bare[i]) /\ bare[i].framesRun = cases[i].framesRun
             /\ bare[i].status = cases[i].status
  <2> DEFINE x == cases[i]
             y == [x EXCEPT !.frames = z, !.finalState = 0]
  <2>1. IsResult(x) /\ bare[i] = y
    BY <1>1
  <2>2. IsSeq(z)
    BY EmptyIsSeq
  <2> HIDE DEF x, z, bare
  <2>3. /\ DOMAIN y = ResultFields /\ y.name = x.name /\ y.framesScheduled = x.framesScheduled
        /\ y.framesRun = x.framesRun /\ y.frames = z /\ y.finalState = 0
        /\ y.status = x.status
    BY <2>1 DEF IsResult, ResultFields
  <2> HIDE DEF y
  <2>4. IsResult(y)
    BY <2>1, <2>2, <2>3 DEF IsResult
  <2> QED
    BY <2>1, <2>3, <2>4 DEF x
<1>4. most \in Nat /\ HeaderBytes = 1
  BY AuthoringAssumption DEF HeaderBytes
<1>5. b = IF RecordBytes(cases) <= most
          THEN [status |-> status, complete |-> TRUE, cases |-> cases]
          ELSE [status |-> "LimitExceeded", complete |-> FALSE,
                cases |-> IF RecordBytes(bare) <= most THEN bare ELSE z]
  BY DEF BoundResponse
<1>6. IsSeq(z) /\ Len(z) = 0 /\ z = <<>>
  BY EmptyIsSeq
<1> HIDE DEF b, bare, z, most
<1>7. RecordBytes(cases) \in Nat
  BY RecordBytesFacts
<1>8. RecordBytes(bare) \in Nat
  BY <1>2, <1>3, RecordBytesFacts
<1>9. RecordBytes(z) \in Nat /\ RecordBytes(z) = 1
  <2>1. \A i \in 1..Len(z) : IsResult(z[i])
    BY <1>6
  <2> QED
    BY <1>4, <1>6, <2>1, RecordBytesFacts
<1>10. CASE RecordBytes(cases) <= most
  <2>1. b.status = status /\ b.complete = TRUE /\ b.cases = cases
    BY <1>5, <1>10
  <2>2. RecordBytes(cases) <= HeaderBytes + most
    BY <1>4, <1>7, <1>10
  <2> QED
    BY <1>7, <2>1, <2>2 DEF Bounded, b, most
<1>11. CASE ~(RecordBytes(cases) <= most) /\ RecordBytes(bare) <= most
  <2>1. b.status = "LimitExceeded" /\ b.cases = bare
    BY <1>5, <1>11
  <2>2. RecordBytes(bare) <= HeaderBytes + most
    BY <1>4, <1>8, <1>11
  <2> QED
    BY <1>2, <1>3, <1>8, <2>1, <2>2 DEF Bounded, b, most
<1>12. CASE ~(RecordBytes(cases) <= most) /\ ~(RecordBytes(bare) <= most)
  <2>1. b.status = "LimitExceeded" /\ b.cases = z
    BY <1>5, <1>12
  <2>2. RecordBytes(z) <= HeaderBytes + most
    BY <1>4, <1>9
  <2>3. 1..Len(z) = {}
    BY <1>6
  <2> QED
    BY <1>6, <1>9, <2>1, <2>2, <2>3 DEF Bounded, b, most
<1> QED
  BY <1>10, <1>11, <1>12

\* An outcome that keep_evaluation may be given.
IsOutcome(o) ==
  /\ IsSeq(o.results)
  /\ \A i \in 1..Len(o.results) : IsResult(o.results[i])
  /\ IsSeq(o.trace)
  /\ BatchBytes(o.trace) <= MaxEvaluationRecordBytes
  /\ o.status = "Passed" =>
       /\ ~o.lost
       /\ Len(o.results) # 0
       /\ \A i \in 1..Len(o.results) : CasePassed(o.results[i], o.truth[i], Grants(run))

LEMMA EntryFacts ==
  ASSUME Running, NEW outcome, IsOutcome(outcome)
  PROVE  LET entry == Entry(run.ticket, outcome)
         IN  /\ Kept(entry)
             /\ EntryCharge(entry) \in Nat
             /\ EntryCharge(entry) <= Reservation
<1> DEFINE t == run.ticket
           o == outcome
           b == BoundResponse(o.status, o.results)
           e == Entry(t, o)
<1>1. Bounded(o.status, o.results, b)
  BY BoundResponseFacts DEF IsOutcome
<1>2. /\ e.proposal = t.proposal /\ e.targets = t.targets /\ e.status = b.status
      /\ e.complete = b.complete /\ e.cases = b.cases /\ e.trace = o.trace
      /\ e.truth = o.truth /\ e.lost = o.lost
  BY DEF Entry
<1> HIDE DEF b, e
<1>3. BatchBytes(o.trace) \in Nat /\ BatchBytes(o.trace) <= MaxEvaluationRecordBytes
  BY BatchBytesFacts DEF IsOutcome
<1>4. /\ RecordBytes(b.cases) \in Nat
      /\ RecordBytes(b.cases) <= HeaderBytes + MaxEvaluationResponseBytes
  BY <1>1 DEF Bounded
<1>5. EntryCharge(e) = 1 + RecordBytes(b.cases) + BatchBytes(o.trace)
  BY <1>2 DEF EntryCharge, EntryBytes
<1>6. Reservation = 1 + HeaderBytes + MaxEvaluationResponseBytes + MaxEvaluationRecordBytes
      /\ HeaderBytes = 1
  BY DEF Reservation, EntryBytes, HeaderBytes
<1>7. EntryCharge(e) \in Nat /\ EntryCharge(e) <= Reservation
  BY <1>3, <1>4, <1>5, <1>6, ReservationNat
<1>8. ASSUME e.status = "Passed"
      PROVE  /\ e.complete
             /\ ~e.lost
             /\ IsSeq(e.cases)
             /\ Len(e.cases) # 0
             /\ \A i \in 1..Len(e.cases) :
                  /\ CasePassed(e.cases[i], e.truth[i], Len(e.targets))
                  /\ IsResult(e.cases[i])
  <2>1. o.status = "Passed" /\ b.cases = o.results /\ b.complete
    BY <1>1, <1>2, <1>8 DEF Bounded
  <2>2. Grants(run) = Len(t.targets)
    BY DEF Running
  <2> QED
    BY <1>2, <2>1, <2>2 DEF IsOutcome
<1>9. Proposed(e.proposal, e.targets)
  BY <1>2 DEF Running
<1>10. Kept(e)
  BY <1>7, <1>8, <1>9 DEF Kept
<1> QED
  BY <1>7, <1>10 DEF e

LEMMA KeepInv ==
  ASSUME Inv, run.phase # "idle", NEW outcome, IsOutcome(outcome), Keep(outcome)
  PROVE  Inv'
<1> DEFINE t == run.ticket
           e == Entry(t, outcome)
           id == t.id
           charge == EntryCharge(e)
<1>1. Running /\ SessionInv
  BY DEF Inv
<1>2. /\ evaluations' = With(evaluations, id, e)
      /\ sessionPayloadBytes' = sessionPayloadBytes - (t.reservation - charge)
      /\ run' = Idle
      /\ UNCHANGED <<worldVars, lastNow, lastScope, lastProposal, lastEvaluation, scopes,
                     proposals, suites>>
  BY DEF Keep
<1>3. Kept(e) /\ charge \in Nat /\ charge <= Reservation
  BY <1>1, EntryFacts
<1>4. t.reservation = Reservation /\ id = lastEvaluation /\ id \notin DOMAIN evaluations
  BY <1>1 DEF Running
<1>5. id \in 1..lastEvaluation
  <2>1. lastEvaluation \in Nat \ {0}
    BY <1>1 DEF SessionInv, Running
  <2> QED
    BY <1>4, <2>1
<1> HIDE DEF t, e, id, charge
<1>6. /\ DOMAIN evaluations' = DOMAIN evaluations \cup {id}
      /\ evaluations'[id] = e
      /\ \A k \in DOMAIN evaluations : evaluations'[k] = evaluations[k]
  BY <1>2, <1>4 DEF With
<1>7. SessionInv'
  <2>1. DOMAIN evaluations' \subseteq 1..lastEvaluation'
    BY <1>1, <1>2, <1>5, <1>6 DEF SessionInv
  <2> QED
    BY <1>1, <1>2, <2>1 DEF SessionInv, IsProposal, Follows, worldVars
<1>8. (\A k \in DOMAIN evaluations : Kept(evaluations[k]))'
  <2>1. \A k \in DOMAIN evaluations' : Kept(evaluations'[k])
    BY <1>3, <1>6 DEF Inv
  <2> QED
    BY <1>2, <2>1 DEF Kept, Proposed
<1>9. run'.phase = "idle"
  BY <1>2 DEF Idle
<1>10. PayloadIsSum'
  <2>1. EntrySum(evaluations') = EntrySum(evaluations) + charge
    BY <1>2, <1>3, <1>4, EntrySumWith, MapsCharged DEF charge
  <2>2. /\ sessionPayloadBytes = ScopeSum(scopes) + ProposalSum(proposals)
                                   + EntrySum(evaluations) + Reserved(run)
        /\ sessionPayloadBytes <= MaxSessionPayloadBytes
    BY PayloadIs DEF Inv
  <2>3. ScopeSum(scopes) \in Nat /\ ProposalSum(proposals) \in Nat
        /\ EntrySum(evaluations) \in Nat
    BY MapsCharged
  <2>4. Reserved(run) = Reservation /\ Reserved(run') = 0
    BY <1>4, <1>9 DEF Reserved, t
  <2>5. Reservation \in Nat /\ MaxSessionPayloadBytes \in Nat
    BY ReservationNat
  <2>6. scopes' = scopes /\ proposals' = proposals
    BY <1>2
  <2>7. sessionPayloadBytes' = ScopeSum(scopes') + ProposalSum(proposals')
                                 + EntrySum(evaluations') + Reserved(run')
    BY <1>2, <1>3, <1>4, <2>1, <2>2, <2>3, <2>4, <2>5, <2>6
  <2>8. sessionPayloadBytes' <= MaxSessionPayloadBytes
    BY <1>2, <1>3, <1>4, <2>2, <2>3, <2>4, <2>5
  <2> QED
    BY <2>7, <2>8, PayloadNext
<1> QED
  BY <1>7, <1>8, <1>9, <1>10 DEF Inv

LEMMA KeepEvaluationInv ==
  ASSUME Inv, KeepEvaluation
  PROVE  Inv'
<1>1. run.phase = "done" /\ Keep(run) /\ Running
  BY DEF KeepEvaluation, Inv
<1>2. RunInv(run)
  BY <1>1 DEF Running
<1>3. RunTyped(run) /\ (run.status = "Passed" => ~run.lost /\ CasesPassed(run, Len(run.suite)))
  BY <1>1, <1>2 DEF RunInv
<1>4. IsOutcome(run)
  BY <1>3 DEF IsOutcome, RunTyped, Charged, CasesPassed, IsSuite
<1> QED
  BY <1>1, <1>4, KeepInv

LEMMA AbandonEvaluationInv ==
  ASSUME Inv, AbandonEvaluation
  PROVE  Inv'
<1> DEFINE z == <<>>
           o == [run EXCEPT !.status = "HostError", !.results = z, !.trace = z]
<1>1. run.phase # "idle" /\ Keep(o)
  BY DEF AbandonEvaluation
<1>2. DOMAIN run = RunFields
  BY <1>1 DEF Inv, Running, RunInv, RunTyped
<1>3. IsSeq(z) /\ Len(z) = 0 /\ z = <<>>
  BY EmptyIsSeq
<1> HIDE DEF z
<1>4. o.status = "HostError" /\ o.results = z /\ o.trace = z
  BY <1>2 DEF RunFields
<1>5. BatchBytes(z) = 0 /\ MaxEvaluationRecordBytes \in Nat
  BY <1>3, BatchBytesFacts, ReservationNat
<1>6. 1..Len(z) = {}
  BY <1>3
<1> HIDE DEF o
<1>7. IsOutcome(o)
  BY <1>3, <1>4, <1>5, <1>6 DEF IsOutcome
<1> QED
  BY <1>1, <1>7, KeepInv

LEMMA DropEvaluationInv ==
  ASSUME Inv, DropEvaluation
  PROVE  Inv'
<1>1. /\ run.phase # "idle"
      /\ sessionPayloadBytes' = sessionPayloadBytes - run.ticket.reservation
      /\ run' = Idle
      /\ UNCHANGED <<worldVars, lastNow, lastScope, lastProposal, lastEvaluation, scopes,
                     proposals, suites, evaluations>>
  BY DEF DropEvaluation
<1>2. SessionInv'
  BY <1>1 DEF Inv, SessionInv, IsProposal, Follows, worldVars
<1>3. (\A k \in DOMAIN evaluations : Kept(evaluations[k]))'
  BY <1>1, KeptStays DEF Inv
<1>4. run'.phase = "idle"
  BY <1>1 DEF Idle
<1>5. PayloadIsSum'
  <2>1. /\ sessionPayloadBytes = ScopeSum(scopes) + ProposalSum(proposals)
                                   + EntrySum(evaluations) + Reserved(run)
        /\ sessionPayloadBytes <= MaxSessionPayloadBytes
    BY PayloadIs DEF Inv
  <2>2. ScopeSum(scopes) \in Nat /\ ProposalSum(proposals) \in Nat
        /\ EntrySum(evaluations) \in Nat
    BY MapsCharged
  <2>3. Reserved(run) = Reservation /\ Reserved(run') = 0 /\ run.ticket.reservation = Reservation
    BY <1>1, <1>4 DEF Reserved, Inv, Running
  <2>4. Reservation \in Nat /\ MaxSessionPayloadBytes \in Nat
    BY ReservationNat
  <2>5. scopes' = scopes /\ proposals' = proposals /\ evaluations' = evaluations
    BY <1>1
  <2>6. sessionPayloadBytes' = ScopeSum(scopes') + ProposalSum(proposals')
                                 + EntrySum(evaluations') + Reserved(run')
    BY <1>1, <2>1, <2>2, <2>3, <2>4, <2>5
  <2>7. sessionPayloadBytes' <= MaxSessionPayloadBytes
    BY <1>1, <2>1, <2>2, <2>3, <2>4
  <2> QED
    BY <2>6, <2>7, PayloadNext
<1> QED
  BY <1>2, <1>3, <1>4, <1>5 DEF Inv

LEMMA EvaluationProceedsInv ==
  ASSUME Inv, EvaluationProceeds
  PROVE  Inv'
<1>1. /\ run.phase # "idle" /\ EvaluationStep
      /\ UNCHANGED <<slots, values>>
      /\ UNCHANGED <<lastNow, lastScope, lastProposal, lastEvaluation, scopes, proposals,
                     suites, evaluations, sessionPayloadBytes>>
  BY DEF EvaluationProceeds, worldVars, sessionVars
<1>2. Running
  BY <1>1 DEF Inv
<1>3. RunInv(run') /\ SameRun(run, run')
  BY <1>1, <1>2, EvaluationStepInv DEF Running
<1>4. run'.phase # "idle"
  BY <1>3 DEF RunInv
<1>5. Running'
  BY <1>1, <1>2, <1>3 DEF Running, SameRun, Proposed, Grants
<1>6. SessionInv'
  BY <1>1 DEF Inv, SessionInv, IsProposal, Follows
<1>7. (\A k \in DOMAIN evaluations : Kept(evaluations[k]))'
  BY <1>1, KeptStays DEF Inv
<1>8. PayloadIsSum'
  <2>1. /\ sessionPayloadBytes = ScopeSum(scopes) + ProposalSum(proposals)
                                   + EntrySum(evaluations) + Reserved(run)
        /\ sessionPayloadBytes <= MaxSessionPayloadBytes
    BY PayloadIs DEF Inv
  <2>2. Reserved(run') = Reserved(run)
    BY <1>1, <1>3, <1>4 DEF Reserved, SameRun
  <2> QED
    BY <1>1, <2>1, <2>2, PayloadNext
<1> QED
  BY <1>5, <1>6, <1>7, <1>8 DEF Inv

LEMMA PlainIsValue ==
  ASSUME NEW c \in Components
  PROVE  Plain(c) \in ValuesOf[c]
BY InputAssumption DEF Plain

\* The world changes its values, and nothing of the session.
LEMMA WorldInv ==
  ASSUME Inv, UNCHANGED <<sessionVars, run>>, DOMAIN values' = Components,
         \A c \in Components : values'[c] \in ValuesOf[c]
  PROVE  Inv'
<1>1. /\ UNCHANGED <<lastNow, lastScope, lastProposal, lastEvaluation, scopes, proposals,
                     suites, evaluations, sessionPayloadBytes>>
      /\ UNCHANGED run
  BY DEF sessionVars
<1>2. SessionInv'
  BY <1>1 DEF Inv, SessionInv, IsProposal, Follows
<1>3. (\A id \in DOMAIN evaluations : Kept(evaluations[id]))'
  BY <1>1, KeptStays DEF Inv
<1>4. (run.phase # "idle" => Running)'
  BY <1>1 DEF Inv, Running, Proposed
<1>5. PayloadIsSum'
  <2>1. /\ sessionPayloadBytes = ScopeSum(scopes) + ProposalSum(proposals)
                                    + EntrySum(evaluations) + Reserved(run)
        /\ sessionPayloadBytes <= MaxSessionPayloadBytes
    BY PayloadIs DEF Inv
  <2> QED
    BY <1>1, <2>1, PayloadNext
<1> QED
  BY <1>2, <1>3, <1>4, <1>5 DEF Inv

LEMMA WorldStepInv ==
  ASSUME Inv, WorldStep
  PROVE  Inv'
<1>1. PICK c \in Components :
        RemoveComponent(c) \/ \E v \in ValuesOf[c] : AddComponent(c, v) \/ SetValue(c, v)
  BY DEF WorldStep
<1>2. \E v \in ValuesOf[c] : values' = [values EXCEPT ![c] = v]
  BY <1>1, PlainIsValue DEF RemoveComponent, AddComponent, SetValue
<1>3. DOMAIN values = Components /\ \A k \in Components : values[k] \in ValuesOf[k]
  BY DEF Inv, SessionInv
<1>4. PICK v \in ValuesOf[c] : values' = [values EXCEPT ![c] = v]
  BY <1>2
<1>5. \A k \in Components : values'[k] \in ValuesOf[k]
  <2> SUFFICES ASSUME NEW k \in Components PROVE values'[k] \in ValuesOf[k]
    OBVIOUS
  <2>1. values'[k] = IF k = c THEN v ELSE values[k]
    BY <1>3, <1>4
  <2> QED
    BY <1>3, <2>1
<1>6. UNCHANGED <<sessionVars, run>>
  BY <1>1 DEF RemoveComponent, AddComponent, SetValue
<1>7. DOMAIN values' = Components
  BY <1>3, <1>4
<1> QED
  BY <1>5, <1>6, <1>7, WorldInv

-----------------------------------------------------------------------------
(* The theorems *)

LEMMA InitInv == Init => Inv
<1> SUFFICES ASSUME Init PROVE Inv
  OBVIOUS
<1> DEFINE z == <<>>
<1>1. /\ lastScope = 0 /\ lastProposal = 0 /\ lastEvaluation = 0
      /\ scopes = z /\ proposals = z /\ suites = z /\ evaluations = z
      /\ sessionPayloadBytes = 0
      /\ run.phase = "idle"
  BY DEF Init, Idle
<1>2. DOMAIN values = Components /\ \A c \in Components : values[c] \in ValuesOf[c]
  BY PlainIsValue DEF Init
<1>3. DOMAIN z = {}
  BY EmptySeq
<1> HIDE DEF z
<1>4. SessionInv
  BY <1>1, <1>2, <1>3 DEF SessionInv
<1>5. ScopeSum(z) = 0
  <2>1. Amounts([k \in DOMAIN z |-> z[k].payloadCharge])
    BY <1>3, FS_EmptySet DEF Amounts
  <2> QED
    BY <1>3, <2>1, SumFacts DEF ScopeSum
<1>6. ProposalSum(z) = 0
  <2>1. Amounts([k \in DOMAIN z |-> ProposalCharge(z[k])])
    BY <1>3, FS_EmptySet DEF Amounts
  <2> QED
    BY <1>3, <2>1, SumFacts DEF ProposalSum
<1>7. EntrySum(z) = 0
  <2>1. Amounts([k \in DOMAIN z |-> EntryCharge(z[k])])
    BY <1>3, FS_EmptySet DEF Amounts
  <2> QED
    BY <1>3, <2>1, SumFacts DEF EntrySum
<1>8. Reserved(run) = 0 /\ MaxSessionPayloadBytes \in Nat
  BY <1>1, AuthoringAssumption DEF Reserved
<1>9. PayloadIsSum
  BY <1>1, <1>5, <1>6, <1>7, <1>8, PayloadIs
<1> QED
  BY <1>1, <1>3, <1>4, <1>9 DEF Inv

LEMMA NextInv ==
  ASSUME Inv, [Next]_vars
  PROVE  Inv'
<1>1. CASE UNCHANGED vars
  BY <1>1, UnchangedInv
<1>2. CASE run.phase = "idle" /\ ScopeCall
  BY <1>2, CreateScopeInv, ReplaceScopeInv, RevokeScopeInv, DiscoverInv DEF ScopeCall
<1>3. CASE run.phase = "idle" /\ ProposalCall
  BY <1>3, SubmitInv, RegisterEvaluationSuiteInv, EvaluateInv DEF ProposalCall
<1>4. CASE run.phase = "idle" /\ WorldStep
  BY <1>4, WorldStepInv
<1>5. CASE EvaluationProceeds
  BY <1>5, EvaluationProceedsInv
<1>6. CASE KeepEvaluation
  BY <1>6, KeepEvaluationInv
<1>7. CASE AbandonEvaluation
  BY <1>7, AbandonEvaluationInv
<1>8. CASE DropEvaluation
  BY <1>8, DropEvaluationInv
<1> QED
  BY <1>1, <1>2, <1>3, <1>4, <1>5, <1>6, <1>7, <1>8 DEF Next

\* The invariant that the properties rest on: what each retained thing is, and
\* how far the evaluation in progress is (AuthoringSession::Impl and the loop of
\* run_evaluation).
THEOREM SessionInvariant == Spec => []Inv
<1>1. Inv /\ [Next]_vars => Inv'
  BY NextInv
<1> QED
  BY InitInv, <1>1, PTL DEF Spec

\* The session payload counter is what is retained, call by call: each of
\* create_scope, replace_scope, revoke_scope, submit, evaluate, and the three
\* ways in which an evaluation ends charges what it retains and releases what
\* it drops, and the ceiling is never passed.
THEOREM PayloadAlwaysSum == Spec => []PayloadIsSum
<1>1. Inv => PayloadIsSum
  BY DEF Inv
<1> QED
  BY SessionInvariant, <1>1, PTL

\* Evaluations are of what was proposed: the targets that evaluate reserved a
\* run for, and that a kept evaluation names, are those submit captured, whatever
\* scopes and components did in between.
THEOREM AlwaysEvaluatedAsProposed == Spec => []EvaluatedAsProposed
<1>1. Inv => EvaluatedAsProposed
  BY DEF Inv, EvaluatedAsProposed, Kept, Running, Proposed
<1> QED
  BY SessionInvariant, <1>1, PTL

\* An entry that is reported as Passed passed in every case and frame.
LEMMA KeptPassed ==
  ASSUME NEW kept, Kept(kept), kept.status = "Passed"
  PROVE  /\ kept.complete /\ ~kept.lost
         /\ kept.cases # <<>>
         /\ \A i \in DOMAIN kept.cases :
              LET result == kept.cases[i]
              IN  /\ result.status = "Passed"
                  /\ result.finalState = Len(kept.targets)
                  /\ result.framesRun = result.framesScheduled
                  /\ Len(result.frames) = result.framesScheduled
                  /\ \A f \in DOMAIN result.frames :
                       /\ result.frames[f].completed /\ result.frames[f].asserted
                       /\ result.frames[f].lifecycle = "Success"
                       /\ result.frames[f].commands <= kept.truth[i][f].commands
<1>1. /\ kept.complete /\ ~kept.lost
      /\ IsSeq(kept.cases) /\ Len(kept.cases) # 0
      /\ \A i \in 1..Len(kept.cases) :
           /\ CasePassed(kept.cases[i], kept.truth[i], Len(kept.targets))
           /\ IsResult(kept.cases[i])
  BY DEF Kept
<1>2. kept.cases # <<>> /\ DOMAIN kept.cases = 1..Len(kept.cases)
  BY <1>1, EmptyIsSeq, IsSeqFacts
<1>3. ASSUME NEW i \in DOMAIN kept.cases
      PROVE  LET result == kept.cases[i]
             IN  /\ result.status = "Passed"
                 /\ result.finalState = Len(kept.targets)
                 /\ result.framesRun = result.framesScheduled
                 /\ Len(result.frames) = result.framesScheduled
                 /\ \A f \in DOMAIN result.frames :
                      /\ result.frames[f].completed /\ result.frames[f].asserted
                      /\ result.frames[f].lifecycle = "Success"
                      /\ result.frames[f].commands <= kept.truth[i][f].commands
  <2>1. CasePassed(kept.cases[i], kept.truth[i], Len(kept.targets)) /\ IsResult(kept.cases[i])
    BY <1>1, <1>2, <1>3
  <2>2. DOMAIN kept.cases[i].frames = 1..Len(kept.cases[i].frames)
    BY <2>1, IsSeqFacts DEF IsResult
  <2> QED
    BY <2>1, <2>2 DEF CasePassed, FramesPassed, FramePassed, FrameDone
<1> QED
  BY <1>1, <1>2, <1>3

\* A Passed evaluation has all of its evidence and passed in every case, frame
\* and assertion of its suite: no path through run_evaluation, stop and
\* bound_response reports as Passed what stopped, was skipped, ran out of its
\* budget or was cut to fit the response.
THEOREM AlwaysPassedMeansEverything == Spec => []PassedMeansEverything
<1>1. Inv => PassedMeansEverything
  BY KeptPassed DEF Inv, PassedMeansEverything
<1> QED
  BY SessionInvariant, <1>1, PTL

-----------------------------------------------------------------------------
(* Where the frames are on the trace *)

LEMMA MinIs ==
  ASSUME NEW S \in SUBSET Nat, NEW e \in S, \A y \in S : e <= y
  PROVE  Min(S) = e
<1>1. Min(S) \in S /\ \A y \in S : Min(S) <= y
  BY DEF Min
<1> DEFINE m == Min(S)
<1>2. m \in Nat /\ e \in Nat /\ m <= e /\ e <= m
  BY <1>1
<1> HIDE DEF m
<1>3. m = e
  BY <1>2
<1> QED
  BY <1>3 DEF m

\* u has the records of t, and maybe more.
Extends(t, u) ==
  /\ IsSeq(t) /\ IsSeq(u)
  /\ Len(t) <= Len(u)
  /\ \A i \in 1..Len(t) : u[i] = t[i]

Ends(t, p) ==
  {q \in p + 1 .. Len(t) : t[q].case # t[p].case \/ t[q].type \in Marks}

LEMMA FrameAtIs ==
  ASSUME NEW t, NEW p, NEW e \in Ends(t, p), p \in Nat, Len(t) \in Nat,
         \A q \in Ends(t, p) : e <= q
  PROVE  FrameAt(t, p) = SubSeq(t, p + 1, e - 1)
<1> DEFINE S == Ends(t, p)
<1>1. S \in SUBSET Nat /\ e \in S /\ \A y \in S : e <= y
  BY DEF Ends
<1>2. FrameAt(t, p) = SubSeq(t, p + 1, IF S = {} THEN Len(t) ELSE Min(S) - 1)
  BY DEF FrameAt, Ends
<1> HIDE DEF S
<1>3. Min(S) = e /\ S # {}
  BY <1>1, MinIs
<1> QED
  BY <1>2, <1>3

\* The frame that starts at p has ended.
Closed(t, p) ==
  \E q \in (p + 1)..Len(t) : t[q].case = t[p].case /\ t[q].type \in Marks

\* A frame that has ended stays as it is.
LEMMA FrameStays ==
  ASSUME NEW t, NEW u, Extends(t, u), NEW p \in 1..Len(t), Closed(t, p)
  PROVE  Closed(u, p) /\ FrameAt(u, p) = FrameAt(t, p)
<1> DEFINE m == Len(t)
           n == Len(u)
<1>1. m \in Nat /\ n \in Nat /\ m <= n /\ p \in 1..m /\ p \in Nat
  BY IsSeqFacts DEF Extends
<1>2. \A i \in 1..m : u[i] = t[i]
  BY DEF Extends
<1>3. PICK q \in (p + 1)..m : t[q].case = t[p].case /\ t[q].type \in Marks
  BY DEF Closed
<1> HIDE DEF m, n
<1>4. q \in 1..m /\ q \in (p + 1)..n
  BY <1>1
<1>5. Closed(u, p)
  BY <1>1, <1>2, <1>3, <1>4 DEF Closed, n
<1>6. Ends(t, p) \in SUBSET Nat /\ q \in Ends(t, p)
  BY <1>1, <1>3 DEF Ends, m
<1>7. PICK e \in Ends(t, p) : \A k \in Ends(t, p) : e <= k
  BY <1>6, LeastOf
<1>8. e \in (p + 1)..m /\ (t[e].case # t[p].case \/ t[e].type \in Marks)
  BY <1>7 DEF Ends, m
<1>9. e \in 1..m /\ e \in (p + 1)..n
  BY <1>1, <1>8
<1>10. e \in Ends(u, p)
  BY <1>1, <1>2, <1>8, <1>9 DEF Ends, n
<1>11. ASSUME NEW k \in Ends(u, p) PROVE e <= k
  <2>1. k \in (p + 1)..n /\ (u[k].case # u[p].case \/ u[k].type \in Marks)
    BY DEF Ends, n
  <2>2. CASE k <= m
    <3>1. k \in (p + 1)..m /\ k \in 1..m
      BY <1>1, <2>1, <2>2
    <3>2. k \in Ends(t, p)
      BY <1>1, <1>2, <2>1, <3>1 DEF Ends, m
    <3> QED
      BY <1>7, <3>2
  <2>3. CASE ~(k <= m)
    BY <1>1, <1>8, <2>1, <2>3
  <2> QED
    BY <2>2, <2>3
<1>12. FrameAt(t, p) = SubSeq(t, p + 1, e - 1)
  BY <1>1, <1>7, FrameAtIs DEF m
<1>13. FrameAt(u, p) = SubSeq(u, p + 1, e - 1)
  BY <1>1, <1>10, <1>11, FrameAtIs DEF n
<1> DEFINE a == p + 1
           b == e - 1
           x == SubSeq(t, a, b)
           y == SubSeq(u, a, b)
<1>14. a \in Int /\ b \in Int /\ a <= b + 1 /\ b - a + 1 \in Nat
  BY <1>1, <1>8
<1>15. \A i \in 1..(b - a + 1) : a + i - 1 \in 1..m
  BY <1>1, <1>8
<1> HIDE DEF a, b, x, y
<1>16. /\ IsSeq(x) /\ Len(x) = IF a <= b THEN b - a + 1 ELSE 0
       /\ \A i \in 1..(b - a + 1) : x[i] = t[a + i - 1]
  BY <1>14, SubSeqFacts DEF x
<1>17. /\ IsSeq(y) /\ Len(y) = IF a <= b THEN b - a + 1 ELSE 0
       /\ \A i \in 1..(b - a + 1) : y[i] = u[a + i - 1]
  BY <1>14, SubSeqFacts DEF y
<1>18. Len(x) = b - a + 1 /\ Len(y) = Len(x)
  BY <1>14, <1>16, <1>17
<1>19. \A i \in 1..Len(x) : x[i] = y[i]
  BY <1>2, <1>15, <1>16, <1>17, <1>18
<1>20. x = y
  BY <1>16, <1>17, <1>18, <1>19, SameSeq
<1> QED
  BY <1>5, <1>12, <1>13, <1>20 DEF x, y, a, b

LEMMA FramesIs ==
  ASSUME NEW t, IsSeq(t), NEW c
  PROVE  \A p : p \in Frames(t, c) <=>
           p \in 1..Len(t) /\ t[p].case = c /\ t[p].type = "FrameStarted"
<1>1. DOMAIN t = 1..Len(t)
  BY IsSeqFacts
<1> QED
  BY <1>1 DEF Frames

LEMMA FramesSame ==
  ASSUME NEW t, NEW u, Extends(t, u), NEW c,
         \A i \in (Len(t) + 1)..Len(u) : ~(u[i].case = c /\ u[i].type = "FrameStarted")
  PROVE  Frames(u, c) = Frames(t, c)
<1>1. Len(t) \in Nat /\ Len(u) \in Nat /\ Len(t) <= Len(u) /\ IsSeq(t) /\ IsSeq(u)
      /\ \A i \in 1..Len(t) : u[i] = t[i]
  BY IsSeqFacts DEF Extends
<1>2. ASSUME NEW p PROVE p \in Frames(u, c) <=> p \in Frames(t, c)
  <2>1. p \in Frames(u, c) <=> p \in 1..Len(u) /\ u[p].case = c /\ u[p].type = "FrameStarted"
    BY <1>1, FramesIs
  <2>2. p \in Frames(t, c) <=> p \in 1..Len(t) /\ t[p].case = c /\ t[p].type = "FrameStarted"
    BY <1>1, FramesIs
  <2>3. p \in 1..Len(u) <=> p \in 1..Len(t) \/ p \in (Len(t) + 1)..Len(u)
    BY <1>1
  <2> QED
    BY <1>1, <2>1, <2>2, <2>3
<1> QED
  BY <1>2

\* The frames of c start at the places in at, have ended, and T is what
\* happened in them.
Listed(t, c, T, at) ==
  /\ IsSeq(at) /\ IsSeq(T)
  /\ Len(at) = Len(T)
  /\ \A n \in 1..Len(at) :
       at[n] \in Frames(t, c) /\ Closed(t, at[n]) /\ Happened(FrameAt(t, at[n])) = T[n]
  /\ \A m, n \in 1..Len(at) : m < n => at[m] < at[n]
  /\ \A p \in Frames(t, c) : \E n \in 1..Len(at) : p = at[n]

Layout(t, c, T) == \E at : Listed(t, c, T, at)

LEMMA LayoutEmpty ==
  ASSUME NEW t, NEW c, Frames(t, c) = {}
  PROVE  Layout(t, c, <<>>)
<1> DEFINE z == <<>>
<1>1. IsSeq(z) /\ Len(z) = 0
  BY EmptyIsSeq
<1> HIDE DEF z
<1>2. 1..Len(z) = {}
  BY <1>1
<1>3. Listed(t, c, z, z)
  BY <1>1, <1>2 DEF Listed
<1>4. Layout(t, c, z)
  BY <1>3 DEF Layout
<1> QED
  BY <1>4 DEF z

LEMMA ListedStays ==
  ASSUME NEW t, NEW u, Extends(t, u), NEW c, NEW T, NEW at, Listed(t, c, T, at)
  PROVE  \A n \in 1..Len(at) :
           at[n] \in 1..Len(t) /\ Closed(u, at[n]) /\ Happened(FrameAt(u, at[n])) = T[n]
<1> SUFFICES ASSUME NEW n \in 1..Len(at)
             PROVE  at[n] \in 1..Len(t) /\ Closed(u, at[n])
                    /\ Happened(FrameAt(u, at[n])) = T[n]
  OBVIOUS
<1>1. at[n] \in Frames(t, c) /\ Closed(t, at[n]) /\ Happened(FrameAt(t, at[n])) = T[n]
  BY DEF Listed
<1>2. at[n] \in 1..Len(t)
  BY <1>1, FramesIs DEF Extends
<1>3. Closed(u, at[n]) /\ FrameAt(u, at[n]) = FrameAt(t, at[n])
  BY <1>1, <1>2, FrameStays
<1> QED
  BY <1>1, <1>2, <1>3

LEMMA LayoutStays ==
  ASSUME NEW t, NEW u, Extends(t, u), NEW c, NEW T, Layout(t, c, T),
         Frames(u, c) = Frames(t, c)
  PROVE  Layout(u, c, T)
<1>1. PICK at : Listed(t, c, T, at)
  BY DEF Layout
<1>2. \A n \in 1..Len(at) : Closed(u, at[n]) /\ Happened(FrameAt(u, at[n])) = T[n]
  BY <1>1, ListedStays
<1>3. Listed(u, c, T, at)
  BY <1>1, <1>2 DEF Listed
<1> QED
  BY <1>3 DEF Layout

LEMMA LayoutGrows ==
  ASSUME NEW t, NEW u, Extends(t, u), NEW c, NEW T, Layout(t, c, T),
         NEW p, p = Len(t) + 1, Frames(u, c) = Frames(t, c) \cup {p}, Closed(u, p)
  PROVE  Layout(u, c, Append(T, Happened(FrameAt(u, p))))
<1>1. PICK at : Listed(t, c, T, at)
  BY DEF Layout
<1>2. \A n \in 1..Len(at) :
        at[n] \in 1..Len(t) /\ Closed(u, at[n]) /\ Happened(FrameAt(u, at[n])) = T[n]
  BY <1>1, ListedStays
<1> DEFINE h == Happened(FrameAt(u, p))
           b == Append(at, p)
           V == Append(T, h)
           l == Len(at)
<1> HIDE DEF h
<1>3. /\ IsSeq(b) /\ Len(b) = l + 1
      /\ \A i \in 1..l : b[i] = at[i]
      /\ b[l + 1] = p
  BY <1>1, AppendFacts DEF Listed
<1>4. Len(T) = l /\ l \in Nat /\ Len(t) \in Nat
  BY <1>1, IsSeqFacts DEF Listed, Extends
<1>5. /\ IsSeq(V) /\ Len(V) = l + 1
      /\ \A i \in 1..l : V[i] = T[i]
      /\ V[l + 1] = h
  BY <1>1, <1>4, AppendFacts DEF Listed
<1> HIDE DEF b, V, l
<1>6. \A i \in 1..Len(b) : i \in 1..l \/ i = l + 1
  BY <1>3, <1>4
<1>7. \A i \in 1..Len(b) :
        b[i] \in Frames(u, c) /\ Closed(u, b[i]) /\ Happened(FrameAt(u, b[i])) = V[i]
  <2> SUFFICES ASSUME NEW i \in 1..Len(b)
               PROVE  b[i] \in Frames(u, c) /\ Closed(u, b[i])
                      /\ Happened(FrameAt(u, b[i])) = V[i]
    OBVIOUS
  <2>1. CASE i \in 1..l
    <3>1. at[i] \in Frames(t, c) /\ Closed(u, at[i]) /\ Happened(FrameAt(u, at[i])) = T[i]
      BY <1>1, <1>2, <2>1 DEF Listed, l
    <3> QED
      BY <1>3, <1>5, <2>1, <3>1
  <2>2. CASE i = l + 1
    BY <1>3, <1>5, <2>2 DEF h
  <2> QED
    BY <1>6, <2>1, <2>2
<1>8. \A m, n \in 1..Len(b) : m < n => b[m] < b[n]
  <2> SUFFICES ASSUME NEW m \in 1..Len(b), NEW n \in 1..Len(b), m < n PROVE b[m] < b[n]
    OBVIOUS
  <2>1. m \in 1..l
    BY <1>3, <1>4
  <2>2. CASE n \in 1..l
    <3>1. at[m] < at[n]
      BY <1>1, <2>1, <2>2 DEF Listed, l
    <3> QED
      BY <1>3, <2>1, <2>2, <3>1
  <2>3. CASE n = l + 1
    <3>1. at[m] \in 1..Len(t)
      BY <1>2, <2>1 DEF l
    <3>2. at[m] < p
      BY <1>4, <3>1
    <3> QED
      BY <1>3, <2>1, <2>3, <3>2
  <2> QED
    BY <1>6, <2>2, <2>3
<1>9. ASSUME NEW q \in Frames(u, c) PROVE \E n \in 1..Len(b) : q = b[n]
  <2>1. CASE q = p
    <3>1. l + 1 \in 1..Len(b)
      BY <1>3, <1>4
    <3> QED
      BY <1>3, <2>1, <3>1
  <2>2. CASE q \in Frames(t, c)
    <3>1. PICK n \in 1..l : q = at[n]
      BY <1>1, <2>2 DEF Listed, l
    <3>2. n \in 1..Len(b)
      BY <1>3, <1>4
    <3> QED
      BY <1>3, <3>1, <3>2
  <2> QED
    BY <2>1, <2>2
<1>10. Listed(u, c, V, b)
  <2>1. Len(b) = Len(V)
    BY <1>3, <1>5
  <2> QED
    BY <1>3, <1>5, <1>7, <1>8, <1>9, <2>1 DEF Listed
<1>11. Layout(u, c, V)
  BY <1>10 DEF Layout
<1> QED
  BY <1>11 DEF V, h

\* An increasing list names as many things as it is long.
LEMMA ListedCounts ==
  ASSUME NEW at, NEW n \in Nat, \A i \in 1..n : at[i] \in Nat,
         \A i, j \in 1..n : i < j => at[i] < at[j]
  PROVE  Cardinality({at[i] : i \in 1..n}) = n
<1> DEFINE G == {at[i] : i \in 1..n}
           f == [i \in 1..n |-> at[i]]
<1>1. f \in [1..n -> G] /\ \A i \in 1..n : f[i] = at[i]
  OBVIOUS
<1>2. ASSUME NEW i \in 1..n, NEW j \in 1..n, at[i] = at[j] PROVE i = j
  <2>1. i < j \/ j < i \/ i = j
    OBVIOUS
  <2>2. ~(at[i] < at[j]) /\ ~(at[j] < at[i])
    BY <1>2
  <2> QED
    BY <2>1, <2>2
<1>3. \A g \in G : \E i \in 1..n : at[i] = g
  OBVIOUS
<1> HIDE DEF f, G
<1>4. f \in Bijection(1..n, G)
  BY <1>1, <1>2, <1>3 DEF Bijection, Injection, Surjection, IsInjective
<1>5. ExistsBijection(1..n, G)
  BY <1>4 DEF ExistsBijection
<1>6. IsFiniteSet(1..n) /\ Cardinality(1..n) = n
  BY FS_Interval
<1>7. Cardinality(G) = n
  BY <1>5, <1>6, FS_Bijection
<1> QED
  BY <1>7 DEF G

\* Totals of a trace on which the frames are where they should be.
LEMMA LayoutTotals ==
  ASSUME NEW t, IsSeq(t), NEW c, NEW T, Layout(t, c, T)
  PROVE  Cardinality(Frames(t, c)) = Len(T) /\ CaseTotals(t, c) = T
<1>1. PICK at : Listed(t, c, T, at)
  BY DEF Layout
<1> DEFINE l == Len(at)
           F == Frames(t, c)
           Nth(p) == Cardinality({q \in F : q <= p})
<1>2. l \in Nat /\ Len(T) = l /\ IsSeq(T) /\ DOMAIN T = 1..l
  BY <1>1, IsSeqFacts DEF Listed
<1>3. \A i \in 1..l : at[i] \in Nat /\ at[i] \in F /\ Happened(FrameAt(t, at[i])) = T[i]
  <2>1. \A i \in 1..l : at[i] \in F /\ Happened(FrameAt(t, at[i])) = T[i]
    BY <1>1 DEF Listed
  <2>2. F \subseteq 1..Len(t)
    BY FramesIs
  <2> QED
    BY <2>1, <2>2
<1>4. \A i, j \in 1..l : i < j => at[i] < at[j]
  BY <1>1 DEF Listed
<1>5. \A p \in F : \E n \in 1..l : p = at[n]
  BY <1>1 DEF Listed
<1> HIDE DEF l, F
<1>6. F = {at[i] : i \in 1..l}
  BY <1>3, <1>5
<1>7. Cardinality(F) = l
  BY <1>2, <1>3, <1>4, <1>6, ListedCounts
<1>8. ASSUME NEW n \in 1..l PROVE Nth(at[n]) = n
  <2>1. n \in Nat /\ 1..n \subseteq 1..l
    BY <1>2
  <2>2. {q \in F : q <= at[n]} = {at[i] : i \in 1..n}
    <3>1. ASSUME NEW i \in 1..l PROVE at[i] <= at[n] <=> i \in 1..n
      <4>1. i < n \/ i = n \/ n < i
        BY <1>2
      <4>2. (i < n => at[i] < at[n]) /\ (n < i => at[n] < at[i])
        BY <1>4
      <4>3. at[i] \in Nat /\ at[n] \in Nat
        BY <1>3
      <4> QED
        BY <1>2, <4>1, <4>2, <4>3
    <3> QED
      BY <1>6, <2>1, <3>1
  <2>3. \A i \in 1..n : at[i] \in Nat
    BY <1>3, <2>1
  <2>4. \A i, j \in 1..n : i < j => at[i] < at[j]
    BY <1>4, <2>1
  <2>5. Cardinality({at[i] : i \in 1..n}) = n
    BY <2>1, <2>3, <2>4, ListedCounts
  <2> QED
    BY <2>2, <2>5
<1> HIDE DEF Nth
<1>9. ASSUME NEW n \in 1..l PROVE (CHOOSE p \in F : Nth(p) = n) = at[n]
  <2> DEFINE w == CHOOSE p \in F : Nth(p) = n
  <2>1. at[n] \in F /\ Nth(at[n]) = n
    BY <1>3, <1>8
  <2>2. w \in F /\ Nth(w) = n
    BY <2>1
  <2> HIDE DEF w
  <2>3. PICK k \in 1..l : w = at[k]
    BY <1>5, <2>2
  <2>4. k = n
    BY <1>8, <2>2, <2>3
  <2>5. w = at[n]
    BY <2>3, <2>4
  <2> QED
    BY <2>5 DEF w
<1>10. CaseTotals(t, c) = [n \in 1..l |-> Happened(FrameAt(t, CHOOSE p \in F : Nth(p) = n))]
  BY <1>7 DEF CaseTotals, F, Nth
<1>11. [n \in 1..l |-> Happened(FrameAt(t, CHOOSE p \in F : Nth(p) = n))]
         = [n \in 1..l |-> T[n]]
  BY <1>3, <1>9
<1>12. T = [n \in 1..l |-> T[n]]
  BY <1>2 DEF IsSeq
<1> QED
  BY <1>2, <1>7, <1>10, <1>11, <1>12 DEF F

\* What happened in a frame depends on the types of its records, and on
\* which were accepted.
LEMMA SameHappened ==
  ASSUME NEW s, NEW t, IsSeq(s), IsSeq(t), Len(s) = Len(t),
         \A i \in 1..Len(s) : s[i].type = t[i].type /\ s[i].accepted = t[i].accepted
  PROVE  Happened(s) = Happened(t)
<1>1. DOMAIN s = 1..Len(s) /\ DOMAIN t = 1..Len(s)
  BY IsSeqFacts
<1>2. {i \in DOMAIN s : s[i].type = "CommandIssued"}
        = {i \in DOMAIN t : t[i].type = "CommandIssued"}
  BY <1>1
<1>3. {i \in DOMAIN s : s[i].type = "ReportReceived" /\ s[i].accepted}
        = {i \in DOMAIN t : t[i].type = "ReportReceived" /\ t[i].accepted}
  BY <1>1
<1>4. {i \in DOMAIN s : s[i].type = "ExternalObservationReceived" /\ s[i].accepted}
        = {i \in DOMAIN t : t[i].type = "ExternalObservationReceived" /\ t[i].accepted}
  BY <1>1
<1> QED
  BY <1>2, <1>3, <1>4 DEF Happened, NumberOf

LEMMA FrameTypes ==
  ASSUME NEW work \in Work, NEW failed
  PROVE  LET s == FrameRecords(work, failed)
             n == Len(work)
         IN  /\ s[1].type = "FrameStarted"
             /\ \A i \in 2..(n + 1) : s[i].type \notin Marks
             /\ s[n + 2].type \in Marks \ {"FrameStarted"}
<1> DEFINE s == FrameRecords(work, failed)
           n == Len(work)
<1>1. /\ IsSeq(work) /\ n \in Nat
      /\ s[1] = Event("FrameStarted")
      /\ \A i \in 1..n : s[i + 1] = work[i]
      /\ s[n + 2] = Event(IF failed THEN "FrameFailed" ELSE "FrameCompleted")
  BY FrameRecordsFacts
<1> HIDE DEF s
<1>2. \A i \in 1..n : work[i].type \notin Marks
  BY <1>1, IsSeqFacts, WorkAssumption
<1>3. ASSUME NEW i \in 2..(n + 1) PROVE s[i].type \notin Marks
  <2> DEFINE k == i - 1
  <2>1. k \in 1..n /\ k + 1 = i
    BY <1>1
  <2> HIDE DEF k
  <2> QED
    BY <1>1, <1>2, <2>1
<1>4. s[n + 2].type = IF failed THEN "FrameFailed" ELSE "FrameCompleted"
  BY <1>1 DEF Event
<1>5. s[1].type = "FrameStarted"
  BY <1>1 DEF Event
<1> QED
  BY <1>3, <1>4, <1>5 DEF Marks, s

\* The trace t of a run in case c, with the first m of the records s.
Grown(t, u, c, s, m) ==
  /\ Extends(t, u)
  /\ Len(u) = Len(t) + m
  /\ \A j \in (Len(t) + 1)..(Len(t) + m) :
       /\ u[j].case = c
       /\ u[j].type = s[j - Len(t)].type
       /\ u[j].accepted = s[j - Len(t)].accepted

LEMMA TracesGrow ==
  ASSUME NEW r, IsSeq(r.trace), NEW s, NEW m \in Nat
  PROVE  Grown(r.trace, r.trace \o Traces(r, s, m), r.case, s, m)
<1> DEFINE t == r.trace
           v == Traces(r, s, m)
           u == t \o v
           l == Len(t)
<1>1. IsSeq(v) /\ Len(v) = m
  BY TracesFacts
<1>2. \A i \in 1..m : v[i] = Traced(r, s[i])
  BY DEF Traces
<1> HIDE DEF v
<1>3. /\ IsSeq(u) /\ Len(u) = l + Len(v)
      /\ \A i \in 1..(l + Len(v)) : u[i] = IF i <= l THEN t[i] ELSE v[i - l]
  <2>1. IsSeq(t) /\ IsSeq(v)
    BY <1>1
  <2> HIDE DEF t
  <2> QED
    BY ONLY <2>1, ConcatFacts DEF u, l
<1>4. l \in Nat
  BY IsSeqFacts
<1> HIDE DEF u, l
<1>5. ASSUME NEW i \in 1..l PROVE u[i] = t[i]
  <2>1. i \in 1..(l + Len(v)) /\ i <= l
    BY <1>1, <1>4
  <2> QED
    BY <1>3, <2>1
<1>6. Extends(t, u)
  <2>1. Len(t) <= Len(u)
    BY <1>1, <1>3, <1>4 DEF l
  <2> QED
    BY <1>3, <1>5, <2>1 DEF Extends, l
<1>7. ASSUME NEW j \in (l + 1)..(l + m)
      PROVE  u[j].case = r.case /\ u[j].type = s[j - l].type
             /\ u[j].accepted = s[j - l].accepted
  <2>1. j \in 1..(l + Len(v)) /\ ~(j <= l) /\ j - l \in 1..m
    BY <1>1, <1>4
  <2>2. u[j] = Traced(r, s[j - l])
    BY <1>2, <1>3, <2>1
  <2> QED
    BY <2>2 DEF Traced
<1> QED
  BY <1>1, <1>3, <1>6, <1>7 DEF Grown, u, v, l

\* Frames of other cases are where they were.
LEMMA GrownOthers ==
  ASSUME NEW t, NEW u, NEW c, NEW s, NEW m \in Nat, Grown(t, u, c, s, m), NEW d, d # c
  PROVE  Frames(u, d) = Frames(t, d)
<1>1. Extends(t, u) /\ \A j \in (Len(t) + 1)..Len(u) : u[j].case = c
  BY DEF Grown
<1> QED
  BY <1>1, FramesSame

LEMMA GrownCases ==
  ASSUME NEW t, NEW u, NEW c, NEW s, NEW m \in Nat, Grown(t, u, c, s, m),
         NEW S, c \in S, \A i \in 1..Len(t) : t[i].case \in S
  PROVE  \A i \in 1..Len(u) : u[i].case \in S
<1>1. /\ \A j \in (Len(t) + 1)..Len(u) : u[j].case = c
      /\ \A i \in 1..Len(t) : u[i] = t[i]
      /\ Len(t) \in Nat /\ Len(u) \in Nat
  BY IsSeqFacts DEF Grown, Extends
<1> SUFFICES ASSUME NEW i \in 1..Len(u) PROVE u[i].case \in S
  OBVIOUS
<1>2. i \in 1..Len(t) \/ i \in (Len(t) + 1)..Len(u)
  BY <1>1
<1> QED
  BY <1>1, <1>2

\* The start of the frame is stored.
LEMMA GrownStart ==
  ASSUME NEW t, NEW u, NEW c, NEW work \in Work, NEW failed, NEW m \in Nat,
         m \in 1..(Len(work) + 2), Grown(t, u, c, FrameRecords(work, failed), m)
  PROVE  Frames(u, c) = Frames(t, c) \cup {Len(t) + 1}
<1> DEFINE s == FrameRecords(work, failed)
           n == Len(work)
           l == Len(t)
<1>1. /\ s[1].type = "FrameStarted"
      /\ \A i \in 2..(n + 1) : s[i].type \notin Marks
      /\ s[n + 2].type \in Marks \ {"FrameStarted"}
  BY FrameTypes
<1>2. n \in Nat /\ l \in Nat /\ IsSeq(t) /\ IsSeq(u)
  BY FrameRecordsFacts, IsSeqFacts DEF Grown, Extends
<1> HIDE DEF s, n, l
<1>3. /\ Len(u) = l + m
      /\ \A i \in 1..l : u[i] = t[i]
      /\ \A j \in (l + 1)..(l + m) : u[j].case = c /\ u[j].type = s[j - l].type
  BY DEF Grown, Extends, s, l
<1>4. \A i \in 2..(n + 2) : s[i].type # "FrameStarted"
  <2> SUFFICES ASSUME NEW i \in 2..(n + 2) PROVE s[i].type # "FrameStarted"
    OBVIOUS
  <2>1. i \in 2..(n + 1) \/ i = n + 2
    BY <1>2
  <2> QED
    BY <1>1, <2>1 DEF Marks
<1>5. ASSUME NEW p PROVE p \in Frames(u, c) <=> p \in Frames(t, c) \cup {l + 1}
  <2>1. p \in Frames(u, c) <=> p \in 1..Len(u) /\ u[p].case = c /\ u[p].type = "FrameStarted"
    BY <1>2, FramesIs
  <2>2. p \in Frames(t, c) <=> p \in 1..l /\ t[p].case = c /\ t[p].type = "FrameStarted"
    BY <1>2, FramesIs DEF l
  <2>3. CASE p \in 1..l
    <3>1. p \in 1..Len(u) /\ p # l + 1
      BY <1>2, <1>3, <2>3
    <3> QED
      BY <1>3, <2>1, <2>2, <2>3, <3>1
  <2>4. CASE p = l + 1
    <3>1. p \in 1..Len(u) /\ p \in (l + 1)..(l + m) /\ p - l = 1
      BY <1>2, <1>3, <2>4
    <3> QED
      BY <1>1, <1>3, <2>1, <2>4, <3>1
  <2>5. CASE p \in (l + 2)..(l + m)
    <3>1. p \in (l + 1)..(l + m) /\ p - l \in 2..(n + 2) /\ p \notin 1..l /\ p # l + 1
      BY <1>2, <2>5 DEF n
    <3>2. u[p].type # "FrameStarted"
      BY <1>3, <1>4, <3>1
    <3> QED
      BY <2>1, <2>2, <3>1, <3>2
  <2>6. CASE p \notin 1..(l + m)
    <3>1. p \notin 1..l /\ p # l + 1
      BY <1>2, <2>6
    <3> QED
      BY <1>3, <2>1, <2>2, <2>6, <3>1
  <2>7. p \in 1..l \/ p = l + 1 \/ p \in (l + 2)..(l + m) \/ p \notin 1..(l + m)
    BY <1>2
  <2> QED
    BY <2>3, <2>4, <2>5, <2>6, <2>7
<1> QED
  BY <1>5 DEF l

\* A record after the start is refused: the frame never ends.
LEMMA GrownOpen ==
  ASSUME NEW t, NEW u, NEW c, NEW work \in Work, NEW failed, NEW m \in Nat,
         m \in 1..(Len(work) + 1), Grown(t, u, c, FrameRecords(work, failed), m)
  PROVE  Open(u, c)
<1> DEFINE s == FrameRecords(work, failed)
           n == Len(work)
           l == Len(t)
<1>1. \A i \in 2..(n + 1) : s[i].type \notin Marks
  BY FrameTypes
<1>2. n \in Nat /\ l \in Nat
  BY FrameRecordsFacts, IsSeqFacts DEF Grown, Extends
<1>3. l + 1 \in Frames(u, c)
  <2>1. m \in 1..(Len(work) + 2)
    BY <1>2
  <2>2. Frames(u, c) = Frames(t, c) \cup {Len(t) + 1}
    BY ONLY <2>1, GrownStart, work \in Work, m \in Nat,
            Grown(t, u, c, FrameRecords(work, failed), m)
  <2> QED
    BY <2>2
<1> HIDE DEF s, n, l
<1>4. Len(u) = l + m /\ \A j \in (l + 1)..(l + m) : u[j].type = s[j - l].type
  BY DEF Grown, s, l
<1>5. ASSUME NEW q \in (l + 1) + 1 .. Len(u) PROVE u[q].type \notin Marks
  <2>1. q \in (l + 1)..(l + m) /\ q - l \in 2..(n + 1)
    BY <1>2, <1>4 DEF n
  <2> QED
    BY <1>1, <1>4, <2>1
<1> QED
  BY <1>3, <1>5 DEF Open

\* All records of the frame are stored.
LEMMA GrownFrame ==
  ASSUME NEW t, NEW u, NEW c, NEW work \in Work, NEW failed,
         Grown(t, u, c, FrameRecords(work, failed), Len(work) + 2)
  PROVE  /\ Closed(u, Len(t) + 1)
         /\ Happened(FrameAt(u, Len(t) + 1)) = Happened(work)
<1> DEFINE s == FrameRecords(work, failed)
           n == Len(work)
           l == Len(t)
           p == l + 1
           e == l + n + 2
<1>1. /\ IsSeq(work) /\ n \in Nat
      /\ \A i \in 1..n : s[i + 1] = work[i]
  BY FrameRecordsFacts
<1>2. /\ s[1].type = "FrameStarted"
      /\ \A i \in 2..(n + 1) : s[i].type \notin Marks
      /\ s[n + 2].type \in Marks \ {"FrameStarted"}
  BY FrameTypes
<1>3. l \in Nat
  BY IsSeqFacts DEF Grown, Extends
<1>4. /\ Len(u) = l + (n + 2)
      /\ \A j \in (l + 1)..(l + (n + 2)) :
           /\ u[j].case = c
           /\ u[j].type = s[j - l].type
           /\ u[j].accepted = s[j - l].accepted
  BY DEF Grown
<1> HIDE DEF s, n, l
<1>5. p \in Nat /\ Len(u) = e /\ e \in (p + 1)..Len(u) /\ e \in Nat
  BY <1>1, <1>3, <1>4
<1>6. \A j \in p..e : j \in (l + 1)..(l + (n + 2))
  BY <1>1, <1>3
<1>7. u[e].case = c /\ u[p].case = c /\ u[e].type \in Marks
  <2>1. e \in p..e /\ p \in p..e /\ e - l = n + 2
    BY <1>1, <1>3
  <2> QED
    BY <1>2, <1>4, <1>6, <2>1
<1>8. Closed(u, p)
  BY <1>5, <1>7 DEF Closed
<1>9. e \in Ends(u, p)
  BY <1>5, <1>7 DEF Ends
<1>10. ASSUME NEW q \in Ends(u, p) PROVE e <= q
  <2>1. q \in (p + 1)..e /\ (u[q].case # u[p].case \/ u[q].type \in Marks)
    BY <1>5 DEF Ends
  <2>2. ASSUME q < e PROVE FALSE
    <3>1. q \in p..e /\ q - l \in 2..(n + 1)
      BY <1>1, <1>3, <2>1, <2>2
    <3> QED
      BY <1>2, <1>4, <1>6, <1>7, <2>1, <3>1
  <2> QED
    BY <1>5, <2>1, <2>2
<1>11. FrameAt(u, p) = SubSeq(u, p + 1, e - 1)
  <2> HIDE DEF p, e
  <2> QED
    BY <1>5, <1>9, <1>10, FrameAtIs
<1> DEFINE a == p + 1
           b == e - 1
           x == SubSeq(u, a, b)
<1>12. a \in Int /\ b \in Int /\ b - a + 1 = n
  BY <1>1, <1>3
<1>13. \A i \in 1..n : a + i - 1 \in p..e /\ (a + i - 1) - l = i + 1
  BY <1>1, <1>3
<1> HIDE DEF a, b, p, e
<1>14. /\ IsSeq(x) /\ Len(x) = IF a <= b THEN b - a + 1 ELSE 0
       /\ \A i \in 1..(b - a + 1) : x[i] = u[a + i - 1]
  BY <1>12, SubSeqFacts
<1> HIDE DEF x
<1>15. Len(x) = n
  BY <1>1, <1>12, <1>14
<1>16. ASSUME NEW i \in 1..n
       PROVE  x[i].type = work[i].type /\ x[i].accepted = work[i].accepted
  <2> DEFINE j == a + i - 1
  <2>1. x[i] = u[j] /\ j \in (l + 1)..(l + (n + 2)) /\ j - l = i + 1
    <3>1. i \in 1..(b - a + 1)
      BY <1>12
    <3>2. x[i] = u[j]
      BY <1>14, <3>1
    <3>3. j \in p..e /\ j - l = i + 1
      BY <1>13
    <3> QED
      BY <1>6, <3>2, <3>3
  <2> HIDE DEF j
  <2>2. u[j].type = s[j - l].type /\ u[j].accepted = s[j - l].accepted
    BY <1>4, <2>1
  <2> QED
    BY <1>1, <2>1, <2>2
<1>17. Happened(x) = Happened(work)
  BY <1>1, <1>14, <1>15, <1>16, SameHappened DEF n
<1> QED
  BY <1>8, <1>11, <1>17 DEF x, a, b, p, e, l

-----------------------------------------------------------------------------
(* The trace of a run *)

\* The totals of a case show that something is missing.
Missed(x, trace, c) ==
  \/ Open(trace, c)
  \/ Cardinality(Frames(trace, c)) # x.framesRun
  \/ x.status = "LimitExceeded" /\ x.framesRun = 0

\* Records are of cases that were begun, and as long as none was refused the
\* frames of every case are on the trace.
Placed(r) ==
  /\ \A i \in 1..Len(r.trace) : r.trace[i].case \in 1..r.case
  /\ ~r.lost => \A c \in 1..Len(r.truth) : Layout(r.trace, c, r.truth[c])

\* A record was refused: no frame has started yet, or it shows.
Losing(r) ==
  /\ r.phase \in {"input", "advance", "final", "done"}
  /\ r.phase \in {"input", "advance"} => r.frame = 1 /\ Frames(r.trace, r.case) = {}
  /\ r.phase = "final" => Missed(r.result, r.trace, r.case)
  /\ r.phase = "done" => \E c \in 1..Len(r.results) : Missed(r.results[c], r.trace, c)

TotalsInv(r) ==
  /\ Placed(r)
  /\ r.phase = "done" => Len(r.results) = Len(r.truth)
  /\ r.lost => Losing(r)

LEMMA PlacedKept ==
  ASSUME NEW r, Placed(r), NEW q, q.trace = r.trace, q.case = r.case, q.lost = r.lost,
         q.truth = r.truth
  PROVE  Placed(q)
BY DEF Placed

LEMMA NoFrames ==
  ASSUME NEW t, IsSeq(t), NEW k \in Nat, \A i \in 1..Len(t) : t[i].case \in 1..k,
         NEW c, c \notin 1..k
  PROVE  Frames(t, c) = {}
BY FramesIs

LEMMA EndCaseTotals ==
  ASSUME NEW r, Ending(r), Placed(r), r.lost => Missed(r.result, r.trace, r.case)
  PROVE  TotalsInv(EndCase(r))
<1> DEFINE q == CaseEnds(r)
           c == r.case
           t == r.trace
           T == r.truth
<1>1. RunTyped(r) /\ CasesPassed(r, c - 1) /\ Len(T) = c
  BY DEF Ending
<1>2. /\ Keeps(r, q, {"results", "status"})
      /\ q.status = "Passed" <=> r.result.status = "Passed"
      /\ IsSeq(q.results) /\ Len(q.results) = c
      /\ q.results[c] = r.result
  BY <1>1, CaseEndsFacts DEF CasesPassed
<1>3. Ended(q)
  BY CaseEndsEnded
<1>4. c \in Nat \ {0} /\ IsSeq(t) /\ c \in 1..Len(r.suite) /\ Len(r.suite) \in Nat
  <2>1. IsSeq(r.suite) /\ c \in 1..Len(r.suite)
    BY <1>1 DEF RunTyped, IsSuite
  <2>2. Len(r.suite) \in Nat
    BY <2>1, IsSeqFacts
  <2> QED
    BY <1>1, <2>1, <2>2 DEF RunTyped, Charged
<1>5. EndCase(r) = NextCase(q)
  BY DEF EndCase
<1> HIDE DEF q
<1>6. /\ q.suite = r.suite /\ q.case = c /\ q.trace = t /\ q.lost = r.lost
      /\ q.result = r.result /\ q.truth = T
  BY <1>2 DEF Keeps, RunFields
<1>7. RunTyped(q)
  BY <1>3 DEF Ended
<1>8. \A d : d \notin 1..c => Layout(t, d, <<>>)
  <2> SUFFICES ASSUME NEW d, d \notin 1..c PROVE Layout(t, d, <<>>)
    OBVIOUS
  <2>1. Frames(t, d) = {}
    BY <1>4, NoFrames DEF Placed
  <2> QED
    BY <2>1, LayoutEmpty
<1>9. CASE Rest(q) # <<>> /\ q.status = "Passed"
  <2> DEFINE k == c + 1
             b == BeginCase(q, k)
  <2>1. NextCase(q) = b
    BY <1>6, <1>9, NextCaseIs
  <2>2. k \in 1..Len(q.suite)
    <3>1. c < Len(r.suite)
      BY <1>6, <1>7, <1>9, RestFacts DEF RunTyped
    <3> QED
      BY <1>4, <1>6, <3>1
  <2>3. DOMAIN q = RunFields /\ IsSuite(q.suite) /\ IsSeq(q.truth)
    BY <1>7 DEF RunTyped
  <2> DEFINE z == <<>>
  <2> HIDE DEF k
  <2>4. /\ Keeps(q, b, BeginFields)
        /\ b.case = k /\ b.phase = "prepare"
        /\ b.truth = Append(q.truth, z)
    BY <2>2, <2>3, BeginCaseFacts
  <2> HIDE DEF b, z
  <2>5. b.trace = t /\ b.lost = r.lost
    BY <1>6, <2>4 DEF Keeps, RunFields, BeginFields
  <2>6. ~r.lost
    <3>1. ~r.exhausted
      BY <1>2, <1>9 DEF Ending
    <3> QED
      BY <1>1, <3>1 DEF RunTyped
  <2>7. /\ Len(b.truth) = c + 1
        /\ \A i \in 1..c : b.truth[i] = T[i]
        /\ b.truth[c + 1] = z
    <3>1. /\ Len(Append(T, z)) = Len(T) + 1
          /\ \A i \in 1..Len(T) : Append(T, z)[i] = T[i]
          /\ Append(T, z)[Len(T) + 1] = z
      BY <1>6, <2>3, AppendFacts
    <3> QED
      BY <1>1, <1>6, <2>4, <3>1
  <2>8. \A i \in 1..Len(b.trace) : b.trace[i].case \in 1..b.case
    <3>1. \A i \in 1..Len(t) : t[i].case \in 1..c
      BY DEF Placed
    <3>2. 1..c \subseteq 1..k
      BY <1>4 DEF k
    <3> QED
      BY <2>4, <2>5, <3>1, <3>2
  <2>9. ASSUME NEW d \in 1..Len(b.truth) PROVE Layout(b.trace, d, b.truth[d])
    <3>1. d \in 1..c \/ (d = c + 1 /\ d \notin 1..c)
      BY <1>4, <2>7
    <3>2. CASE d \in 1..c
      BY <1>1, <2>5, <2>6, <2>7, <3>2 DEF Placed
    <3>3. CASE d = c + 1 /\ d \notin 1..c
      BY <1>8, <2>5, <2>7, <3>3 DEF z
    <3> QED
      BY <3>1, <3>2, <3>3
  <2>10. TotalsInv(b)
    BY <2>4, <2>5, <2>6, <2>8, <2>9 DEF TotalsInv, Placed
  <2> QED
    BY <1>5, <2>1, <2>10
<1>10. CASE ~(Rest(q) # <<>> /\ q.status = "Passed")
  <2> DEFINE f == Finished(q)
             n == Len(q.suite) - q.case
  <2>1. NextCase(q) = f
    BY <1>10, NextCaseIs
  <2>2. /\ Keeps(q, f, {"phase", "results", "truth"})
        /\ f.phase = "done"
        /\ Len(f.results) = Len(q.results) + n
        /\ \A i \in 1..Len(q.results) : f.results[i] = q.results[i]
        /\ Len(f.truth) = Len(q.truth) + n
        /\ \A i \in 1..Len(q.truth) : f.truth[i] = q.truth[i]
        /\ \A i \in (Len(q.truth) + 1)..(Len(q.truth) + n) : f.truth[i] = <<>>
    BY <1>7, FinishedFacts
  <2> HIDE DEF f
  <2>3. f.trace = t /\ f.lost = r.lost /\ f.case = c
    BY <1>6, <2>2 DEF Keeps, RunFields
  <2>4. n \in Nat
    BY <1>4, <1>6
  <2> HIDE DEF n
  <2>5. \A i \in 1..Len(f.trace) : f.trace[i].case \in 1..f.case
    BY <2>3 DEF Placed
  <2>6. ASSUME NEW d \in 1..Len(f.truth), ~r.lost PROVE Layout(f.trace, d, f.truth[d])
    <3>1. d \in 1..c \/ (d \in (c + 1)..(c + n) /\ d \notin 1..c)
      BY <1>1, <1>4, <1>6, <2>2, <2>4
    <3>2. CASE d \in 1..c
      BY <1>1, <1>6, <2>2, <2>3, <2>6, <3>2 DEF Placed
    <3>3. CASE d \in (c + 1)..(c + n) /\ d \notin 1..c
      BY <1>1, <1>6, <1>8, <2>2, <2>3, <3>3
    <3> QED
      BY <3>1, <3>2, <3>3
  <2>7. Len(f.results) = Len(f.truth)
    BY <1>1, <1>2, <1>6, <2>2
  <2>8. ASSUME r.lost PROVE \E d \in 1..Len(f.results) : Missed(f.results[d], f.trace, d)
    <3>1. c \in 1..Len(f.results) /\ c \in 1..Len(q.results)
      BY <1>2, <1>4, <2>2, <2>4
    <3>2. f.results[c] = r.result
      BY <1>2, <2>2, <3>1
    <3>3. Missed(r.result, t, c)
      BY <2>8
    <3> QED
      BY <2>3, <3>1, <3>2, <3>3
  <2>9. TotalsInv(f)
    BY <2>2, <2>3, <2>5, <2>6, <2>7, <2>8 DEF TotalsInv, Placed, Losing
  <2> QED
    BY <1>5, <2>1, <2>9
<1> QED
  BY <1>9, <1>10

\* A spent budget is the reason of the stop.
LEMMA StopStatus ==
  ASSUME NEW r, DOMAIN r = RunFields, IsResult(r.result), NEW status
  PROVE  /\ r.result.status = "Passed" /\ r.exhausted =>
              Stop(r, status).result.status = "LimitExceeded"
         /\ r.result.status # "Passed" => Stop(r, status) = r
         /\ Stop(r, status).result.framesRun = r.result.framesRun
         /\ Stop(r, status).trace = r.trace /\ Stop(r, status).case = r.case
         /\ Stop(r, status).lost = r.lost /\ Stop(r, status).truth = r.truth
<1>1. /\ Keeps(r, Stop(r, status), {"result"})
      /\ \A f \in ResultFields \ {"status"} : Stop(r, status).result[f] = r.result[f]
  BY StopFacts
<1>2. r.result.status # "Passed" => Stop(r, status) = r
  BY DEF Stop
<1>3. ASSUME r.result.status = "Passed", r.exhausted
      PROVE  Stop(r, status).result.status = "LimitExceeded"
  <2>1. Stop(r, status) = [r EXCEPT !.result = [r.result EXCEPT !.status = "LimitExceeded"]]
    BY <1>3 DEF Stop, RunFields, IsResult, ResultFields
  <2> DEFINE x == [r.result EXCEPT !.status = "LimitExceeded"]
  <2>2. x.status = "LimitExceeded"
    BY DEF IsResult, ResultFields
  <2> HIDE DEF x
  <2> QED
    BY <2>1, <2>2 DEF RunFields, x
<1>4. Stop(r, status).result.framesRun = r.result.framesRun
  BY <1>1 DEF ResultFields
<1>5. /\ Stop(r, status).trace = r.trace /\ Stop(r, status).case = r.case
      /\ Stop(r, status).lost = r.lost /\ Stop(r, status).truth = r.truth
  BY <1>1 DEF Keeps, RunFields
<1> QED
  BY <1>2, <1>3, <1>4, <1>5

\* A case that ends with a stop, of a budget that is spent if a record was lost.
LEMMA StopEndsTotals ==
  ASSUME NEW r, Core(r), Placed(r), NEW status, status # "Passed",
         r.lost => Missed(Stop(r, status).result, r.trace, r.case)
  PROVE  TotalsInv(EndCase(Stop(r, status)))
<1> DEFINE s == Stop(r, status)
<1>1. s.trace = r.trace /\ s.case = r.case /\ s.lost = r.lost /\ s.truth = r.truth
  BY StopStatus DEF Core, RunTyped
<1>2. Ending(s)
  BY StopEnding
<1> HIDE DEF s
<1>3. Placed(s)
  BY <1>1, PlacedKept
<1>4. s.lost => Missed(s.result, s.trace, s.case)
  BY <1>1 DEF s
<1>5. TotalsInv(EndCase(s))
  BY <1>2, <1>3, <1>4, EndCaseTotals
<1> QED
  BY <1>5 DEF s

\* The record of the session's start is no frame.
LEMMA OpenedPlaced ==
  ASSUME NEW r, Core(r), Placed(r)
  PROVE  /\ Placed(Opened(r))
         /\ Opened(r).lost => Opened(r).trace = r.trace
<1> DEFINE o == Opened(r)
           e == Event("SessionStarted")
           s == Store(r, <<e>>)
           x == Traced(r, e)
           t == r.trace
           u == o.trace
<1>1. RunTyped(r)
  BY DEF Core
<1>2. /\ StoreFacts(r, e, s)
      /\ Keeps(s, o, {"lost"})
      /\ o.lost <=> s.exhausted
      /\ Keeps(r, o, StoreFields \cup {"lost"})
      /\ Charged(o)
  BY <1>1, OpenedFacts
<1>3. x.case = r.case /\ x.type = "SessionStarted"
  BY DEF Traced, Event
<1> HIDE DEF o, s, e, x
<1>4. o.truth = r.truth /\ o.case = r.case /\ u = s.trace
  BY <1>2 DEF Keeps, RunFields, StoreFields
<1>5. r.lost => r.exhausted
  BY <1>1 DEF RunTyped
<1>6. IsSeq(t) /\ Len(t) \in Nat /\ r.case \in Nat \ {0}
  <2>1. IsSeq(r.suite) /\ r.case \in 1..Len(r.suite) /\ IsSeq(t)
    BY <1>1 DEF RunTyped, IsSuite, Charged
  <2>2. Len(r.suite) \in Nat /\ Len(t) \in Nat
    BY <2>1, IsSeqFacts
  <2> QED
    BY <2>1, <2>2
<1>7. CASE s.exhausted /\ s.trace = t
  <2>1. o.lost /\ u = t
    BY <1>2, <1>4, <1>7
  <2> QED
    BY <1>4, <2>1 DEF Placed, o
<1>8. CASE ~r.exhausted /\ ~s.exhausted /\ s.trace = Append(t, x)
  <2>1. ~o.lost /\ ~r.lost
    BY <1>2, <1>5, <1>8
  <2>2. /\ IsSeq(Append(t, x)) /\ Len(Append(t, x)) = Len(t) + 1
        /\ \A i \in 1..Len(t) : Append(t, x)[i] = t[i]
        /\ Append(t, x)[Len(t) + 1] = x
    BY <1>6, AppendFacts
  <2>3. u = Append(t, x)
    BY <1>4, <1>8
  <2> HIDE DEF u, t
  <2>4. /\ IsSeq(u) /\ Len(u) = Len(t) + 1
        /\ \A i \in 1..Len(t) : u[i] = t[i]
        /\ u[Len(t) + 1] = x
    BY <2>2, <2>3
  <2>5. Extends(t, u)
    <3>1. Len(t) <= Len(u)
      BY <1>6, <2>4
    <3> QED
      BY <1>6, <2>4, <3>1 DEF Extends
  <2>6. \A i \in (Len(t) + 1)..Len(u) : u[i] = x
    BY <1>6, <2>4
  <2>7. ASSUME NEW i \in 1..Len(u) PROVE u[i].case \in 1..r.case
    <3>1. i \in 1..Len(t) \/ i \in (Len(t) + 1)..Len(u)
      BY <1>6, <2>4
    <3>2. r.case \in 1..r.case
      BY <1>6
    <3> QED
      BY <1>3, <2>4, <2>6, <3>1, <3>2 DEF Placed, t
  <2>8. ASSUME NEW c \in 1..Len(r.truth) PROVE Layout(u, c, r.truth[c])
    <3>1. Frames(u, c) = Frames(t, c)
      BY <1>3, <2>5, <2>6, FramesSame
    <3>2. Layout(t, c, r.truth[c])
      BY <2>1 DEF Placed, t
    <3> QED
      BY <2>5, <3>1, <3>2, LayoutStays
  <2>9. Placed(o)
    BY <1>4, <2>7, <2>8 DEF Placed, u
  <2> QED
    BY <2>1, <2>9 DEF o
<1> QED
  BY <1>2, <1>7, <1>8 DEF StoreFacts, x

\* Nothing happened in a case: it has no frames.
LEMMA LayoutNone ==
  ASSUME NEW t, NEW c, NEW T, Layout(t, c, T), Len(T) = 0
  PROVE  Frames(t, c) = {}
<1>1. PICK at : Listed(t, c, T, at)
  BY DEF Layout
<1>2. 1..Len(at) = {}
  BY <1>1 DEF Listed
<1> QED
  BY <1>1, <1>2 DEF Listed

LEMMA PrepareCaseTotals ==
  ASSUME RunInv(run), TotalsInv(run), PrepareCase
  PROVE  TotalsInv(run')
<1> DEFINE o == Opened(run)
           T == run.truth[run.case]
           s == Stop(o, "HostError")
<1>1. run.phase = "prepare" /\ Core(run) /\ InCase(run, run.result, T)
  BY RunInvIs DEF PrepareCase
<1>2. run.frame = 1 /\ run.result.status = "Passed" /\ FramesPassed(run.result, T, 0)
      /\ Len(T) = 0
  BY <1>1 DEF InCase
<1>3. Placed(run) /\ ~run.lost
  BY <1>1 DEF TotalsInv, Losing
<1>4. /\ Core(o) /\ o.result = run.result /\ o.case = run.case /\ o.frame = run.frame
      /\ DOMAIN o = RunFields /\ (o.lost => o.exhausted)
  BY <1>1, OpenedCore
<1>5. Placed(o) /\ (o.lost => o.trace = run.trace)
  BY <1>1, <1>3, OpenedPlaced
<1>6. PICK p \in Preparations(run.manifest), caught \in BOOLEAN :
        run' = CASE o.exhausted /\ ~caught -> EndCase(Stop(o, "HostError"))
                 [] p.made # "world" -> EndCase(Stop(o, "HostError"))
                 [] ManifestMismatch(run.manifest, p.isolated) -> EndCase(Stop(o, "HostError"))
                 [] ~EffectsFit(run.manifest, p.addresses) -> EndCase(Stop(o, "HostError"))
                 [] OTHER -> [o EXCEPT !.phase = "input",
                                       !.granted = {a.component : a \in ToSet(p.addresses)}]
  BY DEF PrepareCase, Opened
<1> DEFINE g == {a.component : a \in ToSet(p.addresses)}
<1> HIDE DEF o, g
<1>7. run' = EndCase(s) \/ run' = [o EXCEPT !.phase = "input", !.granted = g]
  BY <1>6 DEF g
<1>8. CASE run' = EndCase(s)
  <2>1. /\ o.result.status = "Passed" /\ o.exhausted => s.result.status = "LimitExceeded"
        /\ s.result.framesRun = o.result.framesRun
    BY <1>4, StopStatus DEF Core, RunTyped
  <2>2. o.result.framesRun = 0
    BY <1>2, <1>4 DEF FramesPassed
  <2>3. o.lost => Missed(s.result, o.trace, o.case)
    BY <1>2, <1>4, <2>1, <2>2 DEF Missed
  <2> QED
    BY <1>4, <1>5, <1>8, <2>3, StopEndsTotals
<1>9. CASE run' = [o EXCEPT !.phase = "input", !.granted = g]
  <2>1. /\ run'.phase = "input" /\ run'.frame = o.frame /\ run'.trace = o.trace
        /\ run'.case = o.case /\ run'.lost = o.lost /\ run'.truth = o.truth
    BY <1>4, <1>9 DEF RunFields
  <2>2. Placed(run')
    BY <1>5, <2>1, PlacedKept
  <2>3. Frames(run.trace, run.case) = {}
    <3>1. run.case \in 1..Len(run.truth)
      <4>1. IsSeq(run.suite) /\ run.case \in 1..Len(run.suite) /\ Len(run.truth) = run.case
        BY <1>1 DEF Core, RunTyped, IsSuite
      <4>2. Len(run.suite) \in Nat
        BY <4>1, IsSeqFacts
      <4> QED
        BY <4>1, <4>2
    <3>2. Layout(run.trace, run.case, T)
      BY <1>3, <3>1 DEF Placed
    <3> QED
      BY <1>2, <3>2, LayoutNone
  <2>4. run'.lost => run'.frame = 1 /\ Frames(run'.trace, run'.case) = {}
    BY <1>2, <1>4, <1>5, <2>1, <2>3
  <2> QED
    BY <2>1, <2>2, <2>4 DEF TotalsInv, Losing
<1> QED
  BY <1>7, <1>8, <1>9

\* The case goes to its end, without another record.
LEMMA FinalTotals ==
  ASSUME NEW r, Placed(r), NEW q, q.trace = r.trace, q.case = r.case, q.lost = r.lost,
         q.truth = r.truth, q.phase = "final", q.lost => Missed(q.result, q.trace, q.case)
  PROVE  TotalsInv(q)
<1>1. Placed(q)
  BY PlacedKept
<1> QED
  BY <1>1 DEF TotalsInv, Losing

LEMMA ApplyInputTotals ==
  ASSUME RunInv(run), TotalsInv(run), ApplyInput
  PROVE  TotalsInv(run')
<1> DEFINE T == run.truth[run.case]
<1>1. run.phase = "input" /\ Core(run) /\ InCase(run, run.result, T) /\ Placed(run)
  BY RunInvIs DEF ApplyInput, TotalsInv
<1>2. DOMAIN run = RunFields /\ IsResult(run.result)
  BY <1>1 DEF Core, RunTyped
<1>3. run.result.status = "Passed" /\ run.result.framesRun = run.frame - 1
  BY <1>1 DEF InCase, FramesPassed
<1>4. run.lost => run.exhausted /\ run.frame = 1 /\ Frames(run.trace, run.case) = {}
  BY <1>1 DEF Core, RunTyped, TotalsInv, Losing
<1>5. CASE run' = [run EXCEPT !.phase = "advance"]
  <2>1. /\ run'.phase = "advance" /\ run'.frame = run.frame /\ run'.trace = run.trace
        /\ run'.case = run.case /\ run'.lost = run.lost /\ run'.truth = run.truth
    BY <1>2, <1>5 DEF RunFields
  <2>2. Placed(run')
    BY <1>1, <2>1, PlacedKept
  <2> QED
    BY <1>4, <2>1, <2>2 DEF TotalsInv, Losing
<1>6. CASE run' = [Stop(run, "HostError") EXCEPT !.phase = "final"]
  <2> DEFINE s == Stop(run, "HostError")
  <2>1. /\ run.result.status = "Passed" /\ run.exhausted => s.result.status = "LimitExceeded"
        /\ s.result.framesRun = run.result.framesRun
        /\ s.trace = run.trace /\ s.case = run.case /\ s.lost = run.lost /\ s.truth = run.truth
    BY <1>2, StopStatus
  <2>2. DOMAIN s = RunFields
    BY <1>2, StopFacts DEF Keeps
  <2> HIDE DEF s
  <2>3. /\ run'.phase = "final" /\ run'.trace = s.trace /\ run'.case = s.case
        /\ run'.lost = s.lost /\ run'.truth = s.truth /\ run'.result = s.result
    BY <1>6, <2>2 DEF RunFields, s
  <2>4. ASSUME run.lost PROVE Missed(run'.result, run'.trace, run'.case)
    <3>1. run.result.framesRun = 0
      BY <1>3, <1>4, <2>4
    <3> QED
      BY <1>3, <1>4, <2>1, <2>3, <2>4, <3>1 DEF Missed
  <2> QED
    BY <1>1, <2>1, <2>3, <2>4, FinalTotals
<1> QED
  BY <1>5, <1>6 DEF ApplyInput

\* As many frames have started as the ones before the current one.
LEMMA FramesCounted ==
  ASSUME NEW r, RunInv(r), TotalsInv(r), r.phase \in {"input", "advance"}
  PROVE  /\ Cardinality(Frames(r.trace, r.case)) = r.frame - 1
         /\ r.result.framesRun = r.frame - 1
         /\ r.frame \in Nat \ {0}
<1> DEFINE T == r.truth[r.case]
<1>1. Core(r) /\ InCase(r, r.result, T)
  BY RunInvIs
<1>2. /\ r.result.framesRun = r.frame - 1 /\ Len(T) = r.frame - 1
      /\ r.frame \in 1..r.result.framesScheduled
  BY <1>1 DEF InCase, FramesPassed
<1>3. r.frame \in Nat \ {0}
  BY <1>1, <1>2 DEF Core, RunTyped, IsResult
<1>4. CASE r.lost
  <2>1. r.frame = 1 /\ Frames(r.trace, r.case) = {}
    BY <1>4 DEF TotalsInv, Losing
  <2> QED
    BY <1>2, <1>3, <2>1, FS_EmptySet
<1>5. CASE ~r.lost
  <2>1. r.case \in 1..Len(r.truth) /\ IsSeq(r.trace)
    <3>1. /\ IsSeq(r.suite) /\ r.case \in 1..Len(r.suite) /\ Len(r.truth) = r.case
          /\ IsSeq(r.trace)
      BY <1>1 DEF Core, RunTyped, IsSuite, Charged
    <3>2. Len(r.suite) \in Nat
      BY <3>1, IsSeqFacts
    <3> QED
      BY <3>1, <3>2
  <2>2. Layout(r.trace, r.case, T)
    BY <1>5, <2>1 DEF TotalsInv, Placed
  <2>3. Cardinality(Frames(r.trace, r.case)) = Len(T)
    BY <2>1, <2>2, LayoutTotals
  <2> QED
    BY <1>2, <1>3, <2>3
<1> QED
  BY <1>4, <1>5

\* After a frame its records are on the trace, or one is missed.
LEMMA AfterTotals ==
  ASSUME NEW r, RunInv(r), TotalsInv(r), r.phase = "advance", NEW work \in Work, NEW failed
  PROVE  LET a == After(r, work, failed)
         IN  /\ Placed(a)
             /\ a.lost => \/ Open(a.trace, a.case)
                          \/ Cardinality(Frames(a.trace, a.case)) = r.frame - 1
<1> DEFINE s == FrameRecords(work, failed)
           q == RecordFrame(r, work, failed)
           a == After(r, work, failed)
           c == r.case
           t == r.trace
           u == a.trace
           h == Happened(work)
           n == Len(work)
<1>1. Core(r) /\ Placed(r) /\ RunTyped(r)
  BY RunInvIs DEF TotalsInv, Core
<1>2. /\ StoredUpTo(r, s, Len(s), q)
      /\ Keeps(q, a, {"lost", "truth"})
      /\ a.lost <=> q.exhausted
  BY <1>1, AfterFacts
<1>3. /\ a.case = c
      /\ a.truth[c] = Append(r.truth[c], h)
      /\ \A i \in 1..Len(r.truth) : i # c => a.truth[i] = r.truth[i]
      /\ Len(a.truth) = Len(r.truth)
  BY <1>1, AfterCore
<1>4. n \in Nat /\ Len(s) = n + 2
  BY FrameRecordsFacts
<1>5. IsSeq(t) /\ c \in Nat \ {0} /\ c \in 1..c
  <2>1. IsSeq(r.suite) /\ c \in 1..Len(r.suite) /\ IsSeq(t)
    BY <1>1 DEF RunTyped, IsSuite, Charged
  <2>2. Len(r.suite) \in Nat
    BY <2>1, IsSeqFacts
  <2> QED
    BY <2>1, <2>2
<1>6. /\ Cardinality(Frames(t, c)) = r.frame - 1
  BY FramesCounted
<1> HIDE DEF q, a
<1>7. u = q.trace
  BY <1>2 DEF Keeps, RunFields
<1>8. PICK m \in 0..(n + 2) :
        /\ q.trace = t \o Traces(r, s, m)
        /\ ~q.exhausted => m = n + 2
        /\ q.exhausted /\ ~r.exhausted => m < n + 2
        /\ r.exhausted => m = 0
  BY <1>2, <1>4 DEF StoredUpTo
<1>9. m \in Nat
  BY <1>4
<1> HIDE DEF s, t
<1>10. Grown(t, u, c, s, m)
  <2>1. Grown(r.trace, r.trace \o Traces(r, s, m), r.case, s, m)
    BY <1>5, <1>9, TracesGrow DEF t
  <2> QED
    BY <1>7, <1>8, <2>1 DEF t
<1> HIDE DEF u
<1>11. Extends(t, u)
  BY <1>10 DEF Grown
<1>12. \A i \in 1..Len(u) : u[i].case \in 1..c
  <2> DEFINE S == 1..c
  <2>1. c \in S /\ \A i \in 1..Len(t) : t[i].case \in S
    BY <1>1, <1>5 DEF Placed, t
  <2> HIDE DEF S, c
  <2>2. \A i \in 1..Len(u) : u[i].case \in S
    BY <1>9, <1>10, <2>1, GrownCases
  <2> QED
    BY <2>2 DEF S
<1>13. ASSUME ~a.lost, NEW d \in 1..Len(a.truth) PROVE Layout(u, d, a.truth[d])
  <2>1. ~q.exhausted /\ m = n + 2
    BY <1>2, <1>8, <1>13
  <2>2. ~r.exhausted /\ ~r.lost
    BY <1>1, <1>2, <2>1 DEF StoredUpTo, RunTyped
  <2>3. Layout(t, d, r.truth[d])
    BY <1>1, <1>3, <1>13, <2>2 DEF Placed, t
  <2>4. CASE d # c
    <3>1. Frames(u, d) = Frames(t, d)
      BY <1>9, <1>10, <2>4, GrownOthers
    <3>2. a.truth[d] = r.truth[d]
      BY <1>3, <1>13, <2>4
    <3> QED
      BY <1>11, <2>3, <3>1, <3>2, LayoutStays
  <2>5. CASE d = c
    <3> DEFINE p == Len(t) + 1
    <3>1. Grown(t, u, c, FrameRecords(work, failed), n + 2)
      BY <1>10, <2>1 DEF s
    <3>2. Closed(u, p) /\ Happened(FrameAt(u, p)) = h
      BY <3>1, GrownFrame
    <3>3. m \in 1..(Len(work) + 2) /\ m \in Nat
      BY <1>4, <2>1
    <3>4. Grown(t, u, c, FrameRecords(work, failed), m)
      BY <1>10 DEF s
    <3>5. Frames(u, c) = Frames(t, c) \cup {p}
      BY ONLY work \in Work, <3>3, <3>4, GrownStart DEF p
    <3>6. p = Len(t) + 1
      OBVIOUS
    <3> HIDE DEF p, h
    <3>7. Layout(u, c, Append(r.truth[c], Happened(FrameAt(u, p))))
      BY <1>11, <2>3, <2>5, <3>2, <3>5, <3>6, LayoutGrows
    <3> QED
      BY <1>3, <2>5, <3>2, <3>7 DEF h
  <2> QED
    BY <2>4, <2>5
<1>14. Placed(a)
  BY <1>3, <1>12, <1>13 DEF Placed, u
<1>15. ASSUME a.lost PROVE Open(u, c) \/ Cardinality(Frames(u, c)) = r.frame - 1
  <2>1. m # n + 2
    <3>1. CASE r.exhausted
      BY <1>4, <1>8, <3>1
    <3>2. CASE ~r.exhausted
      BY <1>2, <1>4, <1>8, <1>15, <3>2
    <3> QED
      BY <3>1, <3>2
  <2>2. CASE m = 0
    <3>1. Frames(u, c) = Frames(t, c)
      <4>1. Len(u) = Len(t) + 0 /\ Len(t) \in Nat
        BY <1>5, <1>10, <2>2, IsSeqFacts DEF Grown
      <4>2. (Len(t) + 1)..Len(u) = {}
        BY <4>1
      <4> QED
        BY <1>11, <4>2, FramesSame
    <3> QED
      BY <1>6, <3>1
  <2>3. CASE m # 0
    <3>1. m \in 1..(Len(work) + 1) /\ m \in Nat
      BY <1>4, <2>1, <2>3
    <3>2. Grown(t, u, c, FrameRecords(work, failed), m)
      BY <1>10 DEF s
    <3>3. Open(u, c)
      BY ONLY work \in Work, <3>1, <3>2, GrownOpen
    <3> QED
      BY <3>3
  <2> QED
    BY <2>2, <2>3
<1> QED
  BY <1>3, <1>14, <1>15 DEF u, a

\* A frame that failed: its summary counts it, whether it is on the trace or not.
LEMMA FailedTotals ==
  ASSUME NEW r, Core(r), Placed(r), NEW n \in Nat, r.result.framesRun = n,
         r.lost => Open(r.trace, r.case) \/ Cardinality(Frames(r.trace, r.case)) = n,
         NEW q, q = [Stop(AddSummary(r, FailedFrame), "HostError") EXCEPT !.phase = "final"]
  PROVE  TotalsInv(q)
<1> DEFINE f == FailedFrame
           s == AddSummary(r, f)
           u == Stop(s, "HostError")
<1> HIDE DEF f
<1>1. Keeps(s, s, {"phase", "work"})
  <2>1. DOMAIN s = RunFields
    BY AddSummaryFacts DEF Core, RunTyped, Keeps
  <2> QED
    BY <2>1 DEF Keeps
<1>2. /\ Core(s)
      /\ s.case = r.case /\ s.truth = r.truth /\ s.lost = r.lost /\ s.trace = r.trace
      /\ s.result.framesRun = r.result.framesRun + 1
  BY <1>1, SummaryCore
<1>3. q = [u EXCEPT !.phase = "final"]
  BY DEF f
<1> HIDE DEF s
<1>4. DOMAIN s = RunFields /\ IsResult(s.result)
  BY <1>2 DEF Core, RunTyped
<1>5. /\ u.result.framesRun = s.result.framesRun
      /\ u.trace = s.trace /\ u.case = s.case /\ u.lost = s.lost /\ u.truth = s.truth
  BY <1>4, StopStatus
<1>6. DOMAIN u = RunFields
  BY <1>4, StopFacts DEF Keeps
<1> HIDE DEF u
<1>7. /\ q.phase = "final" /\ q.trace = u.trace /\ q.case = u.case /\ q.lost = u.lost
      /\ q.truth = u.truth /\ q.result = u.result
  BY <1>3, <1>6 DEF RunFields
<1>8. q.result.framesRun = n + 1 /\ n # n + 1
  BY <1>2, <1>5, <1>7
<1>9. q.lost => Missed(q.result, q.trace, q.case)
  BY <1>2, <1>5, <1>7, <1>8 DEF Missed
<1> QED
  BY <1>2, <1>5, <1>7, <1>9, FinalTotals

LEMMA AdvanceTotals ==
  ASSUME RunInv(run), TotalsInv(run), Advance
  PROVE  TotalsInv(run')
<1> DEFINE n == run.frame - 1
<1>1. run.phase = "advance" /\ Core(run) /\ Placed(run)
  BY RunInvIs DEF Advance, TotalsInv
<1>2. /\ Cardinality(Frames(run.trace, run.case)) = n
      /\ run.result.framesRun = n
      /\ n \in Nat
  <2>1. run.frame \in Nat \ {0}
    BY <1>1, FramesCounted
  <2>2. n \in Nat
    BY <2>1
  <2> QED
    BY <1>1, <2>2, FramesCounted
<1> HIDE DEF n
<1>3. CASE run' = [Stop(AddSummary(run, FailedFrame), "HostError") EXCEPT !.phase = "final"]
  BY <1>1, <1>2, <1>3, FailedTotals
<1>4. ASSUME NEW work \in Work, NEW failed \in BOOLEAN,
             LET a == After(run, work, failed)
             IN  run' = IF failed \/ a.exhausted
                        THEN [Stop(AddSummary(a, FailedFrame), "HostError") EXCEPT !.phase = "final"]
                        ELSE [a EXCEPT !.phase = "observe", !.work = work]
      PROVE  TotalsInv(run')
  <2> DEFINE a == After(run, work, failed)
  <2>1. Core(a) /\ a.result = run.result /\ (a.lost <=> a.exhausted)
    BY <1>1, AfterCore
  <2>2. /\ Placed(a)
        /\ a.lost => Open(a.trace, a.case) \/ Cardinality(Frames(a.trace, a.case)) = n
    BY <1>1, AfterTotals DEF n
  <2>3. CASE failed \/ a.exhausted
    <3>1. run' = [Stop(AddSummary(a, FailedFrame), "HostError") EXCEPT !.phase = "final"]
      BY <1>4, <2>3
    <3> HIDE DEF a
    <3>2. a.result.framesRun = n
      BY <1>2, <2>1
    <3> QED
      BY <1>2, <2>1, <2>2, <3>1, <3>2, FailedTotals
  <2>4. CASE ~(failed \/ a.exhausted)
    <3>1. run' = [a EXCEPT !.phase = "observe", !.work = work]
      BY <1>4, <2>4
    <3>2. DOMAIN a = RunFields
      BY <2>1 DEF Core, RunTyped
    <3> HIDE DEF a
    <3>3. /\ run'.phase = "observe" /\ run'.trace = a.trace /\ run'.case = a.case
          /\ run'.lost = a.lost /\ run'.truth = a.truth
      BY <3>1, <3>2 DEF RunFields
    <3>4. Placed(run') /\ ~run'.lost
      BY <2>1, <2>2, <2>4, <3>3, PlacedKept
    <3> QED
      BY <3>3, <3>4 DEF TotalsInv
  <2> QED
    BY <2>3, <2>4
<1> QED
  BY <1>3, <1>4, AdvanceIs

\* No record was refused, and none is added.
LEMMA MovedTotals ==
  ASSUME NEW r, TotalsInv(r), ~r.lost, NEW q, q.trace = r.trace, q.case = r.case,
         q.lost = r.lost, q.truth = r.truth, q.phase # "done"
  PROVE  TotalsInv(q)
<1>1. Placed(q)
  BY PlacedKept DEF TotalsInv
<1> QED
  BY <1>1 DEF TotalsInv

LEMMA ObserveTotals ==
  ASSUME RunInv(run), TotalsInv(run), Observe
  PROVE  TotalsInv(run')
<1>1. run.phase = "observe" /\ Core(run) /\ ~run.lost
  BY RunInvIs DEF Observe, TotalsInv, Losing
<1>2. DOMAIN run = RunFields /\ IsResult(run.result)
  BY <1>1 DEF Core, RunTyped
<1>3. CASE run' = [Stop(run, "HostError") EXCEPT !.phase = "final", !.work = <<>>]
  <2> DEFINE s == Stop(run, "HostError")
  <2>1. s.trace = run.trace /\ s.case = run.case /\ s.lost = run.lost /\ s.truth = run.truth
    BY <1>2, StopStatus
  <2>2. DOMAIN s = RunFields
    BY <1>2, StopFacts DEF Keeps
  <2> HIDE DEF s
  <2>3. /\ run'.phase = "final" /\ run'.trace = s.trace /\ run'.case = s.case
        /\ run'.lost = s.lost /\ run'.truth = s.truth
    BY <1>3, <2>2 DEF RunFields, s
  <2> QED
    BY <1>1, <2>1, <2>3, MovedTotals
<1>4. ASSUME NEW lifecycle \in LifecycleStatuses,
             LET seen == [AddSummary(run, Summary(run, lifecycle)) EXCEPT !.work = <<>>]
                 status == FrameStatus(run, lifecycle)
             IN  run' = IF status = "Passed" THEN [seen EXCEPT !.phase = "expect"]
                        ELSE [Stop(seen, status) EXCEPT !.phase = "final"]
      PROVE  TotalsInv(run')
  <2> DEFINE x == Summary(run, lifecycle)
             a == AddSummary(run, x)
             seen == [a EXCEPT !.work = <<>>]
             status == FrameStatus(run, lifecycle)
             s == Stop(seen, status)
  <2>1. run' = [seen EXCEPT !.phase = "expect"] \/ run' = [s EXCEPT !.phase = "final"]
    BY <1>4
  <2>2. DOMAIN a = RunFields
    BY <1>2, AddSummaryFacts DEF Keeps
  <2> HIDE DEF x
  <2>3. Keeps(a, seen, {"phase", "work"})
    <3> HIDE DEF a
    <3> QED
      BY <2>2 DEF Keeps, RunFields
  <2> HIDE DEF seen, status
  <2>4. /\ Core(seen) /\ DOMAIN seen = RunFields
        /\ seen.trace = run.trace /\ seen.case = run.case /\ seen.lost = run.lost
        /\ seen.truth = run.truth
    BY <1>1, <2>3, SummaryCore
  <2>5. IsResult(seen.result)
    BY <2>4 DEF Core, RunTyped
  <2>6. /\ s.trace = seen.trace /\ s.case = seen.case /\ s.lost = seen.lost
        /\ s.truth = seen.truth
    BY <2>4, <2>5, StopStatus
  <2>7. DOMAIN s = RunFields
    BY <2>4, <2>5, StopFacts DEF Keeps
  <2> HIDE DEF s
  <2>8. /\ run'.phase # "done" /\ run'.trace = run.trace /\ run'.case = run.case
        /\ run'.lost = run.lost /\ run'.truth = run.truth
    BY <2>1, <2>4, <2>6, <2>7 DEF RunFields
  <2> QED
    BY <1>1, <2>8, MovedTotals
<1> QED
  BY <1>3, <1>4 DEF Observe

LEMMA ExpectTotals ==
  ASSUME RunInv(run), TotalsInv(run), Expect
  PROVE  TotalsInv(run')
<1>1. run.phase = "expect" /\ Core(run) /\ ~run.lost
  BY RunInvIs DEF Expect, TotalsInv, Losing
<1>2. DOMAIN run = RunFields /\ IsResult(run.result)
  BY <1>1 DEF Core, RunTyped
<1> DEFINE last == Len(run.result.frames)
           next == IF run.frame < TestCase(run).frames
                   THEN [run EXCEPT !.phase = "input", !.frame = @ + 1]
                   ELSE [run EXCEPT !.phase = "final"]
<1>3. CASE run' = [next EXCEPT !.result.frames[last].asserted = TRUE]
  <2>1. /\ DOMAIN next = RunFields /\ next.phase # "done" /\ next.trace = run.trace
        /\ next.case = run.case /\ next.lost = run.lost /\ next.truth = run.truth
    BY <1>2 DEF RunFields
  <2> HIDE DEF next, last
  <2> DEFINE y == [next.result EXCEPT !.frames[last].asserted = TRUE]
  <2>2. run' = [next EXCEPT !.result = y]
    BY <1>3
  <2> HIDE DEF y
  <2>3. /\ run'.phase # "done" /\ run'.trace = run.trace /\ run'.case = run.case
        /\ run'.lost = run.lost /\ run'.truth = run.truth
    BY <2>1, <2>2 DEF RunFields
  <2> QED
    BY <1>1, <2>3, MovedTotals
<1>4. ASSUME NEW status \in {"Failed", "HostError"},
             run' = [Stop(run, status) EXCEPT !.phase = "final"]
      PROVE  TotalsInv(run')
  <2> DEFINE s == Stop(run, status)
  <2>1. s.trace = run.trace /\ s.case = run.case /\ s.lost = run.lost /\ s.truth = run.truth
    BY <1>2, StopStatus
  <2>2. DOMAIN s = RunFields
    BY <1>2, StopFacts DEF Keeps
  <2> HIDE DEF s
  <2>3. /\ run'.phase = "final" /\ run'.trace = s.trace /\ run'.case = s.case
        /\ run'.lost = s.lost /\ run'.truth = s.truth
    BY <1>4, <2>2 DEF RunFields, s
  <2> QED
    BY <1>1, <2>1, <2>3, MovedTotals
<1> QED
  BY <1>3, <1>4 DEF Expect

LEMMA CaptureFinalStateTotals ==
  ASSUME RunInv(run), TotalsInv(run), CaptureFinalState
  PROVE  TotalsInv(run')
<1> DEFINE T == run.truth[run.case]
<1>1. run.phase = "final" /\ Core(run) /\ InCase(run, run.result, T) /\ Placed(run)
  BY RunInvIs, CaptureFinalStateIs DEF TotalsInv
<1>2. run.lost => Missed(run.result, run.trace, run.case)
  BY <1>1 DEF TotalsInv, Losing
<1>3. CASE run' = EndCase(WithState(run))
  <2> DEFINE q == WithState(run)
  <2>1. /\ Ending(q)
        /\ q.truth = run.truth /\ q.case = run.case /\ q.lost = run.lost
        /\ q.trace = run.trace
        /\ q.result.status = run.result.status
        /\ q.result.framesRun = run.result.framesRun
    BY <1>1, FinalEnding
  <2> HIDE DEF q
  <2>2. Placed(q)
    BY <1>1, <2>1, PlacedKept
  <2>3. q.lost => Missed(q.result, q.trace, q.case)
    BY <1>2, <2>1 DEF Missed
  <2>4. TotalsInv(EndCase(q))
    BY <2>1, <2>2, <2>3, EndCaseTotals
  <2> QED
    BY <1>3, <2>4 DEF q
<1>4. CASE run' = EndCase(Stop(run, "HostError"))
  <2>1. run.result.status # "Passed" => Stop(run, "HostError") = run
    BY <1>1, StopStatus DEF Core, RunTyped
  <2>2. run.result.status = "Passed" => ~run.lost
    BY <1>1 DEF InCase, Core, RunTyped
  <2>3. run.lost => Missed(Stop(run, "HostError").result, run.trace, run.case)
    BY <1>2, <2>1, <2>2
  <2> QED
    BY <1>1, <1>4, <2>3, StopEndsTotals
<1> QED
  BY <1>3, <1>4, CaptureFinalStateIs

LEMMA EvaluationStepTotals ==
  ASSUME RunInv(run), TotalsInv(run), EvaluationStep
  PROVE  TotalsInv(run')
BY PrepareCaseTotals, ApplyInputTotals, AdvanceTotals, ObserveTotals, ExpectTotals,
   CaptureFinalStateTotals DEF EvaluationStep

-----------------------------------------------------------------------------
(* The totals that are kept *)

LEMMA NewRunTotals ==
  ASSUME NEW ticket, NEW suite, IsSuite(suite), NEW manifest
  PROVE  TotalsInv(NewRun(ticket, suite, manifest))
<1> DEFINE x == NewResult(suite[1], "Passed")
           z == <<>>
           r == [phase |-> "prepare", ticket |-> ticket, suite |-> suite,
                 manifest |-> manifest, case |-> 1, frame |-> 1, granted |-> {},
                 result |-> x, results |-> z, status |-> "Passed", records |-> 0,
                 bytes |-> 0, exhausted |-> FALSE, trace |-> z, lifecycle |-> "None",
                 work |-> z, truth |-> z, lost |-> FALSE]
           one == 1
           q == BeginCase(r, one)
<1>1. NewRun(ticket, suite, manifest) = q
  BY DEF NewRun
<1>2. IsSeq(z) /\ Len(z) = 0 /\ z = <<>>
  BY EmptyIsSeq
<1> HIDE DEF x, z
<1>3. /\ DOMAIN r = RunFields /\ r.suite = suite /\ r.truth = z /\ r.trace = z
      /\ r.lost = FALSE
  BY DEF RunFields
<1> HIDE DEF r
<1>4. one \in 1..Len(r.suite)
  <2>1. Len(suite) \in Nat \ {0}
    BY IsSeqFacts DEF IsSuite
  <2> QED
    BY <1>3, <2>1
<1> HIDE DEF one
<1>5. Keeps(r, q, BeginFields) /\ q.phase = "prepare" /\ q.truth = Append(z, z)
  BY <1>2, <1>3, <1>4, BeginCaseFacts
<1> HIDE DEF q
<1>6. q.trace = z /\ ~q.lost
  BY <1>3, <1>5 DEF Keeps, BeginFields, RunFields
<1>7. Len(q.truth) = 1 /\ q.truth[1] = z
  <2>1. Len(Append(z, z)) = Len(z) + 1 /\ Append(z, z)[Len(z) + 1] = z
    BY <1>2, AppendFacts
  <2> QED
    BY <1>2, <1>5, <2>1
<1>8. 1..Len(q.trace) = {} /\ Frames(z, 1) = {}
  BY <1>2, <1>6, FramesIs
<1>9. \A c \in 1..Len(q.truth) : Layout(q.trace, c, q.truth[c])
  <2>1. Layout(z, 1, z)
    BY <1>2, <1>8, LayoutEmpty
  <2>2. \A c \in 1..Len(q.truth) : c = 1
    BY <1>7
  <2> QED
    BY <1>6, <1>7, <2>1, <2>2
<1>10. TotalsInv(q)
  BY <1>5, <1>6, <1>8, <1>9 DEF TotalsInv, Placed
<1> QED
  BY <1>1, <1>10

\* What TotalsAreTrue says of one entry.
KeptTotals(e) ==
  TotalsComplete(e.cases, e.trace) =>
    /\ ~e.lost
    /\ \A i \in DOMAIN e.cases : CaseTotals(e.trace, i) = e.truth[i]

\* The cases that are kept are those of the run, as far as the totals look at
\* them; a case that misses a record makes the totals incomplete.
LEMMA EntryTotals ==
  ASSUME NEW ticket, NEW r, RunTyped(r), r.phase = "done", TotalsInv(r)
  PROVE  KeptTotals(Entry(ticket, r))
<1> DEFINE b == BoundResponse(r.status, r.results)
           e == Entry(ticket, r)
           n == Len(r.results)
<1>1. Bounded(r.status, r.results, b)
  BY BoundResponseFacts DEF RunTyped
<1>2. e.cases = b.cases /\ e.trace = r.trace /\ e.truth = r.truth /\ e.lost = r.lost
  BY DEF Entry
<1>3. IsSeq(r.trace)
  BY DEF RunTyped, Charged
<1> HIDE DEF b, e
<1>4. SUFFICES ASSUME TotalsComplete(e.cases, e.trace)
               PROVE  /\ ~e.lost
                      /\ \A i \in DOMAIN e.cases : CaseTotals(e.trace, i) = e.truth[i]
  BY DEF KeptTotals, e
<1>5. DOMAIN b.cases = 1..n /\ Len(b.cases) = n
  <2>1. IsSeq(b.cases) /\ b.cases # <<>>
    BY <1>1, <1>2, <1>4 DEF Bounded, TotalsComplete
  <2>2. Len(b.cases) = n
    BY <1>1, <2>1, OnlyEmptyIsEmpty DEF Bounded
  <2> QED
    BY <2>1, <2>2, IsSeqFacts
<1> HIDE DEF n
<1>6. ASSUME NEW i \in 1..n PROVE ~Missed(r.results[i], r.trace, i)
  <2>1. /\ b.cases[i].framesRun = r.results[i].framesRun
        /\ b.cases[i].status = r.results[i].status
    BY <1>1, <1>5 DEF Bounded
  <2>2. /\ ~Open(r.trace, i)
        /\ Cardinality(Frames(r.trace, i)) = b.cases[i].framesRun
        /\ ~(b.cases[i].status = "LimitExceeded" /\ b.cases[i].framesRun = 0)
    BY <1>2, <1>4, <1>5 DEF TotalsComplete
  <2> QED
    BY <2>1, <2>2 DEF Missed
<1>7. ~r.lost
  BY <1>6 DEF TotalsInv, Losing, n
<1>8. ASSUME NEW i \in 1..n PROVE CaseTotals(r.trace, i) = r.truth[i]
  <2>1. Layout(r.trace, i, r.truth[i])
    BY <1>7 DEF TotalsInv, Placed, n
  <2> QED
    BY <1>3, <2>1, LayoutTotals
<1> QED
  BY <1>2, <1>5, <1>7, <1>8

\* An outcome without cases has no totals.
LEMMA EmptyTotals ==
  ASSUME NEW ticket, NEW outcome, outcome.results = <<>>
  PROVE  KeptTotals(Entry(ticket, outcome))
<1> DEFINE z == <<>>
           b == BoundResponse(outcome.status, z)
           e == Entry(ticket, outcome)
<1>1. IsSeq(z) /\ Len(z) = 0 /\ z = <<>>
  BY EmptyIsSeq
<1>2. e.cases = b.cases
  BY DEF Entry
<1> HIDE DEF z, e
<1>3. Bounded(outcome.status, z, b)
  <2>1. \A i \in 1..Len(z) : IsResult(z[i])
    BY <1>1
  <2> QED
    BY <1>1, <2>1, BoundResponseFacts
<1> HIDE DEF b
<1>4. b.cases = <<>>
  <2>1. IsSeq(b.cases) /\ Len(b.cases) = 0
    BY <1>1, <1>3 DEF Bounded
  <2> QED
    BY <2>1, OnlyEmptyIsEmpty
<1>5. ~TotalsComplete(e.cases, e.trace)
  BY <1>2, <1>4 DEF TotalsComplete
<1> QED
  BY <1>5 DEF KeptTotals, e

AllTotals ==
  /\ run.phase # "idle" => TotalsInv(run)
  /\ \A id \in DOMAIN evaluations : KeptTotals(evaluations[id])

\* A step that neither keeps an evaluation nor runs one.
LEMMA SameTotals ==
  ASSUME AllTotals, evaluations' = evaluations, run' = run
  PROVE  AllTotals'
BY DEF AllTotals

LEMMA ScopeCallTotals ==
  ASSUME AllTotals, ScopeCall
  PROVE  AllTotals'
<1>1. ASSUME NEW owner, NEW grants, NEW now, CreateScope(owner, grants, now)
      PROVE  evaluations' = evaluations /\ run' = run
  BY <1>1 DEF CreateScope, Refused, vars, sessionVars
<1>2. ASSUME NEW scope, NEW expected, NEW grants, NEW now,
             ReplaceScope(scope, expected, grants, now)
      PROVE  evaluations' = evaluations /\ run' = run
  BY <1>2 DEF ReplaceScope, Refused, vars, sessionVars
<1>3. ASSUME NEW scope, NEW expected, RevokeScope(scope, expected)
      PROVE  evaluations' = evaluations /\ run' = run
  BY <1>3 DEF RevokeScope, Refused, vars, sessionVars
<1>4. ASSUME NEW caller, NEW scope, NEW now, Discover(caller, scope, now)
      PROVE  evaluations' = evaluations /\ run' = run
  BY <1>4 DEF Discover, Refused, vars, sessionVars
<1>5. evaluations' = evaluations /\ run' = run
  BY <1>1, <1>2, <1>3, <1>4 DEF ScopeCall
<1> QED
  BY <1>5, SameTotals

LEMMA EvaluateTotals ==
  ASSUME Inv, AllTotals, NEW caller, NEW proposal, NEW fixture,
         Evaluate(caller, proposal, fixture)
  PROVE  AllTotals'
<1>1. CASE \E code : Refused(code)
  <2>1. evaluations' = evaluations /\ run' = run
    BY <1>1 DEF Refused, vars, sessionVars
  <2> QED
    BY <2>1, SameTotals
<1>2. CASE ~(\E code : Refused(code))
  <2> DEFINE grants == scopes[proposals[proposal].scope].grants
             ticket == [id |-> lastEvaluation + 1, proposal |-> proposal,
                        reservation |-> Reservation, targets |-> ScopeTargets(grants)]
             manifest == ManifestOf(grants)
             suite == suites[fixture]
  <2>1. /\ AdmitEvaluation(caller, proposal, fixture) = "Ok"
        /\ run' = NewRun(ticket, suite, manifest)
        /\ evaluations' = evaluations
    BY <1>2 DEF Evaluate
  <2>2. IsSuite(suite)
    BY <2>1, AdmitEvaluationOk DEF Inv, SessionInv
  <2> HIDE DEF ticket, suite, manifest
  <2>3. TotalsInv(run')
    BY <2>1, <2>2, NewRunTotals
  <2> QED
    BY <2>1, <2>3 DEF AllTotals
<1> QED
  BY <1>1, <1>2

LEMMA ProposalCallTotals ==
  ASSUME Inv, AllTotals, ProposalCall
  PROVE  AllTotals'
<1>1. ASSUME NEW caller, NEW scope, NEW expected, NEW source, NEW managed,
             Submit(caller, scope, expected, source, managed)
      PROVE  evaluations' = evaluations /\ run' = run
  BY <1>1 DEF Submit, Refused, vars, sessionVars
<1>2. ASSUME NEW suite, RegisterEvaluationSuite(suite)
      PROVE  evaluations' = evaluations /\ run' = run
  BY <1>2 DEF RegisterEvaluationSuite, Refused, vars, sessionVars
<1> QED
  BY <1>1, <1>2, SameTotals, EvaluateTotals DEF ProposalCall

LEMMA KeepTotals ==
  ASSUME AllTotals, NEW outcome, Keep(outcome), KeptTotals(Entry(run.ticket, outcome))
  PROVE  AllTotals'
<1> DEFINE e == Entry(run.ticket, outcome)
           id == run.ticket.id
<1>1. evaluations' = With(evaluations, id, e) /\ run' = Idle
  BY DEF Keep
<1>2. KeptTotals(e)
  OBVIOUS
<1> HIDE DEF e, id
<1>3. \A k \in DOMAIN evaluations' : KeptTotals(evaluations'[k])
  <2> SUFFICES ASSUME NEW k \in DOMAIN evaluations' PROVE KeptTotals(evaluations'[k])
    OBVIOUS
  <2>1. evaluations'[k] = e \/ (k \in DOMAIN evaluations /\ evaluations'[k] = evaluations[k])
    BY <1>1 DEF With
  <2> QED
    BY <1>2, <2>1 DEF AllTotals
<1>4. run'.phase = "idle"
  BY <1>1 DEF Idle
<1> QED
  BY <1>3, <1>4 DEF AllTotals

LEMMA NextTotals ==
  ASSUME Inv, AllTotals, [Next]_vars
  PROVE  AllTotals'
<1>1. CASE UNCHANGED vars
  BY <1>1, SameTotals DEF vars, sessionVars
<1>2. CASE ScopeCall
  BY <1>2, ScopeCallTotals
<1>3. CASE ProposalCall
  BY <1>3, ProposalCallTotals
<1>4. CASE WorldStep
  <2>1. UNCHANGED <<sessionVars, run>>
    BY <1>4 DEF WorldStep, RemoveComponent, AddComponent, SetValue
  <2> QED
    BY <2>1, SameTotals DEF sessionVars
<1>5. CASE EvaluationProceeds
  <2>1. run.phase # "idle" /\ EvaluationStep /\ evaluations' = evaluations
    BY <1>5 DEF EvaluationProceeds, sessionVars
  <2>2. RunInv(run) /\ TotalsInv(run)
    BY <2>1 DEF Inv, Running, AllTotals
  <2>3. TotalsInv(run')
    BY <2>1, <2>2, EvaluationStepTotals
  <2> QED
    BY <2>1, <2>3 DEF AllTotals
<1>6. CASE KeepEvaluation
  <2>1. run.phase = "done" /\ Keep(run)
    BY <1>6 DEF KeepEvaluation
  <2>2. RunTyped(run) /\ TotalsInv(run)
    BY <2>1 DEF Inv, Running, RunInv, AllTotals
  <2>3. KeptTotals(Entry(run.ticket, run))
    BY <2>1, <2>2, EntryTotals
  <2> QED
    BY <2>1, <2>3, KeepTotals
<1>7. CASE AbandonEvaluation
  <2> DEFINE z == <<>>
             o == [run EXCEPT !.status = "HostError", !.results = z, !.trace = z]
  <2>1. run.phase # "idle" /\ Keep(o)
    BY <1>7 DEF AbandonEvaluation
  <2>2. DOMAIN run = RunFields
    BY <2>1 DEF Inv, Running, RunInv, RunTyped
  <2>3. z = <<>>
    OBVIOUS
  <2> HIDE DEF z
  <2>4. o.results = <<>>
    BY <2>2, <2>3 DEF RunFields
  <2> HIDE DEF o
  <2>5. KeptTotals(Entry(run.ticket, o))
    BY <2>4, EmptyTotals
  <2> QED
    BY <2>1, <2>5, KeepTotals
<1>8. CASE DropEvaluation
  <2>1. run'.phase = "idle" /\ evaluations' = evaluations
    BY <1>8 DEF DropEvaluation, Idle
  <2> QED
    BY <2>1 DEF AllTotals
<1> QED
  BY <1>1, <1>2, <1>3, <1>4, <1>5, <1>6, <1>7, <1>8 DEF Next

LEMMA InitTotals == Init => AllTotals
<1>1. Init => run.phase = "idle" /\ DOMAIN evaluations = {}
  BY EmptySeq DEF Init, Idle
<1> QED
  BY <1>1 DEF AllTotals

\* Totals that call themselves complete are the truth: whenever a store refused
\* a record of a frame or of a case's start, world_totals of what was kept finds
\* an open or missing frame, or a case that ran out of its budget before its
\* first; otherwise it counts, frame by frame, what the isolated world did.
THEOREM AlwaysTotalsAreTrue == Spec => []TotalsAreTrue
<1>1. Init => Inv /\ AllTotals
  BY InitInv, InitTotals
<1>2. Inv /\ AllTotals /\ [Next]_vars => Inv' /\ AllTotals'
  BY NextInv, NextTotals
<1>3. AllTotals => TotalsAreTrue
  BY DEF AllTotals, KeptTotals, TotalsAreTrue
<1> QED
  BY <1>1, <1>2, <1>3, PTL DEF Spec

=============================================================================

-------------------------- MODULE ExpenseEdit_proofs --------------------------
(***************************************************************************)
(* What the money of a group is sure of: the share arithmetic, the net     *)
(* balances and the transfers shown for them, the dates of a template, and *)
(* the edits of an expense under the row lock of ExpenseRepo.Update; for   *)
(* any requests, users, patches, amounts and integer width.                *)
(*                                                                         *)
(* The arithmetic comes first.  Sums are folds over finite sets; what      *)
(* holds of them, and of the loop that pairs creditors with debtors, is    *)
(* shown by induction in a form that needs no operator as a parameter: a   *)
(* set of numbers that is not empty has a least element.  Its results are  *)
(* ResolvedSums, RescaledSums, SimplifySettles and NetsAddUp.              *)
(*                                                                         *)
(* The ledger follows: every property of the bench holds for groups of any *)
(* size, however its expense is edited, its members settle or leave, and   *)
(* its template comes due.                                                 *)
(*                                                                         *)
(* Last are the edits: no edit is lost from the history of a field, no     *)
(* save leaves a spurious revision, a deleted expense stays as it is, and  *)
(* the shares stop summing to the amount in one way only.  The heart of    *)
(* their invariant is LockedIsFresh: what a transaction read under its     *)
(* lock is still what is committed.                                        *)
(***************************************************************************)
EXTENDS ExpenseEdit, Ledger, SequenceTheorems, FiniteSetTheorems, WellFoundedInduction, TLAPS

-----------------------------------------------------------------------------
(* Induction *)

\* Any set of numbers has a least one: induction in a form the provers can use.
LEMMA LeastNatural ==
    ASSUME NEW T \in SUBSET Nat, T # {}
    PROVE  \E x \in T : \A y \in T : x <= y
<1> DEFINE R == {p \in Nat \X Nat : p[1] < p[2]}
<1>1. IsWellFoundedOn(R, Nat)
  BY NatLessThanWellFounded DEF OpToRel
<1>2. \A x, y \in Nat : x < y => <<x, y>> \in R
  OBVIOUS
<1> HIDE DEF R
<1>3. PICK x \in T : \A y \in T : <<y, x>> \notin R
  BY <1>1, WFMin
<1>4. ASSUME NEW y \in T PROVE x <= y
  <2>1. x \in Nat /\ y \in Nat /\ ~(y < x)
    BY <1>2, <1>3
  <2> QED
    BY <2>1
<1> QED
  BY <1>4

\* What 0 has and every number passes to the next, every number has.
LEMMA NatInduct ==
    ASSUME NEW Good, 0 \in Good, \A n \in Nat : n \in Good => n + 1 \in Good
    PROVE  \A n \in Nat : n \in Good
<1> SUFFICES ASSUME Nat \ Good # {} PROVE FALSE
  OBVIOUS
<1>1. PICK x \in Nat \ Good : \A y \in Nat \ Good : x <= y
  BY LeastNatural
<1>2. x # 0 /\ x - 1 \in Nat /\ ~(x <= x - 1) /\ (x - 1) + 1 = x
  BY <1>1
<1>3. x - 1 \in Good
  BY <1>1, <1>2
<1> QED
  BY <1>1, <1>2, <1>3

\* What passes from all subsets with one element less to a set holds of every
\* finite set.
LEMMA FiniteInduct ==
    ASSUME NEW D, IsFiniteSet(D), NEW Good,
           \A T \in SUBSET D : (\A x \in T : T \ {x} \in Good) => T \in Good
    PROVE  \A T \in SUBSET D : T \in Good
<1> DEFINE Bad == (SUBSET D) \ Good
           Sizes == {Cardinality(T) : T \in Bad}
<1> SUFFICES ASSUME Bad # {} PROVE FALSE
  OBVIOUS
<1>1. \A T \in SUBSET D : IsFiniteSet(T) /\ Cardinality(T) \in Nat
  BY FS_Subset, FS_CardinalityType
<1>2. PICK n \in Sizes : \A m \in Sizes : n <= m
  <2>1. Sizes \in SUBSET Nat /\ Sizes # {}
    BY <1>1
  <2> HIDE DEF Sizes
  <2> QED
    BY <2>1, LeastNatural
<1>3. PICK T \in Bad : Cardinality(T) = n
  OBVIOUS
<1>4. ASSUME NEW x \in T PROVE T \ {x} \in Good
  <2>1. T \ {x} \in SUBSET D /\ Cardinality(T \ {x}) = n - 1 /\ n \in Nat
    BY <1>1, <1>3, FS_RemoveElement
  <2>2. T \ {x} \in Bad => n <= n - 1
    BY <1>2, <2>1
  <2> QED
    BY <2>1, <2>2
<1> QED
  BY <1>3, <1>4

-----------------------------------------------------------------------------
(* Sums over finite sets of indices *)

One(s) == CHOOSE x \in s : TRUE

IsSum(it, f, U) == it = [s \in U |-> IF s = {} THEN 0 ELSE f[One(s)] + it[s \ {One(s)}]]

Sums(f, D) == CHOOSE it : IsSum(it, f, SUBSET D)

\* The fold of the community modules, by the name it has here.
LEMMA SumIsIter ==
    ASSUME NEW f, NEW D
    PROVE  SumFunctionOnSet(f, D) = Sums(f, D)[D]
BY Zenon DEF SumFunctionOnSet, FoldFunctionOnSet, MapThenFoldSet, Sums, IsSum, One

\* A set that is not empty has an element to choose.
LEMMA OneOf == ASSUME NEW s, s # {} PROVE One(s) \in s
BY DEF One

\* The recursive function that sums the subsets of a finite set exists: the
\* proof builds it for ever larger subsets.
LEMMA SumsDefined ==
    ASSUME NEW f, NEW D, IsFiniteSet(D)
    PROVE  IsSum(Sums(f, D), f, SUBSET D)
<1> DEFINE Small(n) == {s \in SUBSET D : Cardinality(s) <= n}
           Good == {n \in Nat : \E it : IsSum(it, f, Small(n))}
<1>1. \A T \in SUBSET D : IsFiniteSet(T) /\ Cardinality(T) \in Nat /\ Cardinality(T) <= Cardinality(D)
  BY FS_Subset, FS_CardinalityType
<1>2. 0 \in Good
  <2>1. \A s \in Small(0) : s = {}
    BY <1>1, FS_EmptySet
  <2>2. IsSum([s \in Small(0) |-> 0], f, Small(0))
    BY <2>1 DEF IsSum
  <2> QED
    BY <2>2
<1>3. ASSUME NEW n \in Nat, n \in Good PROVE n + 1 \in Good
  <2>1. PICK g : IsSum(g, f, Small(n))
    BY <1>3
  <2> DEFINE h == [s \in Small(n + 1) |-> IF s = {} THEN 0 ELSE f[One(s)] + g[s \ {One(s)}]]
  <2>2. Small(n) \subseteq Small(n + 1)
    BY <1>1
  <2>3. ASSUME NEW s \in Small(n + 1), s # {} PROVE h[s \ {One(s)}] = g[s \ {One(s)}]
    <3>1. s \ {One(s)} \in Small(n)
      <4>1. Cardinality(s \ {One(s)}) = Cardinality(s) - 1
        BY <1>1, <2>3, OneOf, FS_RemoveElement
      <4> QED
        BY <1>1, <4>1
    <3>2. \A t \in Small(n) : g[t] = IF t = {} THEN 0 ELSE f[One(t)] + g[t \ {One(t)}]
      BY <2>1 DEF IsSum
    <3> QED
      BY <2>2, <3>1, <3>2
  <2>4. IsSum(h, f, Small(n + 1))
    BY <2>3 DEF IsSum
  <2> HIDE DEF h
  <2>5. \E it : IsSum(it, f, Small(n + 1))
    BY <2>4
  <2>6. n + 1 \in Nat
    OBVIOUS
  <2> HIDE DEF Small
  <2> QED
    BY <2>5, <2>6
<1>4. \A n \in Nat : n \in Good
  <2> HIDE DEF Good
  <2> QED
    BY <1>2, <1>3, NatInduct
<1>5. Cardinality(D) \in Nat /\ Small(Cardinality(D)) = SUBSET D
  BY <1>1
<1>6. \E it : IsSum(it, f, SUBSET D)
  BY <1>4, <1>5
<1> QED
  BY <1>6 DEF Sums

\* Whichever index is taken out first, the sum is the same.
LEMMA SumsStep ==
    ASSUME NEW f, NEW D, IsFiniteSet(D), \A x \in D : f[x] \in Int
    PROVE  \A T \in SUBSET D : /\ Sums(f, D)[T] \in Int
                               /\ \A d \in T : Sums(f, D)[T] = f[d] + Sums(f, D)[T \ {d}]
<1> DEFINE S == Sums(f, D)
<1>0. IsSum(S, f, SUBSET D)
  BY SumsDefined
<1> HIDE DEF S
<1>1. S[{}] = 0 /\ \A T \in SUBSET D : T # {} => S[T] = f[One(T)] + S[T \ {One(T)}]
  BY <1>0 DEF IsSum
<1>2. \A T \in SUBSET D : S[T] \in Int
  <2> DEFINE Good == {T \in SUBSET D : S[T] \in Int}
  <2>1. ASSUME NEW T \in SUBSET D, \A x \in T : T \ {x} \in Good PROVE T \in Good
    <3>1. CASE T = {}
      BY <1>1, <3>1
    <3>2. CASE T # {}
      <4>1. One(T) \in T /\ f[One(T)] \in Int /\ S[T \ {One(T)}] \in Int
        BY <2>1, <3>2, OneOf
      <4>2. S[T] = f[One(T)] + S[T \ {One(T)}]
        BY <1>1, <3>2
      <4>3. S[T] \in Int
        BY <4>1, <4>2
      <4> QED
        BY <4>3
    <3> QED
      BY <3>1, <3>2
  <2>2. \A T \in SUBSET D : T \in Good
    <3> HIDE DEF Good
    <3> QED
      BY <2>1, FiniteInduct
  <2> QED
    BY <2>2
<1>3. \A T \in SUBSET D : \A d \in T : S[T] = f[d] + S[T \ {d}]
  <2> DEFINE Good == {T \in SUBSET D : \A d \in T : S[T] = f[d] + S[T \ {d}]}
  <2>1. ASSUME NEW T \in SUBSET D, \A x \in T : T \ {x} \in Good PROVE T \in Good
    <3> SUFFICES ASSUME NEW d \in T, d # One(T) PROVE S[T] = f[d] + S[T \ {d}]
      BY <1>1, OneOf
    <3>1. /\ One(T) \in T
          /\ S[T] = f[One(T)] + S[T \ {One(T)}]
      BY <1>1, OneOf
    <3>2. S[T \ {One(T)}] = f[d] + S[(T \ {One(T)}) \ {d}]
      BY <2>1, <3>1
    <3>3. S[T \ {d}] = f[One(T)] + S[(T \ {d}) \ {One(T)}]
      BY <2>1, <3>1
    <3>4. (T \ {One(T)}) \ {d} = (T \ {d}) \ {One(T)}
      OBVIOUS
    <3>5. S[(T \ {d}) \ {One(T)}] \in Int /\ f[d] \in Int /\ f[One(T)] \in Int
      BY <1>2, <3>1
    <3> DEFINE a == f[d]
               b == f[One(T)]
               c == S[(T \ {d}) \ {One(T)}]
    <3>6. S[T] = b + (a + c) /\ S[T \ {d}] = b + c
      BY <3>1, <3>2, <3>3, <3>4
    <3>7. a \in Int /\ b \in Int /\ c \in Int
      BY <3>5
    <3>8. S[T] = a + S[T \ {d}]
      <4> HIDE DEF a, b, c
      <4> QED
        BY <3>6, <3>7
    <3> QED
      BY <3>8
  <2>2. \A T \in SUBSET D : T \in Good
    <3> HIDE DEF Good
    <3> QED
      BY <2>1, FiniteInduct
  <2> QED
    BY <2>2
<1> QED
  BY <1>2, <1>3 DEF S

\* The sum over a set does not depend on the set it is taken from.
LEMMA SumsRestrict ==
    ASSUME NEW f, NEW D, IsFiniteSet(D), NEW T \in SUBSET D
    PROVE  Sums(f, D)[T] = Sums(f, T)[T]
<1> DEFINE S == Sums(f, D)
           R == Sums(f, T)
           Good == {U \in SUBSET T : S[U] = R[U]}
<1>2. IsFiniteSet(T)
  BY FS_Subset
<1>0. IsSum(S, f, SUBSET D) /\ IsSum(R, f, SUBSET T)
  BY <1>2, SumsDefined
<1> HIDE DEF S, R
<1>1. \A U \in SUBSET T : S[U] = IF U = {} THEN 0 ELSE f[One(U)] + S[U \ {One(U)}]
  BY <1>0 DEF IsSum
<1>3. \A U \in SUBSET T : R[U] = IF U = {} THEN 0 ELSE f[One(U)] + R[U \ {One(U)}]
  BY <1>0 DEF IsSum
<1>4. ASSUME NEW U \in SUBSET T, \A x \in U : U \ {x} \in Good PROVE U \in Good
  BY <1>1, <1>3, <1>4, OneOf
<1>5. \A U \in SUBSET T : U \in Good
  <2> HIDE DEF Good
  <2> QED
    BY <1>2, <1>4, FiniteInduct
<1> QED
  BY <1>5 DEF S, R

\* The sum over no index is 0.
LEMMA SumEmpty == ASSUME NEW f PROVE SumFunctionOnSet(f, {}) = 0
<1> DEFINE S == Sums(f, {})
<1>1. IsSum(S, f, SUBSET {})
  BY SumsDefined, FS_EmptySet
<1> HIDE DEF S
<1>2. S[{}] = 0
  BY <1>1 DEF IsSum
<1> QED
  BY <1>2, SumIsIter DEF S

\* Any index can be taken out of a sum.
LEMMA SumStep ==
    ASSUME NEW f, NEW D, IsFiniteSet(D), \A x \in D : f[x] \in Int
    PROVE  /\ SumFunctionOnSet(f, D) \in Int
           /\ \A d \in D : SumFunctionOnSet(f, D) = f[d] + SumFunctionOnSet(f, D \ {d})
<1>1. SumFunctionOnSet(f, D) = Sums(f, D)[D] /\ D \in SUBSET D
  BY SumIsIter
<1>2. ASSUME NEW d \in D PROVE SumFunctionOnSet(f, D \ {d}) = Sums(f, D)[D \ {d}]
  <2>1. D \ {d} \in SUBSET D
    OBVIOUS
  <2> QED
    BY <2>1, SumsRestrict, SumIsIter
<1>3. /\ Sums(f, D)[D] \in Int
      /\ \A d \in D : Sums(f, D)[D] = f[d] + Sums(f, D)[D \ {d}]
  BY <1>1, SumsStep
<1> QED
  BY <1>1, <1>2, <1>3

\* To show something of a finite set, add its elements one by one.
LEMMA SumInduct ==
    ASSUME NEW D, IsFiniteSet(D), NEW Good, {} \in Good,
           \A T \in SUBSET D : \A d \in T : T \ {d} \in Good => T \in Good
    PROVE  D \in Good
<1>1. ASSUME NEW T \in SUBSET D, \A x \in T : T \ {x} \in Good PROVE T \in Good
  BY <1>1
<1>2. \A T \in SUBSET D : T \in Good
  BY <1>1, FiniteInduct
<1> QED
  BY <1>2

\* Any index of a part of a finite set can be taken out of its sum.
LEMMA PartOfSum ==
    ASSUME NEW f, NEW D, IsFiniteSet(D), \A x \in D : f[x] \in Int, NEW T \in SUBSET D
    PROVE  /\ SumFunctionOnSet(f, T) \in Int
           /\ \A d \in T : SumFunctionOnSet(f, T) = f[d] + SumFunctionOnSet(f, T \ {d})
<1>1. IsFiniteSet(T) /\ \A x \in T : f[x] \in Int
  BY FS_Subset
<1> QED
  BY <1>1, SumStep

\* Two sums add up to the sum of what their terms add up to.
LEMMA SumPlus ==
    ASSUME NEW D, IsFiniteSet(D), NEW f, NEW g, NEW h,
           \A x \in D : f[x] \in Int /\ g[x] \in Int /\ h[x] = f[x] + g[x]
    PROVE  SumFunctionOnSet(h, D) = SumFunctionOnSet(f, D) + SumFunctionOnSet(g, D)
<1> DEFINE F(T) == SumFunctionOnSet(f, T)
           G(T) == SumFunctionOnSet(g, T)
           H(T) == SumFunctionOnSet(h, T)
           Good == {T \in SUBSET D : H(T) = F(T) + G(T)}
<1>1. \A x \in D : h[x] \in Int
  OBVIOUS
<1>2. F({}) = 0 /\ G({}) = 0 /\ H({}) = 0
  BY SumEmpty
<1>3. \A T \in SUBSET D : /\ F(T) \in Int /\ G(T) \in Int /\ H(T) \in Int
                          /\ \A d \in T : /\ F(T) = f[d] + F(T \ {d})
                                          /\ G(T) = g[d] + G(T \ {d})
                                          /\ H(T) = h[d] + H(T \ {d})
  BY <1>1, PartOfSum
<1> HIDE DEF F, G, H
<1>4. ASSUME NEW T \in SUBSET D, NEW d \in T, T \ {d} \in Good PROVE T \in Good
  <2>1. H(T \ {d}) = F(T \ {d}) + G(T \ {d}) /\ T \ {d} \in SUBSET D
    BY <1>4
  <2>2. H(T) = F(T) + G(T)
    <3> DEFINE Td == T \ {d}
               a == f[d]
               b == g[d]
    <3>1. a \in Int /\ b \in Int /\ F(Td) \in Int /\ G(Td) \in Int
      BY <1>3, <2>1
    <3>2. F(T) = a + F(Td) /\ G(T) = b + G(Td) /\ H(T) = (a + b) + (F(Td) + G(Td))
      BY <1>3, <2>1
    <3> HIDE DEF Td, a, b
    <3> QED
      BY <3>1, <3>2
  <2> QED
    BY <2>2
<1>5. D \in Good
  <2>1. {} \in Good
    BY <1>2
  <2> HIDE DEF Good
  <2> QED
    BY <1>4, <2>1, SumInduct
<1> QED
  BY <1>5 DEF F, G, H

\* A factor of every term is a factor of the sum.
LEMMA SumTimes ==
    ASSUME NEW D, IsFiniteSet(D), NEW f, NEW h, NEW a \in Int,
           \A x \in D : f[x] \in Int /\ h[x] = a * f[x]
    PROVE  SumFunctionOnSet(h, D) = a * SumFunctionOnSet(f, D)
<1> DEFINE F(T) == SumFunctionOnSet(f, T)
           H(T) == SumFunctionOnSet(h, T)
           Good == {T \in SUBSET D : H(T) = a * F(T)}
<1>1. (\A x \in D : f[x] \in Int) /\ (\A x \in D : h[x] \in Int)
  OBVIOUS
<1>2. F({}) = 0 /\ H({}) = 0
  BY SumEmpty
<1>3. \A T \in SUBSET D : /\ F(T) \in Int /\ H(T) \in Int
                          /\ \A d \in T : /\ F(T) = f[d] + F(T \ {d})
                                          /\ H(T) = h[d] + H(T \ {d})
  <2>1. ASSUME NEW T \in SUBSET D
        PROVE  F(T) \in Int /\ \A d \in T : F(T) = f[d] + F(T \ {d})
    BY <1>1, PartOfSum
  <2>2. ASSUME NEW T \in SUBSET D
        PROVE  H(T) \in Int /\ \A d \in T : H(T) = h[d] + H(T \ {d})
    BY <1>1, PartOfSum
  <2> QED
    BY <2>1, <2>2
<1> HIDE DEF F, H
<1>4. ASSUME NEW T \in SUBSET D, NEW d \in T, T \ {d} \in Good PROVE T \in Good
  <2>1. H(T \ {d}) = a * F(T \ {d}) /\ T \ {d} \in SUBSET D
    BY <1>4
  <2>2. H(T) = a * F(T)
    <3> DEFINE Td == T \ {d}
               b == f[d]
    <3>1. b \in Int /\ F(Td) \in Int
      BY <1>3, <2>1
    <3>2. F(T) = b + F(Td) /\ H(T) = a * b + a * F(Td)
      BY <1>3, <2>1
    <3> HIDE DEF Td, b
    <3> QED
      BY <3>1, <3>2
  <2> QED
    BY <2>2
<1>5. D \in Good
  <2>1. {} \in Good
    BY <1>2
  <2> HIDE DEF Good
  <2> QED
    BY <1>4, <2>1, SumInduct
<1> QED
  BY <1>5 DEF F, H

\* A sum of terms that are no larger is no larger.
LEMMA SumMonotone ==
    ASSUME NEW D, IsFiniteSet(D), NEW f, NEW h,
           \A x \in D : f[x] \in Int /\ h[x] \in Int /\ f[x] <= h[x]
    PROVE  SumFunctionOnSet(f, D) <= SumFunctionOnSet(h, D)
<1> DEFINE F(T) == SumFunctionOnSet(f, T)
           H(T) == SumFunctionOnSet(h, T)
           Good == {T \in SUBSET D : F(T) <= H(T)}
<1>2. F({}) = 0 /\ H({}) = 0
  BY SumEmpty
<1>3. \A T \in SUBSET D : /\ F(T) \in Int /\ H(T) \in Int
                          /\ \A d \in T : /\ F(T) = f[d] + F(T \ {d})
                                          /\ H(T) = h[d] + H(T \ {d})
  BY PartOfSum
<1> HIDE DEF F, H
<1>4. ASSUME NEW T \in SUBSET D, NEW d \in T, T \ {d} \in Good PROVE T \in Good
  <2>1. F(T \ {d}) <= H(T \ {d}) /\ T \ {d} \in SUBSET D
    BY <1>4
  <2>2. F(T) <= H(T)
    <3> DEFINE Td == T \ {d}
               a == f[d]
               b == h[d]
    <3>1. a \in Int /\ b \in Int /\ a <= b /\ F(Td) \in Int /\ H(Td) \in Int
      BY <1>3, <2>1
    <3>2. F(T) = a + F(Td) /\ H(T) = b + H(Td)
      BY <1>3, <2>1
    <3> HIDE DEF Td, a, b
    <3> QED
      BY <2>1, <3>1, <3>2 DEF Td
  <2> QED
    BY <2>2
<1>5. D \in Good
  <2>1. {} \in Good
    BY <1>2
  <2> HIDE DEF Good
  <2> QED
    BY <1>4, <2>1, SumInduct
<1> QED
  BY <1>5 DEF F, H

\* The sum of ones and zeros counts the ones.
LEMMA SumCounts ==
    ASSUME NEW D, IsFiniteSet(D), NEW A \in SUBSET D, NEW f,
           \A x \in D : f[x] = IF x \in A THEN 1 ELSE 0
    PROVE  SumFunctionOnSet(f, D) = Cardinality(A)
<1> DEFINE F(T) == SumFunctionOnSet(f, T)
           N(T) == Cardinality(A \cap T)
           Good == {T \in SUBSET D : F(T) = N(T)}
<1>1. \A x \in D : f[x] \in Int
  OBVIOUS
<1>2. F({}) = 0 /\ N({}) = 0
  BY SumEmpty, FS_EmptySet
<1>3. \A T \in SUBSET D : F(T) \in Int /\ \A d \in T : F(T) = f[d] + F(T \ {d})
  BY <1>1, PartOfSum
<1>4. \A T \in SUBSET D : /\ N(T) \in Nat
                          /\ \A d \in T : N(T) = (IF d \in A THEN 1 ELSE 0) + N(T \ {d})
  <2>1. ASSUME NEW T \in SUBSET D PROVE IsFiniteSet(A \cap T) /\ N(T) \in Nat
    BY FS_Subset, FS_CardinalityType
  <2>2. ASSUME NEW T \in SUBSET D, NEW d \in T
        PROVE  N(T) = (IF d \in A THEN 1 ELSE 0) + N(T \ {d})
    <3>1. A \cap (T \ {d}) = (A \cap T) \ {d}
      OBVIOUS
    <3>2. N(T \ {d}) = IF d \in A THEN N(T) - 1 ELSE N(T)
      BY <2>1, <3>1, FS_RemoveElement
    <3> QED
      BY <2>1, <3>2
  <2> QED
    BY <2>1, <2>2
<1> HIDE DEF F, N
<1>5. ASSUME NEW T \in SUBSET D, NEW d \in T, T \ {d} \in Good PROVE T \in Good
  <2>1. F(T \ {d}) = N(T \ {d}) /\ T \ {d} \in SUBSET D
    BY <1>5
  <2>2. F(T) = f[d] + F(T \ {d})
    BY <1>3
  <2>3. N(T) = f[d] + N(T \ {d})
    BY <1>4
  <2> QED
    BY <2>1, <2>2, <2>3
<1>6. D \in Good
  <2>1. {} \in Good
    BY <1>2
  <2> HIDE DEF Good
  <2> QED
    BY <1>5, <2>1, SumInduct
<1>7. A \cap D = A
  OBVIOUS
<1> QED
  BY <1>6, <1>7 DEF F, N

\* A sum does not depend on how its indices are named.
LEMMA SumReindex ==
    ASSUME NEW D, IsFiniteSet(D), NEW f, NEW b, NEW g,
           \A x \in D : f[x] \in Int /\ g[b[x]] = f[x],
           \A x, y \in D : b[x] = b[y] => x = y
    PROVE  SumFunctionOnSet(g, {b[x] : x \in D}) = SumFunctionOnSet(f, D)
<1> DEFINE F(T) == SumFunctionOnSet(f, T)
           I(T) == {b[x] : x \in T}
           G(T) == SumFunctionOnSet(g, I(T))
           Good == {T \in SUBSET D : G(T) = F(T)}
<1>1. I({}) = {}
  OBVIOUS
<1>2. F({}) = 0 /\ G({}) = 0
  BY <1>1, SumEmpty
<1>3. \A T \in SUBSET D : F(T) \in Int /\ \A d \in T : F(T) = f[d] + F(T \ {d})
  BY PartOfSum
<1>4. ASSUME NEW T \in SUBSET D, NEW d \in T PROVE G(T) = f[d] + G(T \ {d})
  <2>1. IsFiniteSet(T)
    BY FS_Subset
  <2>2. IsFiniteSet(I(T))
    <3> DEFINE s == [x \in T |-> b[x]]
    <3>1. s \in [T -> I(T)] /\ \A y \in I(T) : \E x \in T : s[x] = y
      OBVIOUS
    <3>2. s \in Surjection(T, I(T))
      BY <3>1 DEF Surjection
    <3> QED
      BY <2>1, <3>2, FS_Surjection
  <2>3. \A y \in I(T) : g[y] \in Int
    OBVIOUS
  <2>4. b[d] \in I(T) /\ g[b[d]] = f[d] /\ I(T) \ {b[d]} = I(T \ {d})
    OBVIOUS
  <2> HIDE DEF I
  <2>5. SumFunctionOnSet(g, I(T)) = g[b[d]] + SumFunctionOnSet(g, I(T) \ {b[d]})
    BY <2>2, <2>3, <2>4, SumStep
  <2> QED
    BY <2>4, <2>5
<1> HIDE DEF F, G
<1>5. ASSUME NEW T \in SUBSET D, NEW d \in T, T \ {d} \in Good PROVE T \in Good
  <2>1. G(T \ {d}) = F(T \ {d})
    BY <1>5
  <2> QED
    BY <1>3, <1>4, <2>1
<1>6. D \in Good
  <2>1. {} \in Good
    BY <1>2
  <2> HIDE DEF Good
  <2> QED
    BY <1>5, <2>1, SumInduct
<1> QED
  BY <1>6 DEF F, G, I

\* Terms that are not negative: neither is the sum, and no term exceeds it.
LEMMA SumNatural ==
    ASSUME NEW D, IsFiniteSet(D), NEW f, \A x \in D : f[x] \in Nat
    PROVE  /\ SumFunctionOnSet(f, D) \in Nat
           /\ \A d \in D : f[d] <= SumFunctionOnSet(f, D)
<1> DEFINE F(T) == SumFunctionOnSet(f, T)
           Good == {T \in SUBSET D : F(T) \in Nat}
<1>1. \A x \in D : f[x] \in Int
  OBVIOUS
<1>2. F({}) = 0
  BY SumEmpty
<1>3. \A T \in SUBSET D : F(T) \in Int /\ \A d \in T : F(T) = f[d] + F(T \ {d})
  BY <1>1, PartOfSum
<1> HIDE DEF F
<1>4. \A T \in SUBSET D : F(T) \in Nat
  <2>1. ASSUME NEW T \in SUBSET D, \A x \in T : T \ {x} \in Good PROVE T \in Good
    <3>1. CASE T = {}
      BY <1>2, <3>1
    <3>2. CASE T # {}
      <4>1. PICK d \in T : TRUE
        BY <3>2
      <4>2. F(T) = f[d] + F(T \ {d}) /\ f[d] \in Nat /\ F(T \ {d}) \in Nat
        BY <1>3, <2>1
      <4>3. F(T) \in Nat
        BY <4>2
      <4> QED
        BY <4>3
    <3> QED
      BY <3>1, <3>2
  <2>2. \A T \in SUBSET D : T \in Good
    <3> HIDE DEF Good
    <3> QED
      BY <2>1, FiniteInduct
  <2> QED
    BY <2>2
<1>5. ASSUME NEW d \in D PROVE f[d] <= F(D)
  <2>1. F(D) = f[d] + F(D \ {d}) /\ F(D \ {d}) \in Nat /\ f[d] \in Nat
    BY <1>3, <1>4
  <2> QED
    BY <2>1
<1> QED
  BY <1>4, <1>5 DEF F

-----------------------------------------------------------------------------
(* Machine integers *)

\* A power of two counts the subsets of an interval.
LEMMA PowerIsCount ==
    ASSUME NEW n \in Nat
    PROVE  /\ IsFiniteSet(SUBSET (1..n))
           /\ Cardinality(SUBSET (1..n)) = 2^n
<1>1. IsFiniteSet(1..n) /\ Cardinality(1..n) = n
  BY FS_Interval
<1>2. /\ IsFiniteSet(SUBSET (1..n))
      /\ Cardinality(SUBSET (1..n)) = 2^Cardinality(1..n)
  BY <1>1, FS_SUBSET
<1> QED
  BY <1>1, <1>2, Zenon

\* Of twice as many there are those without and those with one element more.
LEMMA PowerDoubles ==
    ASSUME NEW n \in Nat
    PROVE  2^n \in Nat \ {0} /\ 2^(n + 1) = 2 * 2^n
<1> DEFINE P == SUBSET (1..n)
           Q == {T \cup {n + 1} : T \in P}
           f == [T \in P |-> T \cup {n + 1}]
<1>1. IsFiniteSet(P) /\ Cardinality(P) = 2^n /\ P # {}
  BY PowerIsCount
<1>2. 2^n \in Nat \ {0}
  BY <1>1, FS_CardinalityType, FS_EmptySet
<1>3. 1..(n + 1) = (1..n) \cup {n + 1} /\ n + 1 \notin 1..n
  OBVIOUS
<1>4. SUBSET (1..(n + 1)) = P \cup Q
  <2>1. ASSUME NEW T \in SUBSET (1..(n + 1)) PROVE T \in P \cup Q
    <3>1. CASE n + 1 \notin T
      BY <1>3, <3>1
    <3>2. CASE n + 1 \in T
      <4>1. T \ {n + 1} \in P /\ T = (T \ {n + 1}) \cup {n + 1}
        BY <1>3, <3>2
      <4> QED
        BY <4>1
    <3> QED
      BY <3>1, <3>2
  <2>2. P \cup Q \subseteq SUBSET (1..(n + 1))
    BY <1>3
  <2> QED
    BY <2>1, <2>2
<1>5. P \cap Q = {}
  BY <1>3
<1>6. IsFiniteSet(Q) /\ Cardinality(Q) = Cardinality(P)
  <2>1. f \in Bijection(P, Q)
    <3>1. f \in [P -> Q]
      OBVIOUS
    <3>2. \A T, U \in P : f[T] = f[U] => T = U
      <4> SUFFICES ASSUME NEW T \in P, NEW U \in P, T \cup {n + 1} = U \cup {n + 1}
                   PROVE  T = U
        OBVIOUS
      <4>1. n + 1 \notin T /\ n + 1 \notin U
        BY <1>3
      <4> QED
        BY <4>1
    <3>3. \A V \in Q : \E T \in P : f[T] = V
      OBVIOUS
    <3> HIDE DEF f, P, Q
    <3> QED
      BY <3>1, <3>2, <3>3 DEF Bijection, Injection, Surjection, IsInjective
  <2> QED
    BY <1>1, <2>1, FS_Bijection DEF ExistsBijection
<1>7. Cardinality(P \cup Q) = Cardinality(P) + Cardinality(Q)
  <2>1. Cardinality(P \cup Q) = Cardinality(P) + Cardinality(Q) - Cardinality(P \cap Q)
    BY <1>1, <1>6, FS_Union
  <2>2. Cardinality(P \cap Q) = 0
    BY <1>5, FS_EmptySet
  <2> QED
    BY <1>1, <1>2, <1>6, <2>1, <2>2
<1>8. Cardinality(SUBSET (1..(n + 1))) = 2^(n + 1)
  <2>1. n + 1 \in Nat
    OBVIOUS
  <2> QED
    BY <2>1, PowerIsCount
<1>9. 2^(n + 1) = Cardinality(P \cup Q)
  BY <1>4, <1>8
<1>10. Cardinality(P \cup Q) = 2^n + 2^n
  BY <1>1, <1>6, <1>7
<1> QED
  BY <1>2, <1>9, <1>10

\* The machine's integers are those from -Limit to Limit - 1.
LEMMA Limits == Limit \in Nat \ {0} /\ 2^Width = 2 * Limit
<1>1. Width - 1 \in Nat /\ (Width - 1) + 1 = Width
  BY WidthAssumption
<1>2. 2^(Width - 1) \in Nat \ {0} /\ 2^((Width - 1) + 1) = 2 * 2^(Width - 1)
  BY <1>1, PowerDoubles
<1> QED
  BY <1>1, <1>2 DEF Limit

\* A number that fits is not changed.
LEMMA WrapFits ==
    ASSUME NEW x \in Int, -Limit <= x, x < Limit
    PROVE  Wrap(x) = x
<1>1. Wrap(x) = ((x + Limit) % (2 * Limit)) - Limit
  BY Limits DEF Wrap, Limit
<1>2. x + Limit \in 0..(2 * Limit - 1) /\ Limit \in Nat \ {0}
  BY Limits
<1> HIDE DEF Limit
<1> QED
  BY <1>1, <1>2

\* Of numbers that are not negative, Go's division is the floor.
LEMMA QuoIsFloor ==
    ASSUME NEW a \in Nat, NEW b \in Nat \ {0}
    PROVE  /\ Quo(a, b) = a \div b
           /\ Quo(a, b) \in Nat
           /\ b * Quo(a, b) <= a
           /\ a - b * Quo(a, b) < b
<1>1. Quo(a, b) = a \div b
  BY DEF Quo
<1>2. a \div b \in Int
  OBVIOUS
<1>3. 0 <= a - b * (a \div b) /\ a - b * (a \div b) < b
  BY SMTT(30)
<1>4. a \div b >= 0
  BY SMTT(30)
<1> QED
  BY <1>1, <1>2, <1>3, <1>4

-----------------------------------------------------------------------------
(* What is left over *)

\* An interval from 1 has as many elements as its last.
LEMMA Count ==
    ASSUME NEW n \in Nat
    PROVE  IsFiniteSet(1..n) /\ Cardinality(1..n) = n /\ (n # 0 => 1..n # {})
<1>1. IsFiniteSet(1..n) /\ Cardinality(1..n) = n
  BY FS_Interval
<1>2. n # 0 => 1 \in 1..n
  OBVIOUS
<1> QED
  BY <1>1, <1>2

\* What Nat and a sign do to a product.
LEMMA Products ==
    ASSUME NEW a \in Nat, NEW b \in Nat
    PROVE  a * b \in Nat /\ (-a) * b = -(a * b)
OBVIOUS

\* A larger number has the larger multiples.
LEMMA TimesMonotone ==
    ASSUME NEW a \in Nat, NEW b \in Nat, NEW c \in Nat, a <= b
    PROVE  a * c <= b * c
<1>1. (b - a) * c = b * c - a * c /\ b - a \in Nat
  OBVIOUS
<1>2. (b - a) * c \in Nat /\ a * c \in Nat /\ b * c \in Nat
  BY <1>1, Products
<1> QED
  BY <1>1, <1>2

\* Rounding each part down leaves less than one cent for each of the parts.
LEMMA FlooredRest ==
    ASSUME NEW D, IsFiniteSet(D), D # {}, NEW a \in Nat, NEW w, NEW q,
           \A x \in D : w[x] \in Nat, SumFunctionOnSet(w, D) # 0,
           \A x \in D : q[x] = Quo(a * w[x], SumFunctionOnSet(w, D))
    PROVE  /\ \A x \in D : q[x] \in Nat
           /\ SumFunctionOnSet(q, D) \in Nat
           /\ SumFunctionOnSet(q, D) <= a
           /\ a - SumFunctionOnSet(q, D) < Cardinality(D)
<1> DEFINE W == SumFunctionOnSet(w, D)
           Q == SumFunctionOnSet(q, D)
           n == Cardinality(D)
           part == [x \in D |-> a * w[x]]       \* exact shares times W
           kept == [x \in D |-> -(W * q[x])]
           lost == [x \in D |-> part[x] + kept[x]]
           one  == [x \in D |-> 1]
           most == [x \in D |-> (W - 1) * one[x]]
           none == [x \in D |-> 0 * one[x]]
<1>1. W \in Nat \ {0} /\ n \in Nat \ {0}
  BY SumNatural, FS_CardinalityType, FS_EmptySet
<1>2. ASSUME NEW x \in D
      PROVE  /\ q[x] \in Nat /\ w[x] \in Nat /\ a * w[x] \in Nat
             /\ W * q[x] <= a * w[x] /\ a * w[x] - W * q[x] <= W - 1
  <2>1. w[x] \in Nat /\ q[x] = Quo(a * w[x], W) /\ a * w[x] \in Nat
    BY Products
  <2>2. q[x] \in Nat /\ W * q[x] <= a * w[x] /\ a * w[x] - W * q[x] < W
    BY <1>1, <2>1, QuoIsFloor
  <2> HIDE DEF W
  <2>3. W * q[x] \in Nat
    BY <1>1, <2>2, Products
  <2> QED
    BY <1>1, <2>1, <2>2, <2>3
<1>3. Q \in Nat
  BY <1>2, SumNatural
<1> HIDE DEF W, Q, n
<1>4. ASSUME NEW x \in D
      PROVE  /\ part[x] \in Int /\ kept[x] \in Int /\ lost[x] \in Int /\ one[x] \in Int
             /\ part[x] = a * w[x] /\ kept[x] = (-W) * q[x] /\ lost[x] = part[x] + kept[x]
             /\ most[x] = (W - 1) * one[x] /\ none[x] = 0 * one[x]
             /\ most[x] \in Int /\ none[x] \in Int
             /\ none[x] <= lost[x] /\ lost[x] <= most[x]
  <2> DEFINE p == a * w[x]
             r == W * q[x]
  <2>0. p \in Nat /\ r <= p /\ p - r <= W - 1 /\ q[x] \in Nat
    BY <1>2
  <2>1. r \in Nat /\ (-W) * q[x] = -r
    BY <1>1, <2>0, Products
  <2>2. part[x] = p /\ kept[x] = -r /\ one[x] = 1
    OBVIOUS
  <2> HIDE DEF p, r
  <2>3. lost[x] = p - r /\ most[x] = W - 1 /\ none[x] = 0
    BY <1>1, <2>0, <2>1, <2>2
  <2>4. part[x] = a * w[x]
    OBVIOUS
  <2>5. most[x] = (W - 1) * one[x] /\ none[x] = 0 * one[x] /\ lost[x] = part[x] + kept[x]
    OBVIOUS
  <2> HIDE DEF part, kept, lost, one, most, none
  <2> QED
    BY <1>1, <2>0, <2>1, <2>2, <2>3, <2>4, <2>5
<1> HIDE DEF part, kept, lost, one, most, none
<1>5. SumFunctionOnSet(part, D) = a * W
  BY <1>2, <1>4, SumTimes DEF W
<1>6. SumFunctionOnSet(kept, D) = (-W) * Q
  <2>1. -W \in Int
    BY <1>1
  <2> QED
    BY <1>2, <1>4, <2>1, SumTimes DEF Q
<1>7. SumFunctionOnSet(lost, D) = a * W + (-W) * Q
  BY <1>4, <1>5, <1>6, SumPlus
<1>8. SumFunctionOnSet(one, D) = n
  BY SumCounts DEF one, n
<1>9. SumFunctionOnSet(most, D) = (W - 1) * n
  <2>1. W - 1 \in Int
    BY <1>1
  <2> QED
    BY <1>4, <1>8, <2>1, SumTimes
<1>10. SumFunctionOnSet(none, D) = 0
  <2>1. SumFunctionOnSet(none, D) = 0 * n
    BY <1>4, <1>8, SumTimes
  <2> QED
    BY <1>1, <2>1
<1>11. 0 <= a * W + (-W) * Q /\ a * W + (-W) * Q <= (W - 1) * n
  BY <1>4, <1>7, <1>9, <1>10, SumMonotone
<1>12. a * W + (-W) * Q = W * (a - Q) /\ (W - 1) * n < W * n /\ a - Q \in Int
  BY <1>1, <1>3
<1>13. 0 <= a - Q /\ a - Q < n
  <2> DEFINE d == a - Q
  <2>1. d \in Int /\ 0 <= W * d /\ W * d < W * n
    BY <1>1, <1>3, <1>11, <1>12
  <2> HIDE DEF d
  <2>2. 0 <= d /\ d < n
    BY <1>1, <2>1
  <2> QED
    BY <2>2 DEF d
<1> QED
  BY <1>2, <1>3, <1>13 DEF W, Q, n

\* A cent each for the first of them adds up to as many cents.
LEMMA DistributeAdds ==
    ASSUME NEW n \in Nat, NEW shares \in [1..n -> Nat], NEW rest \in 0..n
    PROVE  /\ Distribute(shares, rest) = [i \in 1..n |-> shares[i] + IF i <= rest THEN 1 ELSE 0]
           /\ Distribute(shares, rest) \in [1..n -> Nat]
           /\ SumFunction(Distribute(shares, rest)) = SumFunction(shares) + rest
<1> DEFINE extra == [i \in 1..n |-> IF i <= rest THEN 1 ELSE 0]
           sum == [i \in 1..n |-> shares[i] + IF i <= rest THEN 1 ELSE 0]
<1>1. Len(shares) = n
  OBVIOUS
<1>2. Distribute(shares, rest) = sum
  BY <1>1 DEF Distribute
<1>3. sum \in [1..n -> Nat]
  OBVIOUS
<1>4. IsFiniteSet(1..n) /\ 1..rest \in SUBSET (1..n) /\ Cardinality(1..rest) = rest
  BY FS_Interval
<1>5. SumFunctionOnSet(extra, 1..n) = rest
  <2>1. \A i \in 1..n : extra[i] = IF i \in 1..rest THEN 1 ELSE 0
    OBVIOUS
  <2> HIDE DEF extra
  <2> QED
    BY <1>4, <2>1, SumCounts
<1>6. SumFunctionOnSet(sum, 1..n) = SumFunctionOnSet(shares, 1..n) + SumFunctionOnSet(extra, 1..n)
  <2>1. \A i \in 1..n : shares[i] \in Int /\ extra[i] \in Int /\ sum[i] = shares[i] + extra[i]
    OBVIOUS
  <2> HIDE DEF extra, sum
  <2> QED
    BY <1>4, <2>1, SumPlus
<1>7. DOMAIN sum = 1..n /\ DOMAIN shares = 1..n
  OBVIOUS
<1> HIDE DEF sum, extra
<1> QED
  BY <1>2, <1>3, <1>5, <1>6, <1>7 DEF SumFunction, sum

\* Each of the first n shares is its floored part of the amount, and a prefix of
\* them has a cent more.
EarlyCents(shares, n, amount, weights) ==
    \E rest \in 0..(n - 1) : \A i \in 1..n :
       shares[i] = (amount * weights[i]) \div SumFunction(weights) + IF i <= rest THEN 1 ELSE 0

\* None of the products overflows.
WeightsFit(n, amount, weights) == \A i \in 1..n : amount * weights[i] < Limit

\* Parts in proportion to weights: each its floor or a cent more, the cents go to
\* the first, and the sum is exact.
LEMMA WeightedAdds ==
    ASSUME NEW n \in Nat \ {0}, NEW weights \in [1..n -> Nat], NEW amount \in Nat,
           NEW whole, whole = SumFunction(weights), whole # 0,
           amount < Limit, WeightsFit(n, amount, weights)
    PROVE  /\ Weighted(amount, weights, whole) \in [1..n -> Nat]
           /\ SumFunction(Weighted(amount, weights, whole)) = amount
           /\ EarlyCents(Weighted(amount, weights, whole), n, amount, weights)
<1> DEFINE shares == [i \in DOMAIN weights |-> Quo(Times(amount, weights[i]), whole)]
           rest == amount - SumFunction(shares)
<1>1. IsFiniteSet(1..n) /\ Cardinality(1..n) = n /\ 1..n # {}
  BY Count
<1>2. whole = SumFunctionOnSet(weights, 1..n) /\ whole \in Nat \ {0}
  BY <1>1, SumNatural DEF SumFunction
<1>3. ASSUME NEW i \in 1..n
      PROVE  shares[i] = Quo(amount * weights[i], whole) /\ weights[i] \in Nat
             /\ amount * weights[i] \in Nat
  <2>1. amount * weights[i] \in Nat /\ amount * weights[i] < Limit /\ Limit \in Nat
    BY Products, Limits DEF WeightsFit
  <2>2. Wrap(amount * weights[i]) = amount * weights[i]
    <3> DEFINE p == amount * weights[i]
    <3>1. p \in Int /\ -Limit <= p /\ p < Limit
      BY <2>1
    <3> HIDE DEF p
    <3> QED
      BY <3>1, WrapFits DEF p
  <2> QED
    BY <2>1, <2>2 DEF Times
<1>4. /\ \A i \in 1..n : shares[i] \in Nat
      /\ SumFunctionOnSet(shares, 1..n) \in Nat
      /\ SumFunctionOnSet(shares, 1..n) <= amount
      /\ amount - SumFunctionOnSet(shares, 1..n) < n
  <2>1. /\ \A i \in 1..n : weights[i] \in Nat
        /\ \A i \in 1..n : shares[i] = Quo(amount * weights[i], SumFunctionOnSet(weights, 1..n))
        /\ SumFunctionOnSet(weights, 1..n) # 0
    BY <1>2, <1>3
  <2> HIDE DEF shares
  <2> QED
    BY <1>1, <2>1, FlooredRest
<1>5. DOMAIN shares = 1..n /\ shares \in [1..n -> Nat]
  BY <1>4
<1>6. SumFunction(shares) = SumFunctionOnSet(shares, 1..n) /\ rest \in 0..(n - 1)
  BY <1>4, <1>5 DEF SumFunction
<1>7. Wrap(SumFunction(shares)) = SumFunction(shares) /\ Wrap(rest) = rest
  <2> HIDE DEF shares
  <2>1. /\ SumFunction(shares) \in Int /\ -Limit <= SumFunction(shares) /\ SumFunction(shares) < Limit
        /\ rest \in Int /\ -Limit <= rest /\ rest < Limit
    BY <1>4, <1>6, Limits
  <2> HIDE DEF rest
  <2> QED
    BY <2>1, WrapFits
<1>8. Weighted(amount, weights, whole) = Distribute(shares, rest)
  BY <1>2, <1>7 DEF Weighted, Total
<1>9. \A i \in 1..n : shares[i] = (amount * weights[i]) \div whole
  BY <1>2, <1>3, QuoIsFloor
<1> HIDE DEF shares
<1>10. /\ Distribute(shares, rest) = [i \in 1..n |-> shares[i] + IF i <= rest THEN 1 ELSE 0]
       /\ Distribute(shares, rest) \in [1..n -> Nat]
       /\ SumFunction(Distribute(shares, rest)) = SumFunction(shares) + rest
  <2>1. rest \in 0..n /\ n \in Nat /\ shares \in [1..n -> Nat]
    BY <1>5, <1>6
  <2> HIDE DEF rest
  <2> QED
    BY ONLY <2>1, DistributeAdds
<1>11. SumFunction(shares) + rest = amount
  BY <1>4, <1>6
<1> HIDE DEF rest
<1> QED
  BY <1>2, <1>6, <1>8, <1>9, <1>10, <1>11 DEF EarlyCents

-----------------------------------------------------------------------------
(* resolveSplits *)

\* An entry of a request: users are numbers, since rows are ordered by them.
Entry == [user : Nat, value : Nat]

\* What each entry of a request weighs when it is not an exact share.
Weights(mode, in) == [i \in DOMAIN in |-> IF mode = "equal" THEN 1 ELSE in[i].value]

\* Whatever the mode, the shares of a request are natural numbers and sum to its
\* amount; unless it gives them exactly, each is the floor of what its weight
\* stands for, and the first of them get a cent more (resolveSplits).
THEOREM ResolvedSums ==
    ASSUME NEW mode \in Modes, NEW amount \in Nat, NEW in \in Seq(Entry), Fits(amount, in),
           ResolveSplits(mode, amount, in) # NoShares
    PROVE  /\ ResolveSplits(mode, amount, in) \in [DOMAIN in -> Nat]
           /\ SumFunction(ResolveSplits(mode, amount, in)) = amount
           /\ mode # "exact" =>
                EarlyCents(ResolveSplits(mode, amount, in), Len(in), amount, Weights(mode, in))
<1> DEFINE n      == Len(in)
           users  == [i \in DOMAIN in |-> in[i].user]
           values == [i \in DOMAIN in |-> in[i].value]
           ones   == [i \in DOMAIN in |-> 1]
           S      == ResolveSplits(mode, amount, in)
           FairBy(weights) == EarlyCents(S, n, amount, weights)
<1>1. DOMAIN in = 1..n /\ n \in Nat /\ \A i \in 1..n : in[i].value \in Nat
  <2>1. DOMAIN in = 1..n /\ n \in Nat /\ \A i \in 1..n : in[i] \in Entry
    OBVIOUS
  <2> QED
    BY <2>1 DEF Entry
<1>2. n # 0 /\ ValuesOK(mode, amount, values)
  <2>1. in # <<>> /\ ValuesOK(mode, amount, values)
    BY DEF ResolveSplits
  <2> QED
    BY <2>1
<1>3. S = CASE mode = "equal"   -> Weighted(amount, ones, n)
            [] mode = "exact"   -> values
            [] mode = "percent" -> Weighted(amount, values, FullPercent)
            [] mode = "shares"  -> Weighted(amount, values, Total(values))
  BY DEF ResolveSplits
<1>4. /\ values \in [1..n -> Nat] /\ ones \in [1..n -> Nat]
      /\ \A i \in 1..n : values[i] = in[i].value /\ ones[i] = 1
  BY <1>1
<1>5. IsFiniteSet(1..n) /\ Cardinality(1..n) = n
  BY <1>1, Count
<1>6. SumFunction(values) \in Nat /\ \A i \in 1..n : values[i] <= SumFunction(values)
  <2>1. DOMAIN values = 1..n
    BY <1>1
  <2> HIDE DEF values
  <2> QED
    BY <1>4, <1>5, <2>1, SumNatural DEF SumFunction
<1>7. Total(values) = SumFunction(values)
  <2>1. SumFunction(values) < Limit
    BY DEF Fits
  <2> HIDE DEF values
  <2> QED
    BY <1>6, <2>1, Limits, WrapFits DEF Total
<1>8. SumFunction(ones) = n
  <2>1. DOMAIN ones = 1..n /\ 1..n \in SUBSET (1..n) /\ \A i \in 1..n : ones[i] = IF i \in 1..n THEN 1 ELSE 0
    BY <1>1
  <2> HIDE DEF ones
  <2> QED
    BY <1>5, <2>1, SumCounts DEF SumFunction
<1>9. amount < Limit /\ WeightsFit(n, amount, values) /\ WeightsFit(n, amount, ones)
  BY <1>1, <1>4 DEF Fits, WeightsFit
<1>10. n \in Nat \ {0}
  BY <1>1, <1>2
<1>11. ASSUME NEW weights \in [1..n -> Nat], WeightsFit(n, amount, weights),
              SumFunction(weights) # 0, S = Weighted(amount, weights, SumFunction(weights))
       PROVE  S \in [1..n -> Nat] /\ SumFunction(S) = amount /\ FairBy(weights)
  <2> HIDE DEF n, S
  <2> QED
    BY <1>9, <1>10, <1>11, WeightedAdds
<1>0. Weights(mode, in) = IF mode = "equal" THEN ones ELSE values
  BY DEF Weights
<1> HIDE DEF S, values, ones, n, FairBy
<1>12. ASSUME mode = "equal"
       PROVE  /\ S \in [1..n -> Nat] /\ SumFunction(S) = amount
              /\ mode # "exact" => FairBy(Weights(mode, in))
  <2>1. S = Weighted(amount, ones, SumFunction(ones)) /\ SumFunction(ones) # 0
    BY <1>3, <1>8, <1>10, <1>12
  <2> QED
    BY <1>0, <1>1, <1>4, <1>9, <1>11, <1>12, <2>1
<1>13. ASSUME mode = "exact"
       PROVE  /\ S \in [1..n -> Nat] /\ SumFunction(S) = amount
              /\ mode # "exact" => FairBy(Weights(mode, in))
  <2>1. S = values /\ Total(values) = amount
    BY <1>2, <1>3, <1>13 DEF ValuesOK
  <2> QED
    BY <1>1, <1>4, <1>7, <1>13, <2>1
<1>14. ASSUME mode = "percent"
       PROVE  /\ S \in [1..n -> Nat] /\ SumFunction(S) = amount
              /\ mode # "exact" => FairBy(Weights(mode, in))
  <2>1. S = Weighted(amount, values, FullPercent) /\ Total(values) = FullPercent /\ FullPercent # 0
    BY <1>2, <1>3, <1>14 DEF ValuesOK, FullPercent
  <2> QED
    BY <1>0, <1>1, <1>4, <1>7, <1>9, <1>11, <1>14, <2>1
<1>15. ASSUME mode = "shares"
       PROVE  /\ S \in [1..n -> Nat] /\ SumFunction(S) = amount
              /\ mode # "exact" => FairBy(Weights(mode, in))
  <2>1. S = Weighted(amount, values, SumFunction(values)) /\ \A i \in DOMAIN values : values[i] > 0
    BY <1>2, <1>3, <1>7, <1>15 DEF ValuesOK
  <2>2. SumFunction(values) # 0
    <3>1. 1 \in 1..n /\ DOMAIN values = 1..n
      BY <1>4, <1>10
    <3>2. values[1] > 0 /\ values[1] <= SumFunction(values) /\ values[1] \in Nat
      BY <1>4, <1>6, <2>1, <3>1
    <3> QED
      BY <1>6, <3>2
  <2> QED
    BY <1>0, <1>1, <1>4, <1>9, <1>11, <1>15, <2>1, <2>2
<1>16. /\ S \in [1..n -> Nat] /\ SumFunction(S) = amount
       /\ mode # "exact" => FairBy(Weights(mode, in))
  <2>1. mode \in {"equal", "exact", "percent", "shares"}
    BY DEF Modes
  <2> QED
    BY <1>12, <1>13, <1>14, <1>15, <2>1
<1>17. DOMAIN in = 1..n
  BY <1>1
<1> QED
  BY <1>16, <1>17 DEF S, FairBy, n

\* The rows written for shares: one for each user, with the same sum.
LEMMA RowsSum ==
    ASSUME NEW in \in Seq(Entry), IsInjective([i \in DOMAIN in |-> in[i].user]),
           NEW shares \in [DOMAIN in -> Nat]
    PROVE  /\ SplitRows(in, shares) \in [{in[i].user : i \in DOMAIN in} -> Nat]
           /\ \A i \in DOMAIN in : SplitRows(in, shares)[in[i].user] = shares[i]
           /\ SumFunction(SplitRows(in, shares)) = SumFunction(shares)
<1> DEFINE D == DOMAIN in
           users == [i \in D |-> in[i].user]
           rows == SplitRows(in, shares)
           U == {users[i] : i \in D}
<1>1. \A i, j \in D : users[i] = users[j] => i = j
  BY DEF IsInjective
<1>2. DOMAIN rows = U /\ U = {in[i].user : i \in D}
  BY DEF SplitRows
<1>3. ASSUME NEW i \in D PROVE rows[in[i].user] = shares[i]
  <2>1. \A j \in D : in[j].user = in[i].user => j = i
    BY <1>1
  <2>2. (CHOOSE j \in D : in[j].user = in[i].user) = i
    BY <2>1
  <2>3. in[i].user \in {in[j].user : j \in D}
    OBVIOUS
  <2> QED
    BY <2>2, <2>3 DEF SplitRows
<1>4. IsFiniteSet(D)
  <2>1. Len(in) \in Nat /\ D = 1..Len(in)
    OBVIOUS
  <2> QED
    BY <2>1, Count
<1>5. rows \in [{in[i].user : i \in D} -> Nat]
  <2>1. rows = [u \in {in[i].user : i \in D} |-> rows[u]]
    BY DEF SplitRows
  <2>2. \A u \in {in[i].user : i \in D} : rows[u] \in Nat
    BY <1>3
  <2> HIDE DEF rows
  <2> QED
    BY <2>1, <2>2
<1>6. SumFunctionOnSet(rows, U) = SumFunctionOnSet(shares, D)
  <2>1. \A i \in D : shares[i] \in Int /\ rows[users[i]] = shares[i]
    BY <1>3
  <2>2. U = {users[i] : i \in D}
    OBVIOUS
  <2> HIDE DEF rows, users, U, D
  <2>3. SumFunctionOnSet(rows, {users[i] : i \in D}) = SumFunctionOnSet(shares, D)
    BY ONLY <1>1, <1>4, <2>1, SumReindex
  <2> QED
    BY <2>2, <2>3
<1> QED
  BY <1>2, <1>3, <1>5, <1>6 DEF SumFunction

-----------------------------------------------------------------------------
(* rescaleSplits *)

\* Of any finite set of users, as many are before the k-th place as it says.
LEMMA RankCounts ==
    ASSUME NEW users \in SUBSET Nat, IsFiniteSet(users), NEW k \in 0..Cardinality(users)
    PROVE  Cardinality({u \in users : Rank(users, u) < k}) = k
<1> DEFINE First(T, m) == {u \in T : Rank(T, u) < m}
           Good == {T \in SUBSET users : \A m \in 0..Cardinality(T) : Cardinality(First(T, m)) = m}
<1>0. \A T \in SUBSET users : IsFiniteSet(T) /\ Cardinality(T) \in Nat
  BY FS_Subset, FS_CardinalityType
<1>1. ASSUME NEW T \in SUBSET users, \A x \in T : T \ {x} \in Good PROVE T \in Good
  <2>1. CASE T = {}
    <3>1. ASSUME NEW m \in 0..Cardinality(T) PROVE Cardinality(First(T, m)) = m
      <4>1. First(T, m) = {} /\ Cardinality({}) = 0 /\ m \in 0..0
        BY <2>1, FS_EmptySet
      <4> QED
        BY <4>1
    <3> QED
      BY <3>1
  <2>2. CASE T # {}
    <3>1. PICK least \in T : \A u \in T : least <= u
      BY <2>2, LeastNatural
    <3> DEFINE O == T \ {least}
    <3>2. /\ \A m \in 0..Cardinality(O) : Cardinality(First(O, m)) = m
          /\ Cardinality(O) = Cardinality(T) - 1 /\ O \in SUBSET users
          /\ Cardinality(T) \in Nat /\ Cardinality(O) \in Nat
      BY <1>0, <1>1, FS_RemoveElement
    <3>3. Rank(T, least) = 0
      <4>1. \A v \in T : v \in Nat /\ least <= v /\ least \in Nat
        BY <3>1
      <4>2. {v \in T : v < least} = {}
        <5>1. \A v \in T : ~(v < least)
          BY <4>1
        <5> QED
          BY ONLY <5>1, Zenon
      <4> QED
        BY <4>2, FS_EmptySet DEF Rank
    <3>4. ASSUME NEW u \in O PROVE Rank(T, u) = Rank(O, u) + 1 /\ Rank(O, u) \in Nat
      <4> DEFINE B == {v \in O : v < u}
      <4>1. {v \in T : v < u} = B \cup {least} /\ least \notin B
        BY <3>1
      <4>2. IsFiniteSet(B) /\ Cardinality(B) \in Nat
        BY <1>0, <3>2, FS_Subset, FS_CardinalityType
      <4> HIDE DEF B
      <4>3. Cardinality(B \cup {least}) = Cardinality(B) + 1
        BY <4>1, <4>2, FS_AddElement
      <4> QED
        BY <4>1, <4>2, <4>3 DEF Rank, B
    <3>5. ASSUME NEW m \in 0..Cardinality(T) PROVE Cardinality(First(T, m)) = m
      <4>1. CASE m = 0
        <5>1. \A u \in T : Rank(T, u) \in Nat
          BY <3>3, <3>4
        <5>2. First(T, m) = {}
          <6>1. \A u \in T : ~(Rank(T, u) < m)
            BY <4>1, <5>1
          <6> QED
            BY <6>1, Zenon
        <5> QED
          BY <4>1, <5>2, FS_EmptySet
      <4>2. CASE m # 0
        <5>1. m - 1 \in 0..Cardinality(O)
          BY <3>2, <4>2
        <5>2. First(T, m) = First(O, m - 1) \cup {least} /\ least \notin First(O, m - 1)
          <6>1. \A u \in O : Rank(T, u) < m <=> Rank(O, u) < m - 1
            BY <3>4, <5>1
          <6>2. Rank(T, least) < m
            BY <3>3, <4>2
          <6> QED
            BY <6>1, <6>2
        <5>3. IsFiniteSet(First(O, m - 1)) /\ Cardinality(First(O, m - 1)) = m - 1
          BY <1>0, <3>2, <5>1, FS_Subset
        <5> DEFINE E == First(O, m - 1)
        <5>4. First(T, m) = E \cup {least} /\ least \notin E /\ IsFiniteSet(E) /\ Cardinality(E) = m - 1
          BY <5>2, <5>3
        <5> HIDE DEF First, O, E
        <5>5. Cardinality(E \cup {least}) = (m - 1) + 1
          BY <5>4, FS_AddElement
        <5> QED
          BY <5>1, <5>4, <5>5
      <4> QED
        BY <4>1, <4>2
    <3> QED
      BY <3>5
  <2> QED
    BY <2>1, <2>2
<1>2. users \in Good
  <2>1. \A T \in SUBSET users : T \in Good
    <3> HIDE DEF Good
    <3> QED
      BY <1>1, FiniteInduct
  <2> QED
    BY <2>1
<1> QED
  BY <1>2

\* A new total is shared in proportion to the old shares, exactly; nobody's share
\* becomes negative (rescaleSplits).
THEOREM RescaledSums ==
    ASSUME NEW rows, IsFiniteSet(DOMAIN rows), DOMAIN rows \subseteq Nat,
           \A u \in DOMAIN rows : rows[u] \in Nat,
           NEW old \in Nat \ {0}, old = SumFunction(rows),
           NEW new \in Nat, new < Limit, \A u \in DOMAIN rows : rows[u] * new < Limit
    PROVE  /\ \A u \in DOMAIN rows :
                 /\ RescaleSplits(rows, old, new)[u] \in Nat
                 /\ RescaleSplits(rows, old, new)[u] - ((new * rows[u]) \div old) \in {0, 1}
           /\ SumFunction(RescaleSplits(rows, old, new)) = new
<1> DEFINE D == DOMAIN rows
           floored == [u \in D |-> Quo(Times(rows[u], new), old)]
           left == Wrap(new - Total(floored))
           n == Cardinality(D)
           F == SumFunctionOnSet(floored, D)
           extra == [u \in D |-> IF Rank(D, u) < new - F THEN 1 ELSE 0]
           sum == [u \in D |-> floored[u] + extra[u]]
<1>1. D # {} /\ old = SumFunctionOnSet(rows, D) /\ n \in Nat \ {0}
  <2>1. old = SumFunctionOnSet(rows, D)
    BY DEF SumFunction
  <2>2. D # {}
    BY <2>1, SumEmpty
  <2> QED
    BY <2>1, <2>2, FS_CardinalityType, FS_EmptySet
<1>2. ASSUME NEW u \in D PROVE floored[u] = Quo(new * rows[u], old) /\ new * rows[u] \in Nat
  <2> DEFINE p == rows[u] * new
  <2>1. p = new * rows[u] /\ p \in Nat /\ p < Limit
    BY Products
  <2>2. Wrap(p) = p
    <3> HIDE DEF p
    <3> QED
      BY <2>1, Limits, WrapFits
  <2>3. floored[u] = Quo(Wrap(p), old)
    BY DEF Times
  <2> QED
    BY <2>1, <2>2, <2>3
<1>3. /\ \A u \in D : floored[u] \in Nat
      /\ F \in Nat /\ F <= new /\ new - F < n
  <2>1. /\ \A u \in D : rows[u] \in Nat
        /\ SumFunctionOnSet(rows, D) # 0
        /\ \A u \in D : floored[u] = Quo(new * rows[u], SumFunctionOnSet(rows, D))
    BY <1>1, <1>2
  <2> HIDE DEF floored, D
  <2> QED
    BY <1>1, <2>1, FlooredRest DEF D
<1>4. left = new - F
  <2>1. SumFunction(floored) = F
    BY DEF SumFunction
  <2> HIDE DEF F, floored
  <2>2. Wrap(F) = F
    BY <1>3, Limits, WrapFits
  <2>3. Wrap(new - F) = new - F
    <3> DEFINE d == new - F
    <3>1. d \in Int /\ -Limit <= d /\ d < Limit
      BY <1>3, Limits
    <3> HIDE DEF d
    <3> QED
      BY <3>1, WrapFits DEF d
  <2> QED
    BY <2>1, <2>2, <2>3 DEF Total
<1>5. RescaleSplits(rows, old, new) = sum
  <2>1. RescaleSplits(rows, old, new) =
           [u \in D |-> floored[u] +
               IF left <= 0 THEN 0
               ELSE left \div n + IF Rank(D, u) < left % n THEN 1 ELSE 0]
    BY <1>1 DEF RescaleSplits
  <2>2. left \in 0..(n - 1)
    BY <1>1, <1>3, <1>4
  <2>3. left \div n = 0 /\ left % n = left
    <3> HIDE DEF left, n
    <3> QED
      BY <1>1, <2>2
  <2>4. \A u \in D : Rank(D, u) \in Nat
    BY FS_Subset, FS_CardinalityType DEF Rank
  <2>5. \A u \in D : extra[u] = IF left <= 0 THEN 0
                                ELSE left \div n + IF Rank(D, u) < left % n THEN 1 ELSE 0
    <3> HIDE DEF left, n, F, D
    <3> QED
      BY <1>4, <2>2, <2>3, <2>4
  <2> HIDE DEF floored, left, n
  <2> QED
    BY <2>1, <2>5
<1>6. SumFunctionOnSet(extra, D) = new - F
  <2> DEFINE A == {u \in D : Rank(D, u) < new - F}
  <2>1. new - F \in 0..n
    BY <1>1, <1>3
  <2>2. Cardinality(A) = new - F
    <3> HIDE DEF F
    <3> QED
      BY <2>1, RankCounts
  <2>3. \A u \in D : extra[u] = IF u \in A THEN 1 ELSE 0
    OBVIOUS
  <2>4. A \in SUBSET D
    OBVIOUS
  <2> HIDE DEF extra, A
  <2> QED
    BY <2>2, <2>3, <2>4, SumCounts
<1>7. SumFunctionOnSet(sum, D) = F + (new - F)
  <2>1. \A u \in D : floored[u] \in Int /\ extra[u] \in Int /\ sum[u] = floored[u] + extra[u]
    BY <1>3
  <2> HIDE DEF floored, extra, sum
  <2> QED
    BY <1>6, <2>1, SumPlus
<1>8. ASSUME NEW u \in D PROVE sum[u] \in Nat /\ sum[u] - ((new * rows[u]) \div old) \in {0, 1}
  <2>1. floored[u] = (new * rows[u]) \div old /\ floored[u] \in Nat
    BY <1>2, <1>3, QuoIsFloor
  <2>2. sum[u] = floored[u] + extra[u] /\ extra[u] \in {0, 1}
    OBVIOUS
  <2> HIDE DEF floored, extra, sum
  <2> QED
    BY <2>1, <2>2
<1>9. DOMAIN sum = D /\ F + (new - F) = new
  BY <1>3
<1> QED
  BY <1>5, <1>7, <1>8, <1>9 DEF SumFunction

-----------------------------------------------------------------------------
(* More about sums *)

\* b gives each index of D a name of its own in C, where g has what f had.
Renames(b, D, C, f, g) ==
    /\ \A x \in D : f[x] \in Int /\ g[b[x]] = f[x] /\ b[x] \in C
    /\ \A y \in C : \E x \in D : b[x] = y
    /\ \A x, y \in D : b[x] = b[y] => x = y

\* The same with a name for the set of new names.
LEMMA SumRename ==
    ASSUME NEW b, NEW D, NEW C, NEW f, NEW g, IsFiniteSet(D), Renames(b, D, C, f, g)
    PROVE  SumFunctionOnSet(g, C) = SumFunctionOnSet(f, D)
<1>1. C = {b[x] : x \in D}
  BY DEF Renames
<1>2. /\ \A x \in D : f[x] \in Int /\ g[b[x]] = f[x]
      /\ \A x, y \in D : b[x] = b[y] => x = y
  BY DEF Renames
<1>3. SumFunctionOnSet(g, {b[x] : x \in D}) = SumFunctionOnSet(f, D)
  BY <1>2, SumReindex
<1> QED
  BY <1>1, <1>3

\* Terms that are the same have the same sum.
LEMMA SumSame ==
    ASSUME NEW D, IsFiniteSet(D), NEW f, NEW g, \A x \in D : f[x] \in Int /\ g[x] = f[x]
    PROVE  SumFunctionOnSet(g, D) = SumFunctionOnSet(f, D)
<1> DEFINE b == [x \in D |-> x]
<1>1. Renames(b, D, D, f, g)
  BY DEF Renames
<1> QED
  BY <1>1, SumRename

\* The sum over two parts that have no index in common.
LEMMA SumUnion ==
    ASSUME NEW D, IsFiniteSet(D), NEW f, \A x \in D : f[x] \in Int,
           NEW A \in SUBSET D, NEW B \in SUBSET D, A \cap B = {}
    PROVE  SumFunctionOnSet(f, A \cup B) = SumFunctionOnSet(f, A) + SumFunctionOnSet(f, B)
<1> DEFINE F(T) == SumFunctionOnSet(f, T)
           Good == {T \in SUBSET B : F(A \cup T) = F(A) + F(T)}
<1>1. IsFiniteSet(B)
  BY FS_Subset
<1>2. \A T \in SUBSET D : F(T) \in Int /\ \A d \in T : F(T) = f[d] + F(T \ {d})
  BY PartOfSum
<1>3. F({}) = 0
  BY SumEmpty
<1> HIDE DEF F
<1>4. {} \in Good
  <2>1. A \cup {} = A /\ F(A) \in Int
    BY <1>2
  <2> QED
    BY <1>3, <2>1
<1>5. ASSUME NEW T \in SUBSET B, NEW d \in T, T \ {d} \in Good PROVE T \in Good
  <2> DEFINE Td == T \ {d}
             ATd == A \cup Td
             AT == A \cup T
  <2>1. d \notin A /\ AT \ {d} = ATd /\ AT \in SUBSET D /\ d \in AT
    OBVIOUS
  <2>2. F(AT) = f[d] + F(ATd) /\ F(T) = f[d] + F(Td) /\ F(ATd) = F(A) + F(Td)
    <3>1. F(AT) = f[d] + F(AT \ {d})
      BY <1>2, <2>1
    <3> QED
      BY <1>2, <1>5, <2>1, <3>1
  <2>3. f[d] \in Int /\ F(A) \in Int /\ F(Td) \in Int
    BY <1>2
  <2>4. F(AT) = F(A) + F(T)
    <3> HIDE DEF AT, ATd, Td
    <3> QED
      BY <2>2, <2>3
  <2> QED
    BY <2>4
<1>6. B \in Good
  <2> HIDE DEF Good
  <2> QED
    BY <1>1, <1>4, <1>5, SumInduct
<1> QED
  BY <1>6 DEF F

\* So a sum is that of some of its terms and that of the others.
LEMMA SumParts ==
    ASSUME NEW D, IsFiniteSet(D), NEW f, \A x \in D : f[x] \in Int, NEW A \in SUBSET D
    PROVE  SumFunctionOnSet(f, D) = SumFunctionOnSet(f, A) + SumFunctionOnSet(f, D \ A)
<1> DEFINE B == D \ A
<1>1. D = A \cup B /\ A \cap B = {} /\ B \in SUBSET D
  OBVIOUS
<1> HIDE DEF B
<1>2. SumFunctionOnSet(f, A \cup B) = SumFunctionOnSet(f, A) + SumFunctionOnSet(f, B)
  BY <1>1, SumUnion
<1> QED
  BY <1>1, <1>2 DEF B

\* The sum of some of the terms is the sum with the others left out.
LEMMA SumWhere ==
    ASSUME NEW D, IsFiniteSet(D), NEW f, NEW g, NEW A \in SUBSET D,
           \A x \in D : f[x] \in Int /\ g[x] = IF x \in A THEN f[x] ELSE 0
    PROVE  SumFunctionOnSet(f, A) = SumFunctionOnSet(g, D)
<1> DEFINE none == [x \in D |-> 0]
           B == D \ A
<1>1. \A x \in D : g[x] \in Int
  OBVIOUS
<1>2. IsFiniteSet(A) /\ IsFiniteSet(B)
  BY FS_Subset
<1>3. SumFunctionOnSet(g, A) = SumFunctionOnSet(f, A)
  BY <1>2, SumSame
<1>4. SumFunctionOnSet(g, B) = 0
  <2>1. \A x \in B : none[x] \in Int /\ g[x] = none[x]
    OBVIOUS
  <2>2. \A x \in B : none[x] = IF x \in {} THEN 1 ELSE 0
    OBVIOUS
  <2>3. {} \in SUBSET B
    OBVIOUS
  <2> HIDE DEF none, B
  <2> QED
    BY <1>2, <2>1, <2>2, <2>3, SumSame, SumCounts, FS_EmptySet
<1>5. SumFunctionOnSet(f, A) \in Int
  BY PartOfSum
<1>6. D = A \cup B /\ A \cap B = {} /\ B \in SUBSET D
  OBVIOUS
<1> HIDE DEF B
<1>7. SumFunctionOnSet(g, A \cup B) = SumFunctionOnSet(g, A) + SumFunctionOnSet(g, B)
  BY <1>1, <1>6, SumUnion
<1> QED
  BY <1>3, <1>4, <1>5, <1>6, <1>7

\* h has the m terms of f and then the n terms of g.
Joined(m, n, f, g, h) ==
    /\ DOMAIN f = 1..m /\ DOMAIN g = 1..n /\ DOMAIN h = 1..(m + n)
    /\ \A i \in 1..m : f[i] \in Int /\ h[i] = f[i]
    /\ \A i \in 1..n : g[i] \in Int /\ h[m + i] = g[i]

\* Sequences of numbers are summed one after the other.
LEMMA SumConcat ==
    ASSUME NEW m \in Nat, NEW n \in Nat, NEW f, NEW g, NEW h, Joined(m, n, f, g, h)
    PROVE  /\ SumFunction(f) \in Int /\ SumFunction(g) \in Int
           /\ SumFunction(h) = SumFunction(f) + SumFunction(g)
<1> DEFINE b == [i \in 1..n |-> m + i]
           B == {b[i] : i \in 1..n}
<1>1. /\ DOMAIN f = 1..m /\ DOMAIN g = 1..n /\ DOMAIN h = 1..(m + n)
      /\ \A i \in 1..m : h[i] = f[i] /\ f[i] \in Int
      /\ \A i \in 1..n : h[m + i] = g[i] /\ g[i] \in Int
      /\ \A i \in 1..(m + n) : h[i] \in Int
  <2>1. \A i \in 1..(m + n) : i \in 1..m \/ (i - m \in 1..n /\ m + (i - m) = i)
    OBVIOUS
  <2> QED
    BY <2>1 DEF Joined
<1>2. IsFiniteSet(1..m) /\ IsFiniteSet(1..n) /\ IsFiniteSet(1..(m + n))
  BY <1>1, FS_Interval
<1>3. SumFunctionOnSet(h, 1..m) = SumFunctionOnSet(f, 1..m)
  BY <1>1, <1>2, SumSame
<1>4. SumFunctionOnSet(h, B) = SumFunctionOnSet(g, 1..n)
  <2>1. /\ \A i \in 1..n : b[i] = m + i /\ b[i] \in B
        /\ \A y \in B : \E i \in 1..n : b[i] = y
        /\ \A i, j \in 1..n : b[i] = b[j] => i = j
    OBVIOUS
  <2> HIDE DEF b, B
  <2>2. Renames(b, 1..n, B, g, h)
    BY <1>1, <2>1 DEF Renames
  <2> QED
    BY <1>2, <2>2, SumRename
<1>5. (1..m) \cup B = 1..(m + n) /\ (1..m) \cap B = {} /\ B \in SUBSET (1..(m + n)) /\ 1..m \in SUBSET (1..(m + n))
  <2>1. \A x : x \in B <=> x \in (m + 1)..(m + n)
    <3>1. \A x \in (m + 1)..(m + n) : x - m \in 1..n /\ b[x - m] = x
      BY <1>1
    <3>2. \A i \in 1..n : b[i] \in (m + 1)..(m + n)
      BY <1>1
    <3> HIDE DEF b
    <3> QED
      BY <3>1, <3>2
  <2> HIDE DEF B
  <2> QED
    BY <1>1, <2>1
<1> HIDE DEF B
<1>6. SumFunctionOnSet(h, (1..m) \cup B) = SumFunctionOnSet(h, 1..m) + SumFunctionOnSet(h, B)
  <2> DEFINE D == 1..(m + n)
             A == 1..m
  <2>1. IsFiniteSet(D) /\ (\A i \in D : h[i] \in Int) /\ A \in SUBSET D /\ B \in SUBSET D /\ A \cap B = {}
    BY <1>1, <1>2, <1>5
  <2> HIDE DEF A, D
  <2>2. SumFunctionOnSet(h, A \cup B) = SumFunctionOnSet(h, A) + SumFunctionOnSet(h, B)
    BY ONLY <2>1, SumUnion
  <2> QED
    BY <2>2 DEF A
<1>7. SumFunctionOnSet(f, 1..m) \in Int /\ SumFunctionOnSet(g, 1..n) \in Int
  BY <1>1, <1>2, SumStep
<1> QED
  BY <1>1, <1>3, <1>4, <1>5, <1>6, <1>7 DEF SumFunction

\* The sum of one number.
LEMMA SumOne == ASSUME NEW x \in Int PROVE SumFunction(<<x>>) = x
<1> DEFINE f == <<x>>
<1>1. DOMAIN f = {1} /\ f[1] = x /\ IsFiniteSet({1}) /\ \A i \in {1} : f[i] \in Int
  BY FS_Singleton
<1> HIDE DEF f
<1>2. SumFunctionOnSet(f, {1}) = f[1] + SumFunctionOnSet(f, {1} \ {1})
  BY <1>1, SumStep
<1>3. {1} \ {1} = {}
  OBVIOUS
<1> QED
  BY <1>1, <1>2, <1>3, SumEmpty DEF SumFunction, f

\* The sum of one term.
LEMMA SumOnly == ASSUME NEW f, NEW x, f[x] \in Int PROVE SumFunctionOnSet(f, {x}) = f[x]
<1>1. IsFiniteSet({x}) /\ {x} \ {x} = {}
  BY FS_Singleton
<1>2. SumFunctionOnSet(f, {x}) = f[x] + SumFunctionOnSet(f, {x} \ {x})
  BY <1>1, SumStep
<1> QED
  BY <1>1, <1>2, SumEmpty

\* A sum with one term that counts.
LEMMA SumOfOne ==
    ASSUME NEW D, IsFiniteSet(D), NEW x, NEW c \in Int, NEW g,
           \A y \in D : g[y] = IF x = y THEN c ELSE 0
    PROVE  SumFunctionOnSet(g, D) = IF x \in D THEN c ELSE 0
<1> DEFINE f == [y \in D |-> c]
           A == {x} \cap D
<1>1. \A y \in D : f[y] \in Int /\ g[y] = IF y \in A THEN f[y] ELSE 0
  OBVIOUS
<1>2. A \in SUBSET D
  OBVIOUS
<1>3. x \in D => A = {x} /\ f[x] = c
  OBVIOUS
<1>4. x \notin D => A = {}
  OBVIOUS
<1> HIDE DEF A, f
<1>5. SumFunctionOnSet(f, A) = SumFunctionOnSet(g, D)
  BY <1>1, <1>2, SumWhere
<1>6. CASE x \in D
  BY <1>3, <1>5, <1>6, SumOnly
<1>7. CASE x \notin D
  BY <1>4, <1>5, <1>7, SumEmpty
<1> QED
  BY <1>6, <1>7

\* The sums of the rows of a table, and of its columns.
Tabulates(M, D, h, byRow, byColumn) ==
    /\ \A u \in M, i \in D : h[u][i] \in Int
    /\ \A u \in M : byRow[u] = SumFunctionOnSet(h[u], D)
    /\ \A i \in D : byColumn[i] = SumFunctionOnSet([u \in M |-> h[u][i]], M)

\* Rows are summed like columns.
LEMMA SumSwap ==
    ASSUME NEW M, IsFiniteSet(M), NEW D, IsFiniteSet(D), NEW h, NEW byRow, NEW byColumn,
           Tabulates(M, D, h, byRow, byColumn)
    PROVE  SumFunctionOnSet(byRow, M) = SumFunctionOnSet(byColumn, D)
<1> USE DEF Tabulates
<1> DEFINE column(i) == [u \in M |-> h[u][i]]
           part(T) == [i \in D |-> SumFunctionOnSet(column(i), T)]
           R(T) == SumFunctionOnSet(byRow, T)
           P(T) == SumFunctionOnSet(part(T), D)
           Good == {T \in SUBSET M : R(T) = P(T)}
<1>1. \A u \in M : byRow[u] \in Int
  <2> SUFFICES ASSUME NEW u \in M PROVE byRow[u] \in Int
    OBVIOUS
  <2> DEFINE f == h[u]
  <2>1. \A i \in D : f[i] \in Int
    OBVIOUS
  <2> HIDE DEF f
  <2>2. SumFunctionOnSet(f, D) \in Int
    BY <2>1, SumStep
  <2> QED
    BY <2>2 DEF f
<1>2. ASSUME NEW i \in D, NEW T \in SUBSET M
      PROVE  /\ SumFunctionOnSet(column(i), T) \in Int
             /\ \A d \in T : SumFunctionOnSet(column(i), T) = h[d][i] + SumFunctionOnSet(column(i), T \ {d})
  <2> DEFINE f == column(i)
  <2>1. \A u \in M : f[u] \in Int /\ f[u] = h[u][i]
    OBVIOUS
  <2> HIDE DEF f
  <2>2. /\ SumFunctionOnSet(f, T) \in Int
        /\ \A d \in T : SumFunctionOnSet(f, T) = f[d] + SumFunctionOnSet(f, T \ {d})
    BY <2>1, PartOfSum
  <2> QED
    BY <2>1, <2>2 DEF f
<1>3. \A T \in SUBSET M : R(T) \in Int /\ \A d \in T : R(T) = byRow[d] + R(T \ {d})
  BY <1>1, PartOfSum
<1>4. R({}) = 0 /\ P({}) = 0
  <2> DEFINE f == part({})
             g == [i \in D |-> IF 0 = 1 THEN 1 ELSE 0]
  <2>1. \A i \in D : f[i] = 0
    BY SumEmpty
  <2>2. {} \in SUBSET D /\ \A i \in D : f[i] = IF i \in {} THEN 1 ELSE 0
    BY <2>1
  <2> HIDE DEF f
  <2>3. SumFunctionOnSet(f, D) = 0
    BY <2>2, SumCounts, FS_EmptySet
  <2> QED
    BY <2>3, SumEmpty DEF f
<1>5. ASSUME NEW T \in SUBSET M, NEW d \in T PROVE P(T) = byRow[d] + P(T \ {d}) /\ P(T \ {d}) \in Int
  <2> DEFINE f == h[d]
             g == part(T \ {d})
             k == part(T)
  <2>1. \A i \in D : f[i] \in Int /\ g[i] \in Int /\ k[i] = f[i] + g[i]
    <3> SUFFICES ASSUME NEW i \in D PROVE f[i] \in Int /\ g[i] \in Int /\ k[i] = f[i] + g[i]
      OBVIOUS
    <3>1. f[i] = h[d][i] /\ k[i] = SumFunctionOnSet(column(i), T) /\ g[i] = SumFunctionOnSet(column(i), T \ {d})
      OBVIOUS
    <3>2. T \ {d} \in SUBSET M /\ d \in M
      OBVIOUS
    <3> HIDE DEF f, g, k, column
    <3>3. SumFunctionOnSet(column(i), T \ {d}) \in Int
      BY <1>2, <3>2
    <3>4. SumFunctionOnSet(column(i), T) = h[d][i] + SumFunctionOnSet(column(i), T \ {d})
      BY <1>2
    <3> QED
      BY <3>1, <3>2, <3>3, <3>4
  <2>2. byRow[d] = SumFunctionOnSet(f, D)
    OBVIOUS
  <2> HIDE DEF f, g, k
  <2>3. SumFunctionOnSet(k, D) = SumFunctionOnSet(f, D) + SumFunctionOnSet(g, D)
    BY <2>1, SumPlus
  <2>4. SumFunctionOnSet(g, D) \in Int
    BY <2>1, SumStep
  <2> QED
    BY <2>2, <2>3, <2>4 DEF g, k
<1> HIDE DEF R, P
<1>6. ASSUME NEW T \in SUBSET M, NEW d \in T, T \ {d} \in Good PROVE T \in Good
  BY <1>3, <1>5, <1>6
<1>7. M \in Good
  <2>1. {} \in Good
    BY <1>4
  <2> HIDE DEF Good
  <2> QED
    BY <1>6, <2>1, SumInduct
<1>8. P(M) = SumFunctionOnSet(byColumn, D)
  <2> DEFINE f == part(M)
  <2>1. \A i \in D : f[i] \in Int /\ byColumn[i] = f[i]
    <3> SUFFICES ASSUME NEW i \in D PROVE f[i] \in Int /\ byColumn[i] = f[i]
      OBVIOUS
    <3>1. f[i] = SumFunctionOnSet(column(i), M) /\ byColumn[i] = SumFunctionOnSet(column(i), M)
      OBVIOUS
    <3> HIDE DEF f, column
    <3> QED
      BY <1>2, <3>1
  <2> HIDE DEF f
  <2>2. SumFunctionOnSet(byColumn, D) = SumFunctionOnSet(f, D)
    BY <2>1, SumSame
  <2> QED
    BY <2>2 DEF f, P
<1> QED
  BY <1>7, <1>8 DEF R

-----------------------------------------------------------------------------
(* Lists of members and of transfers *)

\* A sequence over a set is one over a larger set.
LEMMA LargerSeq ==
    ASSUME NEW S, NEW T, S \subseteq T, NEW s \in Seq(S)
    PROVE  s \in Seq(T)
OBVIOUS

Transfers == Seq([from : Int, to : Int, cents : Nat])

\* The cents of a list, and those of one member.
Cents(list) == [i \in DOMAIN list |-> list[i].cents]

Due(list, u) == [i \in DOMAIN list |-> IF list[i].id = u THEN list[i].cents ELSE 0]

\* What a member pays and receives.
Sent(list, u) == [i \in DOMAIN list |-> IF list[i].from = u THEN list[i].cents ELSE 0]

Got(list, u) == [i \in DOMAIN list |-> IF list[i].to = u THEN list[i].cents ELSE 0]

Sum(terms) == SumFunction(terms)

\* The terms of a longer list are those of its parts.
LEMMA ListParts ==
    ASSUME NEW s \in Lists, NEW t \in Lists
    PROVE  /\ s \o t \in Lists
           /\ Sum(Cents(s)) \in Int /\ Sum(Cents(t)) \in Int
           /\ Sum(Cents(s \o t)) = Sum(Cents(s)) + Sum(Cents(t))
           /\ \A u : /\ Sum(Due(s, u)) \in Int /\ Sum(Due(t, u)) \in Int
                     /\ Sum(Due(s \o t, u)) = Sum(Due(s, u)) + Sum(Due(t, u))
<1> DEFINE m == Len(s)
           n == Len(t)
<1>1. /\ m \in Nat /\ n \in Nat /\ s \o t \in Lists /\ Len(s \o t) = m + n
      /\ DOMAIN s = 1..m /\ DOMAIN t = 1..n /\ DOMAIN (s \o t) = 1..(m + n)
      /\ \A i \in 1..m : s[i].cents \in Int /\ (s \o t)[i] = s[i]
      /\ \A i \in 1..n : t[i].cents \in Int /\ (s \o t)[m + i] = t[i]
  <2> DEFINE R == [id : Int, cents : Nat]
  <2>1. s \in Seq(R) /\ t \in Seq(R) /\ \A x \in R : x.cents \in Int
    BY DEF Lists
  <2> HIDE DEF R
  <2>2. s \o t \in Seq(R) /\ Len(s \o t) = m + n /\ m \in Nat /\ n \in Nat
    BY <2>1
  <2>3. /\ DOMAIN s = 1..m /\ DOMAIN t = 1..n /\ DOMAIN (s \o t) = 1..(m + n)
        /\ \A i \in 1..m : s[i] \in R /\ (s \o t)[i] = s[i]
        /\ \A i \in 1..n : t[i] \in R /\ (s \o t)[m + i] = t[i]
    BY <2>1, <2>2
  <2> QED
    BY <2>1, <2>2, <2>3 DEF R, Lists
<1> HIDE DEF m, n
<1>2. Joined(m, n, Cents(s), Cents(t), Cents(s \o t))
  BY <1>1 DEF Joined, Cents
<1>3. ASSUME NEW u PROVE Joined(m, n, Due(s, u), Due(t, u), Due(s \o t, u))
  BY <1>1 DEF Joined, Due
<1> QED
  BY <1>1, <1>2, <1>3, SumConcat DEF Sum

\* The same of transfers.
LEMMA TransferParts ==
    ASSUME NEW s \in Transfers, NEW t \in Transfers, NEW u
    PROVE  /\ s \o t \in Transfers
           /\ Sum(Sent(s, u)) \in Int /\ Sum(Sent(t, u)) \in Int
           /\ Sum(Sent(s \o t, u)) = Sum(Sent(s, u)) + Sum(Sent(t, u))
           /\ Sum(Got(s, u)) \in Int /\ Sum(Got(t, u)) \in Int
           /\ Sum(Got(s \o t, u)) = Sum(Got(s, u)) + Sum(Got(t, u))
<1> DEFINE m == Len(s)
           n == Len(t)
<1>1. /\ m \in Nat /\ n \in Nat /\ s \o t \in Transfers /\ Len(s \o t) = m + n
      /\ DOMAIN s = 1..m /\ DOMAIN t = 1..n /\ DOMAIN (s \o t) = 1..(m + n)
      /\ \A i \in 1..m : s[i].cents \in Int /\ (s \o t)[i] = s[i]
      /\ \A i \in 1..n : t[i].cents \in Int /\ (s \o t)[m + i] = t[i]
  <2> DEFINE R == [from : Int, to : Int, cents : Nat]
  <2>1. s \in Seq(R) /\ t \in Seq(R) /\ \A x \in R : x.cents \in Int
    BY DEF Transfers
  <2> HIDE DEF R
  <2>2. s \o t \in Seq(R) /\ Len(s \o t) = m + n /\ m \in Nat /\ n \in Nat
    BY <2>1
  <2>3. /\ DOMAIN s = 1..m /\ DOMAIN t = 1..n /\ DOMAIN (s \o t) = 1..(m + n)
        /\ \A i \in 1..m : s[i] \in R /\ (s \o t)[i] = s[i]
        /\ \A i \in 1..n : t[i] \in R /\ (s \o t)[m + i] = t[i]
    BY <2>1, <2>2
  <2> QED
    BY <2>1, <2>2, <2>3 DEF R, Transfers
<1> HIDE DEF m, n
<1>2. Joined(m, n, Sent(s, u), Sent(t, u), Sent(s \o t, u))
  BY <1>1 DEF Joined, Sent
<1>3. Joined(m, n, Got(s, u), Got(t, u), Got(s \o t, u))
  BY <1>1 DEF Joined, Got
<1> QED
  BY <1>1, <1>2, <1>3, SumConcat DEF Sum

Positive(list) == \A i \in DOMAIN list : list[i].cents > 0

Ids(list) == {list[i].id : i \in DOMAIN list}

\* A list is its first entry and the others.
LEMMA HeadAndTail ==
    ASSUME NEW list \in Lists, list # <<>>
    PROVE  /\ list = <<list[1]>> \o Tail(list) /\ Tail(list) \in Lists
           /\ list[1] \in [id : Int, cents : Nat]
           /\ Len(list) \in Nat /\ Len(Tail(list)) = Len(list) - 1 /\ Len(list) > 0
           /\ DOMAIN list = 1..Len(list) /\ DOMAIN Tail(list) = 1..(Len(list) - 1)
           /\ \A i \in DOMAIN Tail(list) : Tail(list)[i] = list[i + 1]
<1> DEFINE R == [id : Int, cents : Nat]
<1>1. list \in Seq(R)
  BY DEF Lists
<1> HIDE DEF R
<1>2. /\ list = <<list[1]>> \o Tail(list) /\ Tail(list) \in Seq(R) /\ list[1] \in R
      /\ Len(list) \in Nat /\ Len(Tail(list)) = Len(list) - 1 /\ Len(list) > 0
      /\ DOMAIN list = 1..Len(list) /\ DOMAIN Tail(list) = 1..(Len(list) - 1)
      /\ \A i \in DOMAIN Tail(list) : Tail(list)[i] = list[i + 1]
  BY <1>1
<1> QED
  BY <1>2 DEF Lists, R

\* A list with another first entry.
LEMMA OtherHead ==
    ASSUME NEW R, NEW list \in Seq(R), list # <<>>, NEW y \in R
    PROVE  [list EXCEPT ![1] = y] = <<y>> \o Tail(list)
<1> DEFINE s == [list EXCEPT ![1] = y]
           z == <<y>> \o Tail(list)
<1>1. Len(list) \in Nat /\ 1 \in 1..Len(list) /\ Tail(list) \in Seq(R)
      /\ Len(Tail(list)) = Len(list) - 1
      /\ \A i \in 1..(Len(list) - 1) : Tail(list)[i] = list[i + 1]
  OBVIOUS
<1>2. s \in Seq(R) /\ Len(s) = Len(list) /\ \A i \in 1..Len(list) : s[i] = IF i = 1 THEN y ELSE list[i]
  BY <1>1, ExceptSeq
<1>3. <<y>> \in Seq(R) /\ Len(<<y>>) = 1 /\ <<y>>[1] = y
  OBVIOUS
<1>4. z \in Seq(R) /\ Len(z) = Len(list) /\ \A i \in 1..Len(list) : z[i] = IF i = 1 THEN y ELSE list[i]
  <2>1. /\ z \in Seq(R) /\ Len(z) = 1 + (Len(list) - 1)
        /\ \A i \in 1..(1 + (Len(list) - 1)) : z[i] = IF i <= 1 THEN <<y>>[i] ELSE Tail(list)[i - 1]
    <3> DEFINE a == <<y>>
               b == Tail(list)
    <3>1. a \in Seq(R) /\ b \in Seq(R) /\ Len(a) = 1 /\ Len(b) = Len(list) - 1
      BY <1>1, <1>3
    <3> HIDE DEF a, b
    <3>2. /\ a \o b \in Seq(R) /\ Len(a \o b) = Len(a) + Len(b)
          /\ \A i \in 1..(Len(a) + Len(b)) : (a \o b)[i] = IF i <= Len(a) THEN a[i] ELSE b[i - Len(a)]
      BY <3>1, ConcatProperties
    <3> QED
      BY <3>1, <3>2 DEF a, b
  <2> HIDE DEF z
  <2>2. \A i \in 1..Len(list) : i # 1 => ~(i <= 1) /\ i - 1 \in 1..(Len(list) - 1) /\ (i - 1) + 1 = i
    BY <1>1
  <2>3. 1 + (Len(list) - 1) = Len(list)
    BY <1>1
  <2> QED
    BY <1>1, <1>3, <2>1, <2>2, <2>3
<1> HIDE DEF s, z
<1>5. s = z
  BY <1>2, <1>4, SeqEqual
<1> QED
  BY <1>5 DEF s, z

\* The sums of a list with a first entry.
LEMMA ListStep ==
    ASSUME NEW x \in [id : Int, cents : Nat], NEW t \in Lists
    PROVE  /\ <<x>> \o t \in Lists
           /\ Sum(Cents(t)) \in Int /\ Sum(Cents(<<x>> \o t)) = x.cents + Sum(Cents(t))
           /\ \A u : /\ Sum(Due(t, u)) \in Int
                     /\ Sum(Due(<<x>> \o t, u)) = (IF x.id = u THEN x.cents ELSE 0) + Sum(Due(t, u))
<1>1. <<x>> \in Lists
  BY DEF Lists
<1>2. Cents(<<x>>) = <<x.cents>> /\ x.cents \in Int
  BY DEF Cents
<1>3. ASSUME NEW u PROVE Due(<<x>>, u) = <<IF x.id = u THEN x.cents ELSE 0>>
  BY DEF Due
<1>4. Sum(Cents(<<x>>)) = x.cents
  BY <1>2, SumOne DEF Sum
<1>5. ASSUME NEW u PROVE Sum(Due(<<x>>, u)) = IF x.id = u THEN x.cents ELSE 0
  <2> DEFINE y == IF x.id = u THEN x.cents ELSE 0
  <2>1. y \in Int /\ Due(<<x>>, u) = <<y>>
    BY <1>2, <1>3
  <2> HIDE DEF y
  <2>2. Sum(Due(<<x>>, u)) = y
    BY <2>1, SumOne DEF Sum
  <2> QED
    BY <2>2 DEF y
<1> HIDE DEF Sum
<1>6. /\ <<x>> \o t \in Lists
      /\ Sum(Cents(t)) \in Int /\ Sum(Cents(<<x>> \o t)) = Sum(Cents(<<x>>)) + Sum(Cents(t))
      /\ \A u : /\ Sum(Due(t, u)) \in Int
                /\ Sum(Due(<<x>> \o t, u)) = Sum(Due(<<x>>, u)) + Sum(Due(t, u))
  BY <1>1, ListParts
<1> QED
  BY <1>4, <1>5, <1>6

\* What a settled sum takes off a list.
LEMMA ConsumeTakes ==
    ASSUME NEW list \in Lists, list # <<>>, NEW cents \in Nat, cents <= list[1].cents
    PROVE  /\ Consume(list, cents) \in Lists
           /\ Len(Consume(list, cents)) \in Nat
           /\ Len(Consume(list, cents)) <= Len(list)
           /\ cents = list[1].cents => Len(Consume(list, cents)) = Len(list) - 1
           /\ Positive(list) => Positive(Consume(list, cents))
           /\ Ids(Consume(list, cents)) \subseteq Ids(list)
           /\ Sum(Cents(list)) \in Int
           /\ Sum(Cents(Consume(list, cents))) = Sum(Cents(list)) - cents
           /\ \A u : /\ Sum(Due(list, u)) \in Int
                     /\ Sum(Due(list, u)) = (IF list[1].id = u THEN cents ELSE 0)
                                            + Sum(Due(Consume(list, cents), u))
<1> DEFINE rest == Consume(list, cents)
           x == list[1]
           y == [id |-> x.id, cents |-> x.cents - cents]
           t == Tail(list)
<1>1. /\ list = <<x>> \o t /\ t \in Lists /\ x \in [id : Int, cents : Nat]
      /\ Len(list) \in Nat /\ Len(t) = Len(list) - 1 /\ Len(list) > 0
      /\ DOMAIN list = 1..Len(list) /\ DOMAIN t = 1..(Len(list) - 1)
      /\ \A i \in DOMAIN t : t[i] = list[i + 1]
  BY HeadAndTail
<1>2. /\ Sum(Cents(t)) \in Int /\ Sum(Cents(list)) = x.cents + Sum(Cents(t))
      /\ \A u : /\ Sum(Due(t, u)) \in Int
                /\ Sum(Due(list, u)) = (IF x.id = u THEN x.cents ELSE 0) + Sum(Due(t, u))
  <2> HIDE DEF x, t
  <2>1. /\ Sum(Cents(t)) \in Int /\ Sum(Cents(<<x>> \o t)) = x.cents + Sum(Cents(t))
        /\ \A u : /\ Sum(Due(t, u)) \in Int
                  /\ Sum(Due(<<x>> \o t, u)) = (IF x.id = u THEN x.cents ELSE 0) + Sum(Due(t, u))
    BY <1>1, ListStep
  <2> QED
    BY <1>1, <2>1
<1>3. CASE cents = x.cents
  <2>1. rest = t
    BY <1>3 DEF Consume
  <2>2. Len(rest) = Len(list) - 1 /\ Len(rest) \in Nat
    BY <1>1, <2>1
  <2>3. \A i \in DOMAIN t : i + 1 \in DOMAIN list
    BY <1>1
  <2>4. (Positive(list) => Positive(rest)) /\ Ids(rest) \subseteq Ids(list)
    BY <1>1, <2>1, <2>3 DEF Positive, Ids
  <2> HIDE DEF rest, t, x, Sum
  <2>5. /\ Sum(Cents(list)) \in Int /\ Sum(Cents(rest)) = Sum(Cents(list)) - cents
        /\ \A u : /\ Sum(Due(list, u)) \in Int
                  /\ Sum(Due(list, u)) = (IF x.id = u THEN cents ELSE 0) + Sum(Due(rest, u))
    <3>1. Sum(Cents(list)) = cents + Sum(Cents(rest)) /\ Sum(Cents(rest)) \in Int
      BY <1>2, <1>3, <2>1
    <3>2. ASSUME NEW u
          PROVE  /\ Sum(Due(rest, u)) \in Int
                 /\ Sum(Due(list, u)) = (IF x.id = u THEN cents ELSE 0) + Sum(Due(rest, u))
      BY <1>2, <1>3, <2>1
    <3>3. ASSUME NEW u PROVE Sum(Due(list, u)) \in Int
      BY <3>2
    <3>4. Sum(Cents(list)) \in Int /\ Sum(Cents(rest)) = Sum(Cents(list)) - cents
      BY <3>1
    <3> QED
      BY <3>2, <3>3, <3>4
  <2> QED
    BY <1>1, <1>3, <2>1, <2>2, <2>4, <2>5 DEF rest, x
<1>4. CASE cents # x.cents
  <2>1. y \in [id : Int, cents : Nat] /\ y.cents > 0 /\ y.id = x.id /\ y.cents = x.cents - cents
    BY <1>1, <1>4
  <2>2. rest = <<y>> \o t
    <3>1. rest = [list EXCEPT ![1].cents = @ - cents]
      BY <1>4 DEF Consume
    <3>2. [x EXCEPT !.cents = @ - cents] = y
      BY <1>1
    <3>3. rest = [list EXCEPT ![1] = y]
      BY <1>1, <3>1, <3>2
    <3> HIDE DEF rest, y, x, t
    <3> QED
      BY <1>1, <2>1, <3>3, OtherHead DEF Lists, t
  <2>3. /\ rest \in Lists /\ Sum(Cents(rest)) = y.cents + Sum(Cents(t))
        /\ \A u : Sum(Due(rest, u)) = (IF y.id = u THEN y.cents ELSE 0) + Sum(Due(t, u))
    <3> HIDE DEF y, rest
    <3> QED
      BY <1>1, <2>1, <2>2, ListStep
  <2>4. /\ DOMAIN rest = DOMAIN list /\ Len(rest) = Len(list)
        /\ \A i \in DOMAIN list : rest[i].id = list[i].id /\ (i # 1 => rest[i] = list[i])
        /\ rest[1].cents > 0
    <3>1. rest = [list EXCEPT ![1].cents = @ - cents]
      BY <1>4 DEF Consume
    <3>2. DOMAIN rest = DOMAIN list /\ \A i \in DOMAIN list : rest[i].id = list[i].id /\ (i # 1 => rest[i] = list[i])
      BY <1>1, <3>1
    <3>3. rest[1].cents = x.cents - cents
      BY <1>1, <3>1
    <3>4. Len(rest) = Len(list)
      <4> HIDE DEF rest
      <4>1. DOMAIN rest = 1..Len(list) /\ rest \in Seq([id : Int, cents : Nat])
        BY <1>1, <2>3, <3>2 DEF Lists
      <4> QED
        BY <1>1, <4>1
    <3> QED
      BY <2>1, <3>2, <3>3, <3>4
  <2>5. (Positive(list) => Positive(rest)) /\ Ids(rest) \subseteq Ids(list)
    <3> HIDE DEF rest
    <3> QED
      BY <2>4 DEF Positive, Ids
  <2> HIDE DEF rest, t, Sum
  <2>6. \A u : Sum(Due(list, u)) = (IF x.id = u THEN cents ELSE 0) + Sum(Due(rest, u))
    <3> SUFFICES ASSUME NEW u PROVE Sum(Due(list, u)) = (IF x.id = u THEN cents ELSE 0) + Sum(Due(rest, u))
      OBVIOUS
    <3> DEFINE a == Sum(Due(t, u))
               b == x.cents
    <3>1. a \in Int /\ b \in Int /\ Sum(Due(list, u)) = (IF x.id = u THEN b ELSE 0) + a
      BY <1>1, <1>2
    <3>2. Sum(Due(rest, u)) = (IF x.id = u THEN b - cents ELSE 0) + a
      BY <2>1, <2>3
    <3> HIDE DEF a, b
    <3> QED
      BY <3>1, <3>2
  <2>7. \A u : Sum(Due(list, u)) \in Int
    BY <1>1, <1>2
  <2>8. Sum(Cents(rest)) = Sum(Cents(list)) - cents /\ Sum(Cents(list)) \in Int
    BY <1>1, <1>2, <2>1, <2>3
  <2> QED
    BY <1>1, <1>4, <2>3, <2>4, <2>5, <2>6, <2>7, <2>8 DEF rest
<1> QED
  BY <1>3, <1>4

-----------------------------------------------------------------------------
(* The loop of Simplify *)

\* The lists that are left after the first transfer.
Rest(lists) == LET t == FirstTransfer(lists[1], lists[2])
               IN  <<Consume(lists[1], t.cents), Consume(lists[2], t.cents)>>

Ended(lists) == lists[1] = <<>> \/ lists[2] = <<>>

IsPair(p, U) ==
    p = [lists \in U |-> IF Ended(lists) THEN <<>>
                         ELSE <<FirstTransfer(lists[1], lists[2])>> \o p[Rest(lists)]]

\* The loop, by the name it has here.
LEMMA PairIsLoop == Pair = CHOOSE p : IsPair(p, Lists \X Lists)
BY Zenon DEF Pair, IsPair, Ended, Rest

Left(lists) == Len(lists[1]) + Len(lists[2])

\* A transfer is no larger than either side, and somebody is then settled.
LEMMA RestIsShorter ==
    ASSUME NEW lists \in Lists \X Lists, ~Ended(lists)
    PROVE  /\ FirstTransfer(lists[1], lists[2]) \in [from : Int, to : Int, cents : Nat]
           /\ FirstTransfer(lists[1], lists[2]).cents <= lists[1][1].cents
           /\ FirstTransfer(lists[1], lists[2]).cents <= lists[2][1].cents
           /\ Rest(lists) \in Lists \X Lists
           /\ Left(lists) \in Nat /\ Left(Rest(lists)) \in Nat
           /\ Left(Rest(lists)) < Left(lists)
<1> DEFINE c == lists[1]
           d == lists[2]
           t == FirstTransfer(c, d)
<1>1. c \in Lists /\ d \in Lists /\ c # <<>> /\ d # <<>>
  BY DEF Ended
<1>2. /\ c[1] \in [id : Int, cents : Nat] /\ d[1] \in [id : Int, cents : Nat]
      /\ Len(c) \in Nat /\ Len(d) \in Nat
  <2> HIDE DEF c, d
  <2> QED
    BY <1>1, HeadAndTail
<1> HIDE DEF c, d
<1>3. /\ t \in [from : Int, to : Int, cents : Nat] /\ t.cents <= c[1].cents /\ t.cents <= d[1].cents
      /\ t.cents = c[1].cents \/ t.cents = d[1].cents
  BY <1>2 DEF FirstTransfer
<1> DEFINE cc == Consume(c, t.cents)
           dd == Consume(d, t.cents)
<1>4. t.cents \in Nat
  BY <1>3
<1> HIDE DEF t
<1>5. /\ cc \in Lists /\ Len(cc) \in Nat /\ Len(cc) <= Len(c)
      /\ t.cents = c[1].cents => Len(cc) = Len(c) - 1
  BY <1>1, <1>3, <1>4, ConsumeTakes
<1>6. /\ dd \in Lists /\ Len(dd) \in Nat /\ Len(dd) <= Len(d)
      /\ t.cents = d[1].cents => Len(dd) = Len(d) - 1
  BY <1>1, <1>3, <1>4, ConsumeTakes
<1>7. Len(cc) + Len(dd) < Len(c) + Len(d)
  <2> DEFINE a == t.cents
             x == c[1].cents
             y == d[1].cents
  <2>1. a = x \/ a = y
    BY <1>3
  <2> HIDE DEF cc, dd
  <2> QED
    BY <1>2, <1>3, <1>5, <1>6
<1>8. Rest(lists) = <<cc, dd>>
  BY DEF Rest, c, d, t
<1> HIDE DEF cc, dd
<1>9. Left(lists) = Len(c) + Len(d) /\ Left(Rest(lists)) = Len(cc) + Len(dd)
  BY <1>8 DEF Left, c, d
<1> QED
  BY <1>2, <1>3, <1>5, <1>6, <1>7, <1>8, <1>9 DEF t, c, d

\* The loop ends: the proof builds it for ever longer lists.
LEMMA PairStep ==
    \A lists \in Lists \X Lists :
        Pair[lists] = IF Ended(lists) THEN <<>>
                      ELSE <<FirstTransfer(lists[1], lists[2])>> \o Pair[Rest(lists)]
<1> DEFINE All == Lists \X Lists
           Short(n) == {lists \in All : Left(lists) <= n}
           Good == {n \in Nat : \E p : IsPair(p, Short(n))}
<1>1. \A lists \in All : Left(lists) \in Nat
  BY DEF Left, Lists
<1>2. \A lists \in All : ~Ended(lists) => Rest(lists) \in All /\ Left(Rest(lists)) < Left(lists)
  BY RestIsShorter
<1> HIDE DEF All
<1>3. 0 \in Good
  <2>1. ASSUME NEW lists \in Short(0) PROVE Ended(lists)
    <3>1. lists \in All /\ Left(lists) <= 0
      OBVIOUS
    <3> QED
      BY <1>1, <1>2, <3>1
  <2>2. IsPair([lists \in Short(0) |-> <<>>], Short(0))
    BY <2>1 DEF IsPair
  <2> QED
    BY <2>2
<1>4. ASSUME NEW n \in Nat, n \in Good PROVE n + 1 \in Good
  <2>1. PICK g : IsPair(g, Short(n))
    BY <1>4
  <2> DEFINE h == [lists \in Short(n + 1) |->
                     IF Ended(lists) THEN <<>>
                     ELSE <<FirstTransfer(lists[1], lists[2])>> \o g[Rest(lists)]]
  <2>2. \A lists \in Short(n) : lists \in Short(n + 1)
    BY <1>1
  <2>3. ASSUME NEW lists \in Short(n + 1), ~Ended(lists) PROVE h[Rest(lists)] = g[Rest(lists)]
    <3>1. Rest(lists) \in Short(n)
      <4>1. lists \in All /\ Left(lists) <= n + 1 /\ Rest(lists) \in All /\ Left(Rest(lists)) < Left(lists)
        BY <1>2, <2>3
      <4>2. Left(lists) \in Nat /\ Left(Rest(lists)) \in Nat
        BY <1>1, <4>1
      <4> QED
        BY <4>1, <4>2
    <3>2. \A l \in Short(n) : g[l] = IF Ended(l) THEN <<>>
                                     ELSE <<FirstTransfer(l[1], l[2])>> \o g[Rest(l)]
      <4> HIDE DEF Short
      <4> QED
        BY <2>1 DEF IsPair
    <3> HIDE DEF Short
    <3> QED
      BY <2>2, <3>1, <3>2
  <2>4. IsPair(h, Short(n + 1))
    <3> HIDE DEF Short
    <3> QED
      BY <2>3 DEF IsPair
  <2> HIDE DEF h
  <2>5. \E p : IsPair(p, Short(n + 1))
    BY <2>4
  <2>6. n + 1 \in Nat
    OBVIOUS
  <2> HIDE DEF Short
  <2> QED
    BY <2>5, <2>6
<1>5. \A n \in Nat : n \in Good
  <2> HIDE DEF Good
  <2> QED
    BY <1>3, <1>4, NatInduct
<1> DEFINE F(n) == CHOOSE p : IsPair(p, Short(n))
           Value(n, l) == IF Ended(l) THEN <<>>
                          ELSE <<FirstTransfer(l[1], l[2])>> \o F(n)[Rest(l)]
<1>6. ASSUME NEW n \in Nat, NEW l \in All, Left(l) <= n PROVE F(n)[l] = Value(n, l)
  <2>1. IsPair(F(n), Short(n))
    <3>1. \E p : IsPair(p, Short(n))
      BY <1>5
    <3> HIDE DEF Short
    <3> QED
      BY <3>1
  <2>2. l \in Short(n)
    BY <1>6
  <2> HIDE DEF Short, F
  <2> QED
    BY <2>1, <2>2 DEF IsPair
<1> HIDE DEF F
<1> DEFINE Agreed == {k \in Nat : \A l \in All : \A m, n \in Nat :
                                 Left(l) <= k /\ k <= m /\ k <= n => F(m)[l] = F(n)[l]}
<1>7. \A k \in Nat : k \in Agreed
  <2>1. 0 \in Agreed
    <3> SUFFICES ASSUME NEW l \in All, NEW m \in Nat, NEW n \in Nat, Left(l) <= 0
                 PROVE  F(m)[l] = F(n)[l]
      OBVIOUS
    <3>1. Left(l) <= m /\ Left(l) <= n /\ Ended(l)
      BY <1>1, <1>2
    <3> QED
      BY <1>6, <3>1
  <2>2. ASSUME NEW k \in Nat, k \in Agreed PROVE k + 1 \in Agreed
    <3> SUFFICES ASSUME NEW l \in All, NEW m \in Nat, NEW n \in Nat,
                        Left(l) <= k + 1, k + 1 <= m, k + 1 <= n
                 PROVE  F(m)[l] = F(n)[l]
      OBVIOUS
    <3>1. F(m)[l] = Value(m, l) /\ F(n)[l] = Value(n, l)
      BY <1>1, <1>6
    <3>2. CASE Ended(l)
      BY <3>1, <3>2
    <3>3. CASE ~Ended(l)
      <4>1. Rest(l) \in All /\ Left(Rest(l)) <= k /\ k <= m /\ k <= n
        BY <1>1, <1>2, <3>3
      <4>2. F(m)[Rest(l)] = F(n)[Rest(l)]
        BY <2>2, <4>1
      <4> QED
        BY <3>1, <3>3, <4>2
    <3> QED
      BY <3>2, <3>3
  <2> HIDE DEF Agreed
  <2> QED
    BY <2>1, <2>2, NatInduct
<1> DEFINE P == [l \in All |-> F(Left(l))[l]]
<1>8. IsPair(P, All)
  <2>1. ASSUME NEW l \in All
        PROVE  P[l] = IF Ended(l) THEN <<>> ELSE <<FirstTransfer(l[1], l[2])>> \o P[Rest(l)]
    <3>1. P[l] = Value(Left(l), l)
      BY <1>1, <1>6
    <3>2. CASE Ended(l)
      BY <3>1, <3>2
    <3>3. CASE ~Ended(l)
      <4>1. /\ Rest(l) \in All /\ Left(Rest(l)) \in Nat /\ Left(l) \in Nat
            /\ Left(Rest(l)) <= Left(Rest(l)) /\ Left(Rest(l)) <= Left(l)
        BY <1>1, <1>2, <3>3
      <4>2. F(Left(l))[Rest(l)] = F(Left(Rest(l)))[Rest(l)]
        <5>1. Left(Rest(l)) \in Agreed
          BY <1>7, <4>1
        <5> QED
          BY <4>1, <5>1
      <4>3. P[Rest(l)] = F(Left(Rest(l)))[Rest(l)]
        BY <4>1
      <4> HIDE DEF P
      <4> QED
        BY <3>1, <3>3, <4>2, <4>3
    <3> QED
      BY <3>2, <3>3
  <2> QED
    BY <2>1 DEF IsPair
<1> HIDE DEF P
<1>9. IsPair(Pair, All)
  <2>1. Pair = CHOOSE p : IsPair(p, All)
    BY PairIsLoop DEF All
  <2> QED
    BY <1>8, <2>1
<1>10. \A lists \in All : Pair[lists] = IF Ended(lists) THEN <<>>
                                        ELSE <<FirstTransfer(lists[1], lists[2])>> \o Pair[Rest(lists)]
  BY <1>9 DEF IsPair
<1> QED
  BY <1>10 DEF All

\* The sums of transfers with a first one.
LEMMA TransferStep ==
    ASSUME NEW t \in [from : Int, to : Int, cents : Nat], NEW s \in Transfers, NEW u
    PROVE  /\ <<t>> \o s \in Transfers
           /\ Sum(Sent(s, u)) \in Int
           /\ Sum(Sent(<<t>> \o s, u)) = (IF t.from = u THEN t.cents ELSE 0) + Sum(Sent(s, u))
           /\ Sum(Got(s, u)) \in Int
           /\ Sum(Got(<<t>> \o s, u)) = (IF t.to = u THEN t.cents ELSE 0) + Sum(Got(s, u))
<1> DEFINE y == IF t.from = u THEN t.cents ELSE 0
           z == IF t.to = u THEN t.cents ELSE 0
<1>1. <<t>> \in Transfers /\ y \in Int /\ z \in Int /\ Sent(<<t>>, u) = <<y>> /\ Got(<<t>>, u) = <<z>>
  BY DEF Transfers, Sent, Got
<1> HIDE DEF y, z
<1>2. Sum(Sent(<<t>>, u)) = y /\ Sum(Got(<<t>>, u)) = z
  BY <1>1, SumOne DEF Sum
<1>3. /\ <<t>> \o s \in Transfers
      /\ Sum(Sent(s, u)) \in Int /\ Sum(Got(s, u)) \in Int
      /\ Sum(Sent(<<t>> \o s, u)) = Sum(Sent(<<t>>, u)) + Sum(Sent(s, u))
      /\ Sum(Got(<<t>> \o s, u)) = Sum(Got(<<t>>, u)) + Sum(Got(s, u))
  BY <1>1, TransferParts
<1> QED
  BY <1>2, <1>3 DEF y, z

\* No entry, no cents; and the other way round where each has some.
LEMMA NoCents ==
    ASSUME NEW list \in Lists
    PROVE  /\ Sum(Cents(list)) \in Nat /\ \A u : Sum(Due(list, u)) \in Nat
           /\ list = <<>> => Sum(Cents(list)) = 0 /\ \A u : Sum(Due(list, u)) = 0
           /\ Positive(list) /\ Sum(Cents(list)) = 0 => list = <<>>
<1>1. /\ DOMAIN list = 1..Len(list) /\ Len(list) \in Nat /\ (Len(list) = 0 => list = <<>>)
      /\ \A i \in 1..Len(list) : list[i].cents \in Nat
  <2> DEFINE R == [id : Int, cents : Nat]
  <2>1. list \in Seq(R) /\ \A x \in R : x.cents \in Nat
    BY DEF Lists
  <2> HIDE DEF R
  <2> QED
    BY <2>1
<1>2. IsFiniteSet(1..Len(list))
  BY <1>1, FS_Interval
<1>3. ASSUME list = <<>> PROVE Sum(Cents(list)) = 0 /\ \A u : Sum(Due(list, u)) = 0
  <2>1. DOMAIN Cents(list) = {} /\ \A u : DOMAIN Due(list, u) = {}
    BY <1>3 DEF Cents, Due
  <2> QED
    BY <2>1, SumEmpty DEF Sum, SumFunction
<1>4. ASSUME Positive(list), Sum(Cents(list)) = 0 PROVE list = <<>>
  <2> DEFINE f == Cents(list)
  <2>1. DOMAIN f = 1..Len(list) /\ \A i \in 1..Len(list) : f[i] \in Nat /\ f[i] > 0
    BY <1>1, <1>4 DEF Cents, Positive
  <2> HIDE DEF f
  <2>2. \A i \in 1..Len(list) : f[i] <= Sum(f)
    BY <1>2, <2>1, SumNatural DEF Sum, SumFunction
  <2>3. Len(list) = 0
    <3> SUFFICES ASSUME Len(list) # 0 PROVE FALSE
      OBVIOUS
    <3>1. 1 \in 1..Len(list)
      BY <1>1
    <3> QED
      BY <1>4, <2>1, <2>2, <3>1 DEF f
  <2> QED
    BY <1>1, <2>3
<1>5. Sum(Cents(list)) \in Nat
  <2> DEFINE f == Cents(list)
  <2>1. DOMAIN f = 1..Len(list) /\ \A i \in 1..Len(list) : f[i] \in Nat
    BY <1>1 DEF Cents
  <2> HIDE DEF f
  <2> QED
    BY <1>2, <2>1, SumNatural DEF Sum, SumFunction, f
<1>6. ASSUME NEW u PROVE Sum(Due(list, u)) \in Nat
  <2> DEFINE f == Due(list, u)
  <2>1. DOMAIN f = 1..Len(list) /\ \A i \in 1..Len(list) : f[i] \in Nat
    BY <1>1 DEF Due
  <2> HIDE DEF f
  <2> QED
    BY <1>2, <2>1, SumNatural DEF Sum, SumFunction, f
<1> QED
  BY <1>3, <1>4, <1>5, <1>6

\* What the transfers out of two lists have to be: nobody gets or sends more
\* than is due, and the list with the smaller sum is settled.
Settling(c, d, out) ==
    /\ out \in Transfers
    /\ \A u : Sum(Got(out, u)) <= Sum(Due(c, u)) /\ Sum(Sent(out, u)) <= Sum(Due(d, u))
    /\ Sum(Cents(c)) <= Sum(Cents(d)) => \A u : Sum(Got(out, u)) = Sum(Due(c, u))
    /\ Sum(Cents(d)) <= Sum(Cents(c)) => \A u : Sum(Sent(out, u)) = Sum(Due(d, u))
    /\ \A i \in DOMAIN out : out[i].cents > 0 /\ out[i].to \in Ids(c) /\ out[i].from \in Ids(d)
    /\ out # <<>> => Len(out) < Len(c) + Len(d)

Payable(c, d) == Positive(c) /\ Positive(d)

\* Two lists settle each other as far as they go.
LEMMA PairSettles ==
    ASSUME NEW lists \in Lists \X Lists, Payable(lists[1], lists[2])
    PROVE  Settling(lists[1], lists[2], Pair[lists])
<1> DEFINE Done(l) == Payable(l[1], l[2]) => Settling(l[1], l[2], Pair[l])
           Good == {n \in Nat : \A l \in Lists \X Lists : Left(l) <= n => Done(l)}
<1>1. ASSUME NEW l \in Lists \X Lists, Ended(l) PROVE Done(l)
  <2> SUFFICES ASSUME Payable(l[1], l[2]) PROVE Settling(l[1], l[2], Pair[l])
    OBVIOUS
  <2> DEFINE c == l[1]
             d == l[2]
  <2>1. Pair[l] = <<>>
    BY <1>1, PairStep
  <2>2. c \in Lists /\ d \in Lists /\ (c = <<>> \/ d = <<>>)
    BY <1>1 DEF Ended
  <2>3. Positive(c) /\ Positive(d)
    BY DEF Payable
  <2> HIDE DEF c, d
  <2>4. /\ \A u : Sum(Due(c, u)) \in Nat /\ Sum(Due(d, u)) \in Nat
        /\ Sum(Cents(c)) \in Nat /\ Sum(Cents(d)) \in Nat
        /\ c = <<>> => Sum(Cents(c)) = 0 /\ \A u : Sum(Due(c, u)) = 0
        /\ d = <<>> => Sum(Cents(d)) = 0 /\ \A u : Sum(Due(d, u)) = 0
        /\ Sum(Cents(c)) = 0 => c = <<>>
        /\ Sum(Cents(d)) = 0 => d = <<>>
    BY <2>2, <2>3, NoCents
  <2>5. /\ Sum(Cents(c)) <= Sum(Cents(d)) => \A u : Sum(Due(c, u)) = 0
        /\ Sum(Cents(d)) <= Sum(Cents(c)) => \A u : Sum(Due(d, u)) = 0
    <3>1. Sum(Cents(c)) <= Sum(Cents(d)) => c = <<>>
      BY <2>2, <2>4
    <3>2. Sum(Cents(d)) <= Sum(Cents(c)) => d = <<>>
      BY <2>2, <2>4
    <3> QED
      BY <2>4, <3>1, <3>2
  <2>6. \A u : Sum(Got(<<>>, u)) = 0 /\ Sum(Sent(<<>>, u)) = 0
    <3>1. \A u : DOMAIN Got(<<>>, u) = {} /\ DOMAIN Sent(<<>>, u) = {}
      BY DEF Got, Sent
    <3> QED
      BY <3>1, SumEmpty DEF Sum, SumFunction
  <2>7. <<>> \in Transfers
    BY DEF Transfers
  <2>8. Settling(c, d, <<>>)
    BY <2>4, <2>5, <2>6, <2>7 DEF Settling
  <2> QED
    BY <2>1, <2>8 DEF c, d
<1>2. ASSUME NEW l \in Lists \X Lists, ~Ended(l), Done(Rest(l)) PROVE Done(l)
  <2> SUFFICES ASSUME Payable(l[1], l[2]) PROVE Settling(l[1], l[2], Pair[l])
    OBVIOUS
  <2> DEFINE c == l[1]
             d == l[2]
             t == FirstTransfer(c, d)
             cc == Consume(c, t.cents)
             dd == Consume(d, t.cents)
             out == Pair[Rest(l)]
  <2>1. /\ c \in Lists /\ d \in Lists /\ c # <<>> /\ d # <<>>
        /\ t \in [from : Int, to : Int, cents : Nat] /\ t.cents <= c[1].cents /\ t.cents <= d[1].cents
        /\ Pair[l] = <<t>> \o out
    BY <1>2, RestIsShorter, PairStep DEF Ended
  <2>2. Rest(l)[1] = cc /\ Rest(l)[2] = dd
    BY DEF Rest
  <2>3. t.from = d[1].id /\ t.to = c[1].id
    BY DEF FirstTransfer
  <2>4. t.cents > 0 /\ t.to \in Ids(c) /\ t.from \in Ids(d) /\ Len(c) \in Nat /\ Len(d) \in Nat /\ Len(c) > 0 /\ Len(d) > 0
    <3> HIDE DEF c, d
    <3>1. ASSUME NEW list \in Lists, list # <<>>
          PROVE  1 \in DOMAIN list /\ list[1].cents \in Nat /\ Len(list) \in Nat /\ Len(list) > 0
      <4>1. /\ list[1] \in [id : Int, cents : Nat]
            /\ Len(list) \in Nat /\ Len(list) > 0 /\ DOMAIN list = 1..Len(list)
        BY <3>1, HeadAndTail
      <4> QED
        BY <4>1
    <3>2. c[1].cents > 0 /\ d[1].cents > 0
      BY <2>1, <3>1 DEF Payable, Positive, c, d
    <3>3. t.cents = IF d[1].cents < c[1].cents THEN d[1].cents ELSE c[1].cents
      BY DEF FirstTransfer
    <3> HIDE DEF t
    <3> QED
      BY <2>1, <2>3, <3>1, <3>2, <3>3 DEF Ids
  <2>5. t.cents \in Nat
    BY <2>1
  <2>6. Left(l) = Len(c) + Len(d) /\ Left(Rest(l)) = Len(cc) + Len(dd) /\ Left(Rest(l)) < Left(l)
        /\ Left(Rest(l)) \in Nat /\ Left(l) \in Nat
    BY <1>2, <2>2, RestIsShorter DEF Left
  <2> HIDE DEF c, d, t, out
  <2>7. /\ cc \in Lists /\ (Positive(c) => Positive(cc)) /\ Ids(cc) \subseteq Ids(c)
        /\ Sum(Cents(c)) \in Int /\ Sum(Cents(cc)) = Sum(Cents(c)) - t.cents
        /\ \A u : /\ Sum(Due(c, u)) \in Int
                  /\ Sum(Due(c, u)) = (IF c[1].id = u THEN t.cents ELSE 0) + Sum(Due(cc, u))
    BY <2>1, <2>5, ConsumeTakes
  <2>8. /\ dd \in Lists /\ (Positive(d) => Positive(dd)) /\ Ids(dd) \subseteq Ids(d)
        /\ Sum(Cents(d)) \in Int /\ Sum(Cents(dd)) = Sum(Cents(d)) - t.cents
        /\ \A u : /\ Sum(Due(d, u)) \in Int
                  /\ Sum(Due(d, u)) = (IF d[1].id = u THEN t.cents ELSE 0) + Sum(Due(dd, u))
    BY <2>1, <2>5, ConsumeTakes
  <2> HIDE DEF cc, dd
  <2>9. Settling(cc, dd, out)
    <3>1. Payable(c, d)
      BY DEF c, d
    <3>2. Payable(cc, dd)
      BY <2>7, <2>8, <3>1 DEF Payable
    <3> QED
      BY <1>2, <2>2, <3>2 DEF out
  <2>10. out \in Transfers /\ <<t>> \o out \in Transfers
    <3>1. out \in Transfers
      BY <2>9 DEF Settling
    <3> QED
      BY <2>1, <3>1, TransferStep
  <2>11. /\ \A u : /\ Sum(Got(<<t>> \o out, u)) <= Sum(Due(c, u))
                   /\ Sum(Sent(<<t>> \o out, u)) <= Sum(Due(d, u))
         /\ Sum(Cents(c)) <= Sum(Cents(d)) => \A u : Sum(Got(<<t>> \o out, u)) = Sum(Due(c, u))
         /\ Sum(Cents(d)) <= Sum(Cents(c)) => \A u : Sum(Sent(<<t>> \o out, u)) = Sum(Due(d, u))
    <3>1. /\ Sum(Cents(c)) <= Sum(Cents(d)) => Sum(Cents(cc)) <= Sum(Cents(dd))
          /\ Sum(Cents(d)) <= Sum(Cents(c)) => Sum(Cents(dd)) <= Sum(Cents(cc))
      BY <2>5, <2>7, <2>8
    <3>2. ASSUME NEW u
          PROVE  /\ Sum(Got(<<t>> \o out, u)) <= Sum(Due(c, u))
                 /\ Sum(Sent(<<t>> \o out, u)) <= Sum(Due(d, u))
                 /\ Sum(Got(out, u)) = Sum(Due(cc, u)) => Sum(Got(<<t>> \o out, u)) = Sum(Due(c, u))
                 /\ Sum(Sent(out, u)) = Sum(Due(dd, u)) => Sum(Sent(<<t>> \o out, u)) = Sum(Due(d, u))
      <4> DEFINE x == IF c[1].id = u THEN t.cents ELSE 0
                 y == IF d[1].id = u THEN t.cents ELSE 0
      <4>1. x \in Nat /\ y \in Nat
        BY <2>5
      <4>2. /\ Sum(Sent(out, u)) \in Int /\ Sum(Sent(<<t>> \o out, u)) = y + Sum(Sent(out, u))
            /\ Sum(Got(out, u)) \in Int /\ Sum(Got(<<t>> \o out, u)) = x + Sum(Got(out, u))
        BY <2>1, <2>3, <2>10, TransferStep
      <4>3. Sum(Due(c, u)) = x + Sum(Due(cc, u)) /\ Sum(Due(d, u)) = y + Sum(Due(dd, u))
        BY <2>7, <2>8
      <4>4. Sum(Due(cc, u)) \in Nat /\ Sum(Due(dd, u)) \in Nat
        BY <2>7, <2>8, NoCents
      <4>5. Sum(Got(out, u)) <= Sum(Due(cc, u)) /\ Sum(Sent(out, u)) <= Sum(Due(dd, u))
        BY <2>9 DEF Settling
      <4> HIDE DEF x, y
      <4> QED
        BY <4>1, <4>2, <4>3, <4>4, <4>5
    <3>3. /\ Sum(Cents(cc)) <= Sum(Cents(dd)) => \A u : Sum(Got(out, u)) = Sum(Due(cc, u))
          /\ Sum(Cents(dd)) <= Sum(Cents(cc)) => \A u : Sum(Sent(out, u)) = Sum(Due(dd, u))
      BY <2>9 DEF Settling
    <3> QED
      BY <3>1, <3>2, <3>3
  <2>12. /\ Len(<<t>> \o out) = Len(out) + 1 /\ Len(out) \in Nat /\ (Len(out) = 0 <=> out = <<>>)
         /\ DOMAIN (<<t>> \o out) = 1..(Len(out) + 1) /\ DOMAIN out = 1..Len(out)
         /\ (<<t>> \o out)[1] = t /\ \A i \in 1..Len(out) : (<<t>> \o out)[i + 1] = out[i]
    <3> DEFINE R == [from : Int, to : Int, cents : Nat]
    <3>1. out \in Seq(R) /\ t \in R
      BY <2>1, <2>10 DEF Transfers
    <3> HIDE DEF R
    <3> QED
      BY <3>1
  <2>13. ASSUME NEW i \in DOMAIN (<<t>> \o out)
         PROVE  /\ (<<t>> \o out)[i].cents > 0 /\ (<<t>> \o out)[i].to \in Ids(c)
                /\ (<<t>> \o out)[i].from \in Ids(d)
    <3>1. CASE i = 1
      BY <2>4, <2>12, <3>1
    <3>2. CASE i # 1
      <4>1. i - 1 \in 1..Len(out) /\ (i - 1) + 1 = i
        BY <2>12, <3>2
      <4>2. (<<t>> \o out)[i] = out[i - 1] /\ i - 1 \in DOMAIN out
        BY <2>12, <4>1
      <4> QED
        BY <2>7, <2>8, <2>9, <4>2 DEF Settling
    <3> QED
      BY <3>1, <3>2
  <2>14. Len(<<t>> \o out) < Len(c) + Len(d)
    <3>1. CASE out = <<>>
      BY <2>4, <2>12, <3>1
    <3>2. CASE out # <<>>
      <4>1. Len(out) < Len(cc) + Len(dd)
        BY <2>9, <3>2 DEF Settling
      <4> QED
        BY <2>6, <2>12, <4>1
    <3> QED
      BY <3>1, <3>2
  <2>15. Settling(c, d, <<t>> \o out)
    BY <2>10, <2>11, <2>13, <2>14 DEF Settling
  <2> QED
    BY <2>1, <2>15 DEF c, d
<1>3. \A l \in Lists \X Lists : Left(l) \in Nat
  BY DEF Left, Lists
<1>4. \A l \in Lists \X Lists : ~Ended(l) => Rest(l) \in Lists \X Lists /\ Left(Rest(l)) < Left(l)
  BY RestIsShorter
<1> HIDE DEF Done
<1>5. 0 \in Good
  BY <1>1, <1>3, <1>4
<1>6. ASSUME NEW n \in Nat, n \in Good PROVE n + 1 \in Good
  <2> SUFFICES ASSUME NEW l \in Lists \X Lists, Left(l) <= n + 1 PROVE Done(l)
    OBVIOUS
  <2>1. CASE Ended(l)
    BY <1>1, <2>1
  <2>2. CASE ~Ended(l)
    <3>1. Rest(l) \in Lists \X Lists /\ Left(Rest(l)) <= n
      BY <1>3, <1>4, <2>2
    <3> QED
      BY <1>2, <1>6, <2>2, <3>1
  <2> QED
    BY <2>1, <2>2
<1>7. \A n \in Nat : n \in Good
  <2> HIDE DEF Good
  <2> QED
    BY <1>5, <1>6, NatInduct
<1>8. Done(lists)
  <2>1. Left(lists) \in Good /\ Left(lists) <= Left(lists)
    BY <1>3, <1>7
  <2> QED
    BY <2>1
<1> QED
  BY <1>8 DEF Done

-----------------------------------------------------------------------------
(* Simplify *)

\* Sorting lists every entry once.
LEMMA SortedLists ==
    ASSUME NEW S \in SUBSET [id : Int, cents : Nat], IsFiniteSet(S)
    PROVE  /\ Sorted(S) \in Lists
           /\ DOMAIN Sorted(S) = 1..Cardinality(S) /\ Cardinality(S) \in Nat
           /\ \A i \in 1..Cardinality(S) : Sorted(S)[i] \in S
           /\ \A e \in S : \E i \in 1..Cardinality(S) : Sorted(S)[i] = e
           /\ \A i, j \in 1..Cardinality(S) : Sorted(S)[i] = Sorted(S)[j] => i = j
<1> DEFINE n == Cardinality(S)
           Ahead(e) == {x \in S : Before(x, e)}
           place == [e \in S |-> Place(S, e) + 1]
<1>1. \A e \in S : e.id \in Int /\ e.cents \in Nat /\ e = [id |-> e.id, cents |-> e.cents]
  OBVIOUS
<1>2. n \in Nat
  BY FS_CardinalityType
<1>3. ASSUME NEW e \in S PROVE IsFiniteSet(Ahead(e)) /\ place[e] = Cardinality(Ahead(e)) + 1 /\ place[e] \in 1..n
  <2>1. Ahead(e) \in SUBSET S /\ IsFiniteSet(Ahead(e))
    BY FS_Subset
  <2>2. Cardinality(Ahead(e)) \in Nat /\ Cardinality(Ahead(e)) <= n
    BY <2>1, FS_Subset, FS_CardinalityType
  <2>3. e \notin Ahead(e)
    BY <1>1 DEF Before
  <2>4. Cardinality(Ahead(e)) # n
    BY <2>1, <2>3, FS_Subset
  <2>5. place[e] = Cardinality(Ahead(e)) + 1
    BY DEF Place
  <2> HIDE DEF Ahead, place
  <2> QED
    BY <1>2, <2>1, <2>2, <2>4, <2>5
<1>4. ASSUME NEW a \in S, NEW b \in S, Before(a, b) PROVE place[a] < place[b]
  <2>1. Ahead(a) \in SUBSET Ahead(b)
    BY <1>1, <1>4 DEF Before
  <2>2. a \in Ahead(b) /\ a \notin Ahead(a)
    BY <1>1, <1>4 DEF Before
  <2>3. /\ Cardinality(Ahead(a)) <= Cardinality(Ahead(b))
        /\ Cardinality(Ahead(a)) # Cardinality(Ahead(b))
    <3> HIDE DEF Ahead
    <3> QED
      BY <1>3, <2>1, <2>2, FS_Subset
  <2>4. Cardinality(Ahead(a)) \in Nat /\ Cardinality(Ahead(b)) \in Nat
    BY <1>3, FS_CardinalityType
  <2> HIDE DEF Ahead, place
  <2> QED
    BY <1>3, <2>3, <2>4
<1>5. \A a, b \in S : a = b \/ Before(a, b) \/ Before(b, a)
  BY <1>1 DEF Before
<1> HIDE DEF Ahead, place
<1>6. \A a, b \in S : place[a] = place[b] => a = b
  BY <1>3, <1>4, <1>5
<1>7. \A i \in 1..n : \E e \in S : place[e] = i
  <2>1. place \in [S -> 1..n]
    BY <1>3 DEF place
  <2>2. place \in Injection(S, 1..n)
    BY <1>6, <2>1 DEF Injection, IsInjective
  <2>3. IsFiniteSet(1..n) /\ Cardinality(1..n) = n
    BY <1>2, Count
  <2>4. place \in Surjection(S, 1..n)
    <3> DEFINE T == 1..n
    <3>1. IsFiniteSet(T) /\ Cardinality(T) = Cardinality(S) /\ place \in Injection(S, T)
      BY <2>2, <2>3
    <3> HIDE DEF T
    <3>2. place \in Surjection(S, T)
      BY <3>1, FS_Injection
    <3> QED
      BY <3>2 DEF T
  <2> QED
    BY <2>4 DEF Surjection
<1>8. ASSUME NEW i \in 1..n PROVE Sorted(S)[i] \in S /\ place[Sorted(S)[i]] = i
  <2>1. Sorted(S)[i] = CHOOSE e \in S : Place(S, e) = i - 1
    BY DEF Sorted
  <2>2. PICK e \in S : place[e] = i
    BY <1>7
  <2>3. Place(S, e) = i - 1
    BY <1>2, <1>3, <2>2, FS_CardinalityType DEF place, Place, Ahead
  <2>4. Sorted(S)[i] \in S /\ Place(S, Sorted(S)[i]) = i - 1
    BY <2>1, <2>3
  <2> QED
    BY <1>2, <2>4 DEF place
<1>9. DOMAIN Sorted(S) = 1..n
  BY DEF Sorted
<1>10. Sorted(S) \in Lists
  <2> DEFINE R == [id : Int, cents : Nat]
             list == Sorted(S)
  <2>1. list = [i \in 1..n |-> list[i]]
    BY DEF Sorted
  <2>2. \A i \in 1..n : list[i] \in R
    BY <1>8
  <2> HIDE DEF list, R
  <2>3. list \in [1..n -> R]
    BY <2>1, <2>2
  <2>4. list \in Seq(R)
    BY <1>2, <2>3
  <2> QED
    BY <2>4 DEF list, R, Lists
<1>11. \A e \in S : \E i \in 1..n : Sorted(S)[i] = e
  BY <1>3, <1>6, <1>8
<1>12. \A i, j \in 1..n : Sorted(S)[i] = Sorted(S)[j] => i = j
  BY <1>8
<1> QED
  BY <1>2, <1>8, <1>9, <1>10, <1>11, <1>12 DEF n

\* What the members of C have.
Entries(amt, C) == {[id |-> u, cents |-> amt[u]] : u \in C}

\* A sorted list has the sums of what it lists.
LEMMA ListOf ==
    ASSUME NEW C \in SUBSET Int, IsFiniteSet(C), NEW amt, \A u \in C : amt[u] \in Nat /\ amt[u] > 0
    PROVE  /\ Sorted(Entries(amt, C)) \in Lists
           /\ Positive(Sorted(Entries(amt, C)))
           /\ Ids(Sorted(Entries(amt, C))) = C
           /\ Len(Sorted(Entries(amt, C))) = Cardinality(C) /\ Cardinality(C) \in Nat
           /\ Sum(Cents(Sorted(Entries(amt, C)))) = SumFunctionOnSet(amt, C)
           /\ \A u : Sum(Due(Sorted(Entries(amt, C)), u)) = IF u \in C THEN amt[u] ELSE 0
<1> DEFINE S == Entries(amt, C)
           n == Cardinality(C)
           list == Sorted(S)
           entry == [u \in C |-> [id |-> u, cents |-> amt[u]]]
           b == [i \in 1..n |-> list[i].id]
<1>0. \A u \in C : [id |-> u, cents |-> amt[u]] \in [id : Int, cents : Nat]
  OBVIOUS
<1>1. S \in SUBSET [id : Int, cents : Nat]
  BY <1>0, Zenon DEF Entries
<1>2. IsFiniteSet(S) /\ Cardinality(S) = n /\ n \in Nat
  <2>1. entry \in [C -> S]
    BY DEF Entries
  <2>2. entry \in Injection(C, S)
    BY <2>1 DEF Injection, IsInjective
  <2>3. entry \in Surjection(C, S)
    BY <2>1 DEF Surjection, Entries
  <2> HIDE DEF entry, S
  <2>4. entry \in Bijection(C, S)
    BY <2>2, <2>3 DEF Bijection
  <2> QED
    BY <2>4, FS_Bijection, FS_CardinalityType DEF ExistsBijection
<1>3. \A e \in S : e.id \in C /\ e = [id |-> e.id, cents |-> amt[e.id]] /\ e.cents = amt[e.id]
  BY DEF Entries
<1>4. ASSUME NEW u \in C PROVE \E e \in S : e.id = u
  <2>1. [id |-> u, cents |-> amt[u]] \in S /\ [id |-> u, cents |-> amt[u]].id = u
    BY DEF Entries
  <2> HIDE DEF S
  <2> QED
    BY <2>1
<1> HIDE DEF S, n
<1>5. /\ list \in Lists /\ DOMAIN list = 1..n
      /\ \A i \in 1..n : list[i] \in S
      /\ \A e \in S : \E i \in 1..n : list[i] = e
      /\ \A i, j \in 1..n : list[i] = list[j] => i = j
  BY <1>1, <1>2, SortedLists
<1> HIDE DEF list
<1>6. /\ \A i \in 1..n : b[i] = list[i].id /\ b[i] \in C /\ list[i].cents = amt[b[i]]
      /\ \A u \in C : \E i \in 1..n : b[i] = u
      /\ \A i, j \in 1..n : b[i] = b[j] => i = j
  <2>1. \A i \in 1..n : b[i] = list[i].id /\ b[i] \in C /\ list[i].cents = amt[b[i]]
    BY <1>3, <1>5
  <2>2. ASSUME NEW u \in C PROVE \E i \in 1..n : b[i] = u
    <3>1. PICK e \in S : e.id = u
      BY <1>4
    <3>2. PICK i \in 1..n : list[i] = e
      BY <1>5
    <3> QED
      BY <2>1, <3>1, <3>2
  <2>3. ASSUME NEW i \in 1..n, NEW j \in 1..n, b[i] = b[j] PROVE i = j
    <3>1. list[i] \in S /\ list[j] \in S /\ list[i].id = list[j].id
      BY <1>5, <2>3
    <3>2. list[i] = list[j]
      BY <1>3, <3>1
    <3> QED
      BY <1>5, <3>2
  <2> QED
    BY <2>1, <2>2, <2>3
<1> HIDE DEF b
<1>7. Len(list) = n
  <2>1. list \in Seq([id : Int, cents : Nat])
    BY <1>5 DEF Lists
  <2> QED
    BY <1>2, <1>5, <2>1
<1>8. Positive(list)
  BY <1>5, <1>6 DEF Positive
<1>9. Ids(list) = C
  <2>1. Ids(list) = {list[i].id : i \in 1..n}
    BY <1>5 DEF Ids
  <2>2. \A u \in C : \E i \in 1..n : list[i].id = u
    BY <1>6
  <2>3. \A i \in 1..n : list[i].id \in C
    BY <1>6
  <2> QED
    BY ONLY <2>1, <2>2, <2>3, Zenon
<1>10. IsFiniteSet(1..n)
  BY <1>2, FS_Interval
<1>11. Sum(Cents(list)) = SumFunctionOnSet(amt, C)
  <2> DEFINE f == Cents(list)
  <2>1. DOMAIN f = 1..n /\ \A i \in 1..n : f[i] = amt[b[i]]
    BY <1>5, <1>6 DEF Cents
  <2> HIDE DEF f
  <2>4. \A i \in 1..n : f[i] \in Int /\ amt[b[i]] = f[i] /\ b[i] \in C
    <3> SUFFICES ASSUME NEW i \in 1..n PROVE f[i] \in Int /\ amt[b[i]] = f[i] /\ b[i] \in C
      OBVIOUS
    <3>1. b[i] \in C /\ f[i] = amt[b[i]]
      BY <1>6, <2>1
    <3>2. amt[b[i]] \in Nat
      BY <3>1
    <3> QED
      BY <3>1, <3>2
  <2>2. Renames(b, 1..n, C, f, amt)
    BY <1>6, <2>4, Zenon DEF Renames
  <2>3. SumFunctionOnSet(amt, C) = SumFunctionOnSet(f, 1..n)
    BY <1>10, <2>2, SumRename
  <2> QED
    BY <2>1, <2>3 DEF Sum, SumFunction, f
<1>12. ASSUME NEW u PROVE Sum(Due(list, u)) = IF u \in C THEN amt[u] ELSE 0
  <2> DEFINE f == Due(list, u)
             g == [v \in C |-> IF u = v THEN amt[v] ELSE 0]
             c == IF u \in C THEN amt[u] ELSE 0
  <2>1. DOMAIN f = 1..n /\ \A i \in 1..n : f[i] = g[b[i]]
    BY <1>5, <1>6 DEF Due
  <2>2. \A v \in C : g[v] \in Int /\ g[v] = IF u = v THEN c ELSE 0
    OBVIOUS
  <2>3. c \in Int
    <3>1. u \in C => amt[u] \in Int
      OBVIOUS
    <3> QED
      BY ONLY <3>1
  <2> HIDE DEF f, g, c
  <2>4. Renames(b, 1..n, C, f, g)
    BY <1>6, <2>1, <2>2 DEF Renames
  <2>5. SumFunctionOnSet(g, C) = SumFunctionOnSet(f, 1..n)
    BY <1>10, <2>4, SumRename
  <2>6. SumFunctionOnSet(g, C) = IF u \in C THEN c ELSE 0
    BY <2>2, <2>3, SumOfOne
  <2> QED
    BY <2>1, <2>5, <2>6 DEF Sum, SumFunction, f, c
<1> QED
  BY <1>2, <1>5, <1>7, <1>8, <1>9, <1>11, <1>12 DEF list, S, n

\* Balances sum to what the creditors are owed, less what the debtors owe.
LEMMA BothSides ==
    ASSUME NEW M, IsFiniteSet(M), NEW nets, \A u \in M : nets[u] \in Int,
           NEW owes, \A u \in M : owes[u] = -nets[u]
    PROVE  /\ SumFunctionOnSet(nets, {u \in M : nets[u] > 0}) \in Int
           /\ SumFunctionOnSet(owes, {u \in M : nets[u] < 0}) \in Int
           /\ SumFunctionOnSet(nets, M) = SumFunctionOnSet(nets, {u \in M : nets[u] > 0})
                                          - SumFunctionOnSet(owes, {u \in M : nets[u] < 0})
<1> DEFINE C == {u \in M : nets[u] > 0}
           D == {u \in M : nets[u] < 0}
           g == [u \in M |-> IF nets[u] > 0 THEN nets[u] ELSE 0]
           h == [u \in M |-> IF nets[u] < 0 THEN owes[u] ELSE 0]
<1>1. C \in SUBSET M /\ \A u \in M : g[u] = IF u \in C THEN nets[u] ELSE 0
  OBVIOUS
<1>2. D \in SUBSET M /\ \A u \in M : owes[u] \in Int /\ h[u] = IF u \in D THEN owes[u] ELSE 0
  OBVIOUS
<1>3. \A u \in M : nets[u] \in Int /\ h[u] \in Int /\ g[u] \in Int /\ g[u] = nets[u] + h[u]
  OBVIOUS
<1> HIDE DEF C, D, g, h
<1>4. SumFunctionOnSet(nets, C) = SumFunctionOnSet(g, M)
  BY <1>1, SumWhere
<1>5. SumFunctionOnSet(owes, D) = SumFunctionOnSet(h, M)
  BY <1>2, SumWhere
<1>6. SumFunctionOnSet(g, M) = SumFunctionOnSet(nets, M) + SumFunctionOnSet(h, M)
  BY <1>3, SumPlus
<1>7. SumFunctionOnSet(h, M) \in Int /\ SumFunctionOnSet(g, M) \in Int /\ SumFunctionOnSet(nets, M) \in Int
  BY <1>3, SumStep
<1> QED
  BY <1>4, <1>5, <1>6, <1>7 DEF C, D

\* What is left of a balance after some transfers.
LeftOf(nets, u, shown) == nets[u] + Sum(Sent(shown, u)) - Sum(Got(shown, u))

\* What the transfers for some balances have to be: what they leave has one
\* sign, that of the sum, so nothing is left if that is 0; nobody is moved past
\* zero; they are fewer than there are balances; who pays owes, and who receives
\* is owed.
SettlesNets(nets, M, shown) ==
    /\ shown \in Transfers
    /\ SumFunctionOnSet(nets, M) >= 0 => \A u \in M : LeftOf(nets, u, shown) >= 0
    /\ SumFunctionOnSet(nets, M) <= 0 => \A u \in M : LeftOf(nets, u, shown) <= 0
    /\ \A u \in M : /\ nets[u] >= 0 => LeftOf(nets, u, shown) >= 0
                    /\ nets[u] <= 0 => LeftOf(nets, u, shown) <= 0
    /\ \A i \in DOMAIN shown : /\ shown[i].cents > 0
                               /\ shown[i].from \in M /\ nets[shown[i].from] < 0
                               /\ shown[i].to \in M /\ nets[shown[i].to] > 0
    /\ shown # <<>> => Len(shown) < Cardinality({u \in M : nets[u] # 0})

\* What transfers send and receive is no less than any one of them.
LEMMA TransferSums ==
    ASSUME NEW shown \in Transfers, NEW u
    PROVE  /\ \A j \in DOMAIN shown : Sent(shown, u)[j] <= Sum(Sent(shown, u))
           /\ \A j \in DOMAIN shown : Got(shown, u)[j] <= Sum(Got(shown, u))
           /\ Sum(Sent(shown, u)) \in Nat /\ Sum(Got(shown, u)) \in Nat
           /\ (\A j \in DOMAIN shown : shown[j].from # u) => Sum(Sent(shown, u)) = 0
           /\ (\A j \in DOMAIN shown : shown[j].to # u) => Sum(Got(shown, u)) = 0
<1> DEFINE R == [from : Int, to : Int, cents : Nat]
           f == Sent(shown, u)
           g == Got(shown, u)
           D == DOMAIN shown
<1>1. shown \in Seq(R) /\ \A x \in R : x.cents \in Nat
  BY DEF Transfers
<1>2. IsFiniteSet(D) /\ \A j \in D : shown[j].cents \in Nat
  <2> HIDE DEF R
  <2>1. DOMAIN shown = 1..Len(shown) /\ Len(shown) \in Nat /\ \A j \in DOMAIN shown : shown[j] \in R
    BY <1>1
  <2> QED
    BY <1>1, <2>1, FS_Interval
<1>3. /\ DOMAIN f = D /\ DOMAIN g = D
      /\ \A j \in D : f[j] \in Nat /\ g[j] \in Nat
      /\ (\A j \in D : shown[j].from # u) => \A j \in D : f[j] = 0
      /\ (\A j \in D : shown[j].to # u) => \A j \in D : g[j] = 0
  BY <1>2 DEF Sent, Got
<1> HIDE DEF f, g, D
<1>4. /\ \A j \in D : f[j] <= SumFunctionOnSet(f, D)
      /\ \A j \in D : g[j] <= SumFunctionOnSet(g, D)
      /\ SumFunctionOnSet(f, D) \in Nat /\ SumFunctionOnSet(g, D) \in Nat
  BY <1>2, <1>3, SumNatural
<1>5. /\ (\A j \in D : f[j] = 0) => SumFunctionOnSet(f, D) = 0
      /\ (\A j \in D : g[j] = 0) => SumFunctionOnSet(g, D) = 0
  <2>1. ASSUME NEW k, \A j \in D : k[j] = 0 PROVE SumFunctionOnSet(k, D) = 0
    <3>1. {} \in SUBSET D /\ \A j \in D : k[j] = IF j \in {} THEN 1 ELSE 0
      BY <2>1
    <3> QED
      BY <1>2, <3>1, SumCounts, FS_EmptySet
  <2> QED
    BY <2>1
<1>6. Sum(f) = SumFunctionOnSet(f, D) /\ Sum(g) = SumFunctionOnSet(g, D)
  BY <1>3 DEF Sum, SumFunction
<1> QED
  BY <1>3, <1>4, <1>5, <1>6 DEF f, g, D

\* Whatever the balances are, Simplify settles them as far as they settle each
\* other: all of them if they sum to zero, else those of the smaller side.
THEOREM SimplifySettles ==
    ASSUME NEW M \in SUBSET Int, IsFiniteSet(M), NEW nets \in [M -> Int]
    PROVE  SettlesNets(nets, M, Simplify(nets))
<1> DEFINE C == {u \in M : nets[u] > 0}
           D == {u \in M : nets[u] < 0}
           owes == [u \in M |-> -nets[u]]
           c == Sorted(Entries(nets, C))
           d == Sorted(Entries(owes, D))
           shown == Simplify(nets)
<1>1. C \in SUBSET Int /\ D \in SUBSET Int /\ IsFiniteSet(C) /\ IsFiniteSet(D)
  BY FS_Subset
<1>2. /\ \A u \in C : nets[u] \in Nat /\ nets[u] > 0
      /\ \A u \in D : owes[u] \in Nat /\ owes[u] > 0
  OBVIOUS
<1>3. \A u \in M : nets[u] \in Int /\ owes[u] = -nets[u]
  OBVIOUS
<1>4. /\ SumFunctionOnSet(nets, C) \in Int /\ SumFunctionOnSet(owes, D) \in Int
      /\ SumFunctionOnSet(nets, M) = SumFunctionOnSet(nets, C) - SumFunctionOnSet(owes, D)
  <2>1. /\ SumFunctionOnSet(nets, {u \in M : nets[u] > 0}) \in Int
        /\ SumFunctionOnSet(owes, {u \in M : nets[u] < 0}) \in Int
        /\ SumFunctionOnSet(nets, M) = SumFunctionOnSet(nets, {u \in M : nets[u] > 0})
                                       - SumFunctionOnSet(owes, {u \in M : nets[u] < 0})
    <3> HIDE DEF owes
    <3>1. \A u \in M : nets[u] \in Int
      BY <1>3
    <3>2. \A u \in M : owes[u] = -nets[u]
      BY <1>3
    <3> QED
      BY <3>1, <3>2, BothSides
  <2> QED
    BY <2>1
<1>5. /\ DOMAIN nets = M /\ \A u \in C : u \in M /\ nets[u] > 0
      /\ \A u \in D : u \in M /\ nets[u] < 0
      /\ \A u \in M : /\ u \in C <=> nets[u] > 0
                      /\ u \in D <=> nets[u] < 0
  OBVIOUS
<1>6. Simplify(nets) = Pair[<<c, d>>]
  <2>1. Entries(nets, C) = {[id |-> u, cents |-> nets[u]] : u \in {v \in DOMAIN nets : nets[v] > 0}}
    BY DEF Entries
  <2>2. Entries(owes, D) = {[id |-> u, cents |-> -nets[u]] : u \in {v \in DOMAIN nets : nets[v] < 0}}
    BY DEF Entries
  <2>3. Creditors(nets) = c
    BY <2>1 DEF Creditors
  <2>4. Debtors(nets) = d
    BY <2>2 DEF Debtors
  <2> QED
    BY <2>3, <2>4 DEF Simplify
<1> HIDE DEF C, D, owes
<1>7. {u \in M : nets[u] # 0} = C \cup D /\ C \cap D = {}
  <2>1. \A u \in M : /\ nets[u] # 0 <=> u \in C \/ u \in D
                     /\ ~(u \in C /\ u \in D)
    BY <1>3, <1>5
  <2> QED
    BY <1>5, <2>1
<1>8. /\ c \in Lists /\ Positive(c) /\ Ids(c) = C
      /\ Len(c) = Cardinality(C) /\ Cardinality(C) \in Nat
      /\ Sum(Cents(c)) = SumFunctionOnSet(nets, C)
      /\ \A u : Sum(Due(c, u)) = IF u \in C THEN nets[u] ELSE 0
  BY <1>1, <1>2, ListOf
<1>9. /\ d \in Lists /\ Positive(d) /\ Ids(d) = D
      /\ Len(d) = Cardinality(D) /\ Cardinality(D) \in Nat
      /\ Sum(Cents(d)) = SumFunctionOnSet(owes, D)
      /\ \A u : Sum(Due(d, u)) = IF u \in D THEN owes[u] ELSE 0
  BY <1>1, <1>2, ListOf
<1> HIDE DEF c, d
<1>10. Settling(c, d, shown)
  <2> DEFINE lists == <<c, d>>
  <2>1. lists \in Lists \X Lists /\ lists[1] = c /\ lists[2] = d /\ shown = Pair[lists]
    BY <1>6, <1>8, <1>9
  <2>2. Payable(c, d)
    BY <1>8, <1>9 DEF Payable
  <2> HIDE DEF lists, shown
  <2> QED
    BY <2>1, <2>2, PairSettles
<1> HIDE DEF shown
<1>11. ASSUME NEW u \in M
       PROVE  /\ SumFunctionOnSet(nets, M) >= 0 => LeftOf(nets, u, shown) >= 0
              /\ SumFunctionOnSet(nets, M) <= 0 => LeftOf(nets, u, shown) <= 0
              /\ nets[u] >= 0 => LeftOf(nets, u, shown) >= 0
              /\ nets[u] <= 0 => LeftOf(nets, u, shown) <= 0
  <2> DEFINE got == Sum(Got(shown, u))
             sent == Sum(Sent(shown, u))
             owed == IF u \in C THEN nets[u] ELSE 0
             due == IF u \in D THEN owes[u] ELSE 0
  <2>1. got <= owed /\ sent <= due
    BY <1>8, <1>9, <1>10 DEF Settling
  <2>2. /\ SumFunctionOnSet(nets, M) <= 0 => got = owed
        /\ SumFunctionOnSet(nets, M) >= 0 => sent = due
    BY <1>4, <1>8, <1>9, <1>10 DEF Settling
  <2>3. got \in Nat /\ sent \in Nat
    BY <1>10, TransferSums DEF Settling
  <2>4. /\ nets[u] \in Int /\ owed \in Nat /\ due \in Nat /\ nets[u] = owed - due
        /\ nets[u] >= 0 => due = 0
        /\ nets[u] <= 0 => owed = 0
    BY <1>3, <1>5
  <2>5. LeftOf(nets, u, shown) = nets[u] + sent - got
    BY DEF LeftOf
  <2> HIDE DEF got, sent, owed, due
  <2>6. /\ got = owed => LeftOf(nets, u, shown) <= 0
        /\ sent = due => LeftOf(nets, u, shown) >= 0
    BY <2>1, <2>3, <2>4, <2>5
  <2>7. /\ nets[u] >= 0 => LeftOf(nets, u, shown) >= 0
        /\ nets[u] <= 0 => LeftOf(nets, u, shown) <= 0
    BY <2>1, <2>3, <2>4, <2>5
  <2> QED
    BY <2>2, <2>6, <2>7
<1>12. ASSUME NEW i \in DOMAIN shown
       PROVE  /\ shown[i].cents > 0
              /\ shown[i].from \in M /\ nets[shown[i].from] < 0
              /\ shown[i].to \in M /\ nets[shown[i].to] > 0
  BY <1>5, <1>8, <1>9, <1>10 DEF Settling
<1>13. shown # <<>> => Len(shown) < Cardinality({u \in M : nets[u] # 0})
  <2>1. Cardinality(C \cup D) = Cardinality(C) + Cardinality(D)
    <3>1. Cardinality(C \cup D) = Cardinality(C) + Cardinality(D) - Cardinality(C \cap D)
      BY <1>1, FS_Union
    <3>2. Cardinality(C \cap D) = 0
      BY <1>7, FS_EmptySet
    <3> QED
      BY <1>8, <1>9, <3>1, <3>2
  <2> QED
    BY <1>7, <1>8, <1>9, <1>10, <2>1 DEF Settling
<1> QED
  BY <1>10, <1>11, <1>12, <1>13 DEF SettlesNets, Settling, shown

-----------------------------------------------------------------------------
(* Net balances *)

\* An expense as the balances see it: what was paid is what its shares sum to.
Charge(M) ==
    {e \in [payer : M, cents : Int, splits : UNION {[U -> Int] : U \in SUBSET M}] :
        SumFunction(e.splits) = e.cents}

Payments(M) == Seq([from : M, to : M, cents : Nat])

\* The terms of a member: what they paid for expenses, and what they share.
PaidFor(list, u) == [i \in DOMAIN list |-> IF list[i].payer = u THEN list[i].cents ELSE 0]

Shared(list, u) == [i \in DOMAIN list |-> IF u \in DOMAIN list[i].splits THEN list[i].splits[u] ELSE 0]

\* The net balance of a member from those terms.
LEMMA NetTerms ==
    ASSUME NEW P \in SUBSET Int, NEW M \in SUBSET P, NEW E \in Seq(Charge(P)), NEW S \in Transfers
    PROVE  /\ NetBalances(M, E, S) = [u \in M |-> NetBalances(M, E, S)[u]]
           /\ \A u \in M : NetBalances(M, E, S)[u] = Sum(PaidFor(E, u)) - Sum(Shared(E, u))
                                                     + Sum(Sent(S, u)) - Sum(Got(S, u))
<1>1. /\ IsFiniteSet(DOMAIN E) /\ IsFiniteSet(DOMAIN S)
      /\ \A i \in DOMAIN E : E[i] \in Charge(P)
      /\ \A i \in DOMAIN S : S[i].cents \in Int
  <2> DEFINE R == [from : Int, to : Int, cents : Nat]
             Q == Charge(P)
  <2>1. S \in Seq(R) /\ E \in Seq(Q) /\ \A x \in R : x.cents \in Int
    BY DEF Transfers
  <2> HIDE DEF R, Q
  <2>2. /\ DOMAIN S = 1..Len(S) /\ Len(S) \in Nat /\ DOMAIN E = 1..Len(E) /\ Len(E) \in Nat
        /\ \A i \in DOMAIN S : S[i] \in R
        /\ \A i \in DOMAIN E : E[i] \in Q
    BY <2>1
  <2> QED
    BY <2>1, <2>2, FS_Interval DEF Q
<1>2. \A i \in DOMAIN E : E[i].cents \in Int
  BY <1>1 DEF Charge
<1>3. ASSUME NEW list, IsFiniteSet(DOMAIN list), \A i \in DOMAIN list : list[i].cents \in Int,
             NEW A \in SUBSET DOMAIN list, NEW g, DOMAIN g = DOMAIN list,
             \A i \in DOMAIN list : g[i] = IF i \in A THEN list[i].cents ELSE 0
      PROVE  SumOf(list, A) = Sum(g)
  <2> DEFINE f == [i \in A |-> list[i].cents]
             k == [i \in DOMAIN list |-> list[i].cents]
  <2>1. IsFiniteSet(A) /\ \A i \in A : k[i] \in Int /\ f[i] = k[i]
    BY <1>3, FS_Subset
  <2>2. \A i \in DOMAIN list : k[i] \in Int /\ g[i] = IF i \in A THEN k[i] ELSE 0
    BY <1>3
  <2>3. DOMAIN f = A /\ SumOf(list, A) = SumFunction(f)
    BY DEF SumOf
  <2> HIDE DEF f, k
  <2>4. SumFunctionOnSet(f, A) = SumFunctionOnSet(k, A)
    BY <2>1, SumSame
  <2>5. SumFunctionOnSet(k, A) = SumFunctionOnSet(g, DOMAIN list)
    BY <1>3, <2>2, SumWhere
  <2> QED
    BY <1>3, <2>3, <2>4, <2>5 DEF Sum, SumFunction
<1>4. ASSUME NEW u \in M
      PROVE  NetBalances(M, E, S)[u] = Sum(PaidFor(E, u)) - Sum(Shared(E, u))
                                       + Sum(Sent(S, u)) - Sum(Got(S, u))
  <2>1. SumOf(E, {i \in DOMAIN E : E[i].payer = u}) = Sum(PaidFor(E, u))
    <3> DEFINE A == {i \in DOMAIN E : E[i].payer = u}
               g == PaidFor(E, u)
    <3>1. A \in SUBSET DOMAIN E /\ DOMAIN g = DOMAIN E
          /\ \A i \in DOMAIN E : g[i] = IF i \in A THEN E[i].cents ELSE 0
      BY DEF PaidFor
    <3> HIDE DEF A, g
    <3>2. SumOf(E, A) = Sum(g)
      BY <1>1, <1>2, <1>3, <3>1
    <3> QED
      BY <3>2 DEF A, g
  <2>2. SumOf(S, {i \in DOMAIN S : S[i].from = u}) = Sum(Sent(S, u))
    <3> DEFINE A == {i \in DOMAIN S : S[i].from = u}
               g == Sent(S, u)
    <3>1. A \in SUBSET DOMAIN S /\ DOMAIN g = DOMAIN S
          /\ \A i \in DOMAIN S : g[i] = IF i \in A THEN S[i].cents ELSE 0
      BY DEF Sent
    <3> HIDE DEF A, g
    <3>2. SumOf(S, A) = Sum(g)
      BY <1>1, <1>3, <3>1
    <3> QED
      BY <3>2 DEF A, g
  <2>3. SumOf(S, {i \in DOMAIN S : S[i].to = u}) = Sum(Got(S, u))
    <3> DEFINE A == {i \in DOMAIN S : S[i].to = u}
               g == Got(S, u)
    <3>1. A \in SUBSET DOMAIN S /\ DOMAIN g = DOMAIN S
          /\ \A i \in DOMAIN S : g[i] = IF i \in A THEN S[i].cents ELSE 0
      BY DEF Got
    <3> HIDE DEF A, g
    <3>2. SumOf(S, A) = Sum(g)
      BY <1>1, <1>3, <3>1
    <3> QED
      BY <3>2 DEF A, g
  <2>4. Owed(E, u) = Sum(Shared(E, u))
    BY DEF Owed, Shared, Sum
  <2> QED
    BY <2>1, <2>2, <2>3, <2>4 DEF NetBalances
<1>5. NetBalances(M, E, S) = [u \in M |-> NetBalances(M, E, S)[u]]
  BY DEF NetBalances
<1> QED
  BY <1>4, <1>5

\* Money only changes hands: the balances of everybody sum to zero.
LEMMA NetsOfAll ==
    ASSUME NEW M \in SUBSET Int, IsFiniteSet(M), NEW E \in Seq(Charge(M)), NEW S \in Payments(M)
    PROVE  /\ NetBalances(M, E, S) \in [M -> Int]
           /\ SumFunctionOnSet(NetBalances(M, E, S), M) = 0
<1> DEFINE nets == NetBalances(M, E, S)
           paid == [u \in M |-> Sum(PaidFor(E, u))]
           shared == [u \in M |-> Sum(Shared(E, u))]
           sent == [u \in M |-> Sum(Sent(S, u))]
           got == [u \in M |-> Sum(Got(S, u))]
           charges == [i \in DOMAIN E |-> E[i].cents]
           payments == [i \in DOMAIN S |-> S[i].cents]
           F(f) == SumFunctionOnSet(f, M)
<1>1. S \in Transfers
  <2> DEFINE Q == [from : M, to : M, cents : Nat]
             R == [from : Int, to : Int, cents : Nat]
  <2>1. S \in Seq(Q) /\ Q \subseteq R
    BY DEF Payments
  <2> HIDE DEF Q, R
  <2>2. S \in Seq(R)
    BY <2>1, SeqMonotonic
  <2> QED
    BY <2>2 DEF Transfers, R
<1>2. /\ IsFiniteSet(DOMAIN E) /\ IsFiniteSet(DOMAIN S)
      /\ \A i \in DOMAIN E : E[i] \in Charge(M)
      /\ \A i \in DOMAIN S : S[i] \in [from : M, to : M, cents : Nat]
  <2> DEFINE R == [from : M, to : M, cents : Nat]
             Q == Charge(M)
  <2>1. S \in Seq(R) /\ E \in Seq(Q)
    BY DEF Payments
  <2> HIDE DEF R, Q
  <2>2. /\ DOMAIN S = 1..Len(S) /\ Len(S) \in Nat /\ DOMAIN E = 1..Len(E) /\ Len(E) \in Nat
        /\ \A i \in DOMAIN S : S[i] \in R
        /\ \A i \in DOMAIN E : E[i] \in Q
    BY <2>1
  <2> QED
    BY <2>2, FS_Interval DEF Q, R
<1>3. /\ \A i \in DOMAIN S : S[i].from \in M /\ S[i].to \in M /\ S[i].cents \in Int
      /\ \A i \in DOMAIN E : E[i].payer \in M /\ E[i].cents \in Int
  BY <1>2 DEF Charge
<1>4. ASSUME NEW i \in DOMAIN E
      PROVE  /\ DOMAIN E[i].splits \in SUBSET M /\ SumFunction(E[i].splits) = E[i].cents
             /\ \A u \in DOMAIN E[i].splits : E[i].splits[u] \in Int
  <2>1. E[i] \in Charge(M)
    BY <1>2
  <2>2. PICK U \in SUBSET M : E[i].splits \in [U -> Int]
    BY <2>1 DEF Charge
  <2>3. SumFunction(E[i].splits) = E[i].cents
    BY <2>1 DEF Charge
  <2> QED
    BY <2>2, <2>3
<1>5. F(paid) = SumFunctionOnSet(charges, DOMAIN E)
  <2> DEFINE h == [u \in M |-> PaidFor(E, u)]
  <2>1. \A u \in M, i \in DOMAIN E : h[u][i] = IF E[i].payer = u THEN E[i].cents ELSE 0
    BY DEF PaidFor
  <2>2. \A u \in M : paid[u] = SumFunctionOnSet(h[u], DOMAIN E)
    BY DEF Sum, SumFunction, PaidFor
  <2> HIDE DEF h, paid
  <2>3. \A u \in M, i \in DOMAIN E : h[u][i] \in Int
    <3> SUFFICES ASSUME NEW u \in M, NEW i \in DOMAIN E PROVE h[u][i] \in Int
      OBVIOUS
    <3>1. h[u][i] = IF E[i].payer = u THEN E[i].cents ELSE 0
      BY <2>1
    <3>2. E[i].cents \in Int
      BY <1>3
    <3> QED
      BY <3>1, <3>2
  <2>4. ASSUME NEW i \in DOMAIN E PROVE SumFunctionOnSet([u \in M |-> h[u][i]], M) = charges[i]
    <3> DEFINE g == [u \in M |-> h[u][i]]
               c == E[i].cents
               x == E[i].payer
    <3>1. x \in M /\ c \in Int /\ \A u \in M : g[u] = IF x = u THEN c ELSE 0
      BY <1>3, <2>1
    <3> HIDE DEF g, c, x
    <3>2. SumFunctionOnSet(g, M) = c
      BY <3>1, SumOfOne
    <3> QED
      BY <3>2 DEF g, c
  <2>5. \A i \in DOMAIN E : charges[i] \in Int
    BY <1>3
  <2>6. Tabulates(M, DOMAIN E, h, paid, charges)
    BY <2>2, <2>3, <2>4 DEF Tabulates
  <2> HIDE DEF charges
  <2> QED
    BY <1>2, <2>6, SumSwap
<1>6. F(shared) = SumFunctionOnSet(charges, DOMAIN E)
  <2> DEFINE h == [u \in M |-> Shared(E, u)]
  <2>1. \A u \in M, i \in DOMAIN E : h[u][i] = IF u \in DOMAIN E[i].splits THEN E[i].splits[u] ELSE 0
    BY DEF Shared
  <2>2. \A u \in M : shared[u] = SumFunctionOnSet(h[u], DOMAIN E)
    BY DEF Sum, SumFunction, Shared
  <2> HIDE DEF h, shared
  <2>3. \A u \in M, i \in DOMAIN E : h[u][i] \in Int
    <3> SUFFICES ASSUME NEW u \in M, NEW i \in DOMAIN E PROVE h[u][i] \in Int
      OBVIOUS
    <3> QED
      BY <1>4, <2>1
  <2>4. ASSUME NEW i \in DOMAIN E PROVE SumFunctionOnSet([u \in M |-> h[u][i]], M) = charges[i]
    <3> DEFINE g == [u \in M |-> h[u][i]]
               s == E[i].splits
               A == DOMAIN s
    <3>1. A \in SUBSET M /\ SumFunctionOnSet(s, A) = E[i].cents /\ \A u \in A : s[u] \in Int
      BY <1>4 DEF SumFunction
    <3>2. \A u \in M : g[u] = IF u \in A THEN s[u] ELSE 0
      BY <2>1
    <3> HIDE DEF g, s, A
    <3>3. \A u \in M : g[u] \in Int /\ g[u] = IF u \in A THEN g[u] ELSE 0
      BY <3>1, <3>2
    <3>4. SumFunctionOnSet(g, A) = SumFunctionOnSet(g, M)
      BY <3>1, <3>3, SumWhere
    <3>5. SumFunctionOnSet(g, A) = SumFunctionOnSet(s, A)
      <4>1. IsFiniteSet(A) /\ \A u \in A : s[u] \in Int /\ g[u] = s[u]
        BY <3>1, <3>2, FS_Subset
      <4> QED
        BY <4>1, SumSame
    <3> QED
      BY <3>1, <3>4, <3>5 DEF g
  <2>5. \A i \in DOMAIN E : charges[i] \in Int
    BY <1>3
  <2>6. Tabulates(M, DOMAIN E, h, shared, charges)
    BY <2>2, <2>3, <2>4 DEF Tabulates
  <2> HIDE DEF charges
  <2> QED
    BY <1>2, <2>6, SumSwap
<1>7. F(sent) = SumFunctionOnSet(payments, DOMAIN S)
  <2> DEFINE h == [u \in M |-> Sent(S, u)]
  <2>1. \A u \in M, i \in DOMAIN S : h[u][i] = IF S[i].from = u THEN S[i].cents ELSE 0
    BY DEF Sent
  <2>2. \A u \in M : sent[u] = SumFunctionOnSet(h[u], DOMAIN S)
    BY DEF Sum, SumFunction, Sent
  <2> HIDE DEF h, sent
  <2>3. \A u \in M, i \in DOMAIN S : h[u][i] \in Int
    <3> SUFFICES ASSUME NEW u \in M, NEW i \in DOMAIN S PROVE h[u][i] \in Int
      OBVIOUS
    <3>1. h[u][i] = IF S[i].from = u THEN S[i].cents ELSE 0
      BY <2>1
    <3>2. S[i].cents \in Int
      BY <1>3
    <3> QED
      BY <3>1, <3>2
  <2>4. ASSUME NEW i \in DOMAIN S PROVE SumFunctionOnSet([u \in M |-> h[u][i]], M) = payments[i]
    <3> DEFINE g == [u \in M |-> h[u][i]]
               c == S[i].cents
               x == S[i].from
    <3>1. x \in M /\ c \in Int /\ \A u \in M : g[u] = IF x = u THEN c ELSE 0
      BY <1>3, <2>1
    <3> HIDE DEF g, c, x
    <3>2. SumFunctionOnSet(g, M) = c
      BY <3>1, SumOfOne
    <3> QED
      BY <3>2 DEF g, c
  <2>5. \A i \in DOMAIN S : payments[i] \in Int
    BY <1>3
  <2>6. Tabulates(M, DOMAIN S, h, sent, payments)
    BY <2>2, <2>3, <2>4 DEF Tabulates
  <2> HIDE DEF payments
  <2> QED
    BY <1>2, <2>6, SumSwap
<1>8. F(got) = SumFunctionOnSet(payments, DOMAIN S)
  <2> DEFINE h == [u \in M |-> Got(S, u)]
  <2>1. \A u \in M, i \in DOMAIN S : h[u][i] = IF S[i].to = u THEN S[i].cents ELSE 0
    BY DEF Got
  <2>2. \A u \in M : got[u] = SumFunctionOnSet(h[u], DOMAIN S)
    BY DEF Sum, SumFunction, Got
  <2> HIDE DEF h, got
  <2>3. \A u \in M, i \in DOMAIN S : h[u][i] \in Int
    <3> SUFFICES ASSUME NEW u \in M, NEW i \in DOMAIN S PROVE h[u][i] \in Int
      OBVIOUS
    <3>1. h[u][i] = IF S[i].to = u THEN S[i].cents ELSE 0
      BY <2>1
    <3>2. S[i].cents \in Int
      BY <1>3
    <3> QED
      BY <3>1, <3>2
  <2>4. ASSUME NEW i \in DOMAIN S PROVE SumFunctionOnSet([u \in M |-> h[u][i]], M) = payments[i]
    <3> DEFINE g == [u \in M |-> h[u][i]]
               c == S[i].cents
               x == S[i].to
    <3>1. x \in M /\ c \in Int /\ \A u \in M : g[u] = IF x = u THEN c ELSE 0
      BY <1>3, <2>1
    <3> HIDE DEF g, c, x
    <3>2. SumFunctionOnSet(g, M) = c
      BY <3>1, SumOfOne
    <3> QED
      BY <3>2 DEF g, c
  <2>5. \A i \in DOMAIN S : payments[i] \in Int
    BY <1>3
  <2>6. Tabulates(M, DOMAIN S, h, got, payments)
    BY <2>2, <2>3, <2>4 DEF Tabulates
  <2> HIDE DEF payments
  <2> QED
    BY <1>2, <2>6, SumSwap
<1>9. ASSUME NEW u \in M
      PROVE  paid[u] \in Int /\ shared[u] \in Int /\ sent[u] \in Int /\ got[u] \in Int
  <2>1. sent[u] \in Int /\ got[u] \in Int
    BY <1>1, TransferParts
  <2>2. paid[u] \in Int
    <3> DEFINE f == PaidFor(E, u)
    <3>1. DOMAIN f = DOMAIN E /\ \A i \in DOMAIN E : f[i] \in Int
      BY <1>3 DEF PaidFor
    <3> HIDE DEF f
    <3>2. SumFunctionOnSet(f, DOMAIN E) \in Int
      BY <1>2, <3>1, SumStep
    <3> QED
      BY <3>1, <3>2 DEF Sum, SumFunction, f
  <2>3. shared[u] \in Int
    <3> DEFINE f == Shared(E, u)
    <3>1. DOMAIN f = DOMAIN E /\ \A i \in DOMAIN E : f[i] \in Int
      BY <1>4 DEF Shared
    <3> HIDE DEF f
    <3>2. SumFunctionOnSet(f, DOMAIN E) \in Int
      BY <1>2, <3>1, SumStep
    <3> QED
      BY <3>1, <3>2 DEF Sum, SumFunction, f
  <2> QED
    BY <2>1, <2>2, <2>3
<1>10. \A u \in M : nets[u] = paid[u] - shared[u] + sent[u] - got[u]
  <2>1. \A u \in M : nets[u] = Sum(PaidFor(E, u)) - Sum(Shared(E, u)) + Sum(Sent(S, u)) - Sum(Got(S, u))
    BY <1>1, NetTerms
  <2> HIDE DEF nets
  <2> QED
    BY <2>1
<1>11. nets = [u \in M |-> nets[u]]
  BY <1>1, NetTerms
<1> HIDE DEF nets, paid, shared, sent, got, charges, payments
<1>12. nets \in [M -> Int]
  BY <1>9, <1>10, <1>11
<1> DEFINE in == [u \in M |-> paid[u] + sent[u]]
           out == [u \in M |-> shared[u] + got[u]]
<1>13. /\ \A u \in M : paid[u] \in Int /\ sent[u] \in Int /\ in[u] = paid[u] + sent[u]
       /\ \A u \in M : shared[u] \in Int /\ got[u] \in Int /\ out[u] = shared[u] + got[u]
       /\ \A u \in M : nets[u] \in Int /\ out[u] \in Int /\ in[u] = nets[u] + out[u]
  BY <1>9, <1>10
<1> HIDE DEF in, out
<1>14. F(in) = F(paid) + F(sent) /\ F(out) = F(shared) + F(got) /\ F(in) = F(nets) + F(out)
  <2>1. SumFunctionOnSet(in, M) = SumFunctionOnSet(paid, M) + SumFunctionOnSet(sent, M)
    BY <1>13, SumPlus
  <2>2. SumFunctionOnSet(out, M) = SumFunctionOnSet(shared, M) + SumFunctionOnSet(got, M)
    BY <1>13, SumPlus
  <2>3. SumFunctionOnSet(in, M) = SumFunctionOnSet(nets, M) + SumFunctionOnSet(out, M)
    BY <1>13, SumPlus
  <2> QED
    BY <2>1, <2>2, <2>3
<1>15. F(nets) \in Int /\ F(out) \in Int
  BY <1>13, SumStep
<1>16. F(nets) = 0
  <2>1. F(in) = F(out)
    BY <1>5, <1>6, <1>7, <1>8, <1>14
  <2> HIDE DEF F
  <2> QED
    BY <1>14, <1>15, <2>1
<1> QED
  BY <1>12, <1>16 DEF nets

\* The balances of the members sum to what those who are no longer members owe,
\* less what they are owed: to zero only if those owe what they are owed.
THEOREM NetsAddUp ==
    ASSUME NEW P \in SUBSET Int, IsFiniteSet(P), NEW M \in SUBSET P,
           NEW E \in Seq(Charge(P)), NEW S \in Payments(P)
    PROVE  /\ NetBalances(M, E, S) \in [M -> Int]
           /\ SumFunctionOnSet(NetBalances(P, E, S), P \ M) \in Int
           /\ SumFunctionOnSet(NetBalances(M, E, S), M) \in Int
           /\ SumFunctionOnSet(NetBalances(M, E, S), M) = -SumFunctionOnSet(NetBalances(P, E, S), P \ M)
<1> DEFINE nets == NetBalances(M, E, S)
           all == NetBalances(P, E, S)
           gone == P \ M
<1>1. all \in [P -> Int] /\ SumFunctionOnSet(all, P) = 0
  BY NetsOfAll
<1>2. nets = [u \in M |-> nets[u]] /\ \A u \in M : nets[u] = all[u]
  BY DEF NetBalances
<1> HIDE DEF nets, all
<1>3. nets \in [M -> Int] /\ \A u \in P : all[u] \in Int
  BY <1>1, <1>2
<1>4. IsFiniteSet(M) /\ IsFiniteSet(gone) /\ gone \in SUBSET P /\ M \cap gone = {} /\ M \cup gone = P
  BY FS_Subset
<1> HIDE DEF gone
<1>5. SumFunctionOnSet(all, P) = SumFunctionOnSet(all, M) + SumFunctionOnSet(all, gone)
  BY <1>3, SumParts DEF gone
<1>6. SumFunctionOnSet(nets, M) = SumFunctionOnSet(all, M)
  BY <1>2, <1>3, <1>4, SumSame
<1>7. SumFunctionOnSet(all, M) \in Int /\ SumFunctionOnSet(all, gone) \in Int
  BY <1>3, <1>4, SumStep
<1>8. SumFunctionOnSet(nets, M) = -SumFunctionOnSet(all, gone)
  BY <1>1, <1>5, <1>6, <1>7
<1> QED
  BY <1>3, <1>6, <1>7, <1>8 DEF nets, all, gone

\* Transfers move the balances of who sends and who receives, and no other.
LEMMA NetsAfter ==
    ASSUME NEW P \in SUBSET Int, NEW M \in SUBSET P, NEW E \in Seq(Charge(P)), NEW S \in Transfers, NEW T \in Transfers,
           NEW u \in M, NetBalances(M, E, S)[u] \in Int
    PROVE  NetBalances(M, E, S \o T)[u] = NetBalances(M, E, S)[u] + Sum(Sent(T, u)) - Sum(Got(T, u))
<1> DEFINE a == Sum(PaidFor(E, u)) - Sum(Shared(E, u))
<1>1. /\ S \o T \in Transfers
      /\ Sum(Sent(S, u)) \in Int /\ Sum(Sent(T, u)) \in Int
      /\ Sum(Sent(S \o T, u)) = Sum(Sent(S, u)) + Sum(Sent(T, u))
      /\ Sum(Got(S, u)) \in Int /\ Sum(Got(T, u)) \in Int
      /\ Sum(Got(S \o T, u)) = Sum(Got(S, u)) + Sum(Got(T, u))
  BY TransferParts
<1>2. NetBalances(M, E, S)[u] = a + Sum(Sent(S, u)) - Sum(Got(S, u))
  BY NetTerms
<1>3. NetBalances(M, E, S \o T)[u] = a + Sum(Sent(S \o T, u)) - Sum(Got(S \o T, u))
  BY <1>1, NetTerms
<1>4. a \in Int
  <2>1. /\ IsFiniteSet(DOMAIN E) /\ \A i \in DOMAIN E : E[i] \in Charge(P)
    <3> DEFINE Q == Charge(P)
    <3>1. E \in Seq(Q)
      OBVIOUS
    <3> HIDE DEF Q
    <3>2. DOMAIN E = 1..Len(E) /\ Len(E) \in Nat /\ \A i \in DOMAIN E : E[i] \in Q
      BY <3>1
    <3> QED
      BY <3>2, FS_Interval DEF Q
  <2> DEFINE f == PaidFor(E, u)
             g == Shared(E, u)
  <2>2. DOMAIN f = DOMAIN E /\ \A i \in DOMAIN E : f[i] \in Int
    BY <2>1 DEF PaidFor, Charge
  <2>3. DOMAIN g = DOMAIN E /\ \A i \in DOMAIN E : g[i] \in Int
    <3> SUFFICES ASSUME NEW i \in DOMAIN E PROVE g[i] \in Int
      BY DEF Shared
    <3>1. PICK U \in SUBSET P : E[i].splits \in [U -> Int]
      BY <2>1 DEF Charge
    <3> QED
      BY <3>1 DEF Shared
  <2> HIDE DEF f, g
  <2>4. SumFunctionOnSet(f, DOMAIN E) \in Int /\ SumFunctionOnSet(g, DOMAIN E) \in Int
    BY <2>1, <2>2, <2>3, SumStep
  <2> QED
    BY <2>2, <2>3, <2>4 DEF Sum, SumFunction, f, g
<1> HIDE DEF a
<1> QED
  BY <1>1, <1>2, <1>3, <1>4

-----------------------------------------------------------------------------
(* Dates *)

\* Months have 28 to 31 days, and only February's depend on the year.
LEMMA MonthLengths ==
    ASSUME NEW y \in Nat, NEW m \in 1..12
    PROVE  /\ DaysIn(y, m) \in 28..31
           /\ m \in {1, 12} => DaysIn(y, m) = 31
           /\ m # 2 => DaysIn(y, m) = DaysIn(y + 1, m)
BY DEF DaysIn

YearOf(y, n) == IF n <= 12 THEN y ELSE y + 1

MonthOf(n) == IF n <= 12 THEN n ELSE n - 12

\* A date is of its month, or of the next one if it has too few days.
LEMMA NormalDate ==
    ASSUME NEW y \in Nat, NEW m \in 1..13, NEW d \in Nat
    PROVE  Normal(y, m, d) =
             IF d <= DaysIn(YearOf(y, m), MonthOf(m))
             THEN [year |-> YearOf(y, m), month |-> MonthOf(m), day |-> d]
             ELSE [year |-> YearOf(y, m + 1), month |-> MonthOf(m + 1),
                   day |-> d - DaysIn(YearOf(y, m), MonthOf(m))]
<1>1. ASSUME NEW n \in 1..14 PROVE y + (n - 1) \div 12 = YearOf(y, n) /\ ((n - 1) % 12) + 1 = MonthOf(n)
  BY DEF YearOf, MonthOf
<1>2. m \in 1..14 /\ m + 1 \in 1..14
  OBVIOUS
<1>3. /\ y + (m - 1) \div 12 = YearOf(y, m) /\ ((m - 1) % 12) + 1 = MonthOf(m)
      /\ y + ((m + 1) - 1) \div 12 = YearOf(y, m + 1) /\ (((m + 1) - 1) % 12) + 1 = MonthOf(m + 1)
  BY <1>1, <1>2
<1> QED
  BY <1>3, Zenon DEF Normal

\* Some days, no more than two weeks, later.
LEMMA DaysLater ==
    ASSUME NEW from \in RealDates, NEW k \in 1..14
    PROVE  /\ AddDate(from, 0, 0, k) \in RealDates
           /\ Elapsed(from, AddDate(from, 0, 0, k)) = k
<1> DEFINE y == from.year
           m == from.month
           d == from.day
           to == AddDate(from, 0, 0, k)
           length == DaysIn(y, m)
           N == MonthNumber(from)
           months == N..(MonthNumber(to) - 1)
           days == [n \in months |-> DaysIn((n - 1) \div 12, ((n - 1) % 12) + 1)]
<1>1. y \in Nat /\ m \in 1..12 /\ d \in 1..31 /\ d <= length
  BY DEF RealDates, Date
<1>2. length \in 28..31 /\ (m = 12 => length = 31)
  BY <1>1, MonthLengths
<1>3. to = Normal(y, m, d + k)
  <2>1. y + 0 = y /\ m + 0 = m
    BY <1>1
  <2> QED
    BY <2>1, Zenon DEF AddDate
<1>4. to = IF d + k <= length THEN [year |-> y, month |-> m, day |-> d + k]
           ELSE [year |-> YearOf(y, m + 1), month |-> MonthOf(m + 1), day |-> (d + k) - length]
  <2> DEFINE e == d + k
  <2>1. m \in 1..13 /\ e \in Nat /\ YearOf(y, m) = y /\ MonthOf(m) = m
    BY <1>1 DEF YearOf, MonthOf
  <2> HIDE DEF y, m, e
  <2>2. Normal(y, m, e) = IF e <= DaysIn(y, m) THEN [year |-> y, month |-> m, day |-> e]
                          ELSE [year |-> YearOf(y, m + 1), month |-> MonthOf(m + 1), day |-> e - DaysIn(y, m)]
    BY <1>1, <2>1, NormalDate
  <2> QED
    BY <1>3, <2>2 DEF e
<1>5. /\ N = 12 * y + m /\ N \in Nat
      /\ (N - 1) \div 12 = y /\ ((N - 1) % 12) + 1 = m
  BY <1>1 DEF MonthNumber
<1>6. Elapsed(from, to) = SumFunctionOnSet(days, months) + to.day - d
  BY DEF Elapsed, SumFunction
<1> HIDE DEF to, length, N, months, days
<1>7. CASE d + k <= length
  <2>1. to = [year |-> y, month |-> m, day |-> d + k]
    BY <1>4, <1>7
  <2>2. MonthNumber(to) = N
    BY <1>5, <2>1 DEF MonthNumber
  <2>3. months = {}
    BY <1>5, <2>2 DEF months
  <2>4. Elapsed(from, to) = k
    <3>1. SumFunctionOnSet(days, {}) = 0 /\ to.day = d + k
      BY <2>1, SumEmpty
    <3> QED
      BY <1>1, <1>6, <2>3, <3>1
  <2>5. to \in RealDates
    BY <1>1, <1>2, <1>7, <2>1 DEF RealDates, Date, length
  <2> QED
    BY <2>4, <2>5 DEF to
<1>8. CASE ~(d + k <= length)
  <2> DEFINE z == YearOf(y, m + 1)
             o == MonthOf(m + 1)
  <2>1. to = [year |-> z, month |-> o, day |-> (d + k) - length]
    BY <1>4, <1>8
  <2>2. z \in Nat /\ o \in 1..12 /\ 12 * z + o = N + 1
    BY <1>1, <1>5 DEF YearOf, MonthOf
  <2>3. DaysIn(z, o) \in 28..31
    BY <2>2, MonthLengths
  <2> HIDE DEF z, o
  <2>4. MonthNumber(to) = N + 1
    BY <2>1, <2>2 DEF MonthNumber
  <2>5. months = {N}
    BY <1>5, <2>4 DEF months
  <2>6. days[N] = length
    BY <1>5, <2>5 DEF days, length
  <2>7. SumFunctionOnSet(days, {N}) = length
    BY <1>2, <2>6, SumOnly
  <2>8. Elapsed(from, to) = k
    <3>1. to.day = (d + k) - length
      BY <2>1
    <3> QED
      BY <1>1, <1>2, <1>6, <2>5, <2>7, <3>1
  <2>9. to \in RealDates
    BY <1>1, <1>2, <1>8, <2>1, <2>2, <2>3 DEF RealDates, Date
  <2> QED
    BY <2>8, <2>9 DEF to
<1> QED
  BY <1>7, <1>8

\* What KeepsDay says of a template in months or years: period months later.
Kept(from, to, period) ==
    LET gap == MonthNumber(to) - MonthNumber(from)
    IN  \/ gap = period /\ to.day = from.day
        \/ gap = period + 1 /\ from.day > 28 /\ to.day <= 3

\* One month later.
LEMMA MonthLater ==
    ASSUME NEW from \in RealDates
    PROVE  AddDate(from, 0, 1, 0) \in RealDates /\ Kept(from, AddDate(from, 0, 1, 0), 1)
<1> DEFINE y == from.year
           m == from.month
           d == from.day
           to == AddDate(from, 0, 1, 0)
           z == YearOf(y, m + 1)
           o == MonthOf(m + 1)
           z2 == YearOf(y, m + 2)
           o2 == MonthOf(m + 2)
           length == DaysIn(z, o)
<1>1. y \in Nat /\ m \in 1..12 /\ d \in 1..31
  BY DEF RealDates, Date
<1>2. /\ z \in Nat /\ o \in 1..12 /\ 12 * z + o = 12 * y + m + 1
      /\ z2 \in Nat /\ o2 \in 1..12 /\ 12 * z2 + o2 = 12 * y + m + 2
  BY <1>1 DEF YearOf, MonthOf
<1>3. length \in 28..31 /\ DaysIn(z2, o2) \in 28..31
  BY <1>2, MonthLengths
<1>4. to = Normal(y, m + 1, d)
  <2>1. y + 0 = y /\ d + 0 = d
    BY <1>1
  <2> QED
    BY <2>1, Zenon DEF AddDate
<1>5. to = IF d <= length THEN [year |-> z, month |-> o, day |-> d]
           ELSE [year |-> z2, month |-> o2, day |-> d - length]
  <2>1. m + 1 \in 1..13 /\ d \in Nat /\ (m + 1) + 1 = m + 2
    BY <1>1
  <2> HIDE DEF y, m, d
  <2> QED
    BY <1>1, <1>4, <2>1, NormalDate
<1> HIDE DEF to, z, o, z2, o2, length
<1>6. to \in RealDates
  BY <1>1, <1>2, <1>3, <1>5 DEF RealDates, Date, length
<1>7. Kept(from, to, 1)
  BY <1>1, <1>2, <1>3, <1>5 DEF Kept, MonthNumber
<1> QED
  BY <1>6, <1>7 DEF to

\* One year later.
LEMMA YearLater ==
    ASSUME NEW from \in RealDates
    PROVE  AddDate(from, 1, 0, 0) \in RealDates /\ Kept(from, AddDate(from, 1, 0, 0), 12)
<1> DEFINE y == from.year + 1
           m == from.month
           d == from.day
           to == AddDate(from, 1, 0, 0)
           length == DaysIn(y, m)
<1>1. y \in Nat /\ from.year = y - 1 /\ m \in 1..12 /\ d \in 1..31 /\ from.year \in Nat
  BY DEF RealDates, Date
<1>2. length \in 28..31 /\ (m # 2 => d <= length)
  <2>1. d <= DaysIn(from.year, m)
    BY DEF RealDates
  <2>2. m # 2 => DaysIn(from.year, m) = length
    BY <1>1, MonthLengths
  <2> QED
    BY <1>1, <2>1, <2>2, MonthLengths
<1>3. to = Normal(y, m, d)
  <2>1. m + 0 = m /\ d + 0 = d
    BY <1>1
  <2> QED
    BY <2>1, Zenon DEF AddDate
<1>4. to = IF d <= length THEN [year |-> y, month |-> m, day |-> d]
           ELSE [year |-> y, month |-> 3, day |-> d - length]
  <2>1. /\ m \in 1..13 /\ d \in Nat /\ YearOf(y, m) = y /\ MonthOf(m) = m
        /\ m = 2 => YearOf(y, m + 1) = y /\ MonthOf(m + 1) = 3
    BY <1>1 DEF YearOf, MonthOf
  <2> HIDE DEF y, m, d, length
  <2>2. to = IF d <= length THEN [year |-> y, month |-> m, day |-> d]
             ELSE [year |-> YearOf(y, m + 1), month |-> MonthOf(m + 1), day |-> d - length]
    BY <1>1, <1>3, <2>1, NormalDate DEF length
  <2> QED
    BY <1>2, <2>1, <2>2
<1> HIDE DEF to, length
<1>5. to \in RealDates
  <2>1. DaysIn(y, 3) = 31
    BY DEF DaysIn
  <2> QED
    BY <1>1, <1>2, <1>4, <2>1 DEF RealDates, Date, length
<1>6. Kept(from, to, 12)
  BY <1>1, <1>2, <1>4 DEF Kept, MonthNumber
<1> QED
  BY <1>5, <1>6 DEF to

-----------------------------------------------------------------------------
(* The template of the ledger *)

\* A template has a date that exists, and one whose day has changed is due on
\* one of the first three days of a month.
TemplateOK ==
    /\ template \in [cadence : Cadences, due : RealDates]
    /\ drifts \in Nat
    /\ InMonths /\ drifts # 0 => template.due.day <= 3

\* The bench starts with such a template.
LEMMA TemplateInit == LedgerInit => TemplateOK
<1>1. NoDate \in RealDates
  BY DEF NoDate, RealDates, Date, DaysIn
<1>2. Starts \subseteq RealDates
  BY DEF Starts
<1>3. "monthly" \in Cadences
  BY DEF Cadences
<1> HIDE DEF RealDates
<1> QED
  BY <1>1, <1>2, <1>3 DEF LedgerInit, TemplateOK

\* A template that comes due stays one, and its next date is the one KeepsDay
\* asks for.
LEMMA DueStep ==
    ASSUME TemplateOK, ComesDue
    PROVE  /\ TemplateOK' /\ template'.cadence = template.cadence
           /\ template.cadence = "monthly" => Kept(template.due, template'.due, 1)
           /\ template.cadence = "yearly" => Kept(template.due, template'.due, 12)
           /\ template.cadence = "daily" => Elapsed(template.due, template'.due) = 1
           /\ template.cadence = "weekly" => Elapsed(template.due, template'.due) = 7
           /\ template.cadence = "biweekly" => Elapsed(template.due, template'.due) = 14
<1> DEFINE due == template.due
           next == AdvanceCadence(due, template.cadence)
<1>1. /\ due \in RealDates /\ template.cadence \in Cadences
      /\ template' = [template EXCEPT !.due = next]
      /\ template'.due = next /\ template'.cadence = template.cadence
  BY DEF TemplateOK, ComesDue
<1>2. /\ next \in RealDates
      /\ template.cadence = "monthly" => Kept(due, next, 1)
      /\ template.cadence = "yearly" => Kept(due, next, 12)
      /\ template.cadence = "daily" => Elapsed(due, next) = 1
      /\ template.cadence = "weekly" => Elapsed(due, next) = 7
      /\ template.cadence = "biweekly" => Elapsed(due, next) = 14
  <2> HIDE DEF due
  <2>1. CASE template.cadence \in {"daily", "weekly", "biweekly"}
    <3>1. \A k \in {1, 7, 14} : AddDate(due, 0, 0, k) \in RealDates /\ Elapsed(due, AddDate(due, 0, 0, k)) = k
      BY <1>1, DaysLater
    <3>2. next = AddDate(due, 0, 0, IF template.cadence = "daily" THEN 1 ELSE IF template.cadence = "weekly" THEN 7 ELSE 14)
      BY <2>1, Zenon DEF AdvanceCadence
    <3> QED
      BY <2>1, <3>1, <3>2
  <2>2. CASE template.cadence = "monthly"
    <3>1. next = AddDate(due, 0, 1, 0)
      BY <2>2 DEF AdvanceCadence
    <3> QED
      BY <1>1, <2>2, <3>1, MonthLater
  <2>3. CASE template.cadence = "yearly"
    <3>1. next = AddDate(due, 1, 0, 0)
      BY <2>3 DEF AdvanceCadence
    <3> QED
      BY <1>1, <2>3, <3>1, YearLater
  <2> QED
    BY <1>1, <2>1, <2>2, <2>3 DEF Cadences
<1>3. TemplateOK'
  <2>1. template' \in [cadence : Cadences, due : RealDates]
    <3>1. template \in [cadence : Cadences, due : RealDates]
      BY DEF TemplateOK
    <3> HIDE DEF next
    <3> QED
      BY <1>1, <1>2, <3>1
  <2>2. drifts' \in Nat
    BY DEF TemplateOK, ComesDue
  <2>3. ASSUME InMonths', drifts' # 0 PROVE template'.due.day <= 3
    <3>1. InMonths /\ template.cadence \in {"monthly", "yearly"}
      BY <1>1, <2>3 DEF InMonths
    <3>2. next.day = due.day \/ next.day <= 3
      BY <1>2, <3>1 DEF Kept
    <3>3. next.day # due.day \/ (drifts # 0 /\ due.day <= 3)
      BY <1>1, <2>3, <3>1 DEF ComesDue, TemplateOK
    <3> QED
      BY <1>1, <3>2, <3>3
  <2> QED
    BY <2>1, <2>2, <2>3 DEF TemplateOK
<1> QED
  BY <1>1, <1>2, <1>3

\* What every step of the bench does to its template.
LEMMA TemplateStep ==
    ASSUME TemplateOK, [LedgerNext]_ledgerVars
    PROVE  TemplateOK' /\ (UNCHANGED <<template, drifts>> \/ ComesDue)
<1>1. CASE ComesDue
  BY <1>1, DueStep
<1>2. CASE UNCHANGED <<template, drifts>>
  BY <1>2 DEF TemplateOK, InMonths
<1>3. UNCHANGED <<template, drifts>> \/ ComesDue
  BY DEF LedgerNext, ledgerVars, RecordExpense, EditAmount, SettleUp, Leave
<1> QED
  BY <1>1, <1>2, <1>3

\* A template in months or years keeps its day of the month, save for once, and
\* one in days its distance: whatever the dates (advanceCadence).
THEOREM DayKept == LedgerSpec => KeepsDay
<1> DEFINE due == template.due
           next == template'.due
           gap == MonthNumber(next) - MonthNumber(due)
           period == IF template.cadence = "monthly" THEN 1 ELSE 12
           Keeps == template # template' =>
                      IF InMonths
                      THEN \/ gap = period /\ next.day = due.day
                           \/ gap = period + 1 /\ drifts = 0 /\ due.day > 28 /\ next.day <= 3
                      ELSE Elapsed(due, next) = CASE template.cadence = "daily"  -> 1
                                                  [] template.cadence = "weekly" -> 7
                                                  [] OTHER                       -> 14
<1>1. LedgerInit => TemplateOK
  BY TemplateInit
<1>2. TemplateOK /\ [LedgerNext]_ledgerVars => TemplateOK'
  BY TemplateStep
<1>3. ASSUME TemplateOK, [LedgerNext]_ledgerVars PROVE [Keeps]_ledgerVars
  <2>1. SUFFICES ASSUME template # template' PROVE Keeps
    OBVIOUS
  <2>2. ComesDue
    BY <1>3, <2>1, TemplateStep
  <2>3. template.cadence \in Cadences /\ due \in RealDates
    BY <1>3 DEF TemplateOK
  <2>4. due.day \in 1..31
    BY <2>3 DEF RealDates, Date
  <2>5. CASE InMonths
    <3>1. Kept(due, next, period)
      BY <1>3, <2>2, <2>5, DueStep DEF InMonths
    <3>2. drifts # 0 => due.day <= 3
      BY <1>3, <2>5 DEF TemplateOK
    <3> QED
      BY <2>4, <2>5, <3>1, <3>2 DEF Kept
  <2>6. CASE ~InMonths
    BY <1>3, <2>2, <2>3, <2>6, DueStep DEF InMonths, Cadences
  <2> QED
    BY <2>5, <2>6
<1>4. KeepsDay <=> [][Keeps]_ledgerVars
  BY DEF KeepsDay
<1> QED
  BY <1>1, <1>2, <1>3, <1>4, PTL DEF LedgerSpec

-----------------------------------------------------------------------------
(* The expense of the ledger *)

\* The exercise is one of those with an expense.
AskedSomething == \E m \in Modes : asked \in Asked(m)

\* What a request of the bench consists of.
LEMMA AskedEntries ==
    ASSUME AskedSomething
    PROVE  /\ asked.mode \in Modes /\ asked \in Asked(asked.mode)
           /\ asked.in \in Seq(Entry) /\ asked.in # <<>>
           /\ DOMAIN asked.in = 1..Len(asked.in) /\ Len(asked.in) \in Nat \ {0}
           /\ \A i \in DOMAIN asked.in : asked.in[i].user \in People /\ asked.in[i].value \in Nat
<1>1. PICK m \in Modes : asked \in Asked(m)
  BY DEF AskedSomething
<1>2. PICK n \in 1..Cardinality(People) :
         /\ asked.mode = m /\ asked.in \in [1..n -> [user : People, value : ValuesFor(m)]]
  BY <1>1 DEF Asked
<1>3. ValuesFor(m) \subseteq Nat /\ People \subseteq Nat
  BY LedgerAssumption DEF ValuesFor, Household
<1>4. n \in Nat \ {0}
  <2>1. People \subseteq 1..Size /\ Size \in Nat
    BY LedgerAssumption DEF Household
  <2>2. IsFiniteSet(1..Size)
    BY <2>1, Count
  <2>3. Cardinality(People) \in Nat
    BY <2>1, <2>2, FS_Subset, FS_CardinalityType
  <2> QED
    BY <2>3
<1>5. \A i \in 1..n : asked.in[i] \in Entry /\ asked.in[i].user \in People /\ asked.in[i].value \in Nat
  BY <1>2, <1>3 DEF Entry
<1>6. asked.in \in Seq(Entry) /\ Len(asked.in) = n /\ DOMAIN asked.in = 1..n
  <2>1. asked.in \in [1..n -> Entry]
    BY <1>2, <1>5
  <2>2. asked.in \in Seq(Entry)
    BY <1>4, <2>1
  <2> QED
    BY <1>4, <2>1, <2>2
<1> QED
  BY <1>1, <1>2, <1>4, <1>5, <1>6

\* The household is a finite set of numbers.
LEMMA HouseholdIsFinite ==
    /\ IsFiniteSet(Household) /\ Household \in SUBSET Int /\ Household \subseteq Nat
    /\ People \subseteq Household /\ IsFiniteSet(People)
<1>1. Household = 1..Size /\ Size \in Nat /\ People \subseteq Household
  BY LedgerAssumption DEF Household
<1>2. IsFiniteSet(Household)
  BY <1>1, Count
<1>3. IsFiniteSet(People)
  BY <1>1, <1>2, FS_Subset
<1> QED
  BY <1>1, <1>2, <1>3

\* What a created expense charges, in the terms of its request.
LEMMA Recorded ==
    ASSUME LedgerFits, asked = NoRequest \/ AskedSomething, NEW cents \in Totals, RecordExpense(cents)
    PROVE  /\ AskedSomething /\ bill'.cents = cents
           /\ bill'.rows \in [{asked.in[i].user : i \in DOMAIN asked.in} -> Nat]
           /\ SumFunction(bill'.rows) = cents
           /\ LET shares == ResolveSplits(asked.mode, cents, asked.in)
              IN  /\ shares # NoShares /\ shares \in [DOMAIN asked.in -> Nat]
                  /\ \A i \in DOMAIN asked.in : bill'.rows[asked.in[i].user] = shares[i]
                  /\ asked.mode # "exact" =>
                       EarlyCents(shares, Len(asked.in), cents, Weights(asked.mode, asked.in))
<1> DEFINE in == asked.in
           mode == asked.mode
           shares == ResolveSplits(mode, cents, in)
<1>1. shares # NoShares /\ bill' = [cents |-> cents, rows |-> SplitRows(in, shares)]
  BY DEF RecordExpense
<1>2. in # <<>> /\ IsInjective([i \in DOMAIN in |-> in[i].user])
  BY <1>1 DEF ResolveSplits
<1>3. AskedSomething
  BY <1>2 DEF NoRequest
<1>4. mode \in Modes /\ in \in Seq(Entry) /\ asked \in Asked(mode)
  BY <1>3, AskedEntries
<1>5. Fits(cents, in)
  BY <1>4 DEF LedgerFits
<1>6. cents \in Nat
  BY LedgerAssumption
<1>7. bill'.cents = cents /\ bill'.rows = SplitRows(in, shares)
  BY <1>1
<1> HIDE DEF mode, in
<1>8. /\ shares \in [DOMAIN in -> Nat] /\ SumFunction(shares) = cents
      /\ mode # "exact" => EarlyCents(shares, Len(in), cents, Weights(mode, in))
  BY <1>1, <1>4, <1>5, <1>6, ResolvedSums
<1> HIDE DEF shares
<1>9. /\ SplitRows(in, shares) \in [{in[i].user : i \in DOMAIN in} -> Nat]
      /\ \A i \in DOMAIN in : SplitRows(in, shares)[in[i].user] = shares[i]
      /\ SumFunction(SplitRows(in, shares)) = SumFunction(shares)
  BY <1>2, <1>4, <1>8, RowsSum
<1>10. /\ bill'.rows \in [{in[i].user : i \in DOMAIN in} -> Nat]
       /\ \A i \in DOMAIN in : bill'.rows[in[i].user] = shares[i]
       /\ SumFunction(bill'.rows) = cents
  BY <1>7, <1>8, <1>9
<1> QED
  BY <1>1, <1>3, <1>7, <1>8, <1>10 DEF shares, mode, in

\* A recorded expense, of a request of the bench, whose shares sum to its amount.
BillOK ==
    bill.cents # 0 =>
        /\ bill.cents \in Totals /\ AskedSomething
        /\ \E U \in SUBSET People : bill.rows \in [U -> Nat]
        /\ SumsTo(bill.rows, bill.cents)

\* What a rescaled expense charges.
LEMMA Edited ==
    ASSUME LedgerFits, BillOK, NEW cents \in Totals, EditAmount(cents)
    PROVE  /\ bill'.cents = cents /\ DOMAIN bill'.rows = DOMAIN bill.rows
           /\ bill'.rows \in [DOMAIN bill.rows -> Nat]
           /\ \A u \in DOMAIN bill.rows : Fair(bill'.rows[u], cents, bill.rows[u], bill.cents)
           /\ SumsTo(bill'.rows, cents)
<1> DEFINE rows == bill.rows
           old == bill.cents
           new == RescaleSplits(rows, old, cents)
<1>1. /\ old \in Totals /\ SumsTo(rows, old) /\ bill' = [cents |-> cents, rows |-> new]
  BY DEF BillOK, EditAmount
<1>2. /\ DOMAIN rows \subseteq Nat /\ IsFiniteSet(DOMAIN rows)
      /\ rows = [u \in DOMAIN rows |-> rows[u]] /\ \A u \in DOMAIN rows : rows[u] \in Nat
  <2>1. PICK U \in SUBSET People : rows \in [U -> Nat]
    BY DEF BillOK, EditAmount
  <2>2. IsFiniteSet(U) /\ U \subseteq Nat
    BY HouseholdIsFinite, FS_Subset
  <2> QED
    BY <2>1, <2>2
<1>3. /\ old \in Nat \ {0} /\ old = SumFunction(rows) /\ cents \in Nat \ {0}
  BY <1>1, LedgerAssumption DEF SumsTo
<1>4. cents < Limit
  <2>1. cents * cents < Limit /\ cents * cents \in Nat
    BY <1>3, Products DEF LedgerFits
  <2>2. 1 * cents <= cents * cents
    <3>1. 1 <= cents /\ 1 \in Nat
      BY <1>3
    <3> QED
      BY <1>3, <3>1, TimesMonotone
  <2> QED
    BY <1>3, <2>1, <2>2, Limits
<1>5. ASSUME NEW u \in DOMAIN rows PROVE rows[u] * cents < Limit
  <2>1. rows[u] \in Nat /\ rows[u] <= old
    BY <1>2, <1>3, SumNatural DEF SumFunction
  <2>2. old * cents < Limit /\ old * cents \in Nat
    BY <1>1, <1>3, Products DEF LedgerFits
  <2>3. rows[u] * cents <= old * cents /\ rows[u] * cents \in Nat
    BY <1>3, <2>1, TimesMonotone, Products
  <2> QED
    BY <2>2, <2>3, Limits
<1>6. new = [u \in DOMAIN rows |-> new[u]] /\ DOMAIN new = DOMAIN rows
  <2> HIDE DEF rows, old
  <2>1. CASE old = 0 \/ DOMAIN rows = {}
    <3>1. new = rows
      BY <2>1 DEF RescaleSplits
    <3> QED
      BY <1>2, <3>1
  <2>2. CASE ~(old = 0 \/ DOMAIN rows = {})
    BY <2>2 DEF RescaleSplits
  <2> QED
    BY <2>1, <2>2
<1> HIDE DEF new
<1>7. /\ \A u \in DOMAIN rows : new[u] \in Nat /\ new[u] - ((cents * rows[u]) \div old) \in {0, 1}
      /\ SumFunction(new) = cents
  <2> HIDE DEF rows, old
  <2> QED
    BY <1>2, <1>3, <1>4, <1>5, RescaledSums DEF new
<1>8. bill'.cents = cents /\ bill'.rows = new
  BY <1>1
<1> QED
  BY <1>6, <1>7, <1>8 DEF SumsTo, Fair, Floored

-----------------------------------------------------------------------------
(* The settlements of the ledger *)

\* What holds of the bench's money: a request, an expense of it, payments of the
\* household, and those of it who are still members.
LedgerFacts ==
    /\ asked = NoRequest \/ AskedSomething
    /\ settlements \in Payments(Household)
    /\ household \in SUBSET Household
    /\ BillOK

\* Payments are transfers.
LEMMA PaymentsAreTransfers ==
    ASSUME NEW M \in SUBSET Int, NEW s \in Payments(M)
    PROVE  s \in Transfers
<1> DEFINE Q == [from : M, to : M, cents : Nat]
           R == [from : Int, to : Int, cents : Nat]
<1>1. s \in Seq(Q) /\ Q \subseteq R
  BY DEF Payments
<1> HIDE DEF Q, R
<1>2. s \in Seq(R)
  BY <1>1, LargerSeq
<1> QED
  BY <1>2 DEF Transfers, R

\* The expense of the bench is a charge.
LEMMA ChargesOK == LedgerFacts => Charges \in Seq(Charge(Household))
<1> SUFFICES ASSUME LedgerFacts PROVE Charges \in Seq(Charge(Household))
  OBVIOUS
<1>1. CASE bill.cents = 0
  BY <1>1 DEF Charges
<1>2. CASE bill.cents # 0
  <2> DEFINE e == [payer |-> asked.in[1].user, cents |-> bill.cents, splits |-> bill.rows]
  <2>1. AskedSomething /\ bill.cents \in Totals
    BY <1>2 DEF LedgerFacts, BillOK
  <2>2. asked.in[1].user \in Household
    <3>1. 1 \in DOMAIN asked.in
      BY <2>1, AskedEntries
    <3> QED
      BY <2>1, <3>1, AskedEntries, HouseholdIsFinite
  <2>3. PICK U \in SUBSET People : bill.rows \in [U -> Nat]
    BY <1>2 DEF LedgerFacts, BillOK
  <2>4. U \in SUBSET Household /\ bill.rows \in [U -> Int] /\ bill.cents \in Int
    <3>1. bill.cents \in Int
      <4>1. Totals \subseteq Int
        BY LedgerAssumption
      <4> QED
        BY <2>1, <4>1
    <3>2. U \in SUBSET Household
      BY HouseholdIsFinite
    <3> QED
      BY <2>3, <3>1, <3>2
  <2>5. SumFunction(bill.rows) = bill.cents
    BY <1>2 DEF LedgerFacts, BillOK, SumsTo
  <2>6. e \in Charge(Household)
    <3>1. e \in [payer : Household, cents : Int, splits : UNION {[V -> Int] : V \in SUBSET Household}]
      BY <2>2, <2>4
    <3> QED
      BY <2>5, <3>1 DEF Charge
  <2>7. Charges = <<e>>
    BY <1>2 DEF Charges
  <2> HIDE DEF e
  <2> QED
    BY <2>6, <2>7
<1> QED
  BY <1>1, <1>2

\* The balances of the members sum to what those who left owe, and the transfers
\* shown settle them as far as they can.
LEMMA NetsSettle ==
    ASSUME LedgerFacts
    PROVE  /\ settlements \in Transfers
           /\ Nets \in [household -> Int]
           /\ SumFunctionOnSet(Nets, household) \in Int
           /\ SumFunctionOnSet(Nets, household) = -Abandoned /\ Abandoned \in Int
           /\ SettlesNets(Nets, household, Simplify(Nets))
<1> DEFINE P == Household
           M == household
           E == Charges
           S == settlements
<1>1. /\ P \in SUBSET Int /\ IsFiniteSet(P) /\ E \in Seq(Charge(P)) /\ S \in Payments(P)
      /\ M \in SUBSET P
  BY HouseholdIsFinite, ChargesOK DEF LedgerFacts
<1>2. S \in Transfers
  BY <1>1, PaymentsAreTransfers
<1>3. Nets = NetBalances(M, E, S) /\ Abandoned = SumFunctionOnSet(NetBalances(P, E, S), P \ M)
  BY DEF Nets, Abandoned, AllNets
<1> HIDE DEF P, M, E, S
<1>4. /\ NetBalances(M, E, S) \in [M -> Int]
      /\ SumFunctionOnSet(NetBalances(P, E, S), P \ M) \in Int
      /\ SumFunctionOnSet(NetBalances(M, E, S), M) \in Int
      /\ SumFunctionOnSet(NetBalances(M, E, S), M) = -SumFunctionOnSet(NetBalances(P, E, S), P \ M)
  BY <1>1, NetsAddUp
<1>5. /\ Nets \in [M -> Int] /\ SumFunctionOnSet(Nets, M) \in Int
      /\ SumFunctionOnSet(Nets, M) = -Abandoned /\ Abandoned \in Int
  BY <1>3, <1>4
<1>6. SettlesNets(Nets, M, Simplify(Nets))
  <2>1. M \in SUBSET Int /\ IsFiniteSet(M)
    BY <1>1, FS_Subset
  <2> QED
    BY <1>5, <2>1, SimplifySettles
<1> QED
  BY <1>2, <1>5, <1>6 DEF M, S

\* What the page shows are payments of members.
LEMMA ShownAreMembers ==
    ASSUME LedgerFacts
    PROVE  Simplify(Nets) \in Payments(household) /\ Simplify(Nets) \in Payments(Household)
<1> DEFINE shown == Simplify(Nets)
           Q == [from : Int, to : Int, cents : Nat]
           R == [from : household, to : household, cents : Nat]
           H == [from : Household, to : Household, cents : Nat]
<1>1. SettlesNets(Nets, household, shown)
  BY NetsSettle
<1> HIDE DEF shown
<1>2. shown \in Seq(Q)
  BY <1>1 DEF SettlesNets, Transfers
<1>3. \A i \in DOMAIN shown : shown[i].from \in household /\ shown[i].to \in household
  BY <1>1 DEF SettlesNets
<1>4. \A i \in DOMAIN shown : shown[i] \in R
  <2>1. \A i \in DOMAIN shown : shown[i] \in Q
    <3> HIDE DEF Q
    <3> QED
      BY <1>2
  <2> QED
    BY <1>3, <2>1
<1>5. R \subseteq H
  BY DEF LedgerFacts
<1> HIDE DEF Q, R, H
<1>6. shown \in Seq(R)
  <2>1. Len(shown) \in Nat /\ DOMAIN shown = 1..Len(shown) /\ shown = [i \in 1..Len(shown) |-> shown[i]]
    BY <1>2
  <2>2. shown \in [1..Len(shown) -> R]
    BY <1>4, <2>1
  <2> QED
    BY <2>1, <2>2
<1>7. shown \in Seq(H)
  BY <1>5, <1>6, LargerSeq
<1> QED
  BY <1>6, <1>7 DEF shown, R, H, Payments

\* Somebody settles as the page says: a payment of the household.
LEMMA SettleUpFacts == LedgerFacts /\ SettleUp => settlements' \in Payments(Household)
<1> SUFFICES ASSUME LedgerFacts, SettleUp PROVE settlements' \in Payments(Household)
  OBVIOUS
<1> DEFINE shown == Simplify(Nets)
           R == [from : Household, to : Household, cents : Nat]
<1>1. PICK i \in DOMAIN shown : settlements' = Append(settlements, shown[i])
  BY DEF SettleUp
<1>2. shown \in Seq(R) /\ settlements \in Seq(R)
  BY ShownAreMembers DEF Payments, LedgerFacts
<1> HIDE DEF shown, R
<1>3. settlements' \in Seq(R)
  BY <1>1, <1>2
<1> QED
  BY <1>3 DEF R, Payments

\* The history of settled members is one of payments.
LEMMA SettledPays ==
    ASSUME NEW paid \in [2..Size -> Debts]
    PROVE  Settled(paid) \in Payments(Household)
<1> DEFINE R == [from : Household, to : Household, cents : Nat]
           Of(u) == IF paid[u] < 0 THEN [from |-> 1, to |-> u, cents |-> -paid[u]]
                    ELSE [from |-> u, to |-> 1, cents |-> paid[u]]
           s == [i \in 1..(Size - 1) |-> Of(i + 1)]
<1>1. Size \in Nat \ {0} /\ Debts \subseteq Int
  BY LedgerAssumption
<1>2. ASSUME NEW i \in 1..(Size - 1) PROVE Of(i + 1) \in R
  <2> DEFINE u == i + 1
             c == paid[u]
  <2>1. u \in 2..Size /\ u \in Household /\ 1 \in Household
    BY <1>1 DEF Household
  <2>2. c \in Int
    BY <1>1, <2>1
  <2> HIDE DEF u
  <2>3. Of(u) \in R
    <3> HIDE DEF c
    <3>1. c < 0 => -c \in Nat
      BY <2>2
    <3>2. ~(c < 0) => c \in Nat
      BY <2>2
    <3>3. Of(u) = IF c < 0 THEN [from |-> 1, to |-> u, cents |-> -c] ELSE [from |-> u, to |-> 1, cents |-> c]
      BY DEF c
    <3> HIDE DEF Of
    <3> QED
      BY <2>1, <3>1, <3>2, <3>3
  <2> QED
    BY <2>3 DEF u
<1>3. s \in [1..(Size - 1) -> R]
  <2> HIDE DEF Of, R
  <2> QED
    BY <1>2
<1>4. s \in Seq(R)
  <2>1. Size - 1 \in Nat
    BY <1>1
  <2> HIDE DEF s, R
  <2> QED
    BY <1>3, <2>1
<1>5. Settled(paid) = s
  BY Zenon DEF Settled
<1> QED
  BY <1>4, <1>5 DEF Payments

\* The bench starts with these facts.
LEMMA LedgerFactsInit == LedgerInit => LedgerFacts
<1> SUFFICES ASSUME LedgerInit PROVE LedgerFacts
  OBVIOUS
<1>1. bill.cents = 0
  BY DEF LedgerInit
<1>2. asked = NoRequest \/ AskedSomething
  BY DEF LedgerInit, AskedSomething
<1>3. settlements \in Payments(Household)
  <2>1. settlements = <<>> \/ \E paid \in [2..Size -> Debts] : settlements = Settled(paid)
    BY DEF LedgerInit
  <2>2. <<>> \in Payments(Household)
    BY DEF Payments
  <2> QED
    BY <2>1, <2>2, SettledPays
<1>4. household \in SUBSET Household
  BY DEF LedgerInit
<1> QED
  BY <1>1, <1>2, <1>3, <1>4 DEF LedgerFacts, BillOK

\* Every step of the bench keeps them.
LEMMA LedgerFactsStep ==
    ASSUME LedgerFits, LedgerFacts, [LedgerNext]_ledgerVars
    PROVE  LedgerFacts'
<1>1. ASSUME NEW cents \in Totals, RecordExpense(cents) PROVE LedgerFacts'
  <2>1. UNCHANGED <<asked, settlements, household>>
    BY <1>1 DEF RecordExpense
  <2>2. /\ AskedSomething /\ bill'.cents = cents
        /\ bill'.rows \in [{asked.in[i].user : i \in DOMAIN asked.in} -> Nat]
        /\ SumFunction(bill'.rows) = cents
    BY <1>1, Recorded DEF LedgerFacts
  <2>3. {asked.in[i].user : i \in DOMAIN asked.in} \in SUBSET People
    BY <2>2, AskedEntries
  <2>4. SumsTo(bill'.rows, bill'.cents)
    BY <2>2 DEF SumsTo
  <2>5. BillOK'
    BY <2>1, <2>2, <2>3, <2>4 DEF BillOK, AskedSomething
  <2> QED
    BY <2>1, <2>5 DEF LedgerFacts, AskedSomething
<1>2. ASSUME NEW cents \in Totals, EditAmount(cents) PROVE LedgerFacts'
  <2>1. UNCHANGED <<asked, settlements, household>> /\ bill.cents # 0
    BY <1>2 DEF EditAmount
  <2>2. /\ bill'.cents = cents /\ bill'.rows \in [DOMAIN bill.rows -> Nat] /\ SumsTo(bill'.rows, cents)
    BY <1>2, Edited DEF LedgerFacts
  <2>3. AskedSomething /\ DOMAIN bill.rows \in SUBSET People
    BY <2>1 DEF LedgerFacts, BillOK
  <2>4. BillOK'
    BY <2>1, <2>2, <2>3 DEF BillOK, AskedSomething
  <2> QED
    BY <2>1, <2>4 DEF LedgerFacts, AskedSomething
<1>3. CASE SettleUp
  BY <1>3, SettleUpFacts DEF LedgerFacts, SettleUp, BillOK, AskedSomething
<1>4. ASSUME NEW u \in household, Leave(u) PROVE LedgerFacts'
  BY <1>4 DEF LedgerFacts, Leave, BillOK, AskedSomething
<1>5. CASE ComesDue \/ UNCHANGED ledgerVars
  BY <1>5 DEF LedgerFacts, ComesDue, ledgerVars, BillOK, AskedSomething
<1> QED
  BY <1>1, <1>2, <1>3, <1>4, <1>5 DEF LedgerNext

-----------------------------------------------------------------------------
(* The ledger *)

\* The shares of an expense sum to its amount and none is negative, however it
\* was split and however often its amount was edited (resolveSplits and
\* rescaleSplits).
THEOREM LedgerSharesSum == LedgerFits /\ LedgerSpec => []SharesSumToAmount
<1> SUFFICES ASSUME LedgerFits PROVE LedgerSpec => []SharesSumToAmount
  OBVIOUS
<1>1. LedgerInit => LedgerFacts
  BY LedgerFactsInit
<1>2. LedgerFacts /\ [LedgerNext]_ledgerVars => LedgerFacts'
  BY LedgerFactsStep
<1>3. LedgerFacts => SharesSumToAmount
  BY DEF LedgerFacts, BillOK, SharesSumToAmount
<1> QED
  BY <1>1, <1>2, <1>3, PTL DEF LedgerSpec

\* Shares that are a part, with early cents, of what their request says.
LEMMA FairlyCreated ==
    ASSUME LedgerFits, LedgerFacts, NEW cents \in Totals, RecordExpense(cents)
    PROVE  LET entries == DOMAIN asked.in
               share == [i \in entries |-> bill'.rows[asked.in[i].user]]
               lower == [i \in entries |-> Floored(bill'.cents, Part(i), Whole)]
           IN  /\ \A i \in entries : Fair(share[i], bill'.cents, Part(i), Whole)
               /\ \A i, j \in entries :
                     i < j /\ share[j] > lower[j] => share[i] > lower[i]
<1> DEFINE in == asked.in
           mode == asked.mode
           n == Len(in)
           values == [i \in DOMAIN in |-> in[i].value]
           weights == Weights(mode, in)
           shares == ResolveSplits(mode, cents, in)
           share == [i \in DOMAIN in |-> bill'.rows[in[i].user]]
           low == [i \in DOMAIN in |-> Floored(cents, Part(i), Whole)]
           Goal == /\ \A i \in DOMAIN in : Fair(share[i], cents, Part(i), Whole)
                   /\ \A i, j \in DOMAIN in : i < j /\ share[j] > low[j] => share[i] > low[i]
<1>1. /\ AskedSomething /\ bill'.cents = cents
      /\ shares # NoShares /\ shares \in [DOMAIN in -> Nat]
      /\ \A i \in DOMAIN in : share[i] = shares[i]
      /\ mode # "exact" => EarlyCents(shares, n, cents, weights)
  BY Recorded DEF LedgerFacts
<1>2. /\ mode \in Modes /\ in \in Seq(Entry) /\ n \in Nat \ {0} /\ DOMAIN in = 1..n
      /\ \A i \in 1..n : in[i].value \in Nat
      /\ Fits(cents, in) /\ cents \in Nat \ {0}
  <2>1. /\ mode \in Modes /\ asked \in Asked(mode) /\ in \in Seq(Entry) /\ n \in Nat \ {0}
        /\ DOMAIN in = 1..n /\ \A i \in DOMAIN in : in[i].value \in Nat
    BY <1>1, AskedEntries
  <2>2. Fits(cents, in)
    BY <2>1 DEF LedgerFits
  <2>3. cents \in Nat \ {0}
    BY LedgerAssumption
  <2> QED
    BY <2>1, <2>2, <2>3
<1>3. /\ in # <<>> /\ ValuesOK(mode, cents, values)
      /\ mode = "exact" => shares = values
  <2>1. in # <<>> /\ ValuesOK(mode, cents, values)
    BY <1>1 DEF ResolveSplits
  <2>2. mode = "exact" => shares = values
    BY <1>1 DEF ResolveSplits
  <2> QED
    BY <2>1, <2>2
<1>4. /\ values \in [1..n -> Nat] /\ \A i \in 1..n : values[i] = in[i].value
      /\ SumFunction(values) \in Nat /\ Total(values) = SumFunction(values)
  <2>1. values \in [1..n -> Nat] /\ \A i \in 1..n : values[i] = in[i].value
    BY <1>2
  <2>2. SumFunction(values) < Limit
    BY <1>2 DEF Fits
  <2> HIDE DEF values, n
  <2>3. SumFunction(values) \in Nat
    BY <1>2, <2>1, Count, SumNatural DEF SumFunction
  <2>4. Total(values) = SumFunction(values)
    BY <2>2, <2>3, Limits, WrapFits DEF Total
  <2> QED
    BY <2>1, <2>3, <2>4
<1>5. \A i \in 1..n : Part(i) = weights[i] /\ weights[i] \in Nat
  BY <1>2 DEF Part, Weights
<1>6. Whole = SumFunction(weights)
  <2>1. CASE mode = "equal"
    <3> DEFINE ones == [i \in DOMAIN in |-> 1]
    <3>1. weights = ones
      BY <2>1 DEF Weights
    <3>2. 1..n \in SUBSET (1..n) /\ \A i \in 1..n : ones[i] = IF i \in 1..n THEN 1 ELSE 0
      BY <1>2
    <3>3. DOMAIN ones = 1..n
      BY <1>2
    <3>4. IsFiniteSet(1..n) /\ Cardinality(1..n) = n
      BY <1>2, Count
    <3>5. Whole = n
      BY <2>1 DEF Whole
    <3> HIDE DEF ones, n
    <3>6. SumFunctionOnSet(ones, 1..n) = n
      BY <3>2, <3>4, SumCounts
    <3> QED
      BY <3>1, <3>3, <3>5, <3>6 DEF SumFunction
  <2>2. CASE mode # "equal"
    <3>1. weights = values
      BY <2>2 DEF Weights
    <3>2. mode = "percent" => SumFunction(values) = FullPercent
      BY <1>3, <1>4 DEF ValuesOK
    <3>3. Whole = IF mode = "percent" THEN FullPercent ELSE SumFunction(values)
      BY <2>2 DEF Whole
    <3> HIDE DEF values, weights
    <3> QED
      BY <3>1, <3>2, <3>3
  <2> QED
    BY <2>1, <2>2
<1>7. low = [i \in 1..n |-> (cents * weights[i]) \div Whole]
  BY <1>2, <1>5 DEF Floored
<1>8. ASSUME mode # "exact" PROVE Goal
  <2>1. PICK rest \in 0..(n - 1) : \A i \in 1..n :
           shares[i] = (cents * weights[i]) \div SumFunction(weights) + IF i <= rest THEN 1 ELSE 0
    BY <1>1, <1>8 DEF EarlyCents
  <2> HIDE DEF low, share, shares, weights, n
  <2>2. \A i \in 1..n : share[i] = low[i] + (IF i <= rest THEN 1 ELSE 0) /\ share[i] \in Nat
    BY <1>1, <1>2, <1>6, <1>7, <2>1
  <2>3. \A i \in 1..n : low[i] \in Int
    <3> SUFFICES ASSUME NEW i \in 1..n PROVE low[i] \in Int
      OBVIOUS
    <3> DEFINE p == cents * weights[i]
    <3>1. p \in Nat
      BY <1>2, <1>5, Products
    <3>2. Whole \in Nat \ {0}
      <4>1. Whole \in Nat
        <5>1. DOMAIN weights = 1..n
          BY <1>2 DEF weights, Weights
        <5> QED
          BY <1>2, <1>5, <1>6, <5>1, Count, SumNatural DEF SumFunction
      <4>2. Whole # 0
        <5>1. CASE mode = "equal"
          BY <1>2, <5>1 DEF Whole, n
        <5>2. CASE mode = "percent"
          BY <5>2 DEF Whole, FullPercent
        <5>3. CASE mode = "shares"
          <6>1. 1 \in 1..n /\ weights[1] > 0
            BY <1>2, <1>3, <5>3 DEF ValuesOK, weights, Weights
          <6>2. DOMAIN weights = 1..n
            BY <1>2 DEF weights, Weights
          <6>3. weights[1] <= SumFunction(weights) /\ weights[1] \in Nat
            BY <1>2, <1>5, <6>1, <6>2, Count, SumNatural DEF SumFunction
          <6> QED
            BY <1>6, <4>1, <6>1, <6>3
        <5> QED
          BY <1>2, <1>8, <5>1, <5>2, <5>3 DEF Modes
      <4> QED
        BY <4>1, <4>2
    <3>3. low[i] = p \div Whole
      BY <1>7
    <3> HIDE DEF p
    <3> QED
      BY <3>1, <3>2, <3>3
  <2>4. ASSUME NEW i \in 1..n PROVE Fair(share[i], cents, Part(i), Whole)
    <3>1. low[i] = Floored(cents, Part(i), Whole)
      BY <1>5, <1>7 DEF Floored
    <3> QED
      BY <2>2, <2>3, <3>1 DEF Fair
  <2>5. ASSUME NEW i \in 1..n, NEW j \in 1..n, i < j, share[j] > low[j] PROVE share[i] > low[i]
    <3>1. j <= rest
      BY <2>2, <2>3, <2>5
    <3>2. i <= rest
      BY <1>2, <2>5, <3>1
    <3> QED
      BY <2>2, <2>3, <3>2
  <2> QED
    BY <1>2, <2>4, <2>5
<1>9. ASSUME mode = "exact" PROVE Goal
  <2>1. SumFunction(values) = cents /\ Whole = cents
    <3>1. Total(values) = cents
      BY <1>3, <1>9 DEF ValuesOK
    <3>2. Whole = SumFunction(values)
      BY <1>9 DEF Whole
    <3> QED
      BY <1>4, <3>1, <3>2
  <2>2. ASSUME NEW i \in 1..n
        PROVE  share[i] = Part(i) /\ Floored(cents, Part(i), Whole) = Part(i) /\ Part(i) \in Nat
    <3>1. share[i] = in[i].value /\ Part(i) = in[i].value
      BY <1>1, <1>2, <1>3, <1>4, <1>9 DEF Part
    <3>2. Part(i) \in Nat
      BY <1>2, <3>1
    <3>3. (cents * Part(i)) \div cents = Part(i)
      <4> DEFINE v == Part(i)
      <4> HIDE DEF v
      <4>1. v \in Nat => (cents * v) \div cents = v
        BY <1>2
      <4> QED
        BY <3>2, <4>1 DEF v
    <3> QED
      BY <2>1, <3>1, <3>2, <3>3 DEF Floored
  <2> HIDE DEF share
  <2>3. \A i \in 1..n : Fair(share[i], cents, Part(i), Whole)
    BY <2>2 DEF Fair
  <2>4. \A i \in 1..n : share[i] = low[i] /\ share[i] \in Nat
    BY <1>2, <2>2
  <2> HIDE DEF low, n
  <2>5. ASSUME NEW i \in 1..n, NEW j \in 1..n, i < j, share[j] > low[j] PROVE share[i] > low[i]
    BY <2>4, <2>5
  <2> QED
    BY <1>2, <2>3, <2>5
<1>10. Goal
  BY <1>8, <1>9, Zenon
<1> QED
  BY <1>1, <1>10 DEF Goal

\* The amount of the expense only changes when it is recorded or edited.
LEMMA BillSteps ==
    ASSUME [LedgerNext]_ledgerVars, bill' # bill
    PROVE  \E cents \in Totals : RecordExpense(cents) \/ EditAmount(cents)
BY DEF LedgerNext, ledgerVars, SettleUp, Leave, ComesDue

\* A created expense charges everybody their part, rounded down, and the cents
\* left over go to a prefix of the request (resolveSplits).
THEOREM CreatedIsFair == LedgerFits /\ LedgerSpec => CreatedFairly
<1> SUFFICES ASSUME LedgerFits PROVE LedgerSpec => CreatedFairly
  OBVIOUS
<1> DEFINE Created ==
             bill.cents = 0 /\ bill'.cents # 0 =>
               LET entries == DOMAIN asked.in
                   share == [i \in entries |-> bill'.rows[asked.in[i].user]]
                   lower == [i \in entries |-> Floored(bill'.cents, Part(i), Whole)]
               IN  /\ \A i \in entries : Fair(share[i], bill'.cents, Part(i), Whole)
                   /\ \A i, j \in entries :
                         i < j /\ share[j] > lower[j] => share[i] > lower[i]
<1>1. LedgerInit => LedgerFacts
  BY LedgerFactsInit
<1>2. LedgerFacts /\ [LedgerNext]_ledgerVars => LedgerFacts'
  BY LedgerFactsStep
<1>3. ASSUME LedgerFacts, [LedgerNext]_ledgerVars PROVE [Created]_ledgerVars
  <2>1. SUFFICES ASSUME bill.cents = 0, bill'.cents # 0 PROVE Created
    BY Zenon
  <2>2. PICK cents \in Totals : RecordExpense(cents)
    BY <1>3, <2>1, BillSteps DEF EditAmount
  <2> QED
    BY <1>3, <2>2, FairlyCreated
<1>4. CreatedFairly <=> [][Created]_ledgerVars
  BY DEF CreatedFairly
<1> QED
  BY <1>1, <1>2, <1>3, <1>4, PTL DEF LedgerSpec

\* An edit of the amount moves every share in proportion, to within a cent
\* (rescaleSplits).
THEOREM RescaledIsFair == LedgerFits /\ LedgerSpec => RescaledFairly
<1> SUFFICES ASSUME LedgerFits PROVE LedgerSpec => RescaledFairly
  OBVIOUS
<1> DEFINE Rescaled ==
             bill.cents # 0 =>
               /\ DOMAIN bill'.rows = DOMAIN bill.rows
               /\ \A u \in DOMAIN bill.rows : Fair(bill'.rows[u], bill'.cents, bill.rows[u], bill.cents)
<1>1. LedgerInit => LedgerFacts
  BY LedgerFactsInit
<1>2. LedgerFacts /\ [LedgerNext]_ledgerVars => LedgerFacts'
  BY LedgerFactsStep
<1>3. ASSUME LedgerFacts, [LedgerNext]_ledgerVars, bill.cents # 0 PROVE Rescaled
  <2>1. CASE bill' # bill
    <3>1. PICK cents \in Totals : EditAmount(cents)
      BY <1>3, <2>1, BillSteps DEF RecordExpense
    <3> QED
      BY <1>3, <3>1, Edited DEF LedgerFacts
  <2>2. CASE bill' = bill
    <3>1. PICK U \in SUBSET People : bill.rows \in [U -> Nat]
      BY <1>3 DEF LedgerFacts, BillOK
    <3>2. bill.cents \in Nat \ {0}
      BY <1>3, LedgerAssumption DEF LedgerFacts, BillOK
    <3>3. ASSUME NEW u \in DOMAIN bill.rows PROVE Fair(bill.rows[u], bill.cents, bill.rows[u], bill.cents)
      <4> DEFINE v == bill.rows[u]
                 c == bill.cents
      <4>1. v \in Nat /\ c \in Nat \ {0}
        BY <3>1, <3>2
      <4> HIDE DEF v, c
      <4>2. (c * v) \div c = v
        BY <4>1
      <4>3. Fair(v, c, v, c)
        BY <4>1, <4>2 DEF Fair, Floored
      <4> QED
        BY <4>3 DEF v, c
    <3> QED
      BY <2>2, <3>3
  <2> QED
    BY <2>1, <2>2
<1>4. RescaledFairly <=> [][Rescaled]_ledgerVars
  BY DEF RescaledFairly
<1>5. LedgerFacts /\ [LedgerNext]_ledgerVars => [Rescaled]_ledgerVars
  BY <1>3
<1> QED
  BY <1>1, <1>2, <1>4, <1>5, PTL DEF LedgerSpec

\* What one transfer pays and what it receives.
LEMMA OneTransfer ==
    ASSUME NEW t \in [from : Int, to : Int, cents : Nat], NEW u
    PROVE  /\ <<t>> \in Transfers
           /\ Sum(Sent(<<t>>, u)) = IF t.from = u THEN t.cents ELSE 0
           /\ Sum(Got(<<t>>, u)) = IF t.to = u THEN t.cents ELSE 0
<1> DEFINE R == [from : Int, to : Int, cents : Nat]
           s == <<t>>
           a == IF t.from = u THEN t.cents ELSE 0
           b == IF t.to = u THEN t.cents ELSE 0
<1>1. t.cents \in Nat /\ a \in Int /\ b \in Int
  OBVIOUS
<1>2. DOMAIN s = {1} /\ s[1] = t
  OBVIOUS
<1>3. s \in Transfers
  BY DEF Transfers
<1> HIDE DEF s
<1>4. /\ DOMAIN Sent(s, u) = {1} /\ Sent(s, u)[1] = a
      /\ DOMAIN Got(s, u) = {1} /\ Got(s, u)[1] = b
  BY <1>2 DEF Sent, Got
<1> HIDE DEF a, b
<1>5. Sum(Sent(s, u)) = a /\ Sum(Got(s, u)) = b
  <2> DEFINE f == Sent(s, u)
             g == Got(s, u)
  <2> HIDE DEF f, g
  <2>1. DOMAIN f = {1} /\ f[1] = a /\ f[1] \in Int /\ DOMAIN g = {1} /\ g[1] = b /\ g[1] \in Int
    BY <1>1, <1>4 DEF f, g
  <2>2. SumFunctionOnSet(f, {1}) = a /\ SumFunctionOnSet(g, {1}) = b
    BY <2>1, SumOnly
  <2>3. Sum(f) = a /\ Sum(g) = b
    BY <2>1, <2>2 DEF Sum, SumFunction
  <2> QED
    BY <2>3 DEF f, g
<1> QED
  BY <1>3, <1>5 DEF s, a, b

\* Of the transfers that settle balances, none is more than its payer owes or
\* than its receiver is owed.
LEMMA TransferBounds ==
    ASSUME NEW M, NEW nets \in [M -> Int], NEW shown, SettlesNets(nets, M, shown),
           NEW i \in DOMAIN shown
    PROVE  /\ shown[i] \in [from : Int, to : Int, cents : Nat]
           /\ nets[shown[i].from] + shown[i].cents <= 0
           /\ nets[shown[i].to] - shown[i].cents >= 0
<1> DEFINE t == shown[i]
           R == [from : Int, to : Int, cents : Nat]
<1>1. shown \in Transfers /\ t \in R
  <2>1. shown \in Transfers /\ shown \in Seq(R)
    BY DEF SettlesNets, Transfers
  <2> HIDE DEF R
  <2> QED
    BY <2>1
<1>2. ASSUME NEW u
      PROVE  /\ \A j \in DOMAIN shown : Sent(shown, u)[j] <= Sum(Sent(shown, u))
             /\ \A j \in DOMAIN shown : Got(shown, u)[j] <= Sum(Got(shown, u))
             /\ Sum(Sent(shown, u)) \in Nat /\ Sum(Got(shown, u)) \in Nat
             /\ (\A j \in DOMAIN shown : shown[j].from # u) => Sum(Sent(shown, u)) = 0
             /\ (\A j \in DOMAIN shown : shown[j].to # u) => Sum(Got(shown, u)) = 0
  BY <1>1, TransferSums
<1>3. /\ t.cents \in Nat /\ t.from \in M /\ nets[t.from] < 0 /\ t.to \in M /\ nets[t.to] > 0
      /\ nets[t.from] \in Int /\ nets[t.to] \in Int
      /\ \A j \in DOMAIN shown : nets[shown[j].from] < 0 /\ nets[shown[j].to] > 0
  BY <1>1 DEF SettlesNets
<1>4. /\ nets[t.from] + Sum(Sent(shown, t.from)) - Sum(Got(shown, t.from)) <= 0
      /\ nets[t.to] + Sum(Sent(shown, t.to)) - Sum(Got(shown, t.to)) >= 0
  <2>1. \A u \in M : /\ nets[u] >= 0 => LeftOf(nets, u, shown) >= 0
                     /\ nets[u] <= 0 => LeftOf(nets, u, shown) <= 0
    BY DEF SettlesNets
  <2>2. nets[t.from] <= 0 /\ nets[t.to] >= 0
    BY <1>3
  <2> HIDE DEF t
  <2> QED
    BY <1>3, <2>1, <2>2 DEF LeftOf
<1>5. Sum(Got(shown, t.from)) = 0 /\ t.cents <= Sum(Sent(shown, t.from))
  <2>1. \A j \in DOMAIN shown : shown[j].to # t.from
    BY <1>3
  <2>2. Sent(shown, t.from)[i] = t.cents
    BY DEF Sent
  <2> QED
    BY <1>2, <2>1, <2>2
<1>6. Sum(Sent(shown, t.to)) = 0 /\ t.cents <= Sum(Got(shown, t.to))
  <2>1. \A j \in DOMAIN shown : shown[j].from # t.to
    BY <1>3
  <2>2. Got(shown, t.to)[i] = t.cents
    BY DEF Got
  <2> QED
    BY <1>2, <2>1, <2>2
<1>7. Sum(Sent(shown, t.from)) \in Nat /\ Sum(Got(shown, t.to)) \in Nat
  BY <1>2
<1>8. nets[t.from] + t.cents <= 0 /\ nets[t.to] - t.cents >= 0
  <2> HIDE DEF t
  <2> QED
    BY <1>3, <1>4, <1>5, <1>6, <1>7
<1> QED
  BY <1>1, <1>8

\* Payments of members leave the balances of everybody else alone.
LEMMA AbandonedAfter ==
    ASSUME LedgerFacts, NEW T \in Payments(household), NEW u \in Household \ household
    PROVE  NetBalances(Household, Charges, settlements \o T)[u] = AllNets[u]
<1> DEFINE P == Household
           E == Charges
           S == settlements
           R == [from : household, to : household, cents : Nat]
<1>1. /\ P \in SUBSET Int /\ IsFiniteSet(P) /\ E \in Seq(Charge(P)) /\ S \in Payments(P)
      /\ household \in SUBSET P /\ household \in SUBSET Int /\ u \in P
  BY HouseholdIsFinite, ChargesOK DEF LedgerFacts
<1>2. S \in Transfers /\ T \in Transfers
  BY <1>1, PaymentsAreTransfers
<1>3. AllNets = NetBalances(P, E, S)
  BY DEF AllNets
<1>4. \A i \in DOMAIN T : T[i].from # u /\ T[i].to # u
  <2>1. T \in Seq(R)
    BY DEF Payments
  <2>2. \A x \in R : x.from # u /\ x.to # u
    OBVIOUS
  <2> HIDE DEF R
  <2> QED
    BY <2>1, <2>2
<1>5. Sum(Sent(T, u)) = 0 /\ Sum(Got(T, u)) = 0
  BY <1>2, <1>4, TransferSums
<1> HIDE DEF P, E, S
<1>6. NetBalances(P, E, S)[u] \in Int
  <2>1. NetBalances(P, E, S) \in [P -> Int]
    BY <1>1, NetsOfAll
  <2> QED
    BY <1>1, <2>1
<1>7. NetBalances(P, E, S \o T)[u] = NetBalances(P, E, S)[u] + Sum(Sent(T, u)) - Sum(Got(T, u))
  <2>1. P \in SUBSET P
    OBVIOUS
  <2> QED
    BY <1>1, <1>2, <1>6, <2>1, NetsAfter
<1> QED
  BY <1>3, <1>5, <1>6, <1>7 DEF P, E, S

\* So once all the transfers shown are made, members are left with what those
\* who are gone took with them.
LEMMA RestIsAbandoned ==
    ASSUME LedgerFacts
    PROVE  SumFunction(NetBalances(household, Charges, settlements \o Simplify(Nets))) = -Abandoned
<1> DEFINE P == Household
           M == household
           E == Charges
           T == Simplify(Nets)
           S == settlements \o T
           gone == P \ M
           all == NetBalances(P, E, S)
<1>1. /\ P \in SUBSET Int /\ IsFiniteSet(P) /\ E \in Seq(Charge(P)) /\ M \in SUBSET P
      /\ settlements \in Payments(P) /\ T \in Payments(P) /\ T \in Payments(M)
  BY HouseholdIsFinite, ChargesOK, ShownAreMembers DEF LedgerFacts
<1>2. S \in Payments(P)
  <2> DEFINE R == [from : P, to : P, cents : Nat]
  <2>1. settlements \in Seq(R) /\ T \in Seq(R)
    BY <1>1 DEF Payments
  <2> HIDE DEF R, T
  <2>2. settlements \o T \in Seq(R)
    BY <2>1
  <2> QED
    BY <2>2 DEF R, Payments
<1>3. \A u \in gone : all[u] = AllNets[u]
  <2> HIDE DEF T
  <2> QED
    BY <1>1, AbandonedAfter
<1>4. \A u \in gone : AllNets[u] \in Int
  <2>1. NetBalances(P, E, settlements) \in [P -> Int]
    BY <1>1, NetsOfAll
  <2> QED
    BY <2>1 DEF AllNets
<1>5. IsFiniteSet(gone)
  BY <1>1, FS_Subset
<1>6. SumFunctionOnSet(all, gone) = Abandoned
  <2> HIDE DEF all, gone
  <2>1. SumFunctionOnSet(all, gone) = SumFunctionOnSet(AllNets, gone)
    BY <1>3, <1>4, <1>5, SumSame
  <2> QED
    BY <2>1 DEF Abandoned, gone
<1> HIDE DEF S, E, P, M
<1>7. /\ NetBalances(M, E, S) \in [M -> Int]
      /\ SumFunctionOnSet(NetBalances(M, E, S), M) = -SumFunctionOnSet(all, gone)
  BY <1>1, <1>2, NetsAddUp
<1>8. SumFunction(NetBalances(M, E, S)) = SumFunctionOnSet(NetBalances(M, E, S), M)
  BY <1>7 DEF SumFunction
<1> QED
  BY <1>6, <1>7, <1>8 DEF S, E, M, P

\* In every state of the bench the transfers shown settle the members, up to
\* what those who left took with them.
LEMMA FactsSettle == LedgerFacts => SettlesAll
<1> SUFFICES ASSUME LedgerFacts PROVE SettlesAll
  OBVIOUS
<1> DEFINE shown == Simplify(Nets)
           P == Household
           M == household
           E == Charges
           S == settlements
           After(paid) == NetBalances(M, E, S \o paid)
<1>1. /\ S \in Transfers /\ Nets \in [M -> Int] /\ SettlesNets(Nets, M, shown)
      /\ P \in SUBSET Int /\ M \in SUBSET P /\ E \in Seq(Charge(P)) /\ Nets = NetBalances(M, E, S)
      /\ SumFunctionOnSet(Nets, M) \in Int /\ SumFunctionOnSet(Nets, M) = -Abandoned
      /\ Abandoned \in Int
  BY NetsSettle, ChargesOK, HouseholdIsFinite DEF Nets, LedgerFacts
<1>2. ASSUME NEW T \in Transfers, NEW u \in M
      PROVE  After(T)[u] = Nets[u] + Sum(Sent(T, u)) - Sum(Got(T, u))
  <2> HIDE DEF M, E, S, P
  <2>1. NetBalances(M, E, S)[u] \in Int
    BY <1>1
  <2> QED
    BY <1>1, <2>1, NetsAfter
<1>3. \A i, j \in DOMAIN shown : shown[i].cents > 0 /\ shown[i].from # shown[j].to
  <2> HIDE DEF shown
  <2> SUFFICES ASSUME NEW i \in DOMAIN shown, NEW j \in DOMAIN shown
               PROVE  shown[i].cents > 0 /\ shown[i].from # shown[j].to
    OBVIOUS
  <2>1. shown[i].cents > 0 /\ Nets[shown[i].from] < 0 /\ shown[i].from \in M /\ Nets[shown[j].to] > 0
    BY <1>1 DEF SettlesNets
  <2>2. Nets[shown[i].from] \in Int
    BY <1>1, <2>1
  <2> QED
    BY <2>1, <2>2
<1>4. /\ Abandoned <= 0 => \A u \in M : After(shown)[u] >= 0
      /\ Abandoned >= 0 => \A u \in M : After(shown)[u] <= 0
  <2> DEFINE total == SumFunctionOnSet(Nets, M)
  <2>1. shown \in Transfers
    BY <1>1 DEF SettlesNets
  <2>2. \A u \in M : After(shown)[u] = LeftOf(Nets, u, shown)
    <3> HIDE DEF shown, M, After
    <3> QED
      BY <1>2, <2>1 DEF LeftOf
  <2>3. /\ total >= 0 => \A u \in M : LeftOf(Nets, u, shown) >= 0
        /\ total <= 0 => \A u \in M : LeftOf(Nets, u, shown) <= 0
    BY <1>1 DEF SettlesNets
  <2>4. total \in Int /\ total = -Abandoned
    BY <1>1
  <2> HIDE DEF total, shown, M, After
  <2>5. (Abandoned <= 0 => total >= 0) /\ (Abandoned >= 0 => total <= 0)
    BY <1>1, <2>4
  <2> QED
    BY <2>2, <2>3, <2>5
<1>5. ASSUME NEW i \in DOMAIN shown, NEW u \in M PROVE Between(After(<<shown[i]>>)[u], Nets[u])
  <2> DEFINE t == shown[i]
             T == <<t>>
             sent == IF t.from = u THEN t.cents ELSE 0
             got == IF t.to = u THEN t.cents ELSE 0
  <2> HIDE DEF shown, M, After
  <2>1. /\ t \in [from : Int, to : Int, cents : Nat]
        /\ Nets[t.from] + t.cents <= 0 /\ Nets[t.to] - t.cents >= 0
    BY <1>1, TransferBounds
  <2>2. T \in Transfers /\ Sum(Sent(T, u)) = sent /\ Sum(Got(T, u)) = got
    BY <2>1, OneTransfer
  <2>3. After(T)[u] = Nets[u] + sent - got
    <3> HIDE DEF T, sent, got
    <3> QED
      BY <1>2, <2>2
  <2>4. Nets[u] \in Int /\ t.cents \in Nat
    BY <1>1, <2>1
  <2>5. t.from # t.to
    BY <1>3
  <2> HIDE DEF T, t
  <2>6. Between(After(T)[u], Nets[u])
    BY <2>1, <2>3, <2>4, <2>5 DEF Between
  <2> QED
    BY <2>6 DEF T, t
<1>6. shown # <<>> => Len(shown) < Cardinality({u \in M : Nets[u] # 0})
  BY <1>1 DEF SettlesNets
<1>7. SumFunction(After(shown)) = -Abandoned
  BY RestIsAbandoned
<1> QED
  BY <1>3, <1>4, <1>5, <1>6, <1>7 DEF SettlesAll

\* The transfers shown settle the members up to what those who have left took
\* with them, and everybody if that is nothing, with fewer payments than there
\* are members with a balance, and none of them overpays (Simplify, over the
\* rows of NetBalances).
THEOREM ShownSettles == LedgerFits /\ LedgerSpec => []SettlesAll
<1> SUFFICES ASSUME LedgerFits PROVE LedgerSpec => []SettlesAll
  OBVIOUS
<1>1. LedgerInit => LedgerFacts
  BY LedgerFactsInit
<1>2. LedgerFacts /\ [LedgerNext]_ledgerVars => LedgerFacts'
  BY LedgerFactsStep
<1> QED
  BY <1>1, <1>2, FactsSettle, PTL DEF LedgerSpec

-----------------------------------------------------------------------------
(* The inductive invariant of the edits *)

\* A request that has been admitted carries what the service checked.
Admitted(r) ==
    /\ row \in Row
    /\ req[r].patch \in Patches
    /\ Refers(req[r].patch)
    /\ req[r].actor \in Members
    /\ req[r].resolved # Nil => DOMAIN req[r].resolved \subseteq Members

IsFunctionOn(f, S) == f = [x \in S |-> f[x]]

IsRequest(q) == IsFunctionOn(q, {"actor", "patch", "seen", "resolved", "base"})

RequestsOK ==
    /\ IsFunctionOn(req, Requests)
    /\ \A r \in Requests :
          /\ IsRequest(req[r])
          /\ pc[r] \in {"checked", "locked"} => Admitted(r)
          /\ pc[r] # "idle" => row \in Row

\* The holder of the row lock has read the row that is committed, live.
LockedIsFresh ==
    \A r \in Requests :
        pc[r] = "locked" => /\ lock = r
                            /\ req[r].base = [row |-> row, splits |-> splits]
                            /\ ~row.deleted

HistoryOK ==
    /\ IsFunctionOn(revisions, Fields)
    /\ \A f \in Fields : \E S : revisions[f] \in Seq(S)
    /\ row = Nil => \A f \in Fields : revisions[f] = <<>>

Facts == TypeOK /\ RequestsOK /\ LockedIsFresh /\ HistoryOK

-----------------------------------------------------------------------------
(* Lemmas about the operators *)

\* The lock is free or held by a request, never both.
LEMMA NilIsNoRequest == Nil \notin Requests
BY ExpenseEditAssumption

\* The rows of a resolved request belong to the users it names.
LEMMA RowsOfMembers ==
    ASSUME NEW p, NEW seen, Refers(p), Rows(p, seen) # Nil
    PROVE  DOMAIN Rows(p, seen) \subseteq Members
<1>1. p.split # Nil /\ Rows(p, seen) = SplitRows(p.split.in, Shares(p, seen))
  BY DEF Rows
<1>2. DOMAIN Rows(p, seen) = SplitUsers(p.split)
  BY <1>1 DEF SplitRows, SplitUsers
<1> QED BY <1>1, <1>2 DEF Refers

\* Rescaling keeps the members.
LEMMA RescaleKeepsMembers ==
    ASSUME NEW rows, NEW old, NEW new
    PROVE  DOMAIN RescaleSplits(rows, old, new) = DOMAIN rows
BY DEF RescaleSplits

\* An accepted patch turns a row into a row that is deleted or not as before.
LEMMA EditedRowIsRow ==
    ASSUME NEW p \in Patches, Refers(p), NEW x \in Row
    PROVE  EditedRow(p, x) \in Row /\ EditedRow(p, x).deleted = x.deleted
<1>1. p \in Patch
  BY ExpenseEditAssumption
<1>2. /\ Given(p.description, x.description) \in STRING
      /\ Given(p.category_id, x.category_id) \in Categories
      /\ Given(p.payer_id, x.payer_id) \in Members
      /\ Given(p.amount_cents, x.amount_cents) \in Int
  BY <1>1 DEF Given, Refers, Patch, Row
<1>3. (IF p.incurred_at # Nil /\ p.incurred_at.sec # x.incurred_at.sec
       THEN p.incurred_at ELSE x.incurred_at) \in Instant
  BY <1>1 DEF Patch, Row
<1> QED BY <1>2, <1>3 DEF EditedRow, Row

\* Appending a revision keeps the earlier ones where they are.
LEMMA AppendRevision ==
    ASSUME NEW S, NEW h \in Seq(S), NEW e
    PROVE  /\ Append(h, e) \in Seq(S \cup {e})
           /\ Len(h) \in Nat /\ DOMAIN h = 1..Len(h)
           /\ Len(Append(h, e)) = Len(h) + 1
           /\ DOMAIN Append(h, e) = 1..(Len(h) + 1)
           /\ \A i \in 1..Len(h) : Append(h, e)[i] = h[i]
           /\ Append(h, e)[Len(h) + 1] = e
<1>1. h \in Seq(S \cup {e})
  OBVIOUS
<1> QED BY <1>1, AppendProperties

\* What an edit does to the history of a field.
LEMMA RevisionsAfter ==
    ASSUME HistoryOK, NEW r \in Requests, UpdateCommit(r), NEW f \in Fields
    PROVE  \/ f \notin RevisedFields(req[r]) /\ revisions'[f] = revisions[f]
           \/ /\ f \in RevisedFields(req[r])
              /\ revisions'[f] = Append(revisions[f], Revision(req[r], f))
<1>1. CASE RevisedFields(req[r]) = {}
  BY <1>1 DEF UpdateCommit
<1>2. CASE RevisedFields(req[r]) # {}
  BY <1>2 DEF UpdateCommit
<1> QED BY <1>1, <1>2

-----------------------------------------------------------------------------
(* The invariant *)

\* Before the first request nothing is locked, edited or recorded.
LEMMA InitFacts == Init => Facts
<1> SUFFICES ASSUME Init PROVE Facts
  OBVIOUS
<1>1. TypeOK
  BY DEF Init, TypeOK, NoShares, Outcomes
<1>2. RequestsOK
  BY DEF Init, RequestsOK, IsRequest, IsFunctionOn, Idle
<1>3. LockedIsFresh
  BY DEF Init, LockedIsFresh
<1>4. HistoryOK
  <2>1. <<>> \in Seq({})
    OBVIOUS
  <2> QED BY <2>1 DEF Init, HistoryOK, IsFunctionOn
<1> QED BY <1>1, <1>2, <1>3, <1>4 DEF Facts

\* Creating the expense keeps every fact, and starts every history empty.
LEMMA CreateFacts ==
    ASSUME Facts, NEW a \in Users, NEW c \in Creations, Create(a, c)
    PROVE  Facts' /\ row' \in Row /\ ~row'.deleted
<1> USE DEF Facts
<1>1. c \in Creation /\ c.split # Nil /\ c.payer_id # Nil
  <2>1. c \in Creation /\ c.split \in SplitRequest /\ c.payer_id \in Users
    BY ExpenseEditAssumption DEF Creation
  <2>2. Users \subseteq Int /\ Nil \notin Int \cup SplitRequest
    BY ExpenseEditAssumption
  <2> QED BY <2>1, <2>2
<1>2. row' \in Row /\ ~row'.deleted
  BY <1>1 DEF Create, Refers, Creation, Row
<1>3. DOMAIN splits' \subseteq Members
  <2>1. splits' = SplitRows(c.split.in, Shares(c, 0))
    BY <1>1 DEF Create, Rows
  <2>2. DOMAIN splits' = SplitUsers(c.split)
    BY <2>1 DEF SplitRows, SplitUsers
  <2> QED BY <1>1, <2>2 DEF Create, Refers
<1>4. TypeOK'
  BY <1>2, <1>3 DEF TypeOK, Create
<1>5. RequestsOK'
  BY <1>2 DEF RequestsOK, IsRequest, IsFunctionOn, Admitted, Create
<1>6. LockedIsFresh'
  <2>1. \A r \in Requests : pc[r] # "locked"
    <3>1. Nil \notin Row
      BY ExpenseEditAssumption
    <3>2. row = Nil
      BY DEF Create, Exists
    <3>3. \A r \in Requests : pc[r] # "idle" => row \in Row
      BY DEF RequestsOK
    <3> QED BY <3>1, <3>2, <3>3
  <2> QED BY <2>1 DEF LockedIsFresh, Create
<1>7. HistoryOK'
  BY <1>2 DEF HistoryOK, IsFunctionOn, Create, Exists
<1> QED BY <1>2, <1>4, <1>5, <1>6, <1>7

\* Steps that leave the database alone disturb only the request they serve.
LEMMA QuietFacts ==
    ASSUME Facts, UNCHANGED <<row, splits, revisions, created>>,
           NEW r \in Requests, NEW q, IsRequest(q), NEW at \in Outcomes,
           req' = [req EXCEPT ![r] = q], pc' = [pc EXCEPT ![r] = at],
           lock' \in Requests \cup {Nil}, row \in Row,
           at \in {"checked", "locked"} =>
             /\ q.patch \in Patches /\ Refers(q.patch) /\ q.actor \in Members
             /\ q.resolved # Nil => DOMAIN q.resolved \subseteq Members,
           \A o \in Requests \ {r} : lock = o => lock' = o,
           at = "locked" => /\ lock' = r /\ ~row.deleted
                            /\ q.base = [row |-> row, splits |-> splits]
    PROVE  Facts'
<1> USE DEF Facts
<1>1. TypeOK'
  BY DEF TypeOK
<1>2. \A o \in Requests : /\ o = r => req'[o] = q /\ pc'[o] = at
                          /\ o # r => req'[o] = req[o] /\ pc'[o] = pc[o]
  BY DEF TypeOK, RequestsOK, IsFunctionOn
<1>3. RequestsOK'
  <2>1. IsFunctionOn(req, Requests)'
    BY DEF RequestsOK, IsFunctionOn
  <2>2. \A o \in Requests : IsRequest(req'[o]) /\ (pc'[o] # "idle" => row' \in Row)
    BY <1>2 DEF RequestsOK
  <2>3. ASSUME NEW o \in Requests, pc'[o] \in {"checked", "locked"}
        PROVE  Admitted(o)'
    <3>1. CASE o = r
      BY <1>2, <2>3, <3>1 DEF Admitted
    <3>2. CASE o # r
      BY <1>2, <2>3, <3>2 DEF RequestsOK, Admitted
    <3> QED BY <3>1, <3>2
  <2>4. \A o \in Requests : IsRequest(req[o])'
    BY <2>2 DEF IsRequest
  <2> QED BY <2>1, <2>2, <2>3, <2>4 DEF RequestsOK
<1>4. LockedIsFresh'
  BY <1>2 DEF LockedIsFresh
<1>5. HistoryOK'
  BY DEF HistoryOK, IsFunctionOn
<1> QED BY <1>1, <1>3, <1>4, <1>5

\* A request stays as it is when nothing of it changes.
LEMMA SameRequest ==
    ASSUME Facts, NEW r \in Requests
    PROVE  /\ IsRequest(req[r]) /\ req = [req EXCEPT ![r] = req[r]]
           /\ lock \in Requests \cup {Nil}
           /\ pc[r] # "idle" => row \in Row
BY DEF Facts, TypeOK, RequestsOK, IsFunctionOn

\* The service's read and its deletion check leave the repository alone.
LEMMA ServiceFacts ==
    ASSUME Facts, NEW r \in Requests, NEW a \in Users, NEW p \in Patches,
           UpdateRefused(r, a, p) \/ UpdateChecked(r, a, p)
    PROVE  Facts'
<1>1. row \in Row
  BY DEF Facts, TypeOK, Exists, UpdateRefused, UpdateChecked
<1>2. CASE UpdateRefused(r, a, p)
  BY <1>1, <1>2, SameRequest, QuietFacts DEF UpdateRefused, Outcomes
<1>3. CASE UpdateChecked(r, a, p)
  <2> DEFINE q == [Idle EXCEPT !.actor = a, !.patch = p, !.seen = row.amount_cents,
                               !.resolved = Rows(p, row.amount_cents)]
  <2>1. IsRequest(q) /\ q.patch = p /\ q.actor = a /\ q.resolved = Rows(p, row.amount_cents)
    BY DEF IsRequest, IsFunctionOn, Idle
  <2>2. a \in Members /\ Refers(p)
    BY <1>3 DEF UpdateChecked, Accepts
  <2>3. q.resolved # Nil => DOMAIN q.resolved \subseteq Members
    BY <2>1, <2>2, RowsOfMembers
  <2>4. req' = [req EXCEPT ![r] = q] /\ pc' = [pc EXCEPT ![r] = "checked"]
    BY <1>3 DEF UpdateChecked
  <2> HIDE DEF q
  <2> QED BY <1>1, <1>3, <2>1, <2>2, <2>3, <2>4, SameRequest, QuietFacts
          DEF UpdateChecked, Outcomes
<1> QED BY <1>2, <1>3

\* A delete request that is refused, or accepted but not yet run, writes nothing.
LEMMA DeleteFacts ==
    ASSUME Facts, NEW r \in Requests, NEW a \in Users, DeleteChecked(r, a)
    PROVE  Facts'
<1> DEFINE at == IF Live /\ a \in Members THEN "deleting" ELSE "failed"
<1>1. row \in Row
  BY DEF Facts, TypeOK, Exists, DeleteChecked
<1>2. at \in {"deleting", "failed"} /\ pc' = [pc EXCEPT ![r] = at]
  BY DEF DeleteChecked
<1> HIDE DEF at
<1> QED BY <1>1, <1>2, SameRequest, QuietFacts DEF DeleteChecked, Outcomes

\* The row the lock holder has read is the committed row.
LEMMA LockFacts ==
    ASSUME Facts, NEW r \in Requests, UpdateLock(r)
    PROVE  Facts'
<1>1. Admitted(r) /\ row \in Row
  BY DEF Facts, RequestsOK, UpdateLock
<1>2. CASE row.deleted
  BY <1>1, <1>2, SameRequest, QuietFacts DEF UpdateLock, Outcomes
<1>3. CASE ~row.deleted
  <2> DEFINE q == [req[r] EXCEPT !.base = [row |-> row, splits |-> splits]]
  <2>1. /\ IsRequest(q) /\ q.patch = req[r].patch /\ q.actor = req[r].actor
        /\ q.resolved = req[r].resolved
        /\ q.base = [row |-> row, splits |-> splits]
    BY SameRequest DEF IsRequest, IsFunctionOn
  <2>2. req' = [req EXCEPT ![r] = q] /\ pc' = [pc EXCEPT ![r] = "locked"] /\ lock' = r
    BY <1>3 DEF UpdateLock
  <2>3. \A o \in Requests : lock # o
    BY NilIsNoRequest DEF UpdateLock
  <2> HIDE DEF q
  <2> QED BY <1>1, <1>3, <2>1, <2>2, <2>3, SameRequest, QuietFacts
          DEF UpdateLock, Admitted, Outcomes
<1> QED BY <1>2, <1>3

\* An aborted transaction releases the lock and leaves the row as it was.
LEMMA AbortFacts ==
    ASSUME Facts, NEW r \in Requests, Abort(r)
    PROVE  Facts'
<1>1. row \in Row
  BY SameRequest DEF Abort
<1>2. lock' \in Requests \cup {Nil} /\ \A o \in Requests \ {r} : lock = o => lock' = o
  BY SameRequest DEF Abort
<1> QED BY <1>1, <1>2, SameRequest, QuietFacts DEF Abort, Outcomes

\* The holder of the lock edits the committed row.
LEMMA CommitBase ==
    ASSUME Facts, NEW r \in Requests, UpdateCommit(r)
    PROVE  /\ lock = r /\ Admitted(r) /\ row \in Row /\ ~row.deleted
           /\ req[r].base.row = row /\ req[r].base.splits = splits
           /\ \/ RevisedFields(req[r]) = {} /\ UNCHANGED <<row, splits, revisions>>
              \/ /\ RevisedFields(req[r]) # {}
                 /\ row' = EditedRow(req[r].patch, row)
                 /\ splits' = EditedSplits(req[r])
BY DEF Facts, RequestsOK, LockedIsFresh, UpdateCommit

\* The commit of an edit keeps every fact: it is where the row changes.
LEMMA CommitFacts ==
    ASSUME Facts, NEW r \in Requests, UpdateCommit(r)
    PROVE  Facts' /\ row' \in Row /\ row'.deleted = row.deleted
<1>1. row' \in Row /\ row'.deleted = row.deleted
  BY CommitBase, EditedRowIsRow DEF Admitted
<1>2. DOMAIN splits' \subseteq Members
  <2>1. DOMAIN EditedSplits(req[r]) \subseteq Members
    <3>1. DOMAIN splits \subseteq Members
      BY DEF Facts, TypeOK
    <3> QED BY <3>1, CommitBase, RescaleKeepsMembers DEF EditedSplits, SplitsReplaced, Admitted
  <2> QED BY <2>1, CommitBase DEF Facts, TypeOK
<1>3. \A f \in Fields : \A i \in DOMAIN revisions'[f] : revisions'[f][i].by \in Members
  <2> SUFFICES ASSUME NEW f \in Fields, revisions'[f] # revisions[f]
               PROVE  \A i \in DOMAIN revisions'[f] : revisions'[f][i].by \in Members
    BY DEF Facts, TypeOK
  <2> PICK S : revisions[f] \in Seq(S)
    BY DEF Facts, HistoryOK
  <2>1. revisions'[f] = Append(revisions[f], Revision(req[r], f))
    BY RevisionsAfter DEF Facts
  <2>2. Revision(req[r], f).by \in Members
    BY CommitBase DEF Revision, Admitted
  <2>3. \A i \in 1..Len(revisions[f]) : revisions[f][i].by \in Members
    BY AppendRevision DEF Facts, TypeOK
  <2> QED BY <2>1, <2>2, <2>3, AppendRevision
<1>4. TypeOK'
  <2>1. pc' \in [Requests -> Outcomes] /\ lock' = Nil
    BY DEF Facts, TypeOK, UpdateCommit, Outcomes
  <2> QED BY <1>1, <1>2, <1>3, <2>1 DEF Facts, TypeOK
<1>5. RequestsOK'
  <2>1. req' = req /\ \A o \in Requests : pc'[o] = IF o = r THEN "done" ELSE pc[o]
    BY DEF Facts, TypeOK, UpdateCommit
  <2> QED BY <1>1, <2>1 DEF Facts, RequestsOK, IsRequest, IsFunctionOn, Admitted
<1>6. LockedIsFresh'
  BY CommitBase DEF Facts, TypeOK, LockedIsFresh, UpdateCommit
<1>7. HistoryOK'
  <2>1. IsFunctionOn(revisions', Fields)
    BY DEF Facts, HistoryOK, UpdateCommit, IsFunctionOn
  <2>2. ASSUME NEW f \in Fields PROVE \E S : revisions'[f] \in Seq(S)
    <3> PICK S : revisions[f] \in Seq(S)
      BY DEF Facts, HistoryOK
    <3>1. Append(revisions[f], Revision(req[r], f)) \in Seq(S \cup {Revision(req[r], f)})
      BY AppendRevision
    <3> QED BY <3>1, RevisionsAfter DEF Facts
  <2>3. row' # Nil
    BY <1>1, ExpenseEditAssumption
  <2>4. IsFunctionOn(revisions, Fields)'
    BY <2>1 DEF IsFunctionOn
  <2> QED BY <2>2, <2>3, <2>4 DEF HistoryOK
<1> QED BY <1>1, <1>4, <1>5, <1>6, <1>7 DEF Facts

\* A deletion keeps every fact: it waits for the lock and changes one column.
LEMMA SoftDeleteFacts ==
    ASSUME Facts, NEW r \in Requests, SoftDelete(r)
    PROVE  Facts' /\ row' \in Row /\ (row.deleted => row' = row)
<1>1. /\ row' \in Row /\ (row.deleted => row' = row)
      /\ UNCHANGED <<splits, revisions, lock, req, created>>
  <2>1. row \in Row
    BY SameRequest DEF SoftDelete
  <2> QED BY <2>1 DEF SoftDelete, Row
<1>2. /\ pc' \in [Requests -> Outcomes]
      /\ \A o \in Requests : pc'[o] # pc[o] => o = r /\ pc'[o] \in {"deleted", "failed"}
  <2>1. PICK at \in {"deleted", "failed"} : pc' = [pc EXCEPT ![r] = at]
    BY DEF SoftDelete
  <2>2. pc \in [Requests -> Outcomes] /\ at \in Outcomes
    BY DEF Facts, TypeOK, Outcomes
  <2> QED BY <2>1, <2>2
<1>3. TypeOK'
  BY <1>1, <1>2 DEF Facts, TypeOK
<1>4. RequestsOK'
  <2>1. \A o \in Requests : /\ pc'[o] \in {"checked", "locked"} =>
                               pc[o] = pc'[o] /\ Admitted(o)
                          /\ IsRequest(req[o])
    BY <1>2 DEF Facts, RequestsOK
  <2>2. \A o \in Requests : IsRequest(req[o])'
    BY <1>1, <2>1 DEF IsRequest
  <2>3. IsFunctionOn(req, Requests)'
    BY <1>1 DEF Facts, RequestsOK, IsFunctionOn
  <2>4. \A o \in Requests : pc'[o] \in {"checked", "locked"} => Admitted(o)'
    BY <1>1, <2>1 DEF Admitted
  <2> QED BY <1>1, <2>2, <2>3, <2>4 DEF RequestsOK
<1>5. LockedIsFresh'
  BY <1>2, NilIsNoRequest DEF Facts, LockedIsFresh, SoftDelete
<1>6. HistoryOK'
  <2>1. row' # Nil
    BY <1>1, ExpenseEditAssumption
  <2> QED BY <1>1, <2>1 DEF Facts, HistoryOK, IsFunctionOn
<1> QED BY <1>1, <1>3, <1>4, <1>5, <1>6 DEF Facts

\* Every action keeps the inductive invariant of the expense.
THEOREM StepFacts == Facts /\ [Next]_vars => Facts'
<1> SUFFICES ASSUME Facts, [Next]_vars PROVE Facts'
  OBVIOUS
<1>1. CASE UNCHANGED vars
  <2>1. RequestsOK'
    <3>1. \A r \in Requests : IsRequest(req[r])'
      BY <1>1 DEF vars, Facts, RequestsOK, IsRequest, IsFunctionOn
    <3>2. IsFunctionOn(req, Requests)'
      BY <1>1 DEF vars, Facts, RequestsOK, IsFunctionOn
    <3> QED BY <1>1, <3>1, <3>2 DEF vars, Facts, RequestsOK, Admitted
  <2> QED BY <1>1, <2>1 DEF vars, Facts, TypeOK, LockedIsFresh, HistoryOK, IsFunctionOn
<1>2. ASSUME NEW a \in Users, NEW c \in Creations, Create(a, c) PROVE Facts'
  BY <1>2, CreateFacts
<1>3. ASSUME NEW r \in Requests, NEW a \in Users, NEW p \in Patches,
             UpdateRefused(r, a, p) \/ UpdateChecked(r, a, p)
      PROVE  Facts'
  BY <1>3, ServiceFacts
<1>4. ASSUME NEW r \in Requests, NEW a \in Users, DeleteChecked(r, a) PROVE Facts'
  BY <1>4, DeleteFacts
<1>5. ASSUME NEW r \in Requests, Step(r) \/ Abort(r) PROVE Facts'
  BY <1>5, LockFacts, CommitFacts, SoftDeleteFacts, AbortFacts DEF Step
<1> QED BY <1>1, <1>2, <1>3, <1>4, <1>5 DEF Next

\* The inductive invariant holds in every reachable state of the expense.
THEOREM AlwaysFacts == Spec => []Facts
BY InitFacts, StepFacts, PTL DEF Spec

-----------------------------------------------------------------------------
(* The history of a field *)

\* Which steps touch the row, the splits or the history.
LEMMA WritingSteps ==
    ASSUME Facts, [Next]_vars
    PROVE  \/ UNCHANGED <<row, splits, revisions, created>>
           \/ \E a \in Users, c \in Creations : Create(a, c)
           \/ \E r \in Requests : UpdateCommit(r) \/ SoftDelete(r)
BY DEF Next, Step, UpdateRefused, UpdateChecked, UpdateLock, DeleteChecked,
       Abort, vars

\* A deletion shows the same fields as before.
LEMMA DeletionShowsTheSame ==
    ASSUME Facts, NEW r \in Requests, SoftDelete(r), NEW f \in Fields
    PROVE  Shown(row', splits', f) = Shown(row, splits, f)
<1>1. row \in Row /\ splits' = splits
  BY SameRequest DEF SoftDelete
<1> QED BY <1>1 DEF SoftDelete, Row, Shown, Fields

\* One more revision, from what is shown now to what will be, extends a chain.
LEMMA ChainStep ==
    ASSUME Facts, NEW r \in Requests, UpdateCommit(r),
           NEW f \in Fields \ {"splits"}, Chains(f)
    PROVE  Chains(f)'
<1> PICK S : revisions[f] \in Seq(S)
  BY DEF Facts, HistoryOK
<1> DEFINE now == Shown(row, splits, f)
<1> DEFINE next == Shown(row', splits', f)
<1>1. created' = created /\ req[r].base.row = row /\ req[r].base.splits = splits
  BY CommitBase DEF UpdateCommit
<1>2. \A s, t : Shown(row, s, f) = now /\ Shown(row', t, f) = next
  BY DEF Shown, Fields
<1>3. Len(revisions[f]) \in Nat /\ (revisions[f] = <<>> <=> Len(revisions[f]) = 0)
  OBVIOUS
<1>4. CASE f \notin RevisedFields(req[r])
  <2>1. revisions'[f] = revisions[f]
    BY <1>4, RevisionsAfter DEF Facts
  <2>2. next = now
    BY <1>1, <1>2, <1>4, CommitBase DEF RevisedFields
  <2> QED BY <1>1, <2>1, <2>2 DEF Chains
<1>5. CASE f \in RevisedFields(req[r])
  <2> DEFINE h == revisions[f]
  <2> DEFINE e == Revision(req[r], f)
  <2>1. revisions'[f] = Append(h, e)
    BY <1>5, RevisionsAfter DEF Facts
  <2>2. e.old = now /\ e.new = next
    BY <1>1, <1>2, <1>5, CommitBase DEF Revision
  <2>3. /\ Len(Append(h, e)) = Len(h) + 1 /\ Append(h, e) # <<>>
        /\ \A i \in 1..Len(h) : Append(h, e)[i] = h[i]
        /\ Append(h, e)[Len(h) + 1] = e
    BY AppendRevision
  <2>4. Append(h, e)[1].old = Shown(created.row, created.splits, f)
    BY <1>3, <2>2, <2>3 DEF Chains
  <2>5. \A i \in 1..Len(h) : Append(h, e)[i].new = Append(h, e)[i + 1].old
    <3> SUFFICES ASSUME NEW i \in 1..Len(h)
                 PROVE  Append(h, e)[i].new = Append(h, e)[i + 1].old
      OBVIOUS
    <3>1. CASE i = Len(h)
      BY <1>3, <2>2, <2>3, <3>1 DEF Chains
    <3>2. CASE i < Len(h)
      BY <1>3, <2>3, <3>2 DEF Chains
    <3> QED BY <1>3, <3>1, <3>2
  <2> QED BY <1>1, <1>3, <2>1, <2>2, <2>3, <2>4, <2>5 DEF Chains
<1> QED BY <1>4, <1>5

\* Every step extends the histories to what the row now shows.
LEMMA AllChainStep == Facts /\ AllChain /\ [Next]_vars => AllChain'
<1> SUFFICES ASSUME Facts, AllChain, [Next]_vars, NEW f \in Fields \ {"splits"}, Exists'
             PROVE  Chains(f)'
  BY DEF AllChain
<1>1. CASE UNCHANGED <<row, splits, revisions, created>>
  BY <1>1 DEF AllChain, Exists, Chains
<1>2. ASSUME NEW a \in Users, NEW c \in Creations, Create(a, c) PROVE Chains(f)'
  <2>1. revisions'[f] = <<>> /\ created' = [row |-> row', splits |-> splits']
    BY <1>2 DEF Create, Exists, Facts, HistoryOK
  <2>2. Len(<<>>) = 0
    OBVIOUS
  <2> QED BY <2>1, <2>2 DEF Chains
<1>3. ASSUME NEW r \in Requests, UpdateCommit(r) PROVE Chains(f)'
  <2>1. Chains(f)
    BY <1>3, CommitBase, ExpenseEditAssumption DEF AllChain, Exists
  <2> QED BY <1>3, <2>1, ChainStep
<1>4. ASSUME NEW r \in Requests, SoftDelete(r) PROVE Chains(f)'
  <2>1. Chains(f)
    <3>1. row # Nil
      BY <1>4, SameRequest, ExpenseEditAssumption DEF SoftDelete
    <3> QED BY <3>1 DEF AllChain, Exists
  <2>2. Shown(row', splits', f) = Shown(row, splits, f)
    BY <1>4, DeletionShowsTheSame
  <2> QED BY <1>4, <2>1, <2>2 DEF SoftDelete, Chains
<1> QED BY <1>1, <1>2, <1>3, <1>4, WritingSteps

-----------------------------------------------------------------------------
(* The history of the splits *)

\* The places of the history are as many as its revisions and one more.
LEMMA GapsAreFinite == HistoryOK => IsFiniteSet(Gaps) /\ Len(revisions["splits"]) \in Nat
<1> SUFFICES ASSUME HistoryOK PROVE IsFiniteSet(Gaps) /\ Len(revisions["splits"]) \in Nat
  OBVIOUS
<1> PICK S : revisions["splits"] \in Seq(S)
  BY DEF HistoryOK, Fields
<1>1. IsFiniteSet(0..Len(revisions["splits"]))
  BY FS_Interval
<1> QED BY <1>1, FS_Subset DEF Gaps

\* A revision of the splits starts where the readers before it were, so the gap
\* in front of it, if there is one, was there before.
LEMMA GapsOfReplaced ==
    ASSUME Facts, NEW r \in Requests, UpdateCommit(r), SplitsReplaced(req[r])
    PROVE  Gaps' = Gaps
<1> PICK S : revisions["splits"] \in Seq(S)
  BY DEF Facts, HistoryOK, Fields
<1> DEFINE h == revisions["splits"]
<1> DEFINE e == Revision(req[r], "splits")
<1>1. "splits" \in RevisedFields(req[r]) /\ "splits" \in Fields
  BY DEF RevisedFields, Fields
<1>2. revisions'["splits"] = Append(h, e)
  BY <1>1, RevisionsAfter DEF Facts
<1>3. e.old = splits /\ e.new = splits' /\ created' = created
  BY <1>1, CommitBase DEF Revision, Shown, EditedSplits, UpdateCommit
<1> PICK n \in Nat : n = Len(h)
  OBVIOUS
<1> DEFINE k == revisions'["splits"]
<1>4. /\ Len(k) = n + 1 /\ k[n + 1] = e
      /\ \A i \in 1..n : k[i] = h[i]
  BY <1>2, AppendRevision
<1>5. ASSUME NEW i \in 0..n PROVE LeftBy(i)' = LeftBy(i) /\ FoundBy(i)' = FoundBy(i)
  <2>1. LeftBy(i)' = IF i = 0 THEN created.splits ELSE k[i].new
    BY <1>3 DEF LeftBy
  <2>2. LeftBy(i)' = LeftBy(i)
    BY <1>4, <2>1 DEF LeftBy
  <2>3. FoundBy(i)' = k[i + 1].old
    <3>1. i # n + 1
      OBVIOUS
    <3> QED BY <1>4, <3>1 DEF FoundBy
  <2>4. FoundBy(i) = IF i = n THEN splits ELSE h[i + 1].old
    BY DEF FoundBy
  <2>5. k[i + 1] = IF i = n THEN e ELSE h[i + 1]
    <3> i # n => i + 1 \in 1..n
      OBVIOUS
    <3> HIDE DEF k, e, h
    <3> QED BY <1>4
  <2>6. FoundBy(i)' = FoundBy(i)
    <3> HIDE DEF k, e, h
    <3> QED BY <1>3, <2>3, <2>4, <2>5
  <2> QED BY <2>2, <2>6
<1>6. ASSUME NEW i, i = n + 1 PROVE LeftBy(i)' = FoundBy(i)'
  <2>1. LeftBy(i)' = k[i].new /\ FoundBy(i)' = splits'
    BY <1>4, <1>6 DEF LeftBy, FoundBy
  <2> QED BY <1>3, <1>4, <1>6, <2>1
<1>7. Gaps' = {i \in 0..(n + 1) : LeftBy(i)' # FoundBy(i)'}
  BY <1>4 DEF Gaps
<1>8. Gaps = {i \in 0..n : LeftBy(i) # FoundBy(i)}
  BY DEF Gaps
<1>9. ASSUME NEW i PROVE i \in Gaps' <=> i \in Gaps
  <2>1. i \in 0..(n + 1) <=> i \in 0..n \/ i = n + 1
    OBVIOUS
  <2>2. n + 1 \notin 0..n
    OBVIOUS
  <2> QED BY <1>5, <1>6, <1>7, <1>8, <2>1, <2>2
<1> QED BY <1>9

\* A commit that records no new splits opens a gap only behind the last revision
\* of them, and only if it records a new amount.
LEMMA GapsOfRescaled ==
    ASSUME Facts, NEW r \in Requests, UpdateCommit(r), ~SplitsReplaced(req[r])
    PROVE  \/ Gaps' = Gaps
           \/ /\ Gaps' \subseteq Gaps \cup {Len(revisions["splits"])}
              /\ "amount_cents" \in RevisedFields(req[r])
<1> PICK S : revisions["splits"] \in Seq(S)
  BY DEF Facts, HistoryOK, Fields
<1>1. revisions'["splits"] = revisions["splits"] /\ created' = created
  BY RevisionsAfter DEF RevisedFields, Fields, Facts, UpdateCommit
<1>2. \A i \in 0..Len(revisions["splits"]) :
         /\ LeftBy(i)' = LeftBy(i)
         /\ i # Len(revisions["splits"]) \/ splits' = splits => FoundBy(i)' = FoundBy(i)
  BY <1>1 DEF LeftBy, FoundBy
<1>3. CASE splits' = splits
  BY <1>1, <1>2, <1>3 DEF Gaps
<1>4. CASE splits' # splits
  <2>1. Given(req[r].patch.amount_cents, row.amount_cents) # row.amount_cents
    BY <1>4, CommitBase DEF EditedSplits
  <2>2. "amount_cents" \in RevisedFields(req[r])
    <3>1. EditedRow(req[r].patch, row).amount_cents # row.amount_cents
      BY <2>1, CommitBase DEF EditedRow, Row
    <3> QED BY <3>1, CommitBase DEF RevisedFields, Shown, Fields
  <2> QED BY <1>1, <1>2, <2>2 DEF Gaps
<1> QED BY <1>3, <1>4

\* No step takes a revision away, and one that revises a field adds one.
LEMMA MoreRevisions ==
    ASSUME Facts, NEW r \in Requests, UpdateCommit(r), NEW f \in Fields
    PROVE  /\ Len(revisions[f]) \in Nat /\ Len(revisions'[f]) \in Nat
           /\ Len(revisions'[f]) >= Len(revisions[f])
           /\ f \in RevisedFields(req[r]) => Len(revisions'[f]) = Len(revisions[f]) + 1
<1> PICK S : revisions[f] \in Seq(S)
  BY DEF Facts, HistoryOK
<1> QED BY RevisionsAfter, AppendRevision DEF Facts

\* One more element makes a set larger by one at most.
LEMMA OneMore ==
    ASSUME NEW S, IsFiniteSet(S), NEW x
    PROVE  IsFiniteSet(S \cup {x}) /\ Cardinality(S \cup {x}) <= Cardinality(S) + 1
<1>1. Cardinality(S) \in Nat
  BY FS_CardinalityType
<1>2. /\ IsFiniteSet(S \cup {x})
      /\ Cardinality(S \cup {x}) = IF x \in S THEN Cardinality(S) ELSE Cardinality(S) + 1
  BY FS_AddElement, Zenon
<1> QED BY <1>1, <1>2

\* A commit opens no gap that it does not pay for.
LEMMA CommitPays ==
    ASSUME Facts, SplitHistory, NEW r \in Requests, UpdateCommit(r)
    PROVE  SplitHistory'
<1> DEFINE a == "amount_cents"
<1>1. /\ IsFiniteSet(Gaps) /\ Cardinality(Gaps) \in Nat
      /\ Cardinality(Gaps) <= Len(revisions[a])
  <2>1. Exists
    BY CommitBase, ExpenseEditAssumption DEF Exists
  <2> QED BY <2>1, GapsAreFinite, FS_CardinalityType DEF Facts, SplitHistory
<1>2. /\ Len(revisions[a]) \in Nat /\ Len(revisions'[a]) \in Nat
      /\ Len(revisions'[a]) >= Len(revisions[a])
      /\ a \in RevisedFields(req[r]) => Len(revisions'[a]) = Len(revisions[a]) + 1
  BY MoreRevisions DEF Fields
<1>3. CASE Gaps' = Gaps
  BY <1>1, <1>2, <1>3 DEF SplitHistory
<1>4. CASE /\ Gaps' \subseteq Gaps \cup {Len(revisions["splits"])}
           /\ a \in RevisedFields(req[r])
  <2> DEFINE more == Gaps \cup {Len(revisions["splits"])}
  <2>1. IsFiniteSet(more) /\ Cardinality(more) <= Cardinality(Gaps) + 1
    BY <1>1, OneMore
  <2>2. /\ Cardinality(Gaps') \in Nat /\ Cardinality(more) \in Nat
        /\ Cardinality(Gaps') <= Cardinality(more)
    BY <1>4, <2>1, FS_Subset, FS_CardinalityType
  <2> QED BY <1>1, <1>2, <1>4, <2>1, <2>2 DEF SplitHistory
<1> QED BY <1>3, <1>4, GapsOfReplaced, GapsOfRescaled

\* The splits of an expense that was just created need no history yet.
LEMMA CreationHasNoGap ==
    ASSUME Facts, NEW a \in Users, NEW c \in Creations, Create(a, c)
    PROVE  SplitHistory'
<1>1. /\ revisions' = revisions /\ revisions["splits"] = <<>>
      /\ revisions["amount_cents"] = <<>> /\ created'.splits = splits'
  BY DEF Create, Exists, Facts, HistoryOK, Fields
<1>2. Len(<<>>) = 0
  OBVIOUS
<1>3. Gaps' = {}
  BY <1>1, <1>2 DEF Gaps, LeftBy, FoundBy
<1> QED BY <1>1, <1>2, <1>3, FS_EmptySet DEF SplitHistory

\* No step opens a gap in the history of the splits without a revision of the
\* amount to pay for it.
LEMMA SplitHistoryStep == Facts /\ SplitHistory /\ [Next]_vars => SplitHistory'
<1> SUFFICES ASSUME Facts, SplitHistory, [Next]_vars PROVE SplitHistory'
  OBVIOUS
<1>1. CASE UNCHANGED <<row, splits, revisions, created>>
  BY <1>1 DEF SplitHistory, Exists, Gaps, LeftBy, FoundBy
<1>2. ASSUME NEW r \in Requests, SoftDelete(r) PROVE SplitHistory'
  <2>1. Exists /\ UNCHANGED <<splits, revisions, created>>
    BY <1>2, SameRequest, ExpenseEditAssumption DEF SoftDelete, Exists
  <2> QED BY <2>1 DEF SplitHistory, Gaps, LeftBy, FoundBy
<1> QED BY <1>1, <1>2, CreationHasNoGap, CommitPays, WritingSteps

-----------------------------------------------------------------------------
(* Revisions and deletion *)

\* No step records a revision of a field it left alone.
LEMMA NoSpuriousStep == Facts /\ NoSpuriousRevision /\ [Next]_vars => NoSpuriousRevision'
<1> SUFFICES ASSUME Facts, NoSpuriousRevision, [Next]_vars,
                    NEW f \in Fields, NEW i \in DOMAIN revisions'[f]
             PROVE  revisions'[f][i].old # revisions'[f][i].new
  BY DEF NoSpuriousRevision
<1>1. CASE revisions'[f] = revisions[f]
  BY <1>1 DEF NoSpuriousRevision
<1>2. ASSUME NEW r \in Requests, UpdateCommit(r), f \in RevisedFields(req[r]),
             revisions'[f] = Append(revisions[f], Revision(req[r], f))
      PROVE  revisions'[f][i].old # revisions'[f][i].new
  <2> PICK S : revisions[f] \in Seq(S)
    BY DEF Facts, HistoryOK
  <2>1. Revision(req[r], f).old # Revision(req[r], f).new
    BY <1>2 DEF RevisedFields, SplitsReplaced, Revision, Shown, Fields
  <2>2. \A j \in 1..Len(revisions[f]) : revisions[f][j].old # revisions[f][j].new
    BY AppendRevision DEF NoSpuriousRevision
  <2> QED BY <1>2, <2>1, <2>2, AppendRevision
<1>3. \/ revisions' = revisions
      \/ \E r \in Requests : UpdateCommit(r)
  BY WritingSteps DEF Create, SoftDelete
<1> QED BY <1>1, <1>2, <1>3, RevisionsAfter DEF Facts

\* A deleted expense is written by no step.
LEMMA DeletedStep ==
    ASSUME Facts, [Next]_vars, Exists, row.deleted
    PROVE  UNCHANGED <<row, splits, revisions>>
<1>1. \A r \in Requests : SoftDelete(r) => UNCHANGED <<row, splits, revisions>>
  BY SoftDeleteFacts DEF SoftDelete
<1>2. \A a \in Users, c \in Creations : ~Create(a, c)
  BY DEF Create
<1>3. \A r \in Requests : ~UpdateCommit(r)
  BY CommitBase
<1> QED BY <1>1, <1>2, <1>3, WritingSteps

\* The deletes that were told they deleted, and what they saw done.
Deleters == {r \in Requests : pc[r] = "deleted"}

DeleteOK ==
    /\ Deleters # {} <=> (Exists /\ row.deleted)
    /\ \A r, o \in Deleters : r = o

\* Every step keeps the count of the deletes that succeeded in line with the row.
LEMMA DeleteStep == Facts /\ DeleteOK /\ [Next]_vars => DeleteOK'
<1> SUFFICES ASSUME Facts, DeleteOK, [Next]_vars PROVE DeleteOK'
  OBVIOUS
<1>1. ASSUME Deleters' = Deleters, Exists' = Exists, Exists => row'.deleted = row.deleted
      PROVE  DeleteOK'
  BY <1>1 DEF DeleteOK
<1>2. ASSUME NEW r \in Requests, NEW at \in Outcomes \ {"deleted"},
             pc[r] # "deleted", pc' = [pc EXCEPT ![r] = at]
      PROVE  Deleters' = Deleters
  BY <1>2 DEF Deleters, Facts, TypeOK
<1>3. ASSUME NEW a \in Users, NEW c \in Creations, Create(a, c) PROVE DeleteOK'
  <2>1. Deleters' = Deleters /\ Deleters = {} /\ ~row'.deleted
    BY <1>3, CreateFacts DEF DeleteOK, Deleters, Create
  <2> QED BY <2>1 DEF DeleteOK
<1>4. ASSUME NEW r \in Requests, NEW a \in Users, NEW p \in Patches,
             UpdateRefused(r, a, p) \/ UpdateChecked(r, a, p)
      PROVE  DeleteOK'
  <2>1. row' = row /\ \E at \in {"failed", "checked"} : pc' = [pc EXCEPT ![r] = at]
    BY <1>4 DEF UpdateRefused, UpdateChecked
  <2>2. pc[r] = "idle"
    BY <1>4 DEF UpdateRefused, UpdateChecked
  <2> QED BY <1>1, <1>2, <2>1, <2>2 DEF Exists, Outcomes
<1>5. ASSUME NEW r \in Requests, NEW a \in Users, DeleteChecked(r, a) PROVE DeleteOK'
  <2>1. row' = row /\ \E at \in {"failed", "deleting"} : pc' = [pc EXCEPT ![r] = at]
    BY <1>5 DEF DeleteChecked
  <2>2. pc[r] = "idle"
    BY <1>5 DEF DeleteChecked
  <2> QED BY <1>1, <1>2, <2>1, <2>2 DEF Exists, Outcomes
<1>6. ASSUME NEW r \in Requests, UpdateLock(r) \/ Abort(r) PROVE DeleteOK'
  <2>1. row' = row /\ \E at \in {"failed", "locked"} : pc' = [pc EXCEPT ![r] = at]
    BY <1>6 DEF UpdateLock, Abort
  <2>2. pc[r] # "deleted"
    BY <1>6 DEF UpdateLock, Abort
  <2> QED BY <1>1, <1>2, <2>1, <2>2 DEF Exists, Outcomes
<1>7. ASSUME NEW r \in Requests, UpdateCommit(r) PROVE DeleteOK'
  <2>1. Exists /\ Exists' /\ row'.deleted = row.deleted
    BY <1>7, CommitBase, CommitFacts, ExpenseEditAssumption DEF Exists
  <2>2. pc' = [pc EXCEPT ![r] = "done"] /\ pc[r] = "locked"
    BY <1>7 DEF UpdateCommit
  <2> QED BY <1>1, <1>2, <2>1, <2>2 DEF Outcomes
<1>8. ASSUME NEW r \in Requests, SoftDelete(r) PROVE DeleteOK'
  <2>1. Exists /\ Exists'
    BY <1>8, SameRequest, SoftDeleteFacts, ExpenseEditAssumption DEF SoftDelete, Exists
  <2>2. CASE row.deleted
    <3>1. row' = row /\ pc' = [pc EXCEPT ![r] = "failed"] /\ pc[r] = "deleting"
      BY <1>8, <2>2 DEF SoftDelete
    <3> QED BY <1>1, <1>2, <2>1, <3>1 DEF Outcomes
  <2>3. CASE ~row.deleted
    <3>1. row'.deleted
      <4>1. row \in Row /\ row' = [row EXCEPT !.deleted = TRUE]
        BY <1>8, <2>3, SameRequest DEF SoftDelete
      <4> QED BY <4>1 DEF Row
    <3>2. Deleters = {}
      BY <2>3 DEF DeleteOK
    <3>3. Deleters' = {r}
      <4>1. pc' = [pc EXCEPT ![r] = "deleted"]
        BY <1>8, <2>3 DEF SoftDelete
      <4> QED BY <3>2, <4>1 DEF Deleters, Facts, TypeOK
    <3> QED BY <2>1, <3>1, <3>3 DEF DeleteOK
  <2> QED BY <2>2, <2>3
<1>9. CASE UNCHANGED vars
  BY <1>1, <1>9 DEF vars, Deleters, Exists
<1> QED BY <1>3, <1>4, <1>5, <1>6, <1>7, <1>8, <1>9 DEF Next, Step

-----------------------------------------------------------------------------
(* The sum of the shares *)

\* What the service has checked of a request and read for it.
Resolved(q) ==
    /\ WellFormed(q.patch)
    /\ q.seen \in Amounts
    /\ Resolves(q.patch, q.seen)
    /\ q.resolved = Rows(q.patch, q.seen)

AmountsOK ==
    /\ NoOverflow
    /\ Exists => row.amount_cents \in Amounts
    /\ IsFiniteSet(DOMAIN splits)
    /\ \A r \in Requests : pc[r] \in {"checked", "locked"} => Resolved(req[r])

\* The rows of a resolved request sum to the amount it was resolved against.
LEMMA ResolvedRows ==
    ASSUME NoOverflow, NEW p \in Creations \cup Patches, NEW seen, p.split # Nil,
           Resolves(p, seen), AmountFor(p, seen) \in Amounts
    PROVE  SumsTo(Rows(p, seen), AmountFor(p, seen)) /\ IsFiniteSet(DOMAIN Rows(p, seen))
<1> DEFINE in == p.split.in
           mode == p.split.mode
           amount == AmountFor(p, seen)
           shares == ResolveSplits(mode, amount, in)
<1>1. p.split \in SplitRequest /\ p.split \in SplitRequests
  BY ExpenseEditAssumption DEF Patch, Creation, SplitRequests
<1>2. mode \in Modes /\ in \in Seq([user : Users, value : Nat])
  BY <1>1 DEF SplitRequest
<1>3. in \in Seq(Entry)
  <2>1. [user : Users, value : Nat] \subseteq Entry
    BY ExpenseEditAssumption DEF Entry
  <2> HIDE DEF in
  <2> QED
    BY <1>2, <2>1, LargerSeq
<1>4. amount \in Nat /\ Fits(amount, in)
  BY <1>1 DEF Amounts, NoOverflow
<1>5. shares # NoShares /\ Rows(p, seen) = SplitRows(in, shares)
  BY DEF Resolves, Shares, Rows
<1> HIDE DEF amount
<1>6. shares \in [DOMAIN in -> Nat] /\ SumFunction(shares) = amount
  <2> HIDE DEF in, mode
  <2> QED
    BY <1>2, <1>3, <1>4, <1>5, ResolvedSums
<1>7. IsInjective([i \in DOMAIN in |-> in[i].user])
  BY <1>5 DEF ResolveSplits
<1> HIDE DEF shares, mode, in
<1>8. /\ SplitRows(in, shares) \in [{in[i].user : i \in DOMAIN in} -> Nat]
      /\ SumFunction(SplitRows(in, shares)) = amount
  BY <1>3, <1>6, <1>7, RowsSum
<1>9. IsFiniteSet({in[i].user : i \in DOMAIN in})
  <2> DEFINE U == {in[i].user : i \in DOMAIN in}
             s == [i \in DOMAIN in |-> in[i].user]
  <2>1. IsFiniteSet(DOMAIN in)
    <3>1. Len(in) \in Nat /\ DOMAIN in = 1..Len(in)
      BY <1>3
    <3> QED
      BY <3>1, Count
  <2>2. s \in [DOMAIN in -> U] /\ \A u \in U : \E i \in DOMAIN in : s[i] = u
    OBVIOUS
  <2>3. s \in Surjection(DOMAIN in, U)
    BY <2>2 DEF Surjection
  <2> HIDE DEF U, s
  <2>4. IsFiniteSet(U)
    BY <2>1, <2>3, FS_Surjection
  <2> QED
    BY <2>4 DEF U
<1> QED
  BY <1>5, <1>8, <1>9 DEF SumsTo, amount

\* Rows that sum to one amount are rescaled to rows that sum to the other.
LEMMA RescaledRows ==
    ASSUME NoOverflow, NEW rows, IsFiniteSet(DOMAIN rows), DOMAIN rows \subseteq Members,
           NEW old \in Amounts, NEW new \in Amounts, SumsTo(rows, old)
    PROVE  SumsTo(RescaleSplits(rows, old, new), new)
<1>1. /\ old \in Nat \ {0} /\ new \in Nat /\ new < Limit /\ old * new \in Nat /\ old * new < Limit
      /\ Limit \in Nat
  BY Products, Limits DEF Amounts, NoOverflow
<1>2. /\ DOMAIN rows \subseteq Nat /\ \A u \in DOMAIN rows : rows[u] \in Nat
      /\ old = SumFunction(rows)
  BY ExpenseEditAssumption DEF SumsTo
<1>3. ASSUME NEW u \in DOMAIN rows PROVE rows[u] * new < Limit
  <2>1. rows[u] \in Nat /\ rows[u] <= old
    BY <1>2, SumNatural DEF SumFunction
  <2>2. rows[u] * new <= old * new /\ rows[u] * new \in Nat
    BY <1>1, <2>1, TimesMonotone, Products
  <2> QED
    BY <1>1, <2>2
<1> QED
  BY <1>1, <1>2, <1>3, RescaledSums, RescaleKeepsMembers DEF SumsTo

\* The amount of a patch the service accepts is positive.
LEMMA PatchedAmount ==
    ASSUME NEW p \in Patches, WellFormed(p), p.amount_cents # Nil
    PROVE  p.amount_cents \in Nat \ {0}
<1>1. p.amount_cents \in Int /\ p.amount_cents > 0
  <2>1. p \in Patch
    BY ExpenseEditAssumption
  <2> QED
    BY <2>1 DEF Patch, WellFormed
<1> QED
  BY <1>1

\* An edit that does not write shares of a stale amount keeps the sum.
LEMMA CommitSum ==
    ASSUME Facts, AmountsOK, SharesSum, NEW r \in Requests, UpdateCommit(r), ~StaleCommit(r)
    PROVE  SharesSum'
<1> DEFINE q == req[r]
           p == q.patch
           old == row.amount_cents
           new == Given(p.amount_cents, old)
<1>1. /\ Exists /\ row \in Row /\ SumsTo(splits, old) /\ old \in Amounts
      /\ p \in Patches /\ DOMAIN splits \subseteq Members
      /\ q.base.splits = splits /\ q.base.row = row
  <2>1. Exists
    BY CommitBase, ExpenseEditAssumption DEF Exists
  <2> QED
    BY <2>1, CommitBase DEF SharesSum, AmountsOK, Facts, TypeOK, Admitted
<1>2. WellFormed(p) /\ q.seen \in Amounts /\ Resolves(p, q.seen) /\ q.resolved = Rows(p, q.seen)
  BY DEF AmountsOK, Resolved, UpdateCommit
<1>3. p.amount_cents # Nil => p.amount_cents \in Amounts
  <2>1. p.amount_cents # Nil => p.amount_cents \in Nat \ {0}
    BY <1>1, <1>2, PatchedAmount
  <2> QED
    BY <1>1, <2>1 DEF Amounts
<1>4. CASE RevisedFields(q) = {}
  BY <1>1, <1>4, CommitBase DEF SharesSum
<1>5. CASE RevisedFields(q) # {}
  <2>1. row'.amount_cents = new /\ splits' = EditedSplits(q)
    BY <1>1, <1>5, CommitBase DEF EditedRow, Row
  <2>2. SumsTo(EditedSplits(q), new)
    <3>1. CASE SplitsReplaced(q)
      <4>1. p.split # Nil /\ EditedSplits(q) = Rows(p, q.seen)
        BY <1>2, <3>1 DEF SplitsReplaced, EditedSplits, Rows
      <4>2. AmountFor(p, q.seen) = new
        <5>1. pc[r] = "locked" /\ pc'[r] = "done"
          BY DEF UpdateCommit, Facts, TypeOK
        <5>2. p.amount_cents = Nil => q.seen = old
          BY <3>1, <5>1 DEF StaleCommit, SplitsReplaced
        <5> QED
          BY <5>2 DEF AmountFor, Given
      <4>3. AmountFor(p, q.seen) \in Amounts
        BY <1>2, <1>3 DEF AmountFor
      <4> QED
        BY <1>1, <1>2, <4>1, <4>2, <4>3, ResolvedRows DEF AmountsOK
    <3>2. CASE ~SplitsReplaced(q) /\ new # old
      <4>1. new = p.amount_cents /\ new \in Amounts
        BY <1>3, <3>2 DEF Given
      <4>2. EditedSplits(q) = RescaleSplits(splits, old, new)
        BY <1>1, <3>2, <4>1 DEF EditedSplits
      <4> HIDE DEF new, old
      <4> QED
        BY <1>1, <4>1, <4>2, RescaledRows DEF AmountsOK
    <3>3. CASE ~SplitsReplaced(q) /\ new = old
      BY <1>1, <3>3 DEF EditedSplits
    <3> QED
      BY <3>1, <3>2, <3>3
  <2> QED
    BY <2>1, <2>2 DEF SharesSum
<1> QED
  BY <1>4, <1>5

\* A new expense is resolved against its own amount.
LEMMA CreateSum ==
    ASSUME AmountsOK, NEW a \in Users, NEW c \in Creations, Create(a, c)
    PROVE  /\ SharesSum' /\ row'.amount_cents \in Amounts /\ IsFiniteSet(DOMAIN splits')
<1>1. /\ c.split # Nil /\ c.amount_cents # Nil /\ c.amount_cents \in Int
      /\ c.amount_cents > 0
  <2>1. c \in Creation /\ c.split \in SplitRequest /\ c.amount_cents \in Int
    BY ExpenseEditAssumption DEF Creation
  <2>2. WellFormed(c)
    BY DEF Create
  <2> QED
    BY <2>1, <2>2, ExpenseEditAssumption DEF WellFormed
<1>2. c.amount_cents \in Amounts
  BY <1>1 DEF Amounts
<1>3. AmountFor(c, 0) = c.amount_cents /\ Resolves(c, 0)
  BY <1>1 DEF AmountFor, Create
<1>4. SumsTo(Rows(c, 0), c.amount_cents) /\ IsFiniteSet(DOMAIN Rows(c, 0))
  BY <1>1, <1>2, <1>3, ResolvedRows DEF AmountsOK
<1>5. row'.amount_cents = c.amount_cents /\ splits' = Rows(c, 0)
  BY DEF Create
<1> QED
  BY <1>2, <1>4, <1>5 DEF SharesSum

\* Every action keeps the amounts and the resolved shares among those that fit.
LEMMA AmountsStep == Facts /\ AmountsOK /\ [Next]_vars => AmountsOK'
<1> SUFFICES ASSUME Facts, AmountsOK, [Next]_vars PROVE AmountsOK'
  OBVIOUS
<1>0. Nil \notin Row /\ (Exists => row \in Row)
  BY ExpenseEditAssumption DEF Facts, TypeOK, Exists
<1>1. ASSUME NEW r \in Requests, NEW q, NEW at,
             UNCHANGED <<row, splits>>, req' = [req EXCEPT ![r] = q], pc' = [pc EXCEPT ![r] = at],
             at \in {"checked", "locked"} => Resolved(q)
      PROVE  AmountsOK'
  <2>1. \A o \in Requests : /\ o = r => req'[o] = q /\ pc'[o] = at
                            /\ o # r => req'[o] = req[o] /\ pc'[o] = pc[o]
    BY <1>1 DEF Facts, TypeOK, RequestsOK, IsFunctionOn
  <2>2. ASSUME NEW o \in Requests, pc'[o] \in {"checked", "locked"} PROVE Resolved(req'[o])
    <3>1. CASE o = r
      BY <1>1, <2>1, <2>2, <3>1
    <3>2. CASE o # r
      BY <2>1, <2>2, <3>2 DEF AmountsOK
    <3> QED
      BY <3>1, <3>2
  <2> QED
    BY <1>1, <2>2 DEF AmountsOK, Exists, NoOverflow, Resolved
<1>2. ASSUME NEW a \in Users, NEW c \in Creations, Create(a, c) PROVE AmountsOK'
  <2>1. /\ row'.amount_cents \in Amounts /\ IsFiniteSet(DOMAIN splits')
        /\ UNCHANGED <<pc, req>>
    BY <1>2, CreateSum DEF Create
  <2> QED
    BY <2>1 DEF AmountsOK, NoOverflow, Resolved
<1>3. ASSUME NEW r \in Requests, NEW a \in Users, NEW p \in Patches, UpdateRefused(r, a, p)
      PROVE  AmountsOK'
  BY <1>1, <1>3, SameRequest DEF UpdateRefused
<1>4. ASSUME NEW r \in Requests, NEW a \in Users, NEW p \in Patches, UpdateChecked(r, a, p)
      PROVE  AmountsOK'
  <2> DEFINE q == [Idle EXCEPT !.actor = a, !.patch = p, !.seen = row.amount_cents,
                               !.resolved = Rows(p, row.amount_cents)]
  <2>1. q.patch = p /\ q.seen = row.amount_cents /\ q.resolved = Rows(p, row.amount_cents)
    BY DEF Idle
  <2>2. /\ WellFormed(p) /\ Resolves(p, row.amount_cents) /\ Exists
        /\ UNCHANGED <<row, splits>> /\ req' = [req EXCEPT ![r] = q]
        /\ pc' = [pc EXCEPT ![r] = "checked"]
    BY <1>4 DEF UpdateChecked, Accepts
  <2> HIDE DEF q
  <2>3. Resolved(q)
    BY <2>1, <2>2 DEF Resolved, AmountsOK
  <2> QED
    BY <1>1, <2>2, <2>3
<1>5. ASSUME NEW r \in Requests, NEW a \in Users, DeleteChecked(r, a) PROVE AmountsOK'
  <2> DEFINE at == IF Live /\ a \in Members THEN "deleting" ELSE "failed"
  <2>1. /\ at \in {"deleting", "failed"} /\ pc' = [pc EXCEPT ![r] = at]
        /\ UNCHANGED <<row, splits, req>>
    BY <1>5 DEF DeleteChecked
  <2> HIDE DEF at
  <2> QED
    BY <1>1, <2>1, SameRequest
<1>6. ASSUME NEW r \in Requests, UpdateLock(r) PROVE AmountsOK'
  <2>1. UNCHANGED <<row, splits>> /\ Resolved(req[r])
    BY <1>6 DEF UpdateLock, AmountsOK
  <2>2. CASE row.deleted
    BY <1>1, <1>6, <2>1, <2>2, SameRequest DEF UpdateLock
  <2>3. CASE ~row.deleted
    <3> DEFINE q == [req[r] EXCEPT !.base = [row |-> row, splits |-> splits]]
    <3>1. q.patch = req[r].patch /\ q.seen = req[r].seen /\ q.resolved = req[r].resolved
      BY SameRequest DEF IsRequest, IsFunctionOn
    <3>2. req' = [req EXCEPT ![r] = q] /\ pc' = [pc EXCEPT ![r] = "locked"]
      BY <1>6, <2>3 DEF UpdateLock
    <3> HIDE DEF q
    <3>3. Resolved(q)
      BY <2>1, <3>1 DEF Resolved
    <3> QED
      BY <1>1, <2>1, <3>2, <3>3
  <2> QED
    BY <2>2, <2>3
<1>7. ASSUME NEW r \in Requests, Abort(r) PROVE AmountsOK'
  BY <1>1, <1>7, SameRequest DEF Abort
<1>8. ASSUME NEW r \in Requests, UpdateCommit(r) PROVE AmountsOK'
  <2> DEFINE p == req[r].patch
  <2>1. /\ row \in Row /\ p \in Patches /\ WellFormed(p) /\ row.amount_cents \in Amounts
        /\ req[r].resolved = Rows(p, req[r].seen) /\ Resolves(p, req[r].seen)
        /\ req[r].seen \in Amounts /\ req[r].base.splits = splits
    <3>1. Exists /\ pc[r] = "locked"
      BY <1>8, CommitBase, ExpenseEditAssumption DEF Exists, UpdateCommit
    <3> QED
      BY <1>8, <3>1, CommitBase DEF AmountsOK, Resolved, Admitted
  <2>2. p.amount_cents # Nil => p.amount_cents \in Amounts
    <3>1. p.amount_cents # Nil => p.amount_cents \in Nat \ {0}
      BY <2>1, PatchedAmount
    <3> QED
      BY <2>1, <3>1 DEF Amounts
  <2>3. row'.amount_cents \in Amounts
    <3>1. EditedRow(p, row).amount_cents = Given(p.amount_cents, row.amount_cents)
      BY <2>1 DEF EditedRow, Row
    <3> QED
      BY <1>8, <2>1, <2>2, <3>1, CommitBase DEF Given
  <2>4. IsFiniteSet(DOMAIN splits')
    <3>1. IsFiniteSet(DOMAIN splits)
      BY DEF AmountsOK
    <3>2. IsFiniteSet(DOMAIN EditedSplits(req[r]))
      <4>1. CASE SplitsReplaced(req[r])
        <5>1. p.split # Nil /\ EditedSplits(req[r]) = Rows(p, req[r].seen)
          BY <2>1, <4>1 DEF SplitsReplaced, EditedSplits, Rows
        <5>2. AmountFor(p, req[r].seen) \in Amounts
          BY <2>1, <2>2 DEF AmountFor
        <5> QED
          BY <2>1, <5>1, <5>2, ResolvedRows DEF AmountsOK
      <4>2. CASE ~SplitsReplaced(req[r])
        BY <2>1, <3>1, <4>2, RescaleKeepsMembers DEF EditedSplits
      <4> QED
        BY <4>1, <4>2
    <3> QED
      BY <1>8, <3>1, <3>2, CommitBase
  <2>5. \A o \in Requests : /\ pc'[o] \in {"checked", "locked"} => pc[o] = pc'[o]
                            /\ req'[o] = req[o]
    BY <1>8 DEF UpdateCommit, Facts, TypeOK
  <2> QED
    BY <2>3, <2>4, <2>5 DEF AmountsOK, NoOverflow, Resolved
<1>9. ASSUME NEW r \in Requests, SoftDelete(r) PROVE AmountsOK'
  <2>1. /\ Exists /\ row'.amount_cents = row.amount_cents
        /\ UNCHANGED <<splits, req>>
    BY <1>0, <1>9, SameRequest DEF SoftDelete, Row, Exists
  <2>2. \A o \in Requests : pc'[o] \in {"checked", "locked"} => pc[o] = pc'[o]
    BY <1>9 DEF SoftDelete, Facts, TypeOK
  <2> QED
    BY <2>1, <2>2 DEF AmountsOK, NoOverflow, Resolved
<1>10. CASE UNCHANGED vars
  BY <1>10 DEF vars, AmountsOK, Exists, NoOverflow, Resolved
<1> QED
  BY <1>2, <1>3, <1>4, <1>5, <1>6, <1>7, <1>8, <1>9, <1>10 DEF Next, Step

\* Every step keeps the sum, or commits shares of a stale amount.
LEMMA SumStepOfNext ==
    ASSUME Facts, AmountsOK, SharesSum, [Next]_vars
    PROVE  SharesSum' \/ \E r \in Requests : StaleCommit(r)
<1>1. CASE UNCHANGED <<row, splits, revisions, created>>
  BY <1>1 DEF SharesSum, Exists
<1>2. ASSUME NEW a \in Users, NEW c \in Creations, Create(a, c) PROVE SharesSum'
  BY <1>2, CreateSum
<1>3. ASSUME NEW r \in Requests, SoftDelete(r) PROVE SharesSum'
  <2>1. row \in Row
    BY <1>3, SameRequest DEF SoftDelete
  <2>2. row # Nil
    BY <2>1, ExpenseEditAssumption
  <2>3. row'.amount_cents = row.amount_cents /\ splits' = splits
    BY <1>3, <2>1 DEF SoftDelete, Row
  <2> QED
    BY <2>2, <2>3 DEF SharesSum, Exists
<1>4. ASSUME NEW r \in Requests, UpdateCommit(r), ~StaleCommit(r) PROVE SharesSum'
  BY <1>4, CommitSum
<1> QED
  BY <1>1, <1>2, <1>3, <1>4, WritingSteps

\* As long as no product or sum overflows, the shares of an expense are natural
\* numbers that sum to its amount, whatever edits interleave, until shares are
\* committed that were resolved against an amount another edit has replaced.
THEOREM SumLost == NoOverflow /\ Spec => SumLostOnlyToStaleAmount
<1>1. NoOverflow /\ Init => AmountsOK
  <2> SUFFICES ASSUME NoOverflow, Init PROVE AmountsOK
    OBVIOUS
  <2>1. DOMAIN NoShares = {} /\ ~Exists
    BY DEF Init, Exists, NoShares
  <2> QED
    BY <2>1, FS_EmptySet DEF Init, AmountsOK
<1>2. NoOverflow /\ Spec => []AmountsOK
  BY <1>1, AmountsStep, AlwaysFacts, PTL DEF Spec
<1>3. Facts /\ AmountsOK /\ [Next]_vars
      => [SharesSum => SharesSum' \/ \E r \in Requests : StaleCommit(r)]_vars
  BY SumStepOfNext
<1> QED
  BY <1>2, <1>3, AlwaysFacts, PTL DEF Spec, SumLostOnlyToStaleAmount

-----------------------------------------------------------------------------
(* The theorems *)

\* Every reachable state has the types of TypeOK: payer, split users and
\* editors are members, whatever the requests name.
THEOREM TypeCorrect == Spec => []TypeOK
BY AlwaysFacts, PTL DEF Facts

\* However edits interleave, the revisions of a field chain from the value the
\* expense was created with to the value it has, and none of them says that a
\* value changed into itself.
THEOREM HistoryKept == Spec => []FieldHistory
<1>1. Init => AllChain /\ NoSpuriousRevision
  BY DEF Init, AllChain, Exists, NoSpuriousRevision
<1>2. Spec => [](AllChain /\ NoSpuriousRevision)
  BY <1>1, AllChainStep, NoSpuriousStep, AlwaysFacts, PTL DEF Spec
<1>3. AllChain /\ NoSpuriousRevision => FieldHistory
  BY DEF FieldHistory
<1> QED BY <1>2, <1>3, PTL

\* Every gap in the history of the splits is paid for by a revision of the amount.
THEOREM SplitsAccounted == Spec => []SplitHistory
<1>1. Init => SplitHistory
  BY DEF Init, SplitHistory, Exists
<1> QED BY <1>1, SplitHistoryStep, AlwaysFacts, PTL DEF Spec

\* An edit that was on its way when the expense was deleted does not reach it.
THEOREM DeletedStays == Spec => DeletedIsFinal
<1>1. Facts /\ [Next]_vars => [Exists /\ row.deleted => UNCHANGED <<row, splits, revisions>>]_vars
  BY DeletedStep
<1> QED BY <1>1, AlwaysFacts, PTL DEF Spec, DeletedIsFinal

\* Exactly one of the concurrent deletes of an expense is told it deleted.
THEOREM OneDeleter == Spec => []OneDelete
<1>1. Init => DeleteOK
  BY DEF Init, DeleteOK, Deleters, Exists
<1>2. DeleteOK => OneDelete
  <2> SUFFICES ASSUME DeleteOK PROVE OneDelete
    OBVIOUS
  <2>1. CASE Deleters = {}
    BY <2>1, FS_EmptySet DEF DeleteOK, OneDelete, Deleters
  <2>2. CASE Deleters # {}
    <3> PICK r \in Requests : Deleters = {r}
      BY <2>2 DEF DeleteOK, Deleters
    <3>1. Cardinality(Deleters) = 1
      BY FS_Singleton
    <3> QED BY <2>2, <3>1 DEF DeleteOK, OneDelete, Deleters
  <2> QED BY <2>1, <2>2
<1> QED BY <1>1, <1>2, DeleteStep, AlwaysFacts, PTL DEF Spec

=============================================================================

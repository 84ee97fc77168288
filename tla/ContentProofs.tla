----------------------------- MODULE ContentProofs -----------------------------
(***************************************************************************)
(* That a finding tells the truth about the source it was found in         *)
(* (LinesAreTrue), for any input, any chunk size, overlap and context, any *)
(* rules and edits of them; and that a checkout cleans up after itself     *)
(* (NothingIsLeftBehind).                                                  *)
(*                                                                         *)
(* From the detector back to the repository: the line index and the joined *)
(* text of a chunk (LineAtIs, JoinedIs), the lines the reports print       *)
(* (PrintedIsTrue), a finding in a chunk that is a part of its source      *)
(* (FindingIsTrue); the Builder, whose chunks are parts of what went       *)
(* through it (FinishIs); the split of a blob (NextLineIs) and the parser  *)
(* of a diff (ParsedIs), which put the source through it; and at last the  *)
(* invariant that ties them to the steps of the worker (ContentInv).       *)
(***************************************************************************)
EXTENDS ContentPipeline, FiniteSetTheorems, SequenceTheorems, WellFoundedInduction, TLAPS

\* Induction over the naturals, for a set.
LEMMA Induction ==
  ASSUME NEW S, 0 \in S, \A n \in Nat : n \in S => n + 1 \in S
  PROVE  \A n \in Nat : n \in S
<1> DEFINE T == {n \in Nat : n \notin S}
           R == OpToRel(<, Nat)
<1> SUFFICES ASSUME T # {} PROVE FALSE
  OBVIOUS
<1>1. IsWellFoundedOn(R, Nat)
  BY NatLessThanWellFounded
<1>2. PICK x \in T : \A y \in T : <<y, x>> \notin R
  <2> HIDE DEF R, T
  <2>1. T \subseteq Nat
    BY DEF T
  <2> QED BY <1>1, <2>1, WFMin
<1>3. x # 0 /\ x - 1 \in Nat /\ x \in Nat
  OBVIOUS
<1>4. x - 1 \in T
  BY <1>3
<1>5. <<x - 1, x>> \in R
  BY <1>3 DEF OpToRel
<1> QED BY <1>2, <1>4, <1>5

\* A recursion over 1..N with its values in S.
StepsIn(S, N, base, step) == N \in Nat /\ base \in S /\ step \in [1..N -> [S -> S]]

\* The function it computes.
Runs(S, N, base, step, f) ==
  /\ f \in [1..N -> S]
  /\ \A i \in 1..N : f[i] = IF i = 1 THEN base ELSE step[i][f[i - 1]]

\* It computes one.
LEMMA Recursion ==
  ASSUME NEW S, NEW N, NEW base, NEW step, StepsIn(S, N, base, step)
  PROVE  \E f : Runs(S, N, base, step, f)
<1>0. N \in Nat /\ base \in S /\ step \in [1..N -> [S -> S]]
  BY DEF StepsIn
<1> DEFINE Good(n, f) == \A i \in 1..n : f[i] = IF i = 1 THEN base ELSE step[i][f[i - 1]]
           T == {n \in Nat : n <= N => \E f \in [1..n -> S] : Good(n, f)}
<1>1. 0 \in T
  <2>1. [i \in 1..0 |-> base] \in [1..0 -> S] /\ Good(0, [i \in 1..0 |-> base])
    OBVIOUS
  <2> QED BY <2>1
<1>2. ASSUME NEW n \in Nat, n \in T PROVE n + 1 \in T
  <2>1. CASE n + 1 <= N
    <3>1. PICK f \in [1..n -> S] : Good(n, f)
      BY <1>0, <1>2, <2>1
    <3> DEFINE v == IF n = 0 THEN base ELSE step[n + 1][f[n]]
               g == [i \in 1..(n + 1) |-> IF i = n + 1 THEN v ELSE f[i]]
    <3>2. v \in S
      BY <1>0, <2>1
    <3>3. g \in [1..(n + 1) -> S]
      BY <3>2
    <3>4. Good(n + 1, g)
      <4> SUFFICES ASSUME NEW i \in 1..(n + 1)
                   PROVE  g[i] = IF i = 1 THEN base ELSE step[i][g[i - 1]]
        OBVIOUS
      <4>1. CASE i = n + 1
        BY <4>1
      <4>2. CASE i # n + 1
        BY <4>2, <3>1
      <4> QED BY <4>1, <4>2
    <3>5. \E h \in [1..(n + 1) -> S] : Good(n + 1, h)
      <4> HIDE DEF g, Good
      <4> QED BY <3>3, <3>4
    <3> HIDE DEF Good
    <3> QED BY <3>5
  <2>2. CASE ~(n + 1 <= N)
    BY <2>2
  <2> QED BY <2>1, <2>2
<1>3. N \in T
  <2> HIDE DEF T
  <2> QED BY <1>0, <1>1, <1>2, Induction
<1> QED BY <1>0, <1>3 DEF Runs

-----------------------------------------------------------------------------
\* LineStarts: the first row starts at 0, each other behind the one before and its newline.
LEMMA StartsAre ==
  ASSUME NEW rows \in Seq(Row)
  PROVE  /\ LineStarts(rows) \in [1..Len(rows) -> Nat]
         /\ rows # <<>> => LineStarts(rows)[1] = 0
         /\ \A i \in 1..(Len(rows) - 1) :
              LineStarts(rows)[i + 1] = LineStarts(rows)[i] + Len(rows[i].text) + 1
<1> DEFINE N == Len(rows)
           step == [i \in 1..N |-> [s \in Nat |-> IF i = 1 THEN 0 ELSE s + Len(rows[i - 1].text) + 1]]
<1>1. N \in Nat /\ DOMAIN rows = 1..N /\ \A i \in 1..N : Len(rows[i].text) \in Nat
  BY DEF Row
<1>2. step \in [1..N -> [Nat -> Nat]]
  BY <1>1
<1>3. PICK f : Runs(Nat, N, 0, step, f)
  <2>1. StepsIn(Nat, N, 0, step)
    BY <1>1, <1>2 DEF StepsIn
  <2> HIDE DEF step, N
  <2> QED BY <2>1, Recursion
<1>4. \A i \in 1..N : f[i] = IF i = 1 THEN 0 ELSE f[i - 1] + Len(rows[i - 1].text) + 1
  <2> TAKE i \in 1..N
  <2>1. f \in [1..N -> Nat] /\ f[i] = IF i = 1 THEN 0 ELSE step[i][f[i - 1]]
    BY <1>3 DEF Runs
  <2>2. CASE i # 1
    <3>1. step[i] = [s \in Nat |-> s + Len(rows[i - 1].text) + 1]
      BY <2>2
    <3>2. f[i - 1] \in Nat
      <4>1. i - 1 \in 1..N
        BY <1>1, <2>2
      <4> HIDE DEF N
      <4> QED BY <4>1, <2>1
    <3> HIDE DEF step
    <3> QED BY <2>1, <3>1, <3>2, <2>2
  <2> QED BY <2>1, <2>2
<1>5. f = [i \in DOMAIN rows |-> IF i = 1 THEN 0 ELSE f[i - 1] + Len(rows[i - 1].text) + 1]
  <2>1. f = [i \in 1..N |-> f[i]]
    BY <1>3 DEF Runs
  <2> QED BY <2>1, <1>1, <1>4
<1> DEFINE st == LineStarts(rows)
<1>6. st = [i \in DOMAIN rows |-> IF i = 1 THEN 0 ELSE st[i - 1] + Len(rows[i - 1].text) + 1]
  BY <1>5 DEF LineStarts
<1> HIDE DEF st
<1>61. DOMAIN st = 1..N /\ \A i \in 1..N : st[i] = IF i = 1 THEN 0 ELSE st[i - 1] + Len(rows[i - 1].text) + 1
  BY <1>1, <1>6
<1> DEFINE T == {n \in Nat : n + 1 <= N => st[n + 1] \in Nat}
<1>7. \A n \in Nat : n \in T
  <2>1. 0 \in T
    BY <1>1, <1>61
  <2>2. ASSUME NEW n \in Nat, n \in T PROVE n + 1 \in T
    <3>1. CASE n + 2 <= N
      <4>1. n + 2 \in DOMAIN rows /\ n + 1 \in 1..N
        BY <1>1, <3>1
      <4>2. st[n + 2] = st[n + 2 - 1] + Len(rows[n + 2 - 1].text) + 1
        BY <4>1, <1>61
      <4>3. st[n + 1] \in Nat /\ Len(rows[n + 1].text) \in Nat
        BY <4>1, <1>1, <2>2, <3>1
      <4> QED BY <4>2, <4>3
    <3> QED BY <3>1, <1>1
  <2> HIDE DEF T
  <2> QED BY <2>1, <2>2, Induction
<1>8. \A i \in 1..N : st[i] \in Nat
  <2> TAKE i \in 1..N
  <2>1. i - 1 \in T
    <3> HIDE DEF T
    <3> QED BY <1>1, <1>7
  <2> QED BY <1>1, <2>1
<1>9. rows # <<>> => st[1] = 0
  BY <1>1, <1>61
<1>10. \A i \in 1..(N - 1) : st[i + 1] = st[i] + Len(rows[i].text) + 1
  BY <1>1, <1>61
<1>11. st \in [1..N -> Nat]
  <2>1. st = [i \in 1..N |-> st[i]]
    BY <1>1, <1>6
  <2> QED BY <2>1, <1>8
<1> QED BY <1>9, <1>10, <1>11 DEF st

\* What grows step by step grows.
LEMMA StartsGrow ==
  ASSUME NEW N \in Nat, NEW st \in [1..N -> Nat], \A i \in 1..(N - 1) : st[i] < st[i + 1]
  PROVE  \A i, j \in 1..N : i < j => st[i] < st[j]
<1> DEFINE T == {d \in Nat : \A i \in 1..N : i + d + 1 <= N => st[i] < st[i + d + 1]}
<1>1. 0 \in T
  OBVIOUS
<1>2. ASSUME NEW d \in Nat, d \in T PROVE d + 1 \in T
  <2> SUFFICES ASSUME NEW i \in 1..N, i + d + 2 <= N PROVE st[i] < st[i + d + 2]
    OBVIOUS
  <2>1. st[i] < st[i + d + 1]
    BY <1>2
  <2>2. i + d + 1 \in 1..(N - 1)
    OBVIOUS
  <2>3. st[i + d + 1] < st[i + d + 1 + 1]
    BY <2>2
  <2> QED BY <2>1, <2>3, <2>2
<1> TAKE i, j \in 1..N
<1> HAVE i < j
<1>3. j - i - 1 \in Nat
  OBVIOUS
<1>4. j - i - 1 \in T
  <2> HIDE DEF T
  <2> QED BY <1>1, <1>2, <1>3, Induction
<1> QED BY <1>4

\* What the bisection between lo and hi looks for: the last row that starts at off or before.
Locates(st, off, lo, hi, x) ==
  IF lo < hi
    THEN x \in lo..hi /\ (x = lo \/ st[x] <= off) /\ \A j \in (x + 1)..hi : off < st[j]
    ELSE x = lo

\* Growing offsets.
IsStarts(st, N) ==
  /\ N \in Nat /\ st \in [1..N -> Nat]
  /\ \A i \in 1..(N - 1) : st[i] < st[i + 1]

\* There is one such row at most.
LEMMA LocatesOne ==
  ASSUME NEW st, NEW N, IsStarts(st, N), NEW off \in Nat,
         NEW lo \in 1..N, NEW hi \in 1..N, NEW x, Locates(st, off, lo, hi, x),
         NEW y, Locates(st, off, lo, hi, y)
  PROVE  x = y
<1>1. N \in Nat /\ \A j \in 1..N : st[j] \in Nat
  BY DEF IsStarts
<1>2. CASE ~(lo < hi)
  BY <1>2 DEF Locates
<1>3. CASE lo < hi
  <2>1. /\ x \in lo..hi /\ (x = lo \/ st[x] <= off) /\ \A j \in (x + 1)..hi : off < st[j]
        /\ y \in lo..hi /\ (y = lo \/ st[y] <= off) /\ \A j \in (y + 1)..hi : off < st[j]
    BY <1>3 DEF Locates
  <2>2. CASE x < y
    <3>1. y \in (x + 1)..hi /\ y # lo /\ st[y] \in Nat
      BY <1>1, <2>1, <2>2
    <3> QED BY <2>1, <3>1
  <2>3. CASE y < x
    <3>1. x \in (y + 1)..hi /\ x # lo /\ st[x] \in Nat
      BY <1>1, <2>1, <2>3
    <3> QED BY <2>1, <3>1
  <2> QED BY <1>1, <2>1, <2>2, <2>3
<1> QED BY <1>2, <1>3

\* Each step of the bisection goes on in the half that has it.
LEMMA LocatesHalves ==
  ASSUME NEW st, NEW N, IsStarts(st, N), NEW off \in Nat,
         NEW lo \in 1..N, NEW hi \in 1..N, lo < hi,
         NEW mid, mid = (lo + hi + 1) \div 2, NEW x
  PROVE  /\ mid \in 1..N /\ mid - 1 \in 1..N /\ lo < mid /\ mid <= hi
         /\ st[mid] <= off /\ Locates(st, off, mid, hi, x) => Locates(st, off, lo, hi, x)
         /\ ~(st[mid] <= off) /\ Locates(st, off, lo, mid - 1, x) => Locates(st, off, lo, hi, x)
<1>1. mid \in 1..N /\ mid - 1 \in 1..N /\ lo < mid /\ mid <= hi /\ mid \in Int
  BY DEF IsStarts
<1>2. ASSUME st[mid] <= off, Locates(st, off, mid, hi, x) PROVE Locates(st, off, lo, hi, x)
  BY <1>1, <1>2 DEF Locates, IsStarts
<1>3. ASSUME ~(st[mid] <= off), Locates(st, off, lo, mid - 1, x) PROVE Locates(st, off, lo, hi, x)
  <2>1. \A j \in mid..hi : off < st[j]
    <3> TAKE j \in mid..hi
    <3>1. j \in 1..N /\ st[mid] \in Nat /\ st[j] \in Nat
      BY <1>1 DEF IsStarts
    <3>2. j = mid \/ st[mid] < st[j]
      <4>1. N \in Nat /\ st \in [1..N -> Nat] /\ \A i \in 1..(N - 1) : st[i] < st[i + 1]
        BY DEF IsStarts
      <4>2. \A i, k \in 1..N : i < k => st[i] < st[k]
        BY <4>1, StartsGrow
      <4>3. j = mid \/ mid < j
        BY <1>1, <3>1
      <4> QED BY <1>1, <3>1, <4>2, <4>3
    <3> QED BY <1>3, <3>1, <3>2
  <2> QED BY <1>1, <1>3, <2>1 DEF Locates
<1> QED BY <1>1, <1>2, <1>3

\* There is such a row.
LEMMA SomeLocates ==
  ASSUME NEW st, NEW N, IsStarts(st, N), NEW off \in Nat,
         NEW lo \in 1..N, NEW hi \in 1..N
  PROVE  \E x \in 1..N : Locates(st, off, lo, hi, x)
<1>1. CASE ~(lo < hi)
  BY <1>1 DEF Locates
<1>2. CASE lo < hi
  <2> DEFINE T == {d \in Nat : hi - d >= lo => \/ \E x \in lo..hi : st[x] <= off /\ \A j \in (x + 1)..hi : off < st[j]
                                              \/ \A j \in (hi - d)..hi : off < st[j]}
  <2>1. hi \in Nat /\ lo \in Nat /\ \A j \in lo..hi : st[j] \in Nat
    BY DEF IsStarts
  <2>2. 0 \in T
    <3>1. CASE st[hi] <= off
      BY <3>1, <2>1
    <3>2. CASE off < st[hi]
      BY <3>2, <2>1
    <3> QED BY <3>1, <3>2, <2>1, <1>2
  <2>3. ASSUME NEW d \in Nat, d \in T PROVE d + 1 \in T
    <3> SUFFICES ASSUME hi - (d + 1) >= lo, \A j \in (hi - d)..hi : off < st[j]
                 PROVE  \/ \E x \in lo..hi : st[x] <= off /\ \A j \in (x + 1)..hi : off < st[j]
                        \/ \A j \in (hi - (d + 1))..hi : off < st[j]
      BY <2>3, <2>1
    <3> DEFINE e == hi - (d + 1)
    <3>1. e \in lo..hi /\ e + 1 = hi - d /\ st[e] \in Nat
      BY <2>1
    <3> HIDE DEF e
    <3>2. CASE st[e] <= off
      BY <3>1, <3>2
    <3>3. CASE off < st[e]
      <4>1. \A j \in e..hi : j = e \/ j \in (hi - d)..hi
        BY <3>1, <2>1
      <4> QED BY <4>1, <3>3 DEF e
    <3> QED BY <3>1, <3>2, <3>3
  <2>4. hi - lo - 1 \in Nat
    BY <1>2, <2>1
  <2>5. hi - lo - 1 \in T
    <3> HIDE DEF T
    <3> QED BY <2>2, <2>3, <2>4, Induction
  <2>6. CASE \E x \in lo..hi : st[x] <= off /\ \A j \in (x + 1)..hi : off < st[j]
    <3>1. PICK x \in lo..hi : st[x] <= off /\ \A j \in (x + 1)..hi : off < st[j]
      BY <2>6
    <3>2. x \in 1..N
      BY <3>1, <2>1 DEF IsStarts
    <3>3. Locates(st, off, lo, hi, x)
      BY <3>1, <1>2 DEF Locates
    <3> QED BY <3>2, <3>3
  <2>7. CASE \A j \in (lo + 1)..hi : off < st[j]
    <3>1. Locates(st, off, lo, hi, lo)
      BY <2>7, <1>2, <2>1 DEF Locates
    <3> QED BY <3>1
  <2>8. hi - (hi - lo - 1) = lo + 1 /\ hi - (hi - lo - 1) >= lo
    BY <2>1
  <2> QED BY <2>5, <2>6, <2>7, <2>8
<1> QED BY <1>1, <1>2

\* LineAt finds the row of an offset.
LEMMA LineAtIs ==
  ASSUME NEW st, NEW N, IsStarts(st, N), N # 0, st[1] = 0, Len(st) = N, NEW off \in Nat
  PROVE  /\ LineAt(st, off) \in 1..N
         /\ st[LineAt(st, off)] <= off
         /\ \A j \in 1..N : LineAt(st, off) < j => off < st[j]
<1> DEFINE D == 1..N
<1>0. DOMAIN st = D /\ N \in Nat
  BY DEF IsStarts
<1> DEFINE g == [w \in D \X D |-> CHOOSE x \in D : Locates(st, off, w[1], w[2], x)]
<1>2. \A lo, hi \in D : g[<<lo, hi>>] \in D /\ Locates(st, off, lo, hi, g[<<lo, hi>>])
  <2> TAKE lo, hi \in D
  <2>1. \E x \in D : Locates(st, off, lo, hi, x)
    BY SomeLocates
  <2>2. g[<<lo, hi>>] = CHOOSE x \in D : Locates(st, off, lo, hi, x)
    OBVIOUS
  <2> QED BY <2>1, <2>2
<1> DEFINE Searches(f) ==
             \A lo, hi \in D : \A mid : mid = (lo + hi + 1) \div 2 =>
               f[<<lo, hi>>] = IF lo >= hi THEN lo
                               ELSE IF st[mid] <= off THEN f[<<mid, hi>>] ELSE f[<<lo, mid - 1>>]
           Rec(f) == f = [w \in D \X D |->
                            LET lo == w[1]  hi == w[2]  mid == (lo + hi + 1) \div 2
                            IN  IF lo >= hi THEN lo
                                ELSE IF st[mid] <= off THEN f[<<mid, hi>>]
                                     ELSE f[<<lo, mid - 1>>]]
           search == CHOOSE f : Rec(f)
<1>3. Searches(g)
  <2> SUFFICES ASSUME NEW lo \in D, NEW hi \in D, NEW mid, mid = (lo + hi + 1) \div 2
               PROVE  g[<<lo, hi>>] = IF lo >= hi THEN lo
                               ELSE IF st[mid] <= off THEN g[<<mid, hi>>] ELSE g[<<lo, mid - 1>>]
    OBVIOUS
  <2> HIDE DEF g
  <2>1. Locates(st, off, lo, hi, g[<<lo, hi>>])
    BY <1>2
  <2>2. CASE lo >= hi
    BY <2>1, <2>2, <1>0 DEF Locates
  <2>3. CASE lo < hi
    <3>1. mid \in D /\ mid - 1 \in D
      BY <2>3, LocatesHalves
    <3>2. Locates(st, off, mid, hi, g[<<mid, hi>>]) /\ Locates(st, off, lo, mid - 1, g[<<lo, mid - 1>>])
      BY <3>1, <1>2
    <3>3. CASE st[mid] <= off
      <4>1. Locates(st, off, lo, hi, g[<<mid, hi>>])
        BY <3>2, <3>3, <2>3, LocatesHalves
      <4>2. g[<<lo, hi>>] = g[<<mid, hi>>]
        BY <4>1, <2>1, LocatesOne
      <4> QED BY <4>2, <3>3, <2>3, <1>0
    <3>4. CASE ~(st[mid] <= off)
      <4>1. Locates(st, off, lo, hi, g[<<lo, mid - 1>>])
        BY <3>2, <3>4, <2>3, LocatesHalves
      <4>2. g[<<lo, hi>>] = g[<<lo, mid - 1>>]
        BY <4>1, <2>1, LocatesOne
      <4> QED BY <4>2, <3>4, <2>3, <1>0
    <3> QED BY <3>3, <3>4
  <2> QED BY <2>2, <2>3, <1>0
<1>4. Rec(g)
  <2>1. \A w \in D \X D : g[w] = LET lo == w[1]  hi == w[2]  mid == (lo + hi + 1) \div 2
            IN  IF lo >= hi THEN lo
                ELSE IF st[mid] <= off THEN g[<<mid, hi>>] ELSE g[<<lo, mid - 1>>]
    <3> HIDE DEF g
    <3> TAKE w \in D \X D
    <3>1. PICK lo \in D, hi \in D : w = <<lo, hi>>
      OBVIOUS
    <3> DEFINE mid == (lo + hi + 1) \div 2
    <3>2. g[<<lo, hi>>] = IF lo >= hi THEN lo
                          ELSE IF st[mid] <= off THEN g[<<mid, hi>>] ELSE g[<<lo, mid - 1>>]
      BY <1>3
    <3> QED BY <3>1, <3>2
  <2>2. g = [w \in D \X D |-> g[w]]
    OBVIOUS
  <2> HIDE DEF g
  <2> QED BY <2>1, <2>2
<1>5. Rec(search)
  <2> HIDE DEF Rec
  <2> QED BY <1>4
<1>6. LineAt(st, off) = search[<<1, N>>]
  BY <1>0 DEF LineAt
<1> HIDE DEF search
<1>61. Searches(search)
  <2>1. \A w \in D \X D : search[w] = LET lo == w[1]  hi == w[2]  mid == (lo + hi + 1) \div 2
            IN  IF lo >= hi THEN lo
                ELSE IF st[mid] <= off THEN search[<<mid, hi>>] ELSE search[<<lo, mid - 1>>]
    BY <1>5
  <2> TAKE lo, hi \in D
  <2>2. <<lo, hi>> \in D \X D
    OBVIOUS
  <2> QED BY <2>1, <2>2
<1> HIDE DEF Rec
<1> DEFINE T == {d \in Nat : \A lo, hi \in D : hi - lo <= d => Locates(st, off, lo, hi, search[<<lo, hi>>])}
<1>7. \A d \in Nat : d \in T
  <2>1. 0 \in T
    <3> SUFFICES ASSUME NEW lo \in D, NEW hi \in D, hi - lo <= 0
                 PROVE  Locates(st, off, lo, hi, search[<<lo, hi>>])
      OBVIOUS
    <3> DEFINE mid == (lo + hi + 1) \div 2
    <3>1. mid = (lo + hi + 1) \div 2
      OBVIOUS
    <3> HIDE DEF mid
    <3>2. lo >= hi
      BY <1>0
    <3>3. search[<<lo, hi>>] = lo
      BY <1>61, <3>2, <3>1
    <3> QED BY <3>2, <3>3, <1>0 DEF Locates
  <2>2. ASSUME NEW d \in Nat, d \in T PROVE d + 1 \in T
    <3> SUFFICES ASSUME NEW lo \in D, NEW hi \in D, hi - lo = d + 1
                 PROVE  Locates(st, off, lo, hi, search[<<lo, hi>>])
      BY <2>2, <1>0
    <3> DEFINE mid == (lo + hi + 1) \div 2
    <3>0. mid = (lo + hi + 1) \div 2 /\ lo < hi
      BY <1>0
    <3> HIDE DEF mid
    <3>1. mid \in D /\ lo < mid /\ mid <= hi /\ mid - 1 \in D
      BY <3>0, LocatesHalves
    <3>2. search[<<lo, hi>>] =
            IF st[mid] <= off THEN search[<<mid, hi>>] ELSE search[<<lo, mid - 1>>]
      <4> HIDE DEF search, g, T
      <4>0. \A m : m = (lo + hi + 1) \div 2 =>
              search[<<lo, hi>>] = IF lo >= hi THEN lo
                                   ELSE IF st[m] <= off THEN search[<<m, hi>>] ELSE search[<<lo, m - 1>>]
        BY <1>61
      <4> HIDE DEF Searches
      <4>1. ~(lo >= hi)
        BY <3>0, <1>0
      <4>2. search[<<lo, hi>>] = IF lo >= hi THEN lo
                                 ELSE IF st[mid] <= off THEN search[<<mid, hi>>] ELSE search[<<lo, mid - 1>>]
        <5>1. mid = (lo + hi + 1) \div 2
          BY <3>0
        <5> QED BY ONLY <4>0, <5>1
      <4> QED BY ONLY <4>1, <4>2
    <3>3. Locates(st, off, mid, hi, search[<<mid, hi>>])
      <4>1. hi - mid <= d
        BY <3>1, <1>0
      <4> QED BY <4>1, <2>2, <3>1
    <3>4. Locates(st, off, lo, mid - 1, search[<<lo, mid - 1>>])
      <4>1. (mid - 1) - lo <= d
        BY <3>1, <1>0
      <4> QED BY <4>1, <2>2, <3>1
    <3> QED BY <3>0, <3>2, <3>3, <3>4, LocatesHalves
  <2> HIDE DEF T
  <2> QED BY <2>1, <2>2, Induction
<1>8. Locates(st, off, 1, N, search[<<1, N>>])
  <2>1. N - 1 \in Nat /\ 1 \in D /\ N \in D
    BY <1>0
  <2>2. N - 1 \in T
    <3> HIDE DEF T
    <3> QED BY <1>7, <2>1
  <2> QED BY <2>1, <2>2
<1>9. LineAt(st, off) = search[<<1, N>>]
  BY <1>6
<1> DEFINE x == search[<<1, N>>]
<1>10. CASE N = 1
  BY <1>8, <1>9, <1>10, <1>0 DEF Locates
<1>11. CASE 1 < N
  <2>1. x \in 1..N /\ (x = 1 \/ st[x] <= off) /\ \A j \in (x + 1)..N : off < st[j]
    BY <1>8, <1>11 DEF Locates
  <2>2. st[x] <= off
    BY <2>1
  <2>3. \A j \in 1..N : x < j => off < st[j]
    BY <2>1
  <2> QED BY <2>1, <2>2, <2>3, <1>9
<1> QED BY <1>0, <1>10, <1>11

-----------------------------------------------------------------------------
\* The types of numbered rows.
LEMMA RowsAre ==
  ASSUME NEW rows \in Seq(Row)
  PROVE  /\ Len(rows) \in Nat /\ DOMAIN rows = 1..Len(rows)
         /\ \A i \in 1..Len(rows) : /\ rows[i] \in Row
                                    /\ rows[i].n \in Nat
                                    /\ rows[i].text \in Seq(Byte)
                                    /\ Len(rows[i].text) \in Nat
<1>1. Len(rows) \in Nat /\ DOMAIN rows = 1..Len(rows) /\ \A i \in 1..Len(rows) : rows[i] \in Row
  OBVIOUS
<1>2. ASSUME NEW r \in Row PROVE r.n \in Nat /\ r.text \in Seq(Byte) /\ Len(r.text) \in Nat
  <2>1. r.n \in Nat /\ r.text \in Seq(Byte)
    BY DEF Row
  <2> QED BY <2>1
<1> QED BY <1>1, <1>2

\* The offsets of rows grow.
LEMMA StartsOfRows ==
  ASSUME NEW rows \in Seq(Row)
  PROVE  /\ IsStarts(LineStarts(rows), Len(rows))
         /\ \A i, j \in 1..Len(rows) : i < j => LineStarts(rows)[i] < LineStarts(rows)[j]
         /\ Len(LineStarts(rows)) = Len(rows)
<1> DEFINE N == Len(rows)
           st == LineStarts(rows)
<1>1. N \in Nat /\ st \in [1..N -> Nat] /\ \A i \in 1..(N - 1) : st[i + 1] = st[i] + Len(rows[i].text) + 1
  BY StartsAre, RowsAre
<1> HIDE DEF st
<1>2. \A i \in 1..(N - 1) : st[i] < st[i + 1]
  <2> TAKE i \in 1..(N - 1)
  <2>1. i \in 1..N /\ st[i] \in Nat /\ Len(rows[i].text) \in Nat
    BY <1>1, RowsAre
  <2> QED BY <1>1, <2>1
<1>3. \A i, j \in 1..N : i < j => st[i] < st[j]
  <2> HIDE DEF N
  <2> QED BY <1>1, <1>2, StartsGrow
<1>4. Len(st) = N
  BY <1>1
<1> QED BY <1>1, <1>2, <1>3, <1>4 DEF IsStarts, st

\* t is the text of the first i rows, each where LineStarts has it.
TextTo(t, rows, st, i) ==
  /\ t \in Seq(Byte) /\ Len(t) = st[i] + Len(rows[i].text)
  /\ \A j \in 1..i : \A k \in 1..Len(rows[j].text) : t[st[j] + k] = rows[j].text[k]
  /\ \A j \in 1..(i - 1) : t[st[j] + Len(rows[j].text) + 1] = Newline

\* One row more.
LEMMA TextToNext ==
  ASSUME NEW rows \in Seq(Row), NEW i \in 1..(Len(rows) - 1), NEW t,
         TextTo(t, rows, LineStarts(rows), i)
  PROVE  TextTo(t \o <<Newline>> \o rows[i + 1].text, rows, LineStarts(rows), i + 1)
<1> DEFINE N == Len(rows)
           st == LineStarts(rows)
           u == t \o <<Newline>>
           v == rows[i + 1].text
           w == u \o v
<1>1. /\ N \in Nat /\ st \in [1..N -> Nat]
      /\ \A j \in 1..(N - 1) : st[j + 1] = st[j] + Len(rows[j].text) + 1
      /\ \A j \in 1..N : Len(rows[j].text) \in Nat
  BY StartsAre, RowsAre
<1>2. \A j, k \in 1..N : j < k => st[j] < st[k]
  BY StartsOfRows
<1>3. v \in Seq(Byte) /\ Newline \in Byte
  BY RowsAre, ChunksAssumption
<1> HIDE DEF st
<1>4. t \in Seq(Byte) /\ Len(t) = st[i] + Len(rows[i].text)
      /\ (\A j \in 1..i : \A k \in 1..Len(rows[j].text) : t[st[j] + k] = rows[j].text[k])
      /\ (\A j \in 1..(i - 1) : t[st[j] + Len(rows[j].text) + 1] = Newline)
  BY DEF TextTo, st
<1>5. u \in Seq(Byte) /\ Len(u) = Len(t) + 1 /\ u[Len(t) + 1] = Newline
      /\ \A x \in 1..Len(t) : u[x] = t[x]
  BY <1>3, <1>4
<1> HIDE DEF u, v
<1>6. w \in Seq(Byte) /\ Len(w) = Len(u) + Len(v) /\ (\A x \in 1..Len(u) : w[x] = u[x])
      /\ \A x \in 1..Len(v) : w[Len(u) + x] = v[x]
  <2>1. /\ w \in Seq(Byte) /\ Len(w) = Len(u) + Len(v)
        /\ \A x \in 1..(Len(u) + Len(v)) : w[x] = IF x <= Len(u) THEN u[x] ELSE v[x - Len(u)]
    BY <1>3, <1>5, ConcatProperties
  <2>2. Len(u) \in Nat /\ Len(v) \in Nat
    BY <1>3, <1>5
  <2>3. \A x \in 1..Len(u) : w[x] = u[x]
    BY <2>1, <2>2
  <2>4. ASSUME NEW x \in 1..Len(v) PROVE w[Len(u) + x] = v[x]
    <3>1. Len(u) + x \in 1..(Len(u) + Len(v)) /\ ~(Len(u) + x <= Len(u)) /\ (Len(u) + x) - Len(u) = x
      BY <2>2
    <3> HIDE DEF w
    <3> QED BY <3>1, <2>1
  <2> QED BY <2>1, <2>3, <2>4
<1> HIDE DEF w
<1>7. i \in 1..N /\ i \in 1..(N - 1) /\ i + 1 \in 1..N /\ st[i] \in Nat /\ Len(t) \in Nat /\ Len(rows[i].text) \in Nat
  <2>1. i \in 1..N /\ i \in 1..(N - 1) /\ i + 1 \in 1..N
    BY <1>1
  <2> QED BY <2>1, <1>1, <1>4
<1>8. st[i + 1] = Len(u)
  BY <1>1, <1>4, <1>5, <1>7
<1>9. Len(w) = st[i + 1] + Len(rows[i + 1].text)
  BY <1>6, <1>8 DEF v
<1> HIDE DEF N
<1>10. ASSUME NEW j \in 1..i PROVE st[j] \in Nat /\ Len(rows[j].text) \in Nat /\ st[j] + Len(rows[j].text) <= Len(t)
  <2>1. j \in 1..N /\ st[j] \in Nat /\ Len(rows[j].text) \in Nat
    BY <1>1, <1>7
  <2>2. CASE j = i
    BY <2>1, <2>2, <1>4
  <2>3. CASE j # i
    <3>1. j \in 1..(N - 1) /\ j + 1 \in 1..N /\ (j + 1 = i \/ j + 1 < i)
      BY <1>1, <1>7, <2>1, <2>3
    <3>2. st[j + 1] = st[j] + Len(rows[j].text) + 1 /\ st[j + 1] \in Nat
      BY <1>1, <3>1
    <3>3. j + 1 = i \/ st[j + 1] < st[i]
      BY <1>2, <1>7, <3>1
    <3>4. st[j + 1] <= st[i]
      BY <3>2, <3>3, <1>7
    <3>5. st[i] <= Len(t)
      BY <1>4, <1>7
    <3> DEFINE a == st[j]  b == Len(rows[j].text)  c == st[j + 1]  d == st[i]  e == Len(t)
    <3>6. c = a + b + 1 /\ c <= d /\ d <= e /\ a \in Nat /\ b \in Nat /\ c \in Nat /\ d \in Nat /\ e \in Nat
      BY <3>2, <3>4, <3>5, <2>1, <1>7
    <3> HIDE DEF a, b, c, d, e
    <3>7. a + b <= e
      BY <3>6
    <3> QED BY <3>7, <2>1 DEF a, b, e
  <2> QED BY <2>2, <2>3
<1>11. \A j \in 1..(i + 1) : \A k \in 1..Len(rows[j].text) : w[st[j] + k] = rows[j].text[k]
  <2> TAKE j \in 1..(i + 1)
  <2> TAKE k \in 1..Len(rows[j].text)
  <2>1. CASE j = i + 1
    BY <2>1, <1>6, <1>8 DEF v
  <2>2. CASE j # i + 1
    <3>1. j \in 1..i
      BY <2>2, <1>7
    <3>2. st[j] + k \in 1..Len(t)
      <4> DEFINE a == st[j]  b == Len(rows[j].text)  c == Len(t)
      <4>1. a \in Nat /\ b \in Nat /\ a + b <= c
        BY <3>1, <1>10
      <4>2. c \in Nat
        BY <1>7
      <4>3. k \in 1..b
        OBVIOUS
      <4> HIDE DEF a, b, c
      <4>4. a + k \in 1..c
        BY <4>1, <4>2, <4>3
      <4> QED BY <4>4 DEF a, c
    <3>3. st[j] + k \in 1..Len(u)
      <4> DEFINE x == st[j] + k  c == Len(t)  d == Len(u)
      <4>1. x \in 1..c /\ d = c + 1 /\ c \in Nat
        BY <3>2, <1>5, <1>7
      <4> HIDE DEF x, c, d
      <4>2. x \in 1..d
        BY <4>1
      <4> QED BY <4>2 DEF x, d
    <3>4. t[st[j] + k] = rows[j].text[k]
      BY <3>1, <1>4
    <3> QED BY <3>2, <3>3, <3>4, <1>5, <1>6
  <2> QED BY <2>1, <2>2
<1>12. \A j \in 1..i : w[st[j] + Len(rows[j].text) + 1] = Newline
  <2> TAKE j \in 1..i
  <2>1. CASE j = i
    <3>1. st[j] + Len(rows[j].text) + 1 = Len(t) + 1 /\ Len(t) + 1 \in 1..Len(u)
      BY <2>1, <1>4, <1>5, <1>7
    <3> QED BY <3>1, <1>5, <1>6
  <2>2. CASE j # i
    <3>1. j \in 1..(i - 1) /\ j + 1 \in 1..i /\ j \in 1..(N - 1)
      BY <2>2, <1>7, <1>1
    <3>2. st[j + 1] = st[j] + Len(rows[j].text) + 1 /\ st[j + 1] \in Nat /\ st[j] \in Nat
          /\ Len(rows[j].text) \in Nat /\ st[j + 1] <= Len(t)
      <4>1. st[j + 1] \in Nat /\ Len(rows[j + 1].text) \in Nat /\ st[j + 1] + Len(rows[j + 1].text) <= Len(t)
        BY <3>1, <1>10
      <4>2. st[j + 1] = st[j] + Len(rows[j].text) + 1 /\ st[j] \in Nat /\ Len(rows[j].text) \in Nat
        BY <3>1, <1>1, <1>10
      <4>3. st[j + 1] <= Len(t)
        BY <4>1, <1>7
      <4> QED BY <4>1, <4>2, <4>3
    <3>3. st[j] + Len(rows[j].text) + 1 \in 1..Len(t)
      BY <3>2, <1>7, SMTT(30)
    <3>4. t[st[j] + Len(rows[j].text) + 1] = Newline
      BY <3>1, <1>4
    <3>5. st[j] + Len(rows[j].text) + 1 \in 1..Len(u)
      BY <3>3, <1>5, <1>7
    <3> QED BY <3>3, <3>4, <3>5, <1>5, <1>6
  <2> QED BY <2>1, <2>2
<1>13. (i + 1) - 1 = i
  BY <1>7
<1> QED BY <1>6, <1>9, <1>11, <1>12, <1>13 DEF TextTo, w, u, v, st

\* In the joined text every row stands where LineStarts has it, a newline between two.
LEMMA JoinedIs ==
  ASSUME NEW rows \in Seq(Row), rows # <<>>
  PROVE  TextTo(Joined(rows), rows, LineStarts(rows), Len(rows))
<1> DEFINE N == Len(rows)
           Rec(f) == f = [i \in DOMAIN rows |->
             IF i = 1 THEN rows[1].text ELSE f[i - 1] \o <<Newline>> \o rows[i].text]
           step == [i \in 1..N |-> [s \in Seq(Byte) |-> s \o <<Newline>> \o rows[i].text]]
<1>1. N \in Nat /\ N # 0 /\ DOMAIN rows = 1..N /\ \A i \in 1..N : rows[i].text \in Seq(Byte)
  BY RowsAre
<1>2. Newline \in Byte
  BY ChunksAssumption
<1>3. step \in [1..N -> [Seq(Byte) -> Seq(Byte)]] /\ rows[1].text \in Seq(Byte)
  BY <1>1, <1>2
<1>4. \A i \in 1..N : \A s \in Seq(Byte) : step[i][s] = s \o <<Newline>> \o rows[i].text
  OBVIOUS
<1>5. PICK f : Runs(Seq(Byte), N, rows[1].text, step, f)
  <2>1. StepsIn(Seq(Byte), N, rows[1].text, step)
    BY <1>1, <1>3 DEF StepsIn
  <2> HIDE DEF step, N
  <2> QED BY <2>1, Recursion
<1> HIDE DEF step
<1>6. Rec(f)
  <2>1. f \in [1..N -> Seq(Byte)] /\ \A i \in 1..N : f[i] = IF i = 1 THEN rows[1].text ELSE step[i][f[i - 1]]
    BY <1>5 DEF Runs
  <2>2. \A i \in 1..N : f[i] = IF i = 1 THEN rows[1].text ELSE f[i - 1] \o <<Newline>> \o rows[i].text
    <3> TAKE i \in 1..N
    <3>1. CASE i # 1
      <4>1. i - 1 \in 1..N
        BY <1>1, <3>1
      <4>2. f[i - 1] \in Seq(Byte)
        <5> HIDE DEF N
        <5> QED BY <2>1, <4>1
      <4> QED BY <2>1, <4>2, <1>4, <3>1
    <3> QED BY <3>1, <2>1
  <2>3. f = [i \in 1..N |-> f[i]]
    BY <2>1
  <2> QED BY <2>2, <2>3, <1>1
<1> DEFINE g == CHOOSE h : Rec(h)
<1>7. Rec(g)
  <2> HIDE DEF Rec
  <2> QED BY <1>6
<1>8. Joined(rows) = g[N]
  BY DEF Joined
<1> HIDE DEF g
<1>9. \A i \in 1..N : g[i] = IF i = 1 THEN rows[1].text ELSE g[i - 1] \o <<Newline>> \o rows[i].text
  BY <1>1, <1>7
<1> HIDE DEF Rec
<1> DEFINE st == LineStarts(rows)
           T == {n \in Nat : n + 1 <= N => TextTo(g[n + 1], rows, st, n + 1)}
<1>10. 0 \in T
  <2>1. 1 \in 1..N /\ g[1] = rows[1].text /\ st[1] = 0 /\ Len(rows[1].text) \in Nat
    BY <1>1, <1>9, StartsAre, RowsAre
  <2> HIDE DEF st
  <2>2. TextTo(g[1], rows, st, 1)
    BY <2>1, <1>3 DEF TextTo
  <2> QED BY <2>2
<1>11. ASSUME NEW n \in Nat, n \in T PROVE n + 1 \in T
  <2>1. CASE n + 2 <= N
    <3>1. n + 1 \in 1..(N - 1) /\ n + 2 \in 1..N /\ n + 1 <= N
      BY <1>1, <2>1
    <3>2. TextTo(g[n + 1], rows, st, n + 1)
      BY <1>11, <3>1
    <3>3. TextTo(g[n + 1] \o <<Newline>> \o rows[n + 2].text, rows, st, n + 2)
      <4>1. (n + 1) + 1 = n + 2
        OBVIOUS
      <4> QED BY <3>1, <3>2, <4>1, TextToNext
    <3>4. g[n + 2] = g[n + 1] \o <<Newline>> \o rows[n + 2].text
      <4>1. n + 2 # 1 /\ (n + 2) - 1 = n + 1
        OBVIOUS
      <4> QED BY <4>1, <1>9, <3>1
    <3>5. (n + 1) + 1 = n + 2
      OBVIOUS
    <3>6. TextTo(g[n + 2], rows, st, n + 2)
      BY <3>3, <3>4
    <3> HIDE DEF st
    <3> QED BY <3>5, <3>6
  <2> QED BY <2>1, <1>1
<1>12. N - 1 \in Nat /\ (N - 1) + 1 = N
  BY <1>1
<1>13. N - 1 \in T
  <2> HIDE DEF T
  <2> QED BY <1>10, <1>11, <1>12, Induction
<1> QED BY <1>8, <1>12, <1>13
-----------------------------------------------------------------------------
\* A match lies within the text.
LEMMA FindAllIs ==
  ASSUME NEW text \in Seq(Byte), NEW pattern \in Seq(SUBSET Byte), pattern # <<>>,
         NEW j, j \in FindAll(text, pattern)
  PROVE  j \in Nat \ {0} /\ j + Len(pattern) <= Len(text) + 1
<1> DEFINE L == Len(text)
           P == Len(pattern)
           S == SUBSET Nat
           M(i) == MatchesAt(text, pattern, i)
           Rec(f) == f = [i \in 1..(L + 1) |->
                            IF i + P > L + 1 THEN {}
                            ELSE IF M(i) THEN {i} \cup f[i + P] ELSE f[i + 1]]
           Eqn(f, i) == f[i] = IF i + P > L + 1 THEN {}
                               ELSE IF M(i) THEN {i} \cup f[i + P] ELSE f[i + 1]
           D(n) == (L + 1 - n)..(L + 1)
           T == {n \in Nat : n <= L => \E f \in [D(n) -> S] : \A i \in D(n) : Eqn(f, i)}
<1>1. L \in Nat /\ P \in Nat /\ P > 0
  <2>1. L \in Nat /\ P \in Nat
    OBVIOUS
  <2>2. P # 0
    OBVIOUS
  <2> QED BY <2>1, <2>2
<1> HIDE DEF L, P, M
<1>2. 0 \in T
  <2> DEFINE f == [i \in D(0) |-> {}]
  <2>1. f \in [D(0) -> S] /\ \A i \in D(0) : Eqn(f, i)
    BY <1>1
  <2> HIDE DEF f, Eqn
  <2> QED BY <2>1
<1>3. ASSUME NEW n \in Nat, n \in T PROVE n + 1 \in T
  <2> SUFFICES ASSUME n + 1 <= L PROVE \E f \in [D(n + 1) -> S] : \A i \in D(n + 1) : Eqn(f, i)
    <3> HIDE DEF D, Eqn
    <3> QED OBVIOUS
  <2>1. PICK f \in [D(n) -> S] : \A i \in D(n) : Eqn(f, i)
    <3>1. n <= L
      BY <1>1
    <3> HIDE DEF D, Eqn
    <3> QED BY <3>1, <1>3
  <2> DEFINE a == L + 1 - (n + 1)
             v == IF a + P > L + 1 THEN {} ELSE IF M(a) THEN {a} \cup f[a + P] ELSE f[a + 1]
             g == [i \in D(n + 1) |-> IF i = a THEN v ELSE f[i]]
  <2>2. /\ a \in Nat /\ a \in D(n + 1) /\ a \notin D(n) /\ a + 1 \in D(n) /\ D(n + 1) = {a} \cup D(n)
        /\ a + P > L + 1 \/ a + P \in D(n)
        /\ \A i \in D(n) : i # a /\ i \in D(n + 1) /\ i + 1 # a /\ i + P # a
                           /\ (i + P > L + 1 \/ (i + P \in D(n) /\ i + P \in D(n + 1) /\ i + 1 \in D(n) /\ i + 1 \in D(n + 1)))
    BY <1>1, SMTT(30)
  <2> HIDE DEF a
  <2>3. v \in S
    <3>1. f[a + 1] \in S /\ (a + P \in D(n) => f[a + P] \in S)
      <4> HIDE DEF D
      <4> QED BY <2>2
    <3> QED BY <2>2, <3>1
  <2> HIDE DEF v
  <2>4. g \in [D(n + 1) -> S]
    <3>1. \A i \in D(n) : f[i] \in S
      OBVIOUS
    <3> HIDE DEF D
    <3> QED BY <2>2, <2>3, <3>1
  <2>5. \A i \in D(n + 1) : g[i] = IF i = a THEN v ELSE f[i]
    OBVIOUS
  <2> HIDE DEF g
  <2>6. Eqn(g, a)
    <3>1. g[a] = v /\ g[a + 1] = f[a + 1] /\ (a + P \in D(n) => g[a + P] = f[a + P])
      <4> HIDE DEF D
      <4> QED BY <2>2, <2>5
    <3> QED BY <3>1, <2>2 DEF v
  <2>7. \A i \in D(n) : Eqn(g, i)
    <3> TAKE i \in D(n)
    <3>1. Eqn(f, i) /\ g[i] = f[i]
      <4>1. i # a /\ i \in D(n + 1)
        BY <2>2
      <4> QED BY <2>1, <2>5, <4>1
    <3>2. i + P > L + 1 \/ (g[i + P] = f[i + P] /\ g[i + 1] = f[i + 1])
      <4>1. i + P > L + 1 \/ (i + P \in D(n + 1) /\ i + P # a /\ i + 1 \in D(n + 1) /\ i + 1 # a)
        BY <2>2
      <4> QED BY <2>5, <4>1
    <3> QED BY <3>1, <3>2
  <2>8. \A i \in D(n + 1) : Eqn(g, i)
    <3> HIDE DEF Eqn, D
    <3> QED BY <2>2, <2>6, <2>7
  <2> HIDE DEF Eqn, D
  <2> QED BY <2>4, <2>8
<1>4. L \in T
  <2> HIDE DEF T
  <2> QED BY <1>1, <1>2, <1>3, Induction
<1>5. PICK f \in [1..(L + 1) -> S] : \A i \in 1..(L + 1) : Eqn(f, i)
  <2>1. L + 1 - L = 1
    BY <1>1
  <2> HIDE DEF Eqn
  <2> QED BY <1>1, <1>4, <2>1
<1>6. Rec(f)
  <2>1. f = [i \in 1..(L + 1) |-> f[i]]
    BY <1>5
  <2> QED BY <2>1, <1>5
<1> DEFINE from == CHOOSE h : Rec(h)
<1>7. Rec(from)
  <2> HIDE DEF Rec
  <2> QED BY <1>6
<1>8. FindAll(text, pattern) = from[1]
  BY DEF FindAll, L, P, M
<1> HIDE DEF from
<1>9. \A i \in 1..(L + 1) : Eqn(from, i)
  BY <1>7
<1> HIDE DEF Rec
<1> DEFINE Good(i) == \A x \in from[i] : x \in Nat /\ x >= i /\ x + P <= L + 1
           U == {n \in Nat : \A i \in 1..(L + 1) : L + 1 - i <= n => Good(i)}
<1>10. 0 \in U
  <2> SUFFICES ASSUME NEW i \in 1..(L + 1), L + 1 - i <= 0 PROVE Good(i)
    OBVIOUS
  <2>1. i + P > L + 1
    BY <1>1
  <2>2. from[i] = {}
    BY <2>1, <1>9
  <2> QED BY <2>2
<1>11. ASSUME NEW n \in Nat, n \in U PROVE n + 1 \in U
  <2> SUFFICES ASSUME NEW i \in 1..(L + 1), L + 1 - i <= n + 1 PROVE Good(i)
    OBVIOUS
  <2>1. CASE i + P > L + 1
    <3>1. from[i] = {}
      BY <2>1, <1>9
    <3> QED BY <3>1
  <2>2. CASE ~(i + P > L + 1)
    <3>1. i + P \in 1..(L + 1) /\ i + 1 \in 1..(L + 1) /\ L + 1 - (i + P) <= n /\ L + 1 - (i + 1) <= n
          /\ i \in Nat /\ i + P <= L + 1 /\ i + P >= i
      BY <2>2, <1>1
    <3>2. Good(i + P) /\ Good(i + 1)
      BY <3>1, <1>11
    <3>3. from[i] = {i} \cup from[i + P] \/ from[i] = from[i + 1]
      BY <1>9, <2>2
    <3>4. ASSUME NEW x \in from[i] PROVE x \in Nat /\ x >= i /\ x + P <= L + 1
      <4>1. x = i \/ x \in from[i + P] \/ x \in from[i + 1]
        BY <3>3
      <4>2. CASE x = i
        BY <4>2, <3>1
      <4>3. CASE x \in from[i + P]
        BY <4>3, <3>2, <3>1, <1>1
      <4>4. CASE x \in from[i + 1]
        BY <4>4, <3>2, <3>1, <1>1
      <4> QED BY <4>1, <4>2, <4>3, <4>4
    <3> QED BY <3>4
  <2> QED BY <2>1, <2>2
<1>12. L \in U
  <2> HIDE DEF U
  <2> QED BY <1>1, <1>10, <1>11, Induction
<1>13. Good(1)
  <2>1. 1 \in 1..(L + 1) /\ L + 1 - 1 <= L
    BY <1>1
  <2> HIDE DEF Good
  <2> QED BY <2>1, <1>12
<1>14. j \in from[1]
  BY <1>8
<1>15. j \in Nat /\ j >= 1 /\ j + P <= L + 1
  BY <1>13, <1>14
<1> QED BY <1>15 DEF L, P

\* The offsets of consecutive rows are those in the whole, shifted.
LEMMA StartsOfPart ==
  ASSUME NEW rows \in Seq(Row), NEW sub \in Seq(Row), NEW p \in 1..Len(rows),
         p + Len(sub) <= Len(rows) + 1, \A k \in 1..Len(sub) : sub[k] = rows[p + k - 1]
  PROVE  \A k \in 1..Len(sub) : LineStarts(rows)[p + k - 1] = LineStarts(rows)[p] + LineStarts(sub)[k]
<1> DEFINE N == Len(rows)
           M == Len(sub)
           st == LineStarts(rows)
           ss == LineStarts(sub)
           T == {n \in Nat : n + 1 <= M => st[p + n] = st[p] + ss[n + 1]}
<1>1. /\ N \in Nat /\ st \in [1..N -> Nat]
      /\ \A j \in 1..(N - 1) : st[j + 1] = st[j] + Len(rows[j].text) + 1
      /\ \A j \in 1..N : Len(rows[j].text) \in Nat
  BY StartsAre, RowsAre
<1>2. /\ M \in Nat /\ ss \in [1..M -> Nat] /\ (M # 0 => ss[1] = 0)
      /\ \A j \in 1..(M - 1) : ss[j + 1] = ss[j] + Len(sub[j].text) + 1
      /\ \A j \in 1..M : Len(sub[j].text) \in Nat
  <2>1. M # 0 => sub # <<>>
    OBVIOUS
  <2> QED BY <2>1, StartsAre, RowsAre
<1> HIDE DEF st, ss
<1>3. 0 \in T
  <2>1. st[p] \in Nat
    BY <1>1
  <2> QED BY <2>1, <1>2
<1>4. ASSUME NEW n \in Nat, n \in T PROVE n + 1 \in T
  <2>1. CASE n + 2 <= M
    <3>1. p + n \in 1..(N - 1) /\ n + 1 \in 1..(M - 1) /\ n + 1 \in 1..M /\ p + (n + 1) - 1 = p + n
          /\ (p + n) + 1 = p + (n + 1) /\ n + 1 <= M
      BY <2>1, <1>1, <1>2
    <3>2. sub[n + 1] = rows[p + n]
      <4>1. sub[n + 1] = rows[p + (n + 1) - 1]
        BY <3>1
      <4> QED BY <4>1, <3>1
    <3>3. st[p + (n + 1)] = st[p + n] + Len(rows[p + n].text) + 1
      BY <3>1, <1>1
    <3>4. ss[(n + 1) + 1] = ss[n + 1] + Len(sub[n + 1].text) + 1
      BY <3>1, <1>2
    <3>5. st[p + n] = st[p] + ss[n + 1]
      BY <1>4, <3>1
    <3>6. st[p] \in Nat /\ ss[n + 1] \in Nat /\ Len(sub[n + 1].text) \in Nat
      BY <3>1, <1>1, <1>2
    <3>7. st[p + (n + 1)] = st[p] + ss[(n + 1) + 1]
      <4> DEFINE a == st[p + (n + 1)]  b == st[p + n]  c == Len(rows[p + n].text)
                 d == ss[(n + 1) + 1]  e == ss[n + 1]  f == st[p]
      <4>1. a = b + c + 1 /\ d = e + c + 1 /\ b = f + e /\ e \in Nat /\ f \in Nat /\ c \in Nat
        BY <3>2, <3>3, <3>4, <3>5, <3>6
      <4> HIDE DEF a, b, c, d, e, f
      <4>2. a = f + d
        BY <4>1
      <4> QED BY <4>2 DEF a, d, f
    <3> QED BY <3>7
  <2> QED BY <2>1, <1>2
<1>5. ASSUME NEW k \in 1..M PROVE st[p + k - 1] = st[p] + ss[k]
  <2>1. k - 1 \in Nat /\ (k - 1) + 1 = k /\ k <= M /\ p + (k - 1) = p + k - 1
    BY <1>2
  <2>2. k - 1 \in T
    <3> HIDE DEF T
    <3> QED BY <1>3, <1>4, <2>1, Induction
  <2> QED BY <2>1, <2>2
<1> QED BY <1>5 DEF st, ss

\* The text of consecutive rows stands in the joined text of all of them.
LEMMA JoinedPart ==
  ASSUME NEW rows \in Seq(Row), NEW sub \in Seq(Row), sub # <<>>, NEW p \in 1..Len(rows),
         p + Len(sub) <= Len(rows) + 1, \A k \in 1..Len(sub) : sub[k] = rows[p + k - 1]
  PROVE  LET q == p + Len(sub) - 1
         IN  /\ LineStarts(rows)[p] + Len(Joined(sub)) = LineStarts(rows)[q] + Len(rows[q].text)
             /\ \A x \in 1..Len(Joined(sub)) : Joined(sub)[x] = Joined(rows)[LineStarts(rows)[p] + x]
<1> DEFINE N == Len(rows)
           M == Len(sub)
           q == p + M - 1
           st == LineStarts(rows)
           ss == LineStarts(sub)
           J == Joined(rows)
           JS == Joined(sub)
<1>1. N \in Nat /\ M \in Nat /\ M # 0 /\ M \in 1..M /\ q \in 1..N /\ rows # <<>>
  <2>1. N \in Nat /\ M \in Nat /\ M # 0 /\ N # 0
    OBVIOUS
  <2> QED BY <2>1
<1>2. /\ st \in [1..N -> Nat] /\ ss \in [1..M -> Nat] /\ ss[1] = 0
      /\ \A j \in 1..(M - 1) : ss[j + 1] = ss[j] + Len(sub[j].text) + 1
      /\ \A j \in 1..M : Len(sub[j].text) \in Nat
  BY StartsAre, RowsAre
<1>3. TextTo(J, rows, st, N) /\ TextTo(JS, sub, ss, M)
  BY JoinedIs, <1>1
<1>4. IsStarts(ss, M) /\ Len(ss) = M
  BY StartsOfRows
<1>5. \A k \in 1..M : st[p + k - 1] = st[p] + ss[k] /\ sub[k] = rows[p + k - 1] /\ p + k - 1 \in 1..N
  <2>1. \A k \in 1..M : st[p + k - 1] = st[p] + ss[k]
    BY StartsOfPart
  <2>2. \A k \in 1..M : p + k - 1 \in 1..N
    BY <1>1
  <2> QED BY <2>1, <2>2
<1>50. p \in 1..N /\ p \in Nat
  BY <1>1
<1> HIDE DEF st, ss, J, JS, N, M
<1>6. /\ JS \in Seq(Byte) /\ Len(JS) = ss[M] + Len(sub[M].text)
      /\ \A j \in 1..M : \A k \in 1..Len(sub[j].text) : JS[ss[j] + k] = sub[j].text[k]
      /\ \A j \in 1..(M - 1) : JS[ss[j] + Len(sub[j].text) + 1] = Newline
  BY <1>3 DEF TextTo
<1>7. /\ \A j \in 1..N : \A k \in 1..Len(rows[j].text) : J[st[j] + k] = rows[j].text[k]
      /\ \A j \in 1..(N - 1) : J[st[j] + Len(rows[j].text) + 1] = Newline
  BY <1>3 DEF TextTo
<1>8. st[p] + Len(JS) = st[q] + Len(rows[q].text)
  <2>1. st[q] = st[p] + ss[M] /\ sub[M] = rows[q]
    BY <1>1, <1>5
  <2>2. st[p] \in Nat /\ ss[M] \in Nat /\ Len(sub[M].text) \in Nat
    BY <1>1, <1>2, <1>50
  <2> HIDE DEF q
  <2> QED BY <2>1, <2>2, <1>6, SMTT(30)
<1>9. ASSUME NEW x \in 1..Len(JS) PROVE JS[x] = J[st[p] + x]
  <2> DEFINE i == LineAt(ss, x - 1)
  <2>1. x - 1 \in Nat /\ Len(JS) \in Nat
    BY <1>6
  <2>2. i \in 1..M /\ ss[i] <= x - 1 /\ \A j \in 1..M : i < j => x - 1 < ss[j]
    <3> HIDE DEF i
    <3> QED BY <2>1, <1>1, <1>2, <1>4, LineAtIs DEF i
  <2> HIDE DEF i
  <2>3. i \in Nat /\ ss[i] \in Nat /\ Len(sub[i].text) \in Nat /\ st[p] \in Nat
    BY <1>1, <1>2, <2>2, <1>50
  <2>4. x \in Nat /\ x > ss[i]
    BY <2>1, <2>2, <2>3
  <2> DEFINE r == p + i - 1
  <2>5. st[r] = st[p] + ss[i] /\ sub[i] = rows[r] /\ r \in 1..N
    BY <1>5, <2>2
  <2> HIDE DEF r
  <2> DEFINE a == ss[i]  b == Len(sub[i].text)  c == st[p]  d == st[r]
  <2>51. a \in Nat /\ b \in Nat /\ c \in Nat /\ d = c + a /\ x \in Nat /\ x > a
    BY <2>3, <2>4, <2>5
  <2>6. CASE x <= ss[i] + Len(sub[i].text)
    <3> DEFINE k == x - ss[i]
    <3>1. k \in 1..Len(sub[i].text) /\ ss[i] + k = x /\ st[r] + k = st[p] + x
      <4>1. x <= a + b
        BY <2>6
      <4> HIDE DEF a, b, c, d
      <4>2. x - a \in 1..b /\ a + (x - a) = x /\ d + (x - a) = c + x
        BY <4>1, <2>51
      <4> QED BY <4>2 DEF a, b, c, d
    <3> HIDE DEF k
    <3>2. JS[ss[i] + k] = sub[i].text[k]
      BY <3>1, <1>6, <2>2
    <3>3. J[st[r] + k] = rows[r].text[k]
      BY <3>1, <1>7, <2>5
    <3> QED BY <3>1, <3>2, <3>3, <2>5
  <2>7. CASE ~(x <= ss[i] + Len(sub[i].text))
    <3>1. i # M
      BY <2>7, <1>6, <2>1, <2>4
    <3>2. i \in 1..(M - 1) /\ i + 1 \in 1..M /\ i < i + 1
      BY <3>1, <2>2, <1>1
    <3>3. ss[i + 1] = ss[i] + Len(sub[i].text) + 1 /\ x - 1 < ss[i + 1] /\ ss[i + 1] \in Nat
      BY <3>2, <1>2, <2>2
    <3>4. x = ss[i] + Len(sub[i].text) + 1
      <4> DEFINE e == ss[i + 1]
      <4>1. ~(x <= a + b) /\ e = a + b + 1 /\ x - 1 < e
        BY <2>7, <3>3
      <4> HIDE DEF a, b, c, d, e
      <4>2. x = a + b + 1
        BY <4>1, <2>51
      <4> QED BY <4>2 DEF a, b
    <3>5. r \in 1..(N - 1)
      <4>1. p + (i + 1) - 1 \in 1..N
        BY <3>2, <1>5
      <4> QED BY <4>1, <2>5, <1>1, <1>50, <2>3 DEF r
    <3>6. JS[ss[i] + Len(sub[i].text) + 1] = Newline
      BY <3>2, <1>6
    <3>7. J[st[r] + Len(rows[r].text) + 1] = Newline
      BY <3>5, <1>7
    <3>8. st[r] + Len(rows[r].text) + 1 = st[p] + x
      <4>1. x = a + b + 1 /\ Len(rows[r].text) = b
        BY <3>4, <2>5
      <4> HIDE DEF a, b, c, d
      <4>2. d + b + 1 = c + x
        BY <4>1, <2>51
      <4> QED BY <4>1, <4>2 DEF c, d
    <3> QED BY <3>4, <3>6, <3>7, <3>8
  <2> QED BY <2>6, <2>7
<1> QED BY <1>8, <1>9 DEF st, J, JS, M
-----------------------------------------------------------------------------
\* Rows numbered one by one, from 1 or later.
IsTruth(truth) ==
  /\ truth \in Seq(Row)
  /\ truth # <<>> => truth[1].n > 0
  /\ \A i \in 1..Len(truth) : truth[i].n = truth[1].n + i - 1

\* A finding reports rows m to l of the truth, with the rows around them.
Around(f, truth, m, l) ==
  /\ m \in 1..Len(truth) /\ l \in m..Len(truth)
  /\ f.line = truth[m].n /\ f.lineEnd = truth[l].n /\ f.matched = truth[m].text
  /\ f.before \in Seq(Seq(Byte)) /\ Len(f.before) < m
  /\ \A k \in 1..Len(f.before) : f.before[k] = truth[m - Len(f.before) + k - 1].text
  /\ f.after \in Seq(Seq(Byte)) /\ l + Len(f.after) <= Len(truth)
  /\ \A k \in 1..Len(f.after) : f.after[k] = truth[l + k].text

\* The elements of a concatenation.
LEMMA ToSetConcat ==
  ASSUME NEW S, NEW s \in Seq(S), NEW t \in Seq(S)
  PROVE  ToSet(s \o t) = ToSet(s) \cup ToSet(t)
<1>1. /\ s \o t \in Seq(S) /\ Len(s \o t) = Len(s) + Len(t)
      /\ \A i \in 1..(Len(s) + Len(t)) : (s \o t)[i] = IF i <= Len(s) THEN s[i] ELSE t[i - Len(s)]
  BY ConcatProperties
<1>2. /\ Len(s) \in Nat /\ Len(t) \in Nat /\ DOMAIN s = 1..Len(s) /\ DOMAIN t = 1..Len(t)
      /\ DOMAIN (s \o t) = 1..(Len(s) + Len(t))
  BY <1>1
<1> DEFINE u == s \o t
<1> HIDE DEF u
<1>3. ASSUME NEW x \in ToSet(u) PROVE x \in ToSet(s) \cup ToSet(t)
  <2>1. PICK i \in 1..(Len(s) + Len(t)) : x = u[i]
    BY <1>2, <1>3 DEF ToSet, u
  <2>2. u[i] = IF i <= Len(s) THEN s[i] ELSE t[i - Len(s)]
    BY <1>1 DEF u
  <2>3. i <= Len(s) => i \in 1..Len(s)
    BY <1>2
  <2>4. ~(i <= Len(s)) => i - Len(s) \in 1..Len(t)
    BY <1>2
  <2> QED BY <2>1, <2>2, <2>3, <2>4, <1>2 DEF ToSet
<1>4. ASSUME NEW i \in 1..Len(s) PROVE s[i] \in ToSet(u)
  <2>1. i \in 1..(Len(s) + Len(t)) /\ i <= Len(s)
    BY <1>2
  <2>2. u[i] = s[i]
    BY <2>1, <1>1 DEF u
  <2> QED BY <2>1, <2>2, <1>2 DEF ToSet, u
<1>5. ASSUME NEW i \in 1..Len(t) PROVE t[i] \in ToSet(u)
  <2>1. Len(s) + i \in 1..(Len(s) + Len(t)) /\ ~(Len(s) + i <= Len(s)) /\ (Len(s) + i) - Len(s) = i
    BY <1>2
  <2>2. u[Len(s) + i] = t[i]
    BY <2>1, <1>1 DEF u
  <2> QED BY <2>1, <2>2, <1>2 DEF ToSet, u
<1> QED BY <1>2, <1>3, <1>4, <1>5 DEF ToSet, u

\* A row of the truth under its number.
LEMMA TruthRow ==
  ASSUME NEW truth, IsTruth(truth), NEW j \in 1..Len(truth), NEW n, n = truth[1].n + j - 1
  PROVE  /\ [n |-> n, text |-> truth[j].text] \in ToSet(truth)
         /\ n \in Numbers(truth) /\ n \in Nat /\ n > 0 /\ [n |-> n, text |-> truth[j].text] = truth[j]
         /\ truth[j] \in Row
<1>1. truth \in Seq(Row) /\ truth # <<>> /\ truth[1].n > 0 /\ truth[j].n = truth[1].n + j - 1
  BY DEF IsTruth
<1>2. Len(truth) \in Nat /\ DOMAIN truth = 1..Len(truth) /\ truth[j] \in Row /\ truth[1] \in Row
  BY <1>1
<1>3. truth[1].n \in Nat
  BY <1>2 DEF Row
<1>4. truth[j] = [n |-> truth[j].n, text |-> truth[j].text]
  BY <1>2 DEF Row
<1>5. truth[j] \in ToSet(truth)
  BY <1>2 DEF ToSet
<1>6. n = truth[j].n
  BY <1>1
<1>7. n \in Nat /\ n > 0
  BY <1>1, <1>3, <1>2
<1>8. n \in Numbers(truth)
  BY <1>5, <1>6 DEF Numbers
<1> QED BY <1>2, <1>4, <1>5, <1>6, <1>7, <1>8

\* Then every line the reports print around it is in the truth, under its number.
LEMMA PrintedIsTrue ==
  ASSUME NEW truth, IsTruth(truth), NEW m, NEW l, NEW f, Around(f, truth, m, l)
  PROVE  /\ [n |-> f.line, text |-> f.matched] \in ToSet(truth)
         /\ SarifRegion(f) \subseteq Numbers(truth)
         /\ ToSet(HtmlLines(f)) \cup ToSet(PdfLines(f)) \subseteq ToSet(truth)
         /\ f.line = f.lineEnd => ToSet(SarifLines(f)) \subseteq ToSet(truth)
<1> DEFINE b == Len(f.before)
           a == Len(f.after)
           one == truth[1].n
           B == NumberedBefore(f)
           A == NumberedAfter(f)
           mid == [n |-> f.line, text |-> f.matched]
<1>1. /\ m \in 1..Len(truth) /\ l \in m..Len(truth) /\ Len(truth) \in Nat /\ truth \in Seq(Row)
      /\ b \in Nat /\ a \in Nat /\ b < m /\ l + a <= Len(truth)
      /\ DOMAIN f.before = 1..b /\ DOMAIN f.after = 1..a
  BY DEF Around, IsTruth
<1>2. /\ \A k \in 1..b : f.before[k] = truth[m - b + k - 1].text
      /\ \A k \in 1..a : f.after[k] = truth[l + k].text
  BY DEF Around
<1>3. f.line = one + m - 1 /\ f.lineEnd = one + l - 1 /\ one \in Nat /\ one > 0
  <2>1. m \in 1..Len(truth) /\ l \in 1..Len(truth) /\ 1 \in 1..Len(truth)
    BY <1>1
  <2>2. truth[m].n = one + m - 1 /\ truth[l].n = one + l - 1
    BY <2>1 DEF IsTruth
  <2>3. one \in Nat /\ one > 0
    <3>1. one = one + 1 - 1
      BY <2>1 DEF IsTruth
    <3> QED BY <2>1, <3>1, TruthRow
  <2> QED BY <2>2, <2>3 DEF Around
<1>4. mid \in ToSet(truth) /\ mid \in Row
  <2>1. f.matched = truth[m].text
    BY DEF Around
  <2> QED BY <1>1, <1>3, <2>1, TruthRow
<1> HIDE DEF one, a, b
<1>5. SarifRegion(f) \subseteq Numbers(truth)
  <2> SUFFICES ASSUME NEW z \in SarifRegion(f) PROVE z \in Numbers(truth)
    OBVIOUS
  <2>0. SarifRegion(f) = f.line..f.lineEnd
    BY <1>1, <1>3 DEF SarifRegion
  <2>1. z \in (one + m - 1)..(one + l - 1)
    BY <2>0, <1>3
  <2>2. z - one + 1 \in 1..Len(truth) /\ z = one + (z - one + 1) - 1
    BY <1>1, <1>3, <2>1
  <2> QED BY <2>2, TruthRow DEF one
<1>6. FirstPrinted(f) = one + (m - b) - 1
  <2>1. FirstPrinted(f) = IF f.line - b < 1 THEN 1 ELSE f.line - b
    BY DEF FirstPrinted, b
  <2>2. f.line - b = one + (m - b) - 1 /\ ~(f.line - b < 1)
    BY <1>1, <1>3
  <2> QED BY <2>1, <2>2
<1>7. B \in Seq(Row) /\ ToSet(B) \subseteq ToSet(truth)
  <2>1. B = [k \in 1..b |-> [n |-> FirstPrinted(f) + k - 1, text |-> f.before[k]]]
    BY <1>1 DEF NumberedBefore
  <2>2. ASSUME NEW k \in 1..b
        PROVE  /\ [n |-> FirstPrinted(f) + k - 1, text |-> f.before[k]] \in ToSet(truth)
               /\ [n |-> FirstPrinted(f) + k - 1, text |-> f.before[k]] \in Row
    <3> DEFINE j == m - b + k - 1
    <3>1. /\ b \in Nat /\ m \in Nat /\ one \in Nat /\ k \in Nat
          /\ k > 0 /\ k <= b /\ b < m /\ m <= Len(truth)
      BY <1>1, <1>3
    <3>2. j \in 1..Len(truth)
      BY <1>1, <3>1
    <3>3. one + (m - b) - 1 + k - 1 = one + (m - b + k - 1) - 1
      BY <3>1
    <3>4. FirstPrinted(f) + k - 1 = one + j - 1
      BY <1>6, <3>3
    <3>5. f.before[k] = truth[j].text
      BY <1>2
    <3> HIDE DEF j
    <3> QED BY <3>2, <3>4, <3>5, TruthRow DEF one
  <2>3. DOMAIN B = 1..b /\ \A k \in 1..b : B[k] \in ToSet(truth) /\ B[k] \in Row
    BY <2>1, <2>2
  <2>4. B \in Seq(Row)
    BY <2>1, <2>2, <1>1
  <2> HIDE DEF B
  <2> QED BY <2>3, <2>4 DEF ToSet
<1>8. A \in Seq(Row) /\ ToSet(A) \subseteq ToSet(truth)
  <2>1. A = [k \in 1..a |-> [n |-> f.lineEnd + k, text |-> f.after[k]]]
    BY <1>1 DEF NumberedAfter
  <2>2. ASSUME NEW k \in 1..a
        PROVE  /\ [n |-> f.lineEnd + k, text |-> f.after[k]] \in ToSet(truth)
               /\ [n |-> f.lineEnd + k, text |-> f.after[k]] \in Row
    <3> DEFINE j == l + k
    <3>1. j \in 1..Len(truth) /\ f.lineEnd + k = one + j - 1
      BY <1>1, <1>3
    <3>2. f.after[k] = truth[j].text
      BY <1>2
    <3> HIDE DEF j
    <3> QED BY <3>1, <3>2, TruthRow DEF one
  <2>3. DOMAIN A = 1..a /\ \A k \in 1..a : A[k] \in ToSet(truth) /\ A[k] \in Row
    BY <2>1, <2>2
  <2>4. A \in Seq(Row)
    BY <2>1, <2>2, <1>1
  <2> HIDE DEF A
  <2> QED BY <2>3, <2>4 DEF ToSet
<1>9. ToSet(HtmlLines(f)) \subseteq ToSet(truth)
  <2>1. <<mid>> \in Seq(Row) /\ ToSet(<<mid>>) \subseteq ToSet(truth)
    <3> HIDE DEF mid
    <3> QED BY <1>4 DEF ToSet
  <2>2. HtmlLines(f) = <<>> \/ HtmlLines(f) = B \o <<mid>> \o A
    BY DEF HtmlLines
  <2> HIDE DEF A, B, mid
  <2>3. B \o <<mid>> \in Seq(Row) /\ ToSet(B \o <<mid>>) \subseteq ToSet(truth)
    <3> DEFINE M == <<mid>>
    <3>1. M \in Seq(Row) /\ ToSet(M) \subseteq ToSet(truth)
      BY <2>1
    <3> HIDE DEF M
    <3>2. ToSet(B \o M) = ToSet(B) \cup ToSet(M) /\ B \o M \in Seq(Row)
      BY <3>1, <1>7, ToSetConcat
    <3> QED BY <3>1, <3>2, <1>7 DEF M
  <2>4. ToSet((B \o <<mid>>) \o A) \subseteq ToSet(truth)
    <3> DEFINE BM == B \o <<mid>>
    <3>1. BM \in Seq(Row) /\ ToSet(BM) \subseteq ToSet(truth)
      BY <2>3
    <3> HIDE DEF BM
    <3>2. A \in Seq(Row) /\ ToSet(A) \subseteq ToSet(truth)
      BY <1>8 DEF A
    <3>3. ToSet(BM \o A) = ToSet(BM) \cup ToSet(A)
      BY ONLY <3>1, <3>2, ToSetConcat
    <3>4. ToSet(BM \o A) \subseteq ToSet(truth)
      BY <3>1, <3>2, <3>3
    <3> QED BY <3>4 DEF BM
  <2>5. ToSet(<<>>) = {}
    BY DEF ToSet
  <2> QED BY <2>2, <2>4, <2>5
<1>10. ToSet(PdfLines(f)) \subseteq ToSet(truth)
  <2>1. PdfLines(f) = B \o A
    BY DEF PdfLines
  <2> HIDE DEF A, B
  <2> QED BY <2>1, <1>7, <1>8, ToSetConcat
<1>11. ASSUME f.line = f.lineEnd PROVE ToSet(SarifLines(f)) \subseteq ToSet(truth)
  <2> DEFINE u == f.before \o <<f.matched>>
             s == u \o f.after
  <2>1. f.before \in Seq(Seq(Byte)) /\ f.after \in Seq(Seq(Byte)) /\ f.matched \in Seq(Byte)
        /\ f.matched = truth[m].text
    BY <1>4 DEF Around, Row
  <2>2. u \in Seq(Seq(Byte)) /\ Len(u) = b + 1 /\ u[b + 1] = f.matched /\ \A k \in 1..b : u[k] = f.before[k]
    <3> DEFINE be == f.before  ma == f.matched
    <3>1. be \in Seq(Seq(Byte)) /\ ma \in Seq(Byte) /\ b = Len(be)
      BY <2>1 DEF b
    <3> HIDE DEF be, ma, b
    <3>2. be \o <<ma>> \in Seq(Seq(Byte)) /\ Len(be \o <<ma>>) = b + 1 /\ (be \o <<ma>>)[b + 1] = ma
          /\ \A k \in 1..b : (be \o <<ma>>)[k] = be[k]
      BY <3>1
    <3> QED BY <3>2 DEF be, ma
  <2> HIDE DEF u
  <2>3. s \in Seq(Seq(Byte)) /\ Len(s) = b + 1 + a
        /\ \A k \in 1..(b + 1 + a) : s[k] = IF k <= b + 1 THEN u[k] ELSE f.after[k - (b + 1)]
    <3> DEFINE af == f.after
    <3>1. af \in Seq(Seq(Byte)) /\ a = Len(af)
      BY <2>1 DEF a
    <3> HIDE DEF af
    <3>2. u \o af \in Seq(Seq(Byte)) /\ Len(u \o af) = b + 1 + a
          /\ \A k \in 1..(b + 1 + a) : (u \o af)[k] = IF k <= b + 1 THEN u[k] ELSE af[k - (b + 1)]
      <4>1. /\ u \o af \in Seq(Seq(Byte)) /\ Len(u \o af) = Len(u) + Len(af)
            /\ \A k \in 1..(Len(u) + Len(af)) :
                 (u \o af)[k] = IF k <= Len(u) THEN u[k] ELSE af[k - Len(u)]
        BY <3>1, <2>2, ConcatProperties
      <4>2. Len(u) = b + 1 /\ Len(af) = a
        BY <3>1, <2>2
      <4> QED BY <4>1, <4>2
    <3> QED BY <3>2 DEF af
  <2> HIDE DEF s
  <2>4. l = m
    <3>1. one + m - 1 = one + l - 1
      BY <1>11, <1>3
    <3> QED BY <3>1, <1>3, <1>1
  <2>5. ASSUME NEW k \in 1..(b + 1 + a)
        PROVE  [n |-> FirstPrinted(f) + k - 1, text |-> s[k]] \in ToSet(truth)
    <3> DEFINE j == m - b + k - 1
    <3>1. j \in 1..Len(truth) /\ FirstPrinted(f) + k - 1 = one + j - 1
      BY <1>1, <1>3, <1>6, <2>4
    <3>2. s[k] = truth[j].text
      <4>1. CASE k <= b
        <5>1. k \in 1..b /\ k \in 1..(b + 1) /\ k <= b + 1
          BY <4>1, <1>1
        <5> QED BY <5>1, <2>2, <2>3, <1>2
      <4>2. CASE k = b + 1
        <5>1. j = m /\ k <= b + 1
          BY <4>2, <1>1
        <5> HIDE DEF j
        <5> QED BY <5>1, <4>2, <2>1, <2>2, <2>3
      <4>3. CASE k > b + 1
        <5>1. k - (b + 1) \in 1..a /\ l + (k - (b + 1)) = j /\ ~(k <= b + 1)
          BY <4>3, <1>1, <2>4
        <5>2. s[k] = f.after[k - (b + 1)]
          BY <5>1, <2>3
        <5>3. f.after[k - (b + 1)] = truth[l + (k - (b + 1))].text
          BY <5>1, <1>2
        <5> HIDE DEF j
        <5> QED BY <5>1, <5>2, <5>3
      <4> QED BY <4>1, <4>2, <4>3, <1>1
    <3> HIDE DEF j
    <3> QED BY <3>1, <3>2, TruthRow DEF one
  <2>6. SarifLines(f) = <<>> \/ SarifLines(f) = [k \in DOMAIN s |-> [n |-> FirstPrinted(f) + k - 1, text |-> s[k]]]
    BY DEF SarifLines, s, u
  <2>7. DOMAIN s = 1..(b + 1 + a)
    BY <2>3
  <2>8. ToSet([k \in DOMAIN s |-> [n |-> FirstPrinted(f) + k - 1, text |-> s[k]]]) \subseteq ToSet(truth)
    BY <2>5, <2>7 DEF ToSet
  <2>9. ToSet(<<>>) = {}
    BY DEF ToSet
  <2> QED BY <2>6, <2>8, <2>9
<1> QED BY <1>4, <1>5, <1>9, <1>10, <1>11
-----------------------------------------------------------------------------
\* SubSeq, place by place.
LEMMA PartOf ==
  ASSUME NEW S, NEW s \in Seq(S), NEW x \in Nat, NEW y \in Int, x > 0, y <= Len(s)
  PROVE  /\ SubSeq(s, x, y) \in Seq(S)
         /\ Len(SubSeq(s, x, y)) = IF x <= y THEN y - x + 1 ELSE 0
         /\ \A k \in 1..(y - x + 1) : SubSeq(s, x, y)[k] = s[x + k - 1]
<1>1. \A i \in x..y : s[i] \in S
  OBVIOUS
<1> QED BY <1>1, SubSeqProperties

\* A prefix, place by place.
LEMMA PrefixIs ==
  ASSUME NEW S, NEW s \in Seq(S), NEW t \in Seq(S), Len(s) <= Len(t),
         \A k \in 1..Len(s) : s[k] = t[k]
  PROVE  IsPrefix(s, t)
<1>1. Len(s) \in Nat /\ Len(t) \in Nat
  OBVIOUS
<1> DEFINE a == SubSeq(s, 1, Len(s))
           b == SubSeq(t, 1, Len(s))
<1>2. a \in Seq(S) /\ Len(a) = Len(s) /\ \A k \in 1..Len(s) : a[k] = s[k]
  <2>1. \A i \in 1..Len(s) : s[i] \in S
    OBVIOUS
  <2> QED BY <1>1, <2>1, SubSeqProperties
<1>3. b \in Seq(S) /\ Len(b) = Len(s) /\ \A k \in 1..Len(s) : b[k] = t[k]
  <2>1. \A i \in 1..Len(s) : t[i] \in S
    BY <1>1
  <2> QED BY <1>1, <2>1, SubSeqProperties
<1> HIDE DEF a, b
<1>4. a = b
  BY <1>2, <1>3, SeqEqual
<1> QED BY <1>4 DEF IsPrefix, a, b

\* Where an offset of the joined text lies in its row.
LEMMA OffsetFits ==
  ASSUME NEW rows \in Seq(Row), rows # <<>>, NEW off \in Nat, off < Len(Joined(rows)), NEW x,
         x = LineAt(LineStarts(rows), off)
  PROVE  /\ x \in 1..Len(rows) /\ LineStarts(rows)[x] \in Nat
         /\ LineStarts(rows)[x] <= off /\ off - LineStarts(rows)[x] <= Len(rows[x].text)
         /\ \A j \in 1..Len(rows) : x < j => off < LineStarts(rows)[j]
<1> DEFINE N == Len(rows)
           st == LineStarts(rows)
           J == Joined(rows)
<1>1. /\ N \in Nat /\ N # 0 /\ st \in [1..N -> Nat] /\ st[1] = 0
      /\ \A j \in 1..(N - 1) : st[j + 1] = st[j] + Len(rows[j].text) + 1
      /\ \A j \in 1..N : Len(rows[j].text) \in Nat
  BY StartsAre, RowsAre
<1>2. Len(J) = st[N] + Len(rows[N].text)
  BY JoinedIs DEF TextTo
<1>3. IsStarts(st, N) /\ Len(st) = N
  BY StartsOfRows
<1> HIDE DEF N, st, J
<1>4. x \in 1..N /\ st[x] <= off /\ \A j \in 1..N : x < j => off < st[j]
  BY <1>1, <1>3, LineAtIs DEF st
<1>5. st[x] \in Nat /\ Len(rows[x].text) \in Nat
  BY <1>1, <1>4
<1>6. off - st[x] <= Len(rows[x].text)
  <2> DEFINE a == st[x]  b == Len(rows[x].text)
  <2>1. CASE x = N
    <3>1. off < a + b /\ a \in Nat /\ b \in Nat
      BY <1>2, <1>5, <2>1 DEF J
    <3> HIDE DEF a, b
    <3>2. off - a <= b
      BY <3>1
    <3> QED BY <3>2 DEF a, b
  <2>2. CASE x # N
    <3>1. x \in 1..(N - 1) /\ x + 1 \in 1..N /\ x < x + 1
      BY <2>2, <1>1, <1>4
    <3>2. off < a + b + 1 /\ a \in Nat /\ b \in Nat
      <4>1. off < st[x + 1] /\ st[x + 1] = a + b + 1
        BY <3>1, <1>1, <1>4
      <4> QED BY <4>1, <1>5
    <3> HIDE DEF a, b
    <3>3. off - a <= b
      BY <3>2
    <3> QED BY <3>3 DEF a, b
  <2> QED BY <2>1, <2>2
<1> QED BY <1>4, <1>5, <1>6 DEF N, st

\* The context of rows F and G is the text of the rows next to them.
LEMMA ContextIs ==
  ASSUME NEW rows \in Seq(Row), NEW F \in 1..Len(rows), NEW G \in 1..Len(rows)
  PROVE  /\ ContextBefore(rows, F) \in Seq(Seq(Byte)) /\ Len(ContextBefore(rows, F)) < F
         /\ \A k \in 1..Len(ContextBefore(rows, F)) :
              ContextBefore(rows, F)[k] = rows[F - Len(ContextBefore(rows, F)) + k - 1].text
         /\ ContextAfter(rows, G) \in Seq(Seq(Byte))
         /\ G + Len(ContextAfter(rows, G)) <= Len(rows)
         /\ \A k \in 1..Len(ContextAfter(rows, G)) : ContextAfter(rows, G)[k] = rows[G + k].text
<1> DEFINE N == Len(rows)
           lo == IF F > ContextLines THEN F - ContextLines ELSE 1
           hi == IF G + ContextLines > N THEN N ELSE G + ContextLines
           u == SubSeq(rows, lo, F - 1)
           v == SubSeq(rows, G + 1, hi)
<1>1. N \in Nat /\ ContextLines \in Nat /\ F \in Nat /\ G \in Nat /\ F <= N /\ G <= N /\ F > 0 /\ G > 0
  BY DetectionAssumption
<1>2. lo \in 1..F /\ hi \in G..N
  BY <1>1
<1> HIDE DEF lo, hi
<1>3. u \in Seq(Row) /\ Len(u) = F - lo /\ \A k \in 1..(F - lo) : u[k] = rows[lo + k - 1]
  <2>1. lo \in Nat /\ lo > 0 /\ F - 1 \in Int /\ F - 1 <= Len(rows) /\ (F - 1) - lo + 1 = F - lo
        /\ (~(lo <= F - 1) => F - lo = 0)
    BY <1>1, <1>2
  <2>2. /\ u \in Seq(Row) /\ Len(u) = IF lo <= F - 1 THEN (F - 1) - lo + 1 ELSE 0
        /\ \A k \in 1..((F - 1) - lo + 1) : u[k] = rows[lo + k - 1]
    <3> HIDE DEF u
    <3> QED BY <2>1, PartOf DEF u
  <2> HIDE DEF u
  <2> QED BY <2>1, <2>2
<1>4. v \in Seq(Row) /\ Len(v) = hi - G /\ \A k \in 1..(hi - G) : v[k] = rows[G + k]
  <2>1. G + 1 \in Nat /\ G + 1 > 0 /\ hi \in Int /\ hi <= Len(rows) /\ hi - (G + 1) + 1 = hi - G
        /\ (~(G + 1 <= hi) => hi - G = 0)
    BY <1>1, <1>2
  <2>2. /\ v \in Seq(Row) /\ Len(v) = IF G + 1 <= hi THEN hi - (G + 1) + 1 ELSE 0
        /\ \A k \in 1..(hi - (G + 1) + 1) : v[k] = rows[(G + 1) + k - 1]
    <3> HIDE DEF v
    <3> QED BY <2>1, PartOf DEF v
  <2>3. \A k \in 1..(hi - G) : (G + 1) + k - 1 = G + k
    BY <1>1
  <2> HIDE DEF v
  <2> QED BY <2>1, <2>2, <2>3
<1> HIDE DEF u, v
<1>5. ASSUME NEW s \in Seq(Row)
      PROVE  Texts(s) \in Seq(Seq(Byte)) /\ Len(Texts(s)) = Len(s)
             /\ \A k \in 1..Len(s) : Texts(s)[k] = s[k].text
  <2>1. /\ Len(s) \in Nat /\ DOMAIN s = 1..Len(s) /\ \A k \in 1..Len(s) : s[k].text \in Seq(Byte)
    BY RowsAre
  <2>2. Texts(s) = [k \in 1..Len(s) |-> s[k].text]
    BY <2>1 DEF Texts
  <2> QED BY <2>1, <2>2
<1>6. ContextBefore(rows, F) = Texts(u) /\ ContextAfter(rows, G) = Texts(v)
  BY DEF ContextBefore, ContextAfter, u, v, lo, hi
<1>7. F - lo \in Nat /\ F - lo < F /\ hi - G \in Nat /\ G + (hi - G) <= N
  BY <1>1, <1>2
<1>8. ASSUME NEW k \in 1..(F - lo) PROVE Texts(u)[k] = rows[F - (F - lo) + k - 1].text
  <2>1. F - (F - lo) + k - 1 = lo + k - 1
    BY <1>1, <1>2
  <2>2. Texts(u)[k] = u[k].text
    BY <1>3, <1>5
  <2>3. u[k] = rows[lo + k - 1]
    BY <1>3
  <2> QED BY <2>1, <2>2, <2>3
<1>9. ASSUME NEW k \in 1..(hi - G) PROVE Texts(v)[k] = rows[G + k].text
  BY <1>4, <1>5
<1>10. Texts(u) \in Seq(Seq(Byte)) /\ Len(Texts(u)) = F - lo
  BY <1>3, <1>5
<1>11. Texts(v) \in Seq(Seq(Byte)) /\ Len(Texts(v)) = hi - G
  BY <1>4, <1>5
<1> QED BY <1>6, <1>7, <1>8, <1>9, <1>10, <1>11
-----------------------------------------------------------------------------
\* What LinesAreTrue says of a finding of a source that was neither misread nor truncated.
IsTrue(f, truth) ==
  LET first == Head(truth).n
      text  == Append(Joined(SubSeq(truth, f.line - first + 1, f.lineEnd - first + 1)), Newline)
  IN  /\ \E i \in (f.offset + 1)..Len(text) : IsPrefix(f.secret, SubSeq(text, i, Len(text)))
      /\ f.offset <= Len(f.matched)
      /\ [n |-> f.line, text |-> f.matched] \in ToSet(truth)
      /\ SarifRegion(f) \subseteq Numbers(truth)
      /\ ToSet(HtmlLines(f)) \cup ToSet(PdfLines(f)) \subseteq ToSet(truth)
      /\ f.line = f.lineEnd => ToSet(SarifLines(f)) \subseteq ToSet(truth)

\* The rows lie in the truth, one behind the other.
IsSegment(rows, truth) ==
  /\ rows \in Seq(Row) /\ rows # <<>>
  /\ \E a \in Nat : a + Len(rows) <= Len(truth) /\ \A k \in 1..Len(rows) : rows[k] = truth[a + k]

\* Rows F to G of rows.
IsPart(sub, rows, F, G) ==
  /\ sub \in Seq(Row) /\ Len(sub) = G - F + 1
  /\ \A k \in 1..Len(sub) : sub[k] = rows[F + k - 1]

\* A match at place i of the joined rows starts in row F and ends in row G.
IsMatch(rows, pattern, i, F, G) ==
  /\ rows \in Seq(Row) /\ rows # <<>>
  /\ pattern \in Seq(SUBSET Byte) /\ pattern # <<>>
  /\ i \in FindAll(Joined(rows), pattern)
  /\ F = LineAt(LineStarts(rows), i - 1)
  /\ G = LineAt(LineStarts(rows), i + Len(pattern) - 2)

\* The text of rows F..G, and a newline, is what stands in the joined text from row F on.
LEMMA RowsText ==
  ASSUME NEW rows \in Seq(Row), NEW F \in 1..Len(rows), NEW G \in F..Len(rows),
         NEW sub, IsPart(sub, rows, F, G)
  PROVE  LET text == Append(Joined(sub), Newline)
             st == LineStarts(rows)
         IN  /\ text \in Seq(Byte)
             /\ st[F] + Len(text) = st[G] + Len(rows[G].text) + 1
             /\ \A x \in 1..Len(text) : st[F] + x <= Len(Joined(rows)) => text[x] = Joined(rows)[st[F] + x]
<1> DEFINE N == Len(rows)
           st == LineStarts(rows)
           J == Joined(rows)
           JS == Joined(sub)
           text == Append(JS, Newline)
<1>1. N \in Nat /\ F \in 1..N /\ G \in 1..N /\ sub # <<>> /\ rows # <<>> /\ F + Len(sub) <= N + 1
      /\ F + Len(sub) - 1 = G
  <2>1. N \in Nat /\ N # 0
    OBVIOUS
  <2>2. F \in 1..N /\ G \in 1..N /\ Len(sub) # 0 /\ F + Len(sub) <= N + 1 /\ F + Len(sub) - 1 = G
    BY <2>1 DEF IsPart
  <2> QED BY <2>1, <2>2
<1>2. /\ st[F] + Len(JS) = st[G] + Len(rows[G].text)
      /\ \A x \in 1..Len(JS) : JS[x] = J[st[F] + x]
  BY <1>1, JoinedPart DEF IsPart
<1>3. /\ st \in [1..N -> Nat] /\ \A j \in 1..N : Len(rows[j].text) \in Nat
  BY StartsAre, RowsAre
<1>4. /\ Len(J) = st[N] + Len(rows[N].text)
      /\ \A j \in 1..(N - 1) : J[st[j] + Len(rows[j].text) + 1] = Newline
  BY <1>1, JoinedIs DEF TextTo
<1>5. JS \in Seq(Byte) /\ Newline \in Byte
  BY <1>1, JoinedIs, ChunksAssumption DEF TextTo, IsPart
<1> HIDE DEF N, st, J, JS
<1>6. text \in Seq(Byte) /\ Len(text) = Len(JS) + 1 /\ text[Len(JS) + 1] = Newline
      /\ \A x \in 1..Len(JS) : text[x] = JS[x]
  BY <1>5
<1> HIDE DEF text
<1>7. st[F] \in Nat /\ st[G] \in Nat /\ Len(rows[G].text) \in Nat /\ Len(JS) \in Nat
  BY <1>1, <1>3, <1>5
<1>8. st[F] + Len(text) = st[G] + Len(rows[G].text) + 1
  <2> DEFINE a == st[F]  b == Len(JS)  c == st[G]  d == Len(rows[G].text)  e == Len(text)
  <2>1. a + b = c + d /\ e = b + 1 /\ a \in Nat /\ b \in Nat /\ c \in Nat /\ d \in Nat
    BY <1>2, <1>6, <1>7
  <2> HIDE DEF a, b, c, d, e
  <2>2. a + e = c + d + 1
    BY <2>1
  <2> QED BY <2>2 DEF a, c, d, e
<1>9. ASSUME NEW x \in 1..Len(text), st[F] + x <= Len(J) PROVE text[x] = J[st[F] + x]
  <2>1. x \in 1..Len(JS) \/ x = Len(JS) + 1
    BY <1>6, <1>7
  <2>2. CASE x \in 1..Len(JS)
    BY <2>2, <1>2, <1>6
  <2>3. CASE x = Len(JS) + 1
    <3>1. st[F] + x = st[G] + Len(rows[G].text) + 1
      <4> DEFINE a == st[F]  b == Len(JS)  c == st[G]  d == Len(rows[G].text)
      <4>1. a + b = c + d /\ a \in Nat /\ b \in Nat /\ c \in Nat /\ d \in Nat /\ x = b + 1
        BY <1>2, <1>7, <2>3
      <4> HIDE DEF a, b, c, d
      <4>2. a + x = c + d + 1
        BY <4>1
      <4> QED BY <4>2 DEF a, b, c, d
    <3>2. G # N
      <4> DEFINE c == st[G]  d == Len(rows[G].text)
      <4>1. SUFFICES ASSUME G = N PROVE FALSE
        OBVIOUS
      <4>2. c + d + 1 <= c + d /\ c \in Nat /\ d \in Nat
        BY <4>1, <3>1, <1>4, <1>7, <1>9
      <4> HIDE DEF c, d
      <4> QED BY <4>2
    <3>3. G \in 1..(N - 1)
      BY <3>2, <1>1
    <3>4. J[st[G] + Len(rows[G].text) + 1] = Newline
      BY <3>3, <1>4
    <3> QED BY <3>1, <3>4, <1>6, <2>3
  <2> QED BY <2>1, <2>2, <2>3
<1> QED BY <1>6, <1>8, <1>9 DEF N, st, J, JS, text

\* A place of the secret, in the numbers of the offset, the match and the group.
IsPlace(y, i, P, a, d, e, o, from, k) ==
  /\ {i, P, a, d, e, o, from, k} \subseteq Nat
  /\ o = (i - 1) - a /\ o + P <= d /\ i + P <= e + 1
  /\ from > 0 /\ k > 0 /\ from + k - 1 <= P /\ y = o + from + k - 1

\* It lies within the lines of the match.
LEMMA SecretPlace ==
  ASSUME NEW y, NEW i, NEW P, NEW a, NEW d, NEW e, NEW o, NEW from, NEW k,
         IsPlace(y, i, P, a, d, e, o, from, k)
  PROVE  y \in 1..d /\ a + y = i + from - 1 + k - 1 /\ a + y <= e
BY DEF IsPlace

\* In the lines of a match, the secret stands behind the offset the finding reports.
LEMMA SecretIsThere ==
  ASSUME NEW rows, NEW pattern, NEW i, NEW F, NEW G, IsMatch(rows, pattern, i, F, G),
         NEW from \in DOMAIN pattern, NEW to \in DOMAIN pattern,
         NEW sub, IsPart(sub, rows, F, G),
         NEW offset, offset = i - 1 - LineStarts(rows)[F],
         NEW secret, secret = SubSeq(Joined(rows), i + from - 1, i + to - 1)
  PROVE  LET text == Append(Joined(sub), Newline)
         IN  /\ \E x \in (offset + 1)..Len(text) : IsPrefix(secret, SubSeq(text, x, Len(text)))
             /\ offset \in Nat /\ offset <= Len(rows[F].text)
<1> DEFINE N == Len(rows)
           P == Len(pattern)
           st == LineStarts(rows)
           J == Joined(rows)
           text == Append(Joined(sub), Newline)
<1>0. /\ rows \in Seq(Row) /\ rows # <<>>
      /\ pattern \in Seq(SUBSET Byte) /\ pattern # <<>>
      /\ i \in FindAll(J, pattern) /\ F = LineAt(st, i - 1) /\ G = LineAt(st, i + P - 2)
  BY DEF IsMatch
<1>1. P \in Nat /\ P > 0 /\ from \in 1..P /\ to \in 1..P /\ N \in Nat
  <2>1. P \in Nat /\ P # 0 /\ DOMAIN pattern = 1..P
    BY <1>0
  <2>2. N \in Nat
    BY <1>0
  <2> HIDE DEF P, N
  <2> QED BY <2>1, <2>2
<1>2. J \in Seq(Byte) /\ Len(J) \in Nat
  BY <1>0, JoinedIs DEF TextTo
<1>3. i \in Nat /\ i > 0 /\ i + P <= Len(J) + 1
  <2>1. i \in Nat \ {0} /\ i + P <= Len(J) + 1
    <3> HIDE DEF J
    <3> QED BY <1>0, <1>2, FindAllIs
  <2> QED BY <2>1
<1> HIDE DEF N, P, st, J
<1>4. i - 1 \in Nat /\ i - 1 < Len(J) /\ i + P - 2 \in Nat /\ i + P - 2 < Len(J)
  BY <1>1, <1>2, <1>3
<1>5. /\ F \in 1..N /\ st[F] \in Nat /\ st[F] <= i - 1 /\ (i - 1) - st[F] <= Len(rows[F].text)
      /\ \A j \in 1..N : F < j => i - 1 < st[j]
  BY <1>0, <1>4, OffsetFits DEF N, st, J
<1>6. /\ G \in 1..N /\ st[G] \in Nat /\ st[G] <= i + P - 2 /\ (i + P - 2) - st[G] <= Len(rows[G].text)
      /\ \A j \in 1..N : G < j => i + P - 2 < st[j]
  BY <1>0, <1>4, OffsetFits DEF N, st, J, P
<1>7. G \in F..N
  <2>1. CASE G < F
    <3>1. i + P - 2 < st[F]
      BY <2>1, <1>5, <1>6
    <3> QED BY <3>1, <1>1, <1>3, <1>5, SMTT(30)
  <2> QED BY <2>1, <1>1, <1>5, <1>6
<1>8. /\ text \in Seq(Byte) /\ Len(text) \in Nat
      /\ st[F] + Len(text) = st[G] + Len(rows[G].text) + 1
      /\ \A x \in 1..Len(text) : st[F] + x <= Len(J) => text[x] = J[st[F] + x]
  <2>1. F \in 1..Len(rows) /\ G \in F..Len(rows)
    BY <1>5, <1>7 DEF N
  <2>2. /\ text \in Seq(Byte)
        /\ st[F] + Len(text) = st[G] + Len(rows[G].text) + 1
        /\ \A x \in 1..Len(text) : st[F] + x <= Len(J) => text[x] = J[st[F] + x]
    BY <1>0, <2>1, RowsText, SMTT(30) DEF st, J
  <2> HIDE DEF text
  <2>3. Len(text) \in Nat
    BY <2>2
  <2> QED BY <2>2, <2>3
<1>9. Len(rows[G].text) \in Nat /\ Len(rows[F].text) \in Nat
  BY <1>0, <1>5, <1>6, RowsAre DEF N
<1> HIDE DEF text
<1> DEFINE o == offset
           s == secret
           x == offset + from
           t == SubSeq(text, x, Len(text))
<1>10. offset \in Nat /\ offset = (i - 1) - st[F] /\ offset <= Len(rows[F].text)
  <2>1. offset = (i - 1) - st[F]
    BY DEF st
  <2> QED BY <2>1, <1>4, <1>5
<1>11. offset + P <= Len(text)
  <2> DEFINE a == st[F]  b == st[G]  c == Len(rows[G].text)  d == Len(text)
  <2>1. /\ a \in Nat /\ b \in Nat /\ c \in Nat /\ d \in Nat
        /\ offset = (i - 1) - a /\ a + d = b + c + 1 /\ (i + P - 2) - b <= c
    BY <1>5, <1>6, <1>8, <1>9, <1>10
  <2> HIDE DEF a, b, c, d
  <2>2. offset + P <= d
    BY <2>1, <1>1, <1>3
  <2> QED BY <2>2 DEF d
<1>12. x \in (offset + 1)..Len(text) /\ x \in Nat /\ x > 0
  BY <1>1, <1>8, <1>10, <1>11
<1>13. /\ t \in Seq(Byte) /\ Len(t) = Len(text) - x + 1 /\ Len(t) \in Nat
       /\ \A k \in 1..(Len(text) - x + 1) : t[k] = text[x + k - 1]
  <2>1. /\ t \in Seq(Byte) /\ Len(t) = IF x <= Len(text) THEN Len(text) - x + 1 ELSE 0
        /\ \A k \in 1..(Len(text) - x + 1) : t[k] = text[x + k - 1]
    <3>1. x \in Nat /\ Len(text) \in Int /\ x > 0 /\ Len(text) <= Len(text)
      BY <1>8, <1>12
    <3> HIDE DEF x
    <3> QED BY <3>1, <1>8, PartOf
  <2>2. x <= Len(text) /\ Len(text) - x + 1 \in Nat
    BY <1>8, <1>12
  <2> HIDE DEF t
  <2> QED BY <2>1, <2>2
<1> HIDE DEF t
<1>14. /\ s \in Seq(Byte) /\ Len(s) = (IF from <= to THEN to - from + 1 ELSE 0)
       /\ \A k \in 1..(to - from + 1) : s[k] = J[i + from - 1 + k - 1]
  <2> DEFINE p == i + from - 1  q == i + to - 1
  <2>1. p \in Nat /\ q \in Int /\ p > 0 /\ q <= Len(J) /\ (p <= q <=> from <= to) /\ q - p + 1 = to - from + 1
    <3> DEFINE e == Len(J)
    <3>1. e \in Nat /\ i \in Nat /\ i > 0 /\ i + P <= e + 1
      BY <1>2, <1>3
    <3> HIDE DEF e
    <3>2. q <= e /\ p \in Nat /\ q \in Int /\ p > 0 /\ (p <= q <=> from <= to) /\ q - p + 1 = to - from + 1
      BY <3>1, <1>1, SMTT(30)
    <3> QED BY <3>2 DEF e
  <2>2. s = SubSeq(J, p, q)
    BY DEF J
  <2> HIDE DEF p, q, s
  <2>3. /\ s \in Seq(Byte) /\ Len(s) = (IF p <= q THEN q - p + 1 ELSE 0)
        /\ \A k \in 1..(q - p + 1) : s[k] = J[p + k - 1]
    BY <2>1, <2>2, <1>2, PartOf
  <2> QED BY <2>1, <2>3 DEF p
<1> HIDE DEF s
<1>15. Len(s) <= Len(t)
  <2> DEFINE d == Len(text)
  <2>1. Len(t) = d - x + 1 /\ offset + P <= d /\ d \in Nat
    BY <1>8, <1>11, <1>13
  <2>2. Len(t) \in Nat
    BY <1>13
  <2> DEFINE n == Len(t)  k == Len(s)
  <2>3. k = (IF from <= to THEN to - from + 1 ELSE 0) /\ n = d - x + 1 /\ n \in Nat
    BY <1>14, <2>1, <2>2
  <2> HIDE DEF d, n, k
  <2>4. CASE from <= to
    <3>1. to <= P /\ n = d - (offset + from) + 1 /\ k = to - from + 1
      BY <2>3, <2>4, <1>1
    <3>2. offset \in Nat /\ P \in Nat /\ d \in Nat /\ from \in Nat /\ to \in Nat /\ offset + P <= d
      BY <2>1, <1>1, <1>10, SMTT(30)
    <3>3. P - from <= d - offset - from
      BY ONLY <3>2
    <3>4. to - from <= P - from
      BY ONLY <3>1, <3>2
    <3>5. k <= n
      BY ONLY <3>1, <3>2, <3>3, <3>4
    <3> QED BY <3>5 DEF k, n
  <2>5. CASE ~(from <= to)
    <3>1. k <= n
      BY <2>3, <2>5
    <3> QED BY <3>1 DEF k, n
  <2> QED BY <2>4, <2>5
<1>16. ASSUME NEW k \in 1..Len(s) PROVE s[k] = t[k]
  <2>1. from <= to /\ Len(s) = to - from + 1 /\ k \in 1..(to - from + 1)
    BY <1>14, <1>16, <1>1
  <2>2. s[k] = J[i + from - 1 + k - 1]
    BY <2>1, <1>14
  <2> DEFINE y == x + k - 1
  <2>3. k \in 1..Len(t) /\ k \in 1..(Len(text) - x + 1)
    BY <2>1, <1>13, <1>15, <1>14, <1>1
  <2>4. t[k] = text[y]
    BY <2>3, <1>13
  <2>5. y \in 1..Len(text) /\ st[F] + y = i + from - 1 + k - 1 /\ st[F] + y <= Len(J)
    <3> DEFINE d == Len(text)  e == Len(J)  a == st[F]
    <3>1. d \in Nat /\ e \in Nat /\ offset + P <= d /\ i + P <= e + 1 /\ offset = (i - 1) - a /\ a \in Nat
      BY <1>2, <1>3, <1>5, <1>8, <1>10, <1>11
    <3> HIDE DEF d, e, a
    <3>2. y \in 1..d /\ a + y = i + from - 1 + k - 1 /\ a + y <= e
      <4>1. k \in 1..(to - from + 1) /\ to <= P /\ from \in Nat /\ from > 0 /\ to \in Nat /\ P \in Nat
        BY <2>1, <1>1
      <4>2. k \in Nat /\ k > 0 /\ from + k - 1 <= P
        BY <4>1
      <4>3. y = offset + from + k - 1
        OBVIOUS
      <4> HIDE DEF y
      <4>4. IsPlace(y, i, P, a, d, e, offset, from, k)
        BY <4>1, <4>2, <4>3, <3>1, <1>1, <1>3, <1>10 DEF IsPlace
      <4> QED BY <4>4, SecretPlace
    <3> QED BY <3>2 DEF d, e, a
  <2> HIDE DEF y
  <2>6. text[y] = J[st[F] + y]
    BY <2>5, <1>8
  <2> QED BY <2>2, <2>4, <2>5, <2>6
<1>17. IsPrefix(s, t)
  BY <1>13, <1>14, <1>15, <1>16, PrefixIs
<1>18. \E z \in (offset + 1)..Len(text) : IsPrefix(secret, SubSeq(text, z, Len(text)))
  <2> HIDE DEF x
  <2> QED BY <1>12, <1>17 DEF s, t
<1> QED BY <1>10, <1>18 DEF text

\* All of LinesAreTrue, for a match in a chunk that is a part of the truth.
LEMMA FindingIsTrue ==
  ASSUME NEW truth, IsTruth(truth), NEW chunk, IsSegment(chunk.rows, truth), NEW rule, RuleType(rule),
         NEW i, i \in FindAll(Joined(chunk.rows), rule.pattern)
  PROVE  IsTrue(FindingAt(chunk, rule, i), truth)
<1> DEFINE rows == chunk.rows
           N == Len(rows)
           st == LineStarts(rows)
           J == Joined(rows)
           pattern == rule.pattern
           F == LineAt(st, i - 1)
           G == LineAt(st, i + Len(pattern) - 2)
           f == FindingAt(chunk, rule, i)
           one == truth[1].n
<1>1. rows \in Seq(Row) /\ rows # <<>> /\ truth \in Seq(Row)
  BY DEF IsSegment, IsTruth
<1>2. PICK a \in Nat : a + N <= Len(truth) /\ \A k \in 1..N : rows[k] = truth[a + k]
  BY DEF IsSegment
<1>3. pattern \in Seq(SUBSET Byte) /\ pattern # <<>> /\ rule.from \in DOMAIN pattern /\ rule.to \in DOMAIN pattern
  BY DEF RuleType
<1>4. /\ f.line = rows[F].n /\ f.lineEnd = rows[G].n /\ f.offset = i - 1 - st[F]
      /\ f.secret = SubSeq(J, i + rule.from - 1, i + rule.to - 1)
      /\ f.matched = rows[F].text /\ f.before = ContextBefore(rows, F) /\ f.after = ContextAfter(rows, G)
  BY DEF FindingAt
<1> HIDE DEF f
<1>5. N \in Nat /\ Len(truth) \in Nat
  BY <1>1
<1>6. J \in Seq(Byte) /\ Len(J) \in Nat /\ Len(pattern) \in Nat /\ Len(pattern) > 0
  <2>1. J \in Seq(Byte)
    BY <1>1, JoinedIs DEF TextTo
  <2>2. Len(pattern) \in Nat /\ Len(pattern) # 0
    BY <1>3
  <2> HIDE DEF J, pattern
  <2> QED BY <2>1, <2>2
<1>7. i \in Nat /\ i > 0 /\ i + Len(pattern) <= Len(J) + 1
  BY <1>3, <1>6, FindAllIs
<1>8. /\ F \in 1..N /\ st[F] \in Nat /\ st[F] <= i - 1
  <2>1. i - 1 \in Nat /\ i - 1 < Len(J)
    BY <1>6, <1>7
  <2> HIDE DEF F
  <2> QED BY <2>1, <1>1, OffsetFits DEF F
<1>9. /\ G \in 1..N /\ \A j \in 1..N : G < j => i + Len(pattern) - 2 < st[j]
  <2>1. i + Len(pattern) - 2 \in Nat /\ i + Len(pattern) - 2 < Len(J)
    BY <1>6, <1>7
  <2> HIDE DEF G
  <2> QED BY <2>1, <1>1, OffsetFits DEF G
<1> HIDE DEF rows, N, st, J, pattern, F, G
<1>10. G \in F..N
  <2>1. CASE G < F
    <3>1. i + Len(pattern) - 2 < st[F]
      BY <2>1, <1>8, <1>9
    <3> QED BY <3>1, <1>6, <1>7, <1>8
  <2> QED BY <2>1, <1>5, <1>8, <1>9
<1> DEFINE m == a + F
           l == a + G
<1>11. m \in 1..Len(truth) /\ l \in m..Len(truth) /\ l \in 1..Len(truth)
  BY <1>2, <1>5, <1>8, <1>10
<1>12. rows[F] = truth[m] /\ rows[G] = truth[l]
  BY <1>2, <1>8, <1>9
<1>13. Around(f, truth, m, l)
  <2> DEFINE b == ContextBefore(rows, F)  c == ContextAfter(rows, G)
  <2>1. /\ b \in Seq(Seq(Byte)) /\ Len(b) < F
        /\ \A k \in 1..Len(b) : b[k] = rows[F - Len(b) + k - 1].text
        /\ c \in Seq(Seq(Byte)) /\ G + Len(c) <= N
        /\ \A k \in 1..Len(c) : c[k] = rows[G + k].text
    BY <1>1, <1>8, <1>9, ContextIs DEF N
  <2>2. f.before = b /\ f.after = c
    BY <1>4
  <2> HIDE DEF b, c
  <2>3. Len(b) \in Nat /\ Len(c) \in Nat
    BY <2>1
  <2>4. ASSUME NEW k \in 1..Len(b) PROVE b[k] = truth[m - Len(b) + k - 1].text
    <3>1. F - Len(b) + k - 1 \in 1..N /\ a + (F - Len(b) + k - 1) = m - Len(b) + k - 1
      BY <2>1, <2>3, <1>5, <1>8, SMTT(30)
    <3>2. rows[F - Len(b) + k - 1] = truth[a + (F - Len(b) + k - 1)]
      BY <3>1, <1>2
    <3> HIDE DEF m
    <3> QED BY <3>1, <3>2, <2>1
  <2>5. ASSUME NEW k \in 1..Len(c) PROVE c[k] = truth[l + k].text
    <3>1. G + k \in 1..N /\ a + (G + k) = l + k
      BY <2>1, <2>3, <1>5, <1>9
    <3>2. rows[G + k] = truth[a + (G + k)]
      BY <3>1, <1>2
    <3> HIDE DEF l
    <3> QED BY <3>1, <3>2, <2>1
  <2>6. Len(b) < m /\ l + Len(c) <= Len(truth)
    BY <2>1, <2>3, <1>2, <1>5, <1>8, <1>9
  <2> HIDE DEF m, l
  <2> QED BY <1>4, <1>11, <1>12, <2>1, <2>2, <2>4, <2>5, <2>6 DEF Around
<1> DEFINE sub == SubSeq(truth, m, l)
<1>14. IsPart(sub, rows, F, G)
  <2>1. m \in Nat /\ m > 0 /\ l \in Int /\ l <= Len(truth) /\ m <= l /\ l - m + 1 = G - F + 1
    BY <1>5, <1>8, <1>10, <1>11
  <2>2. /\ sub \in Seq(Row) /\ Len(sub) = IF m <= l THEN l - m + 1 ELSE 0
        /\ \A k \in 1..(l - m + 1) : sub[k] = truth[m + k - 1]
    <3> HIDE DEF m, l
    <3> QED BY <2>1, <1>1, PartOf
  <2> HIDE DEF sub
  <2>3. ASSUME NEW k \in 1..(G - F + 1) PROVE sub[k] = rows[F + k - 1]
    <3>1. F + k - 1 \in 1..N /\ a + (F + k - 1) = m + k - 1 /\ k \in 1..(l - m + 1)
      BY <1>5, <1>8, <1>10, <2>1
    <3>2. rows[F + k - 1] = truth[a + (F + k - 1)]
      BY <3>1, <1>2
    <3> HIDE DEF m, l
    <3> QED BY <3>1, <3>2, <2>2
  <2> QED BY <2>1, <2>2, <2>3 DEF IsPart
<1>15. f.line - Head(truth).n + 1 = m /\ f.lineEnd - Head(truth).n + 1 = l
  <2>1. truth[m].n = one + m - 1 /\ truth[l].n = one + l - 1
    BY <1>11 DEF IsTruth
  <2>2. Head(truth).n = one
    <3>1. Len(truth) # 0
      BY <1>11, <1>5
    <3> QED BY <3>1, <1>1
  <2>3. one \in Nat
    <3>1. 1 \in 1..Len(truth)
      BY <1>11, <1>5
    <3> QED BY <3>1, <1>1, RowsAre
  <2>4. m \in Nat /\ l \in Nat
    BY <1>5, <1>11
  <2>5. f.line = one + m - 1 /\ f.lineEnd = one + l - 1
    BY <1>4, <1>12, <2>1
  <2> HIDE DEF one, m, l
  <2> QED BY <2>2, <2>3, <2>4, <2>5
<1> HIDE DEF sub
<1>16. /\ \E x \in (f.offset + 1)..Len(Append(Joined(sub), Newline)) :
            IsPrefix(f.secret, SubSeq(Append(Joined(sub), Newline), x, Len(Append(Joined(sub), Newline))))
       /\ f.offset \in Nat /\ f.offset <= Len(f.matched)
  <2>1. IsMatch(rows, pattern, i, F, G)
    BY <1>1, <1>3 DEF IsMatch, J, pattern, rows, F, G, st
  <2>2. rule.from \in DOMAIN pattern /\ rule.to \in DOMAIN pattern
    BY <1>3
  <2>3. f.offset = i - 1 - LineStarts(rows)[F]
        /\ f.secret = SubSeq(Joined(rows), i + rule.from - 1, i + rule.to - 1)
    BY <1>4 DEF st, J
  <2>4. /\ \E x \in (f.offset + 1)..Len(Append(Joined(sub), Newline)) :
            IsPrefix(f.secret, SubSeq(Append(Joined(sub), Newline), x, Len(Append(Joined(sub), Newline))))
        /\ f.offset \in Nat /\ f.offset <= Len(rows[F].text)
    BY <1>14, <2>1, <2>2, <2>3, SecretIsThere
  <2> QED BY <1>4, <2>4
<1>17. /\ [n |-> f.line, text |-> f.matched] \in ToSet(truth)
       /\ SarifRegion(f) \subseteq Numbers(truth)
       /\ ToSet(HtmlLines(f)) \cup ToSet(PdfLines(f)) \subseteq ToSet(truth)
       /\ f.line = f.lineEnd => ToSet(SarifLines(f)) \subseteq ToSet(truth)
  <2> HIDE DEF m, l
  <2> QED BY <1>13, PrintedIsTrue
<1>18. SubSeq(truth, f.line - Head(truth).n + 1, f.lineEnd - Head(truth).n + 1) = sub
  BY <1>15 DEF sub
<1>19. IsTrue(f, truth)
  BY <1>16, <1>17, <1>18 DEF IsTrue
<1> QED BY <1>19 DEF f
-----------------------------------------------------------------------------
\* The types of a Builder.
IsBuilder(b) ==
  /\ b = [pending |-> b.pending, bytes |-> b.bytes, chunks |-> b.chunks, total |-> b.total]
  /\ b.pending \in Seq(Row) /\ b.chunks \in Seq(Seq(Row)) /\ b.total \in Nat

\* The first m lines of the truth went through the Builder.
Built(b, truth, m) ==
  /\ IsBuilder(b) /\ truth \in Seq(Row)
  /\ m \in Nat /\ m <= Len(truth) /\ Len(b.pending) <= m
  /\ \A k \in 1..Len(b.pending) : b.pending[k] = truth[m - Len(b.pending) + k]
  /\ \A c \in 1..Len(b.chunks) : IsSegment(b.chunks[c], truth)

\* A new Builder has seen nothing.
LEMMA BeginIs ==
  /\ IsBuilder(Begin) /\ Begin.total = 0
  /\ \A truth \in Seq(Row) : Built(Begin, truth, 0)
<1>1. /\ Begin.pending = <<>> /\ Begin.chunks = <<>> /\ Begin.total = 0
      /\ Begin = [pending |-> Begin.pending, bytes |-> Begin.bytes, chunks |-> Begin.chunks, total |-> Begin.total]
  BY DEF Begin
<1>2. IsBuilder(Begin)
  BY <1>1 DEF IsBuilder
<1>3. ASSUME NEW truth \in Seq(Row) PROVE Built(Begin, truth, 0)
  <2>1. Len(truth) \in Nat
    OBVIOUS
  <2> QED BY <1>1, <1>2, <2>1 DEF Built
<1> QED BY <1>1, <1>2, <1>3

\* emit: the pending rows become a chunk, and a part of their end stays pending.
LEMMA EmitIs ==
  ASSUME NEW b, IsBuilder(b), NEW final \in BOOLEAN
  PROVE  LET e == Emit(b, final)
         IN  /\ IsBuilder(e) /\ e.total = b.total /\ e.chunks = Append(b.chunks, b.pending)
             /\ Len(e.pending) <= Len(b.pending)
             /\ \A k \in 1..Len(e.pending) : e.pending[k] = b.pending[Len(b.pending) - Len(e.pending) + k]
<1> DEFINE p == b.pending
           n == Len(p)
           o == IF OverlapLines > n THEN n ELSE OverlapLines
           tail == IF final THEN <<>> ELSE SubSeq(p, n - o + 1, n)
           e == Emit(b, final)
<1>1. p \in Seq(Row) /\ b.chunks \in Seq(Seq(Row)) /\ b.total \in Nat
      /\ b = [pending |-> p, bytes |-> b.bytes, chunks |-> b.chunks, total |-> b.total]
  BY DEF IsBuilder
<1>2. n \in Nat /\ o \in 0..n
  BY <1>1, ChunksAssumption
<1>3. e = [b EXCEPT !.chunks = Append(@, p), !.pending = tail, !.bytes = Bytes(tail)]
  BY DEF Emit
<1> HIDE DEF p, o, e
<1>4. tail \in Seq(Row) /\ Len(tail) <= n /\ \A k \in 1..Len(tail) : tail[k] = p[n - Len(tail) + k]
  <2>1. CASE final
    BY <2>1, <1>2
  <2>2. CASE ~final
    <3> DEFINE t == SubSeq(p, n - o + 1, n)
    <3>1. n - o + 1 \in Nat /\ n - o + 1 > 0 /\ n \in Int /\ n <= Len(p) /\ n - (n - o + 1) + 1 = o
      BY <1>2
    <3>2. /\ t \in Seq(Row) /\ Len(t) = IF n - o + 1 <= n THEN n - (n - o + 1) + 1 ELSE 0
          /\ \A k \in 1..(n - (n - o + 1) + 1) : t[k] = p[n - o + 1 + k - 1]
      <4> DEFINE x == n - o + 1
      <4> HIDE DEF x, n
      <4> QED BY <3>1, <1>1, PartOf, SMTT(30) DEF x, n
    <3> HIDE DEF t
    <3>3. Len(t) = o
      BY <3>2, <1>2
    <3>4. ASSUME NEW k \in 1..o PROVE t[k] = p[n - o + k]
      <4>1. k \in 1..(n - (n - o + 1) + 1) /\ n - o + 1 + k - 1 = n - o + k
        BY <1>2
      <4> QED BY <4>1, <3>2
    <3>5. tail = t
      BY <2>2 DEF t
    <3> HIDE DEF tail
    <3> QED BY <3>2, <3>3, <3>4, <3>5, <1>2
  <2> QED BY <2>1, <2>2
<1> HIDE DEF tail
<1>5. e.chunks = Append(b.chunks, p) /\ e.pending = tail /\ e.total = b.total
      /\ e = [pending |-> e.pending, bytes |-> e.bytes, chunks |-> e.chunks, total |-> e.total]
  BY <1>1, <1>3
<1>6. Append(b.chunks, p) \in Seq(Seq(Row))
  BY <1>1
<1>7. IsBuilder(e)
  BY <1>1, <1>4, <1>5, <1>6 DEF IsBuilder
<1> QED BY <1>4, <1>5, <1>7 DEF e, p

\* One chunk more.
LEMMA SegmentsGrow ==
  ASSUME NEW truth, NEW chunks \in Seq(Seq(Row)), \A c \in 1..Len(chunks) : IsSegment(chunks[c], truth),
         NEW rows \in Seq(Row), IsSegment(rows, truth)
  PROVE  \A c \in 1..Len(Append(chunks, rows)) : IsSegment(Append(chunks, rows)[c], truth)
<1> DEFINE s == Append(chunks, rows)
<1>1. Len(chunks) \in Nat /\ Len(s) = Len(chunks) + 1 /\ s[Len(chunks) + 1] = rows
      /\ \A c \in 1..Len(chunks) : s[c] = chunks[c]
  BY AppendProperties
<1> HIDE DEF s
<1>2. \A c \in 1..Len(s) : c \in 1..Len(chunks) \/ c = Len(chunks) + 1
  BY <1>1
<1>3. \A c \in 1..Len(s) : IsSegment(s[c], truth)
  BY <1>1, <1>2
<1> QED BY <1>3 DEF s

\* emit loses and invents no line.
LEMMA EmitBuilt ==
  ASSUME NEW b, NEW truth, NEW m, Built(b, truth, m), b.pending # <<>>, NEW final \in BOOLEAN
  PROVE  Built(Emit(b, final), truth, m)
<1> DEFINE p == b.pending
           e == Emit(b, final)
           q == e.pending
<1>1. /\ IsBuilder(b) /\ truth \in Seq(Row) /\ m \in Nat /\ m <= Len(truth) /\ Len(p) <= m
      /\ \A k \in 1..Len(p) : p[k] = truth[m - Len(p) + k]
      /\ \A c \in 1..Len(b.chunks) : IsSegment(b.chunks[c], truth)
  BY DEF Built
<1>2. /\ IsBuilder(e) /\ e.chunks = Append(b.chunks, p) /\ Len(q) <= Len(p)
      /\ \A k \in 1..Len(q) : q[k] = p[Len(p) - Len(q) + k]
  <2>1. IsBuilder(b)
    BY <1>1
  <2>2. LET x == Emit(b, final)
        IN  /\ IsBuilder(x) /\ x.total = b.total /\ x.chunks = Append(b.chunks, b.pending)
            /\ Len(x.pending) <= Len(b.pending)
            /\ \A k \in 1..Len(x.pending) : x.pending[k] = b.pending[Len(b.pending) - Len(x.pending) + k]
    BY <2>1, EmitIs
  <2> QED BY <2>2
<1> HIDE DEF e
<1>3. p \in Seq(Row) /\ b.chunks \in Seq(Seq(Row)) /\ q \in Seq(Row) /\ p # <<>>
  BY <1>1, <1>2 DEF IsBuilder
<1>4. Len(p) \in Nat /\ Len(q) \in Nat /\ Len(truth) \in Nat
  BY <1>1, <1>3
<1> HIDE DEF p, q
<1>5. IsSegment(p, truth)
  <2>1. m - Len(p) \in Nat /\ (m - Len(p)) + Len(p) <= Len(truth)
        /\ \A k \in 1..Len(p) : p[k] = truth[(m - Len(p)) + k]
    BY <1>1, <1>4
  <2> QED BY <1>3, <2>1 DEF IsSegment
<1>6. \A c \in 1..Len(e.chunks) : IsSegment(e.chunks[c], truth)
  BY <1>1, <1>2, <1>3, <1>5, SegmentsGrow
<1>7. ASSUME NEW k \in 1..Len(q) PROVE q[k] = truth[m - Len(q) + k]
  <2>1. Len(p) - Len(q) + k \in 1..Len(p) /\ m - Len(p) + (Len(p) - Len(q) + k) = m - Len(q) + k
    BY <1>1, <1>2, <1>4
  <2>2. q[k] = p[Len(p) - Len(q) + k]
    BY <1>2
  <2>3. p[Len(p) - Len(q) + k] = truth[m - Len(p) + (Len(p) - Len(q) + k)]
    BY <2>1, <1>1
  <2> QED BY <2>1, <2>2, <2>3
<1>8. Len(q) <= m
  BY <1>1, <1>2, <1>4
<1> QED BY <1>1, <1>2, <1>6, <1>7, <1>8 DEF Built, e, q

\* AddLine before it looks at the size.
Added(b, row) == [b EXCEPT !.pending = Append(@, row), !.bytes = @ + Len(row.text), !.total = row.n]

\* AddLine appends, and emits or not.
LEMMA AddedIs ==
  ASSUME NEW b, IsBuilder(b), NEW row \in Row
  PROVE  LET a == Added(b, row)
         IN  /\ IsBuilder(a) /\ a.total = row.n /\ a.chunks = b.chunks /\ a.pending = Append(b.pending, row)
             /\ a.pending # <<>>
             /\ \/ AddLine(b, row) = a
                \/ AddLine(b, row) = Emit(a, FALSE)
<1> DEFINE a == Added(b, row)
<1>1. b.pending \in Seq(Row) /\ b.chunks \in Seq(Seq(Row)) /\ row.n \in Nat
      /\ b = [pending |-> b.pending, bytes |-> b.bytes, chunks |-> b.chunks, total |-> b.total]
  BY DEF IsBuilder, Row
<1>2. a.total = row.n /\ a.chunks = b.chunks /\ a.pending = Append(b.pending, row)
      /\ a = [pending |-> a.pending, bytes |-> a.bytes, chunks |-> a.chunks, total |-> a.total]
  <2> DEFINE p == b.pending  c == b.chunks  y == b.bytes  t == b.total
  <2>1. b = [pending |-> p, bytes |-> y, chunks |-> c, total |-> t]
    BY <1>1
  <2> HIDE DEF p, c, y, t
  <2>2. a = [pending |-> Append(p, row), bytes |-> y + Len(row.text), chunks |-> c, total |-> row.n]
    <3> DEFINE z == b.bytes + Len(row.text)
               u == Append(b.pending, row)
    <3>1. Added(b, row) = [b EXCEPT !.pending = u, !.bytes = z, !.total = row.n]
      BY DEF Added
    <3>2. z = y + Len(row.text) /\ u = Append(p, row)
      BY DEF y, p
    <3> HIDE DEF z, u
    <3>3. Added(b, row) = [pending |-> u, bytes |-> z, chunks |-> c, total |-> row.n]
      BY <2>1, <3>1
    <3> QED BY <3>2, <3>3
  <2> HIDE DEF a
  <2>3. a.total = row.n /\ a.chunks = c /\ a.pending = Append(p, row) /\ a.bytes = y + Len(row.text)
    BY <2>2
  <2> QED BY <2>2, <2>3 DEF p, c
<1>3. Append(b.pending, row) \in Seq(Row) /\ Append(b.pending, row) # <<>>
  BY <1>1, AppendProperties
<1>4. AddLine(b, row) = IF a.bytes >= RowSizeTarget THEN Emit(a, FALSE) ELSE a
  BY DEF AddLine, Added
<1> HIDE DEF a
<1> QED BY <1>1, <1>2, <1>3, <1>4 DEF IsBuilder, a

\* AddLine with the next line of the truth.
LEMMA AddLineIs ==
  ASSUME NEW b, IsBuilder(b), NEW row \in Row
  PROVE  /\ IsBuilder(AddLine(b, row)) /\ AddLine(b, row).total = row.n
         /\ \A truth, m : Built(b, truth, m) /\ m < Len(truth) /\ row = truth[m + 1]
                            => Built(AddLine(b, row), truth, m + 1)
<1> DEFINE a == Added(b, row)
           d == AddLine(b, row)
<1>1. /\ IsBuilder(a) /\ a.total = row.n /\ a.chunks = b.chunks /\ a.pending = Append(b.pending, row)
      /\ a.pending # <<>> /\ (d = a \/ d = Emit(a, FALSE))
  BY AddedIs
<1>2. b.pending \in Seq(Row)
  BY DEF IsBuilder
<1> HIDE DEF a, d
<1>3. IsBuilder(d) /\ d.total = row.n
  BY <1>1, EmitIs
<1>4. ASSUME NEW truth, NEW m, Built(b, truth, m), m < Len(truth), row = truth[m + 1]
      PROVE  Built(d, truth, m + 1)
  <2> DEFINE p == b.pending
             q == a.pending
  <2>1. /\ truth \in Seq(Row) /\ m \in Nat /\ m <= Len(truth) /\ Len(p) <= m
        /\ \A k \in 1..Len(p) : p[k] = truth[m - Len(p) + k]
        /\ \A c \in 1..Len(b.chunks) : IsSegment(b.chunks[c], truth)
    BY <1>4 DEF Built
  <2>2. /\ q \in Seq(Row) /\ Len(q) = Len(p) + 1 /\ q[Len(p) + 1] = row
        /\ \A k \in 1..Len(p) : q[k] = p[k]
    BY <1>1, <1>2, AppendProperties
  <2>3. Len(p) \in Nat /\ Len(truth) \in Nat
    BY <2>1, <1>2
  <2> HIDE DEF p, q
  <2>4. ASSUME NEW k \in 1..Len(q) PROVE q[k] = truth[(m + 1) - Len(q) + k]
    <3>1. CASE k \in 1..Len(p)
      <4>1. (m + 1) - Len(q) + k = m - Len(p) + k
        BY <2>1, <2>2, <2>3
      <4> QED BY <4>1, <3>1, <2>1, <2>2
    <3>2. CASE k = Len(p) + 1
      <4>1. (m + 1) - Len(q) + k = m + 1
        BY <3>2, <2>1, <2>2, <2>3
      <4> QED BY <4>1, <3>2, <2>2, <1>4
    <3> QED BY <3>1, <3>2, <2>2, <2>3
  <2>5. m + 1 \in Nat /\ m + 1 <= Len(truth) /\ Len(q) <= m + 1
    BY <1>4, <2>1, <2>2, <2>3
  <2>6. Built(a, truth, m + 1)
    BY <1>1, <2>1, <2>4, <2>5 DEF Built, q
  <2>7. Built(Emit(a, FALSE), truth, m + 1)
    BY <2>6, <1>1, EmitBuilt
  <2> QED BY <1>1, <2>6, <2>7
<1> QED BY <1>3, <1>4 DEF d

\* Every chunk that Finish returns is a part of the truth.
LEMMA FinishIs ==
  ASSUME NEW b, IsBuilder(b)
  PROVE  \E all \in Seq(Seq(Row)) :
           /\ Finish(b) = [i \in 1..Len(all) |-> [rows |-> all[i], index |-> i - 1, count |-> Len(all), total |-> b.total]]
           /\ \A truth, m : Built(b, truth, m) => \A c \in 1..Len(all) : IsSegment(all[c], truth)
<1> DEFINE e == IF b.pending # <<>> THEN Emit(b, TRUE) ELSE b
           all == e.chunks
<1>1. IsBuilder(e)
  BY EmitIs
<1>2. \A truth, m : Built(b, truth, m) => Built(e, truth, m)
  BY EmitBuilt
<1>3. Finish(b) = [i \in 1..Len(all) |-> [rows |-> all[i], index |-> i - 1, count |-> Len(all), total |-> b.total]]
  BY DEF Finish
<1> HIDE DEF e
<1>4. all \in Seq(Seq(Row))
  BY <1>1 DEF IsBuilder
<1>5. \A truth, m : Built(b, truth, m) => \A c \in 1..Len(all) : IsSegment(all[c], truth)
  BY <1>2 DEF Built
<1> HIDE DEF all
<1> QED BY <1>3, <1>4, <1>5

\* AddLines with all of the rows.
LEMMA AddLinesIs ==
  ASSUME NEW rows \in Seq(Row)
  PROVE  Built(AddLines(rows), rows, Len(rows))
<1> DEFINE N == Len(rows)
           Rec(f) == f = [i \in 0..N |-> IF i = 0 THEN Begin ELSE AddLine(f[i - 1], rows[i])]
           Run(f, n) == /\ f = [i \in 0..n |-> f[i]]
                        /\ \A i \in 0..n : f[i] = IF i = 0 THEN Begin ELSE AddLine(f[i - 1], rows[i])
           T == {n \in Nat : n <= N => \E f : Run(f, n)}
<1>1. N \in Nat /\ \A i \in 1..N : rows[i] \in Row
  BY RowsAre
<1> HIDE DEF N
<1>2. 0 \in T
  <2> DEFINE f == [i \in 0..0 |-> Begin]
  <2>1. f = [i \in 0..0 |-> f[i]] /\ \A i \in 0..0 : i = 0 /\ f[i] = Begin
    OBVIOUS
  <2>2. Run(f, 0)
    <3> HIDE DEF f
    <3> QED BY <2>1
  <2> HIDE DEF Run, f
  <2> QED BY <2>2
<1>3. ASSUME NEW n \in Nat, n \in T PROVE n + 1 \in T
  <2> SUFFICES ASSUME n + 1 <= N PROVE \E f : Run(f, n + 1)
    <3> HIDE DEF Run
    <3> QED OBVIOUS
  <2>1. PICK f : Run(f, n)
    <3>1. n <= N
      BY <1>1
    <3> HIDE DEF Run
    <3> QED BY <3>1, <1>3
  <2> DEFINE v == AddLine(f[n], rows[n + 1])
             g == [i \in 0..(n + 1) |-> IF i = n + 1 THEN v ELSE f[i]]
  <2> HIDE DEF v
  <2>2. g = [i \in 0..(n + 1) |-> g[i]] /\ g[n + 1] = v /\ \A i \in 0..n : g[i] = f[i]
    OBVIOUS
  <2> HIDE DEF g
  <2>3. ASSUME NEW i \in 0..(n + 1) PROVE g[i] = IF i = 0 THEN Begin ELSE AddLine(g[i - 1], rows[i])
    <3>1. CASE i = n + 1
      <4>1. i # 0 /\ i - 1 = n /\ n \in 0..n
        BY <3>1
      <4> QED BY <4>1, <3>1, <2>2 DEF v
    <3>2. CASE i \in 0..n
      <4>1. i # 0 => i - 1 \in 0..n
        BY <3>2
      <4> QED BY <4>1, <3>2, <2>1, <2>2
    <3> QED BY <3>1, <3>2
  <2>4. Run(g, n + 1)
    BY <2>2, <2>3
  <2> HIDE DEF Run
  <2> QED BY <2>4
<1>4. N \in T
  <2> HIDE DEF T
  <2> QED BY <1>1, <1>2, <1>3, Induction
<1>5. PICK f : Run(f, N)
  <2> HIDE DEF Run
  <2> QED BY <1>1, <1>4
<1>6. Rec(f)
  BY <1>5
<1> DEFINE after == CHOOSE h : Rec(h)
<1>7. Rec(after)
  <2> HIDE DEF Rec
  <2> QED BY <1>6
<1>8. AddLines(rows) = after[N]
  BY DEF AddLines, N
<1> HIDE DEF after
<1>9. after[0] = Begin /\ \A i \in 1..N : after[i] = AddLine(after[i - 1], rows[i])
  BY <1>1, <1>7
<1> HIDE DEF Rec
<1> DEFINE U == {n \in Nat : n <= N => Built(after[n], rows, n)}
<1>10. 0 \in U
  BY <1>9, BeginIs
<1>11. ASSUME NEW n \in Nat, n \in U PROVE n + 1 \in U
  <2> SUFFICES ASSUME n + 1 <= N PROVE Built(after[n + 1], rows, n + 1)
    OBVIOUS
  <2>1. n + 1 \in 1..N /\ (n + 1) - 1 = n /\ n < N /\ n <= N
    BY <1>1
  <2>2. Built(after[n], rows, n) /\ IsBuilder(after[n])
    BY <2>1, <1>11 DEF Built
  <2>3. after[n + 1] = AddLine(after[n], rows[n + 1]) /\ rows[n + 1] \in Row
    BY <2>1, <1>1, <1>9
  <2> QED BY <2>1, <2>2, <2>3, AddLineIs DEF N
<1>12. N \in U
  <2> HIDE DEF U
  <2> QED BY <1>1, <1>10, <1>11, Induction
<1>13. Built(after[N], rows, N)
  BY <1>1, <1>12
<1> QED BY <1>8, <1>13 DEF N
-----------------------------------------------------------------------------
\* A set of naturals has a least one.
LEMMA SomeLeast ==
  ASSUME NEW I \in SUBSET Nat, I # {}
  PROVE  \E x \in I : \A y \in I : x <= y
<1> DEFINE T == {n \in Nat : \A x \in I : x > n}
<1>1. SUFFICES ASSUME ~\E x \in I : \A y \in I : x <= y PROVE FALSE
  OBVIOUS
<1>2. 0 \in T
  <2>1. 0 \notin I
    BY <1>1
  <2> QED BY <2>1
<1>3. ASSUME NEW n \in Nat, n \in T PROVE n + 1 \in T
  <2>1. \A x \in I : x > n
    BY <1>3
  <2>2. n + 1 \notin I
    <3>1. SUFFICES ASSUME n + 1 \in I PROVE FALSE
      OBVIOUS
    <3>2. \A y \in I : n + 1 <= y
      BY <2>1
    <3> QED BY <1>1, <3>1, <3>2
  <2>3. \A x \in I : x > n + 1
    <3> TAKE x \in I
    <3>1. x \in Nat /\ x > n /\ x # n + 1
      BY <2>1, <2>2
    <3> QED BY <3>1
  <2> QED BY <2>3
<1>4. PICK x \in I : TRUE
  OBVIOUS
<1>5. x \in T
  <2> HIDE DEF T
  <2> QED BY <1>2, <1>3, Induction
<1>6. x > x /\ x \in Nat
  BY <1>5
<1> QED BY <1>6

\* NewlineAt finds the first newline.
LEMMA NewlineAtIs ==
  ASSUME NEW data \in Seq(Byte)
  PROVE  LET nl == NewlineAt(data)
         IN  \/ nl = 0 /\ \A k \in 1..Len(data) : data[k] # Newline
             \/ /\ nl \in 1..Len(data) /\ data[nl] = Newline
                /\ \A k \in 1..(nl - 1) : data[k] # Newline
<1> DEFINE I == {i \in 1..Len(data) : data[i] = Newline}
           nl == NewlineAt(data)
<1>1. nl = IF I # {} THEN CHOOSE x \in I : \A y \in I : x <= y ELSE 0
  BY DEF NewlineAt, SelectInSeq, Min
<1>2. I \in SUBSET Nat /\ Len(data) \in Nat
  OBVIOUS
<1> HIDE DEF nl
<1>3. I = {} => nl = 0 /\ \A k \in 1..Len(data) : data[k] # Newline
  BY <1>1
<1>4. ASSUME I # {}
      PROVE  /\ nl \in 1..Len(data) /\ data[nl] = Newline
             /\ \A k \in 1..(nl - 1) : data[k] # Newline
  <2>1. nl \in I /\ \A y \in I : nl <= y
    <3>1. \E x \in I : \A y \in I : x <= y
      <4> HIDE DEF I
      <4> QED BY <1>2, <1>4, SomeLeast
    <3> HIDE DEF I
    <3> QED BY <1>1, <1>4, <3>1
  <2>2. nl \in 1..Len(data) /\ data[nl] = Newline
    BY <2>1
  <2>3. \A k \in 1..(nl - 1) : data[k] # Newline
    <3> TAKE k \in 1..(nl - 1)
    <3>1. k \in 1..Len(data) /\ k < nl
      BY <2>2, <1>2
    <3> QED BY <3>1, <2>1, <2>2, <1>2
  <2> QED BY <2>2, <2>3
<1> QED BY <1>3, <1>4 DEF nl

\* The number of members of S up to e.
Rank(S, e) == Cardinality({x \in S : x <= e})

\* The rank of the next member.
LEMMA RankNext ==
  ASSUME NEW S \in SUBSET Nat, NEW p \in Nat, NEW e \in Nat, p < e,
         \A x \in S : x <= p \/ x >= e
  PROVE  /\ IsFiniteSet({x \in S : x <= p}) /\ Rank(S, p) \in Nat
         /\ Rank(S, e) = IF e \in S THEN Rank(S, p) + 1 ELSE Rank(S, p)
<1> DEFINE A == {x \in S : x <= p}
           B == {x \in S : x <= e}
<1>0. \A x \in S : x \in Nat
  OBVIOUS
<1>1. IsFiniteSet(A) /\ Cardinality(A) \in Nat
  <2>0. A \subseteq 0..p
    <3>1. ASSUME NEW x \in S, x <= p PROVE x \in 0..p
      <4>1. x \in Nat
        BY <1>0
      <4> QED BY <3>1, <4>1
    <3> QED BY <3>1
  <2>1. IsFiniteSet(0..p) /\ A \in SUBSET (0..p)
    BY <2>0, FS_Interval
  <2>2. IsFiniteSet(A)
    <3> HIDE DEF A
    <3> QED BY <2>1, FS_Subset
  <2> QED BY <2>2, FS_CardinalityType
<1>2. CASE e \in S
  <2>1. B = A \cup {e} /\ e \notin A
    <3>1. \A x \in S : x <= e <=> (x <= p \/ x = e)
      BY <1>0
    <3>2. e <= e /\ ~(e <= p)
      OBVIOUS
    <3>3. A \cup {e} \subseteq B
      BY <1>2, <3>1
    <3>4. B \subseteq A \cup {e}
      BY <3>1
    <3> QED BY <3>2, <3>3, <3>4
  <2> HIDE DEF A, B
  <2>2. Cardinality(B) = Cardinality(A) + 1
    BY <1>1, <2>1, FS_AddElement
  <2> QED BY <1>1, <1>2, <2>2 DEF Rank, A, B
<1>3. CASE e \notin S
  <2>1. B = A
    <3>1. \A x \in S : x <= e <=> x <= p
      <4> TAKE x \in S
      <4>1. x \in Nat /\ x # e /\ (x <= p \/ x >= e)
        BY <1>0, <1>3
      <4> QED BY <4>1
    <3> QED BY <3>1
  <2> QED BY <1>1, <1>3, <2>1 DEF Rank
<1> QED BY <1>2, <1>3

\* Nth is the inverse of the rank.
LEMMA NthIs ==
  ASSUME NEW S \in SUBSET Nat, NEW e \in S, NEW i, i = Rank(S, e)
  PROVE  Nth(S, i) = e
<1> DEFINE y == Nth(S, i)
<1>1. y \in S /\ Rank(S, y) = i
  BY DEF Nth, Rank
<1> HIDE DEF y
<1>2. ASSUME NEW a \in S, NEW b \in S, a < b PROVE Rank(S, a) # Rank(S, b)
  <2> DEFINE A == {x \in S : x <= a}
             B == {x \in S : x <= b}
  <2>0. a \in Nat /\ b \in Nat /\ \A x \in S : x \in Nat
    OBVIOUS
  <2>01. B \subseteq 0..b
    <3>1. ASSUME NEW x \in S, x <= b PROVE x \in 0..b
      <4>1. x \in Nat
        BY <2>0
      <4> QED BY <2>0, <3>1, <4>1
    <3> QED BY <3>1
  <2>1. IsFiniteSet(0..b) /\ B \in SUBSET (0..b)
    BY <2>0, <2>01, FS_Interval
  <2>2. IsFiniteSet(B)
    <3> HIDE DEF B
    <3> QED BY <2>1, FS_Subset
  <2>3. A \in SUBSET B /\ A # B
    <3>1. b \in B /\ b \notin A
      BY <1>2, <2>0
    <3>2. \A x \in S : x <= a => x <= b
      BY <1>2, <2>0
    <3> QED BY <3>1, <3>2
  <2> HIDE DEF A, B
  <2>4. Cardinality(A) # Cardinality(B)
    BY <2>2, <2>3, FS_Subset
  <2> QED BY <2>4 DEF Rank, A, B
<1>3. y \in Nat /\ e \in Nat
  BY <1>1
<1>4. y = e \/ y < e \/ e < y
  BY <1>3
<1> QED BY <1>1, <1>2, <1>4 DEF y

\* The members of a finite set of naturals are numbered.
LEMMA SomeNth ==
  ASSUME NEW S \in SUBSET Nat, NEW n \in Nat, \A x \in S : x <= n, NEW i \in 1..Cardinality(S)
  PROVE  /\ Nth(S, i) \in S /\ Rank(S, Nth(S, i)) = i
         /\ i > 1 => i - 1 \in 1..Cardinality(S)
<1> DEFINE T == {k \in Nat : \A j \in 1..Rank(S, k) : \E e \in S : Rank(S, e) = j}
<1>0. IsFiniteSet(S) /\ Cardinality(S) \in Nat
  BY FS_BoundedSetOfNaturals, FS_CardinalityType
<1>1. \A k \in Nat : Rank(S, k) \in Nat
  <2> TAKE k \in Nat
  <2>1. {x \in S : x <= k} \in SUBSET S
    OBVIOUS
  <2>2. IsFiniteSet({x \in S : x <= k})
    <3> DEFINE A == {x \in S : x <= k}
    <3> HIDE DEF A
    <3> QED BY <1>0, <2>1, FS_Subset DEF A
  <2> QED BY <2>2, FS_CardinalityType DEF Rank
<1>2. 0 \in T
  <2> SUFFICES ASSUME NEW j \in 1..Rank(S, 0) PROVE \E e \in S : Rank(S, e) = j
    OBVIOUS
  <2>1. CASE 0 \in S
    <3>0. \A x \in S : x \in Nat /\ (x <= 0 <=> x = 0)
      OBVIOUS
    <3>1. {x \in S : x <= 0} = {0}
      BY <2>1, <3>0
    <3>2. Rank(S, 0) = 1
      BY <3>1, FS_Singleton DEF Rank
    <3> QED BY <2>1, <3>2
  <2>2. CASE 0 \notin S
    <3>0. \A x \in S : x \in Nat /\ (x <= 0 <=> x = 0)
      OBVIOUS
    <3>1. {x \in S : x <= 0} = {}
      BY <2>2, <3>0
    <3>2. Rank(S, 0) = 0
      BY <3>1, FS_EmptySet DEF Rank
    <3> QED BY <3>2
  <2> QED BY <2>1, <2>2
<1>3. ASSUME NEW k \in Nat, k \in T PROVE k + 1 \in T
  <2> SUFFICES ASSUME NEW j \in 1..Rank(S, k + 1) PROVE \E e \in S : Rank(S, e) = j
    OBVIOUS
  <2>1. Rank(S, k + 1) = IF k + 1 \in S THEN Rank(S, k) + 1 ELSE Rank(S, k)
    <3>1. k < k + 1 /\ k + 1 \in Nat /\ \A x \in S : x <= k \/ x >= k + 1
      OBVIOUS
    <3> QED BY <3>1, RankNext
  <2>2. CASE j \in 1..Rank(S, k)
    BY <2>2, <1>3
  <2>3. CASE j \notin 1..Rank(S, k)
    <3>1. k + 1 \in S /\ j = Rank(S, k + 1)
      BY <2>1, <2>3, <1>1
    <3> QED BY <3>1
  <2> QED BY <2>2, <2>3
<1>5. Rank(S, n) = Cardinality(S)
  <2>1. {x \in S : x <= n} = S
    OBVIOUS
  <2> QED BY <2>1 DEF Rank
<1>6. n \in T
  <2> HIDE DEF T
  <2> QED BY <1>2, <1>3, Induction
<1>7. \E e \in S : Rank(S, e) = i
  BY <1>5, <1>6
<1>8. Nth(S, i) \in S /\ Rank(S, Nth(S, i)) = i
  BY <1>7 DEF Nth, Rank
<1> QED BY <1>0, <1>8

\* A part of a rest of a sequence is a part of the sequence.
IsRest(rest, s, S, p) ==
  /\ s \in Seq(S) /\ rest \in Seq(S) /\ p \in Nat /\ p <= Len(s)
  /\ Len(rest) = Len(s) - p /\ \A k \in 1..(Len(s) - p) : rest[k] = s[p + k]

\* Places x..y of a rest of n elements are places u..v of the whole.
IsShift(x, y, u, v, p, n) ==
  x \in Nat /\ x > 0 /\ y \in Int /\ y <= n /\ u = p + x /\ v = p + y

\* SubSeq under a name the provers take as it is.
Part(s, x, y) == SubSeq(s, x, y)

\* SubSeq of a rest is SubSeq of the whole.
LEMMA PartOfRest ==
  ASSUME NEW S, NEW s, NEW rest, NEW p, IsRest(rest, s, S, p),
         NEW x, NEW y, NEW u, NEW v, IsShift(x, y, u, v, p, Len(rest))
  PROVE  Part(rest, x, y) = Part(s, u, v)
<1> DEFINE a == SubSeq(rest, x, y)
           b == SubSeq(s, u, v)
<1>1. s \in Seq(S) /\ rest \in Seq(S) /\ p \in Nat /\ p <= Len(s) /\ Len(s) \in Nat
      /\ Len(rest) = Len(s) - p /\ \A k \in 1..(Len(s) - p) : rest[k] = s[p + k]
  BY DEF IsRest
<1>0. x \in Nat /\ x > 0 /\ y \in Int /\ y <= Len(rest) /\ u = p + x /\ v = p + y
  BY DEF IsShift
<1>2. u \in Nat /\ u > 0 /\ v \in Int /\ v <= Len(s) /\ (x <= y <=> u <= v) /\ v - u + 1 = y - x + 1
  BY <1>0, <1>1
<1>3. /\ a \in Seq(S) /\ Len(a) = (IF x <= y THEN y - x + 1 ELSE 0)
      /\ \A k \in 1..(y - x + 1) : a[k] = rest[x + k - 1]
  <2>1. rest \in Seq(S) /\ x \in Nat /\ y \in Int /\ x > 0 /\ y <= Len(rest)
    BY <1>0, <1>1
  <2> QED BY ONLY <2>1, PartOf
<1>4. /\ b \in Seq(S) /\ Len(b) = (IF u <= v THEN v - u + 1 ELSE 0)
      /\ \A k \in 1..(v - u + 1) : b[k] = s[u + k - 1]
  <2>1. s \in Seq(S) /\ u \in Nat /\ v \in Int /\ u > 0 /\ v <= Len(s)
    BY <1>2, <1>1
  <2> QED BY ONLY <2>1, PartOf
<1> HIDE DEF a, b
<1>5. Len(a) = Len(b)
  BY <1>2, <1>3, <1>4
<1>6. ASSUME NEW k \in 1..Len(a) PROVE a[k] = b[k]
  <2>1. k \in 1..(y - x + 1) /\ k \in 1..(v - u + 1)
    BY <1>2, <1>3, <1>0
  <2>2. x + k - 1 \in 1..(Len(s) - p) /\ p + (x + k - 1) = u + k - 1
    BY <2>1, <1>0, <1>1, <1>2
  <2>3. a[k] = rest[x + k - 1] /\ b[k] = s[u + k - 1]
    BY <2>1, <1>3, <1>4
  <2>4. rest[x + k - 1] = s[p + (x + k - 1)]
    BY <2>2, <1>1
  <2> QED BY <2>2, <2>3, <2>4
<1>7. a = b
  BY <1>3, <1>4, <1>5, <1>6, SeqEqual
<1> QED BY <1>7 DEF a, b, Part
-----------------------------------------------------------------------------
\* Of a blob: the places of its newlines, the end of each of its lines, the bytes of its
\* i-th line.
Newlines(data) == {i \in DOMAIN data : data[i] = Newline}
Ends(data) ==
  Newlines(data) \cup (IF data # <<>> /\ Last(data) # Newline THEN {Len(data) + 1} ELSE {})
Raw(data, i) ==
  SubSeq(data, (IF i = 1 THEN 0 ELSE Nth(Ends(data), i - 1)) + 1, Nth(Ends(data), i) - 1)

\* The first m lines are the first p bytes.
SplitAt(data, p, m) ==
  /\ p \in Nat /\ p <= Len(data) + 1 /\ (p = 0 \/ p \in Ends(data))
  /\ m = Rank(Ends(data), p)

\* The ends of the lines are the newlines, and the end of a text without a final one.
LEMMA EndsAre ==
  ASSUME NEW data \in Seq(Byte)
  PROVE  /\ Ends(data) \in SUBSET Nat /\ Len(data) \in Nat
         /\ \A x \in Ends(data) : x \in 1..(Len(data) + 1) /\ (x \in Newlines(data) <=> x <= Len(data))
         /\ Newlines(data) \subseteq Ends(data)
         /\ \A x \in 1..Len(data) : x \in Newlines(data) <=> data[x] = Newline
         /\ Cardinality(Ends(data)) \in Nat
<1>1. Len(data) \in Nat /\ DOMAIN data = 1..Len(data)
  OBVIOUS
<1>2. /\ Newlines(data) \subseteq 1..Len(data)
      /\ \A x \in 1..Len(data) : x \in Newlines(data) <=> data[x] = Newline
  BY <1>1 DEF Newlines
<1>3. /\ Newlines(data) \subseteq Ends(data)
      /\ \A x \in Ends(data) : x \in Newlines(data) \/ x = Len(data) + 1
  BY DEF Ends
<1>4. \A x \in Ends(data) : x \in 1..(Len(data) + 1) /\ (x \in Newlines(data) <=> x <= Len(data))
  BY <1>1, <1>2, <1>3
<1>5. Ends(data) \in SUBSET Nat /\ \A x \in Ends(data) : x <= Len(data) + 1
  BY <1>1, <1>4
<1>6. Cardinality(Ends(data)) \in Nat
  <2>1. Len(data) + 1 \in Nat
    BY <1>1
  <2>2. IsFiniteSet(Ends(data))
    BY <1>5, <2>1, FS_BoundedSetOfNaturals
  <2> QED BY <2>2, FS_CardinalityType
<1> QED BY <1>1, <1>2, <1>3, <1>4, <1>5, <1>6

\* BlobLines in these terms.
LEMMA BlobLinesAre ==
  ASSUME NEW data
  PROVE  BlobLines(data) =
           [i \in 1..Cardinality(Ends(data)) |->
              IF Nth(Ends(data), i) \in Newlines(data) THEN WithoutReturn(Raw(data, i)) ELSE Raw(data, i)]
BY DEF BlobLines, Ends, Newlines, Raw

\* All of a sequence but its last element.
LEMMA FrontIs ==
  ASSUME NEW S, NEW s \in Seq(S), s # <<>>
  PROVE  /\ SubSeq(s, 1, Len(s) - 1) \in Seq(S) /\ Len(SubSeq(s, 1, Len(s) - 1)) = Len(s) - 1
         /\ \A k \in 1..(Len(s) - 1) : SubSeq(s, 1, Len(s) - 1)[k] = s[k]
<1> DEFINE y == Len(s) - 1
<1>1. y \in Nat /\ y <= Len(s)
  OBVIOUS
<1> HIDE DEF y
<1>2. /\ SubSeq(s, 1, y) \in Seq(S)
      /\ Len(SubSeq(s, 1, y)) = IF 1 <= y THEN y - 1 + 1 ELSE 0
      /\ \A k \in 1..(y - 1 + 1) : SubSeq(s, 1, y)[k] = s[1 + k - 1]
  BY <1>1, PartOf
<1>3. Len(SubSeq(s, 1, y)) = y /\ \A k \in 1..y : SubSeq(s, 1, y)[k] = s[k]
  BY <1>1, <1>2
<1> QED BY <1>2, <1>3 DEF y

\* A line without its return is a line.
LEMMA WithoutReturnIs ==
  ASSUME NEW line \in Seq(Byte)
  PROVE  WithoutReturn(line) \in Seq(Byte)
<1>1. CASE line # <<>> /\ Last(line) = Return
  BY <1>1, FrontIs DEF WithoutReturn, Front
<1>2. CASE ~(line # <<>> /\ Last(line) = Return)
  BY <1>2 DEF WithoutReturn
<1> QED BY <1>1, <1>2

\* A line of a blob is a text.
LEMMA BlobRows ==
  ASSUME NEW data \in Seq(Byte), NEW i \in 1..Cardinality(Ends(data))
  PROVE  BlobLines(data)[i] \in Seq(Byte)
<1> DEFINE S == Ends(data)
           prev == IF i = 1 THEN 0 ELSE Nth(S, i - 1)
           x == prev + 1
           y == Nth(S, i) - 1
<1>1. S \in SUBSET Nat /\ Len(data) \in Nat /\ Len(data) + 1 \in Nat /\ \A z \in S : z \in 1..(Len(data) + 1)
  BY EndsAre
<1>2. \A z \in S : z <= Len(data) + 1
  BY <1>1
<1>3. Nth(S, i) \in S
  BY <1>1, <1>2, SomeNth
<1>4. prev \in Nat
  <2>1. CASE i = 1
    BY <2>1
  <2>2. CASE i # 1
    <3>1. Cardinality(S) \in Nat
      BY EndsAre
    <3>2. i - 1 \in 1..Cardinality(S)
      BY <2>2, <3>1
    <3>3. Nth(S, i - 1) \in S
      <4> DEFINE j == i - 1
      <4> HIDE DEF j
      <4>1. Nth(S, j) \in S
        BY <1>1, <1>2, <3>2, SomeNth DEF j
      <4> QED BY <4>1 DEF j
    <3> QED BY <3>3, <1>1, <2>2
  <2> QED BY <2>1, <2>2
<1>5. x \in Nat /\ x > 0 /\ y \in Int /\ y <= Len(data)
  BY <1>1, <1>3, <1>4
<1>6. SubSeq(data, x, y) \in Seq(Byte)
  <2> HIDE DEF x, y
  <2> QED BY <1>5, PartOf
<1>7. Raw(data, i) = SubSeq(data, x, y)
  BY DEF Raw
<1>8. BlobLines(data)[i] = IF Nth(S, i) \in Newlines(data) THEN WithoutReturn(Raw(data, i)) ELSE Raw(data, i)
  BY BlobLinesAre
<1> HIDE DEF x, y
<1> QED BY <1>6, <1>7, <1>8, WithoutReturnIs

\* The numbered lines of a blob.
LEMMA BlobTruth ==
  ASSUME NEW data \in Seq(Byte), NEW truth,
         truth = [i \in DOMAIN BlobLines(data) |-> [n |-> 1 + i - 1, text |-> BlobLines(data)[i]]]
  PROVE  /\ IsTruth(truth) /\ Len(truth) = Cardinality(Ends(data))
         /\ \A i \in 1..Cardinality(Ends(data)) : truth[i] = [n |-> i, text |-> BlobLines(data)[i]]
<1> DEFINE N == Cardinality(Ends(data))
<1>1. N \in Nat /\ DOMAIN BlobLines(data) = 1..N
  BY EndsAre, BlobLinesAre
<1>2. \A i \in 1..N : BlobLines(data)[i] \in Seq(Byte)
  BY BlobRows
<1> HIDE DEF N
<1>3. truth = [i \in 1..N |-> [n |-> i, text |-> BlobLines(data)[i]]]
  <2>1. \A i \in 1..N : 1 + i - 1 = i
    BY <1>1
  <2> QED BY <1>1, <2>1
<1>4. \A i \in 1..N : [n |-> i, text |-> BlobLines(data)[i]] \in Row
  BY <1>1, <1>2 DEF Row
<1>5. truth \in Seq(Row) /\ Len(truth) = N
  BY <1>1, <1>3, <1>4
<1>6. \A i \in 1..N : truth[i] = [n |-> i, text |-> BlobLines(data)[i]] /\ truth[i].n = i
  BY <1>3
<1>7. IsTruth(truth)
  <2>1. \A i \in 1..N : 1 \in 1..N /\ i \in Nat /\ 1 + i - 1 = i
    BY <1>1
  <2>2. truth # <<>> => 1 \in 1..N
    BY <1>1, <1>5
  <2> QED BY <1>5, <1>6, <2>1, <2>2 DEF IsTruth
<1> QED BY <1>5, <1>6, <1>7 DEF N

\* What is left of data behind its first p bytes.
IsLeft(rest, data, p) == rest = SubSeq(data, p + 1, Len(data))

\* splitLinesStripCR returns the line that comes next in the blob, and leaves what is behind it.
LEMMA NextLineIs ==
  ASSUME NEW data \in Seq(Byte), NEW p, NEW m, SplitAt(data, p, m),
         NEW rest, IsLeft(rest, data, p), rest # <<>>
  PROVE  \E e : /\ SplitAt(data, e, m + 1)
                /\ IsLeft(NextLine(rest).rest, data, e)
                /\ m \in Nat /\ m + 1 \in 1..Cardinality(Ends(data))
                /\ NextLine(rest).text = BlobLines(data)[m + 1]
<1> DEFINE S == Ends(data)
           L == Len(data)
           nl == NewlineAt(rest)
<1>0. rest = SubSeq(data, p + 1, Len(data))
  BY DEF IsLeft
<1>1. /\ S \in SUBSET Nat /\ L \in Nat /\ L + 1 \in Nat
      /\ \A x \in S : x \in 1..(L + 1) /\ (x \in Newlines(data) <=> x <= L)
      /\ Newlines(data) \subseteq S
      /\ (\A x \in 1..L : x \in Newlines(data) <=> data[x] = Newline)
      /\ Cardinality(S) \in Nat
  BY EndsAre
<1>2. p \in Nat /\ p <= L + 1 /\ (p = 0 \/ p \in S) /\ m = Rank(S, p)
  BY DEF SplitAt
<1>3. /\ rest \in Seq(Byte) /\ Len(rest) = (IF p + 1 <= L THEN L - (p + 1) + 1 ELSE 0)
      /\ \A k \in 1..(L - (p + 1) + 1) : rest[k] = data[p + 1 + k - 1]
  <2>1. p + 1 \in Nat /\ p + 1 > 0 /\ L \in Int /\ L <= Len(data)
    BY <1>1, <1>2
  <2> DEFINE x == p + 1
  <2>2. /\ SubSeq(data, x, L) \in Seq(Byte) /\ Len(SubSeq(data, x, L)) = (IF x <= L THEN L - x + 1 ELSE 0)
        /\ \A k \in 1..(L - x + 1) : SubSeq(data, x, L)[k] = data[x + k - 1]
    <3> HIDE DEF x, L
    <3> QED BY <2>1, PartOf DEF x, L
  <2> QED BY <2>2, <1>0
<1> HIDE DEF S, L, nl
<1>4. p < L /\ Len(rest) = L - p /\ \A k \in 1..(L - p) : rest[k] = data[p + k]
  <2>1. Len(rest) # 0
    BY <1>3
  <2>2. p < L /\ Len(rest) = L - p
    BY <1>1, <1>2, <1>3, <2>1
  <2>3. \A k \in 1..(L - p) : k \in 1..(L - (p + 1) + 1) /\ p + 1 + k - 1 = p + k
    BY <1>1, <1>2
  <2> QED BY <2>2, <2>3, <1>3
<1> DEFINE e == IF nl > 0 THEN p + nl ELSE L + 1
<1>5. /\ nl \in Nat /\ e \in S /\ e > p /\ e \in Nat /\ (\A x \in S : x <= p \/ x >= e)
      /\ e \in Newlines(data) <=> nl > 0
      /\ nl > 0 => nl <= L - p
  <2>1. \/ nl = 0 /\ \A k \in 1..(L - p) : rest[k] # Newline
        \/ /\ nl \in 1..(L - p) /\ rest[nl] = Newline
           /\ \A k \in 1..(nl - 1) : rest[k] # Newline
    BY <1>3, <1>4, NewlineAtIs DEF nl
  <2>2. CASE nl = 0 /\ \A k \in 1..(L - p) : rest[k] # Newline
    <3>1. e = L + 1
      BY <2>2
    <3>2. \A x \in 1..L : x <= p \/ x \notin Newlines(data)
      <4> TAKE x \in 1..L
      <4>1. x <= p \/ (x - p \in 1..(L - p) /\ p + (x - p) = x)
        BY <1>1, <1>2
      <4> QED BY <4>1, <2>2, <1>4, <1>1
    <3>3. L + 1 \in S
      <4>1. L \in 1..L /\ ~(L <= p) /\ data # <<>>
        BY <1>1, <1>2, <1>4 DEF L
      <4>2. data[L] # Newline
        BY <4>1, <3>2, <1>1
      <4> QED BY <4>1, <4>2 DEF S, Ends, Last, L
    <3>4. \A x \in S : x <= p \/ x >= L + 1
      <4> TAKE x \in S
      <4>1. x \in 1..(L + 1) /\ (x \in Newlines(data) <=> x <= L)
        BY <1>1
      <4> QED BY <4>1, <3>2, <1>1, <1>2
    <3>5. L + 1 \notin Newlines(data)
      BY <1>1, <3>3
    <3> HIDE DEF e
    <3> QED BY <2>2, <3>1, <3>3, <3>4, <3>5, <1>1, <1>2, <1>4
  <2>3. CASE nl \in 1..(L - p) /\ rest[nl] = Newline /\ \A k \in 1..(nl - 1) : rest[k] # Newline
    <3>1. nl > 0 /\ e = p + nl /\ e \in 1..L /\ nl \in Nat /\ nl <= L - p
      BY <2>3, <1>1, <1>2
    <3>2. data[e] = Newline
      <4> HIDE DEF e
      <4> QED BY <2>3, <1>4, <3>1
    <3>3. e \in Newlines(data) /\ e \in S
      <4> HIDE DEF e
      <4> QED BY <3>1, <3>2, <1>1
    <3>4. \A x \in S : x <= p \/ x >= p + nl
      <4> TAKE x \in S
      <4>1. x \in 1..(L + 1) /\ (x \in Newlines(data) <=> x <= L)
        BY <1>1
      <4>2. SUFFICES ASSUME x > p, x < p + nl PROVE FALSE
        BY <4>1, <1>2, <3>1
      <4>3. x \in 1..L /\ x - p \in 1..(nl - 1) /\ x - p \in 1..(L - p) /\ p + (x - p) = x
        BY <4>1, <4>2, <3>1, <1>1, <1>2
      <4>4. rest[x - p] = data[x]
        BY <4>3, <1>4
      <4>5. data[x] # Newline
        BY <4>3, <4>4, <2>3
      <4> QED BY <4>1, <4>3, <4>5, <1>1
    <3> HIDE DEF e
    <3> QED BY <3>1, <3>3, <3>4, <1>2
  <2> QED BY <2>1, <2>2, <2>3
<1>50. e = IF nl > 0 THEN p + nl ELSE L + 1
  OBVIOUS
<1> HIDE DEF e
<1>6. Rank(S, e) = m + 1 /\ m \in Nat
  BY <1>1, <1>2, <1>5, RankNext
<1>7. SplitAt(data, e, m + 1)
  BY <1>1, <1>5, <1>6 DEF SplitAt, S, L
<1>8. m + 1 \in 1..Cardinality(S)
  <2> DEFINE B == {x \in S : x <= e}
  <2>1. IsFiniteSet(S)
    <3>1. \A x \in S : x <= L + 1
      BY <1>1
    <3> QED BY <1>1, <3>1, FS_BoundedSetOfNaturals
  <2>2. Cardinality(B) <= Cardinality(S)
    <3>1. B \in SUBSET S
      OBVIOUS
    <3> HIDE DEF B
    <3> QED BY <2>1, <3>1, FS_Subset
  <2>3. Cardinality(B) = m + 1
    BY <1>6 DEF Rank
  <2> HIDE DEF B
  <2> QED BY <2>2, <2>3, <1>6, <1>1
<1>9. Nth(S, m + 1) = e
  BY <1>1, <1>5, <1>6, NthIs
<1>10. Raw(data, m + 1) = SubSeq(data, p + 1, e - 1)
  <2>1. CASE m = 0
    <3>1. p = 0
      <4>1. SUFFICES ASSUME p \in S PROVE FALSE
        BY <1>2
      <4> DEFINE A == {x \in S : x <= p}
      <4>2. p \in A /\ IsFiniteSet(A)
        BY <4>1, <1>1, <1>2, <1>5, RankNext
      <4>3. Cardinality(A) = 0
        BY <2>1, <1>2 DEF Rank
      <4> HIDE DEF A
      <4> QED BY <4>2, <4>3, FS_EmptySet
    <3>2. m + 1 = 1 /\ p + 1 = 1 /\ 0 + 1 = 1
      BY <3>1, <2>1
    <3>3. Raw(data, m + 1) = SubSeq(data, 0 + 1, Nth(S, m + 1) - 1)
      BY <3>2 DEF Raw, S
    <3> QED BY <3>2, <3>3, <1>9
  <2>2. CASE m # 0
    <3>1. p # 0
      <4>1. SUFFICES ASSUME p = 0 PROVE FALSE
        OBVIOUS
      <4>2. {x \in S : x <= p} = {}
        <5>1. ASSUME NEW x \in S PROVE ~(x <= p)
          <6>1. x \in 1..(L + 1)
            BY <1>1
          <6> QED BY <6>1, <4>1, <1>1
        <5> QED BY <5>1
      <4> QED BY <4>2, <2>2, <1>2, FS_EmptySet DEF Rank
    <3>2. p \in S
      BY <3>1, <1>2
    <3>3. Nth(S, m) = p
      BY <3>2, <1>1, <1>2, NthIs
    <3>4. m + 1 # 1 /\ (m + 1) - 1 = m
      BY <2>2, <1>6
    <3> QED BY <3>3, <3>4, <1>9 DEF Raw, S
  <2> QED BY <2>1, <2>2
<1>11. BlobLines(data)[m + 1] = IF e \in Newlines(data) THEN WithoutReturn(Raw(data, m + 1)) ELSE Raw(data, m + 1)
  BY <1>8, <1>9, BlobLinesAre DEF S
<1>12. CASE nl > 0
  <2>1. /\ NextLine(rest).text = WithoutReturn(SubSeq(rest, 1, nl - 1))
        /\ NextLine(rest).rest = SubSeq(rest, nl + 1, Len(rest))
    BY <1>12 DEF NextLine, nl
  <2>2. e = p + nl /\ nl <= L - p
    BY <1>12, <1>5, <1>50
  <2>0. IsRest(rest, data, Byte, p)
    <3>1. p <= L
      BY <1>1, <1>2, <1>4
    <3> QED BY <3>1, <1>2, <1>3, <1>4 DEF IsRest, L
  <2>3. SubSeq(rest, 1, nl - 1) = SubSeq(data, p + 1, e - 1)
    <3> DEFINE y == nl - 1  u == p + 1  v == e - 1
    <3>1. IsShift(1, y, u, v, p, Len(rest))
      BY <2>2, <1>1, <1>2, <1>4, <1>5 DEF IsShift
    <3> HIDE DEF y, u, v
    <3>2. Part(rest, 1, y) = Part(data, u, v)
      BY ONLY <2>0, <3>1, PartOfRest
    <3> QED BY <3>2 DEF y, u, v, Part
  <2>4. SubSeq(rest, nl + 1, Len(rest)) = SubSeq(data, e + 1, L)
    <3> DEFINE x == nl + 1  y == Len(rest)  u == e + 1
    <3>1. IsShift(x, y, u, L, p, Len(rest))
      BY <2>2, <1>1, <1>2, <1>4, <1>5 DEF IsShift
    <3> HIDE DEF x, y, u
    <3>2. Part(rest, x, y) = Part(data, u, L)
      BY ONLY <2>0, <3>1, PartOfRest
    <3> QED BY <3>2 DEF x, y, u, Part
  <2>5. NextLine(rest).text = BlobLines(data)[m + 1]
    BY <2>1, <2>3, <1>5, <1>10, <1>11, <1>12
  <2> QED BY <2>1, <2>4, <2>5, <1>6, <1>7, <1>8 DEF S, L, IsLeft
<1>13. CASE ~(nl > 0)
  <2>1. NextLine(rest).text = rest /\ NextLine(rest).rest = <<>>
    BY <1>13 DEF NextLine, nl
  <2>2. e = L + 1 /\ e - 1 = L
    BY <1>13, <1>50, <1>1
  <2>3. NextLine(rest).text = BlobLines(data)[m + 1]
    BY <1>0, <2>1, <2>2, <1>5, <1>10, <1>11, <1>13 DEF L
  <2>4. SubSeq(data, e + 1, L) = <<>>
    <3>1. e + 1 \in Int /\ L \in Int /\ L < e + 1
      BY <2>2, <1>1
    <3> QED BY <3>1, SubSeqEmpty
  <2> QED BY <2>1, <2>3, <2>4, <1>6, <1>7, <1>8 DEF S, L, IsLeft
<1> QED BY <1>12, <1>13
-----------------------------------------------------------------------------
(* The reader of a blob: its sample, its rest, and the drain.              *)

\* All of a sequence.
LEMMA WholeIs ==
  ASSUME NEW S, NEW s \in Seq(S), NEW w, w = SubSeq(s, 1, Len(s))
  PROVE  w = s
<1>1. Len(s) \in Nat
  OBVIOUS
<1> DEFINE y == Len(s)
<1>2. w \in Seq(S) /\ Len(w) = (IF 1 <= y THEN y - 1 + 1 ELSE 0) /\ \A k \in 1..(y - 1 + 1) : w[k] = s[1 + k - 1]
  <2>1. y \in Int /\ y <= Len(s) /\ 1 \in Nat /\ 1 > 0 /\ w = SubSeq(s, 1, y)
    BY <1>1
  <2> HIDE DEF y
  <2> QED BY <2>1, PartOf
<1>3. Len(w) = Len(s)
  BY <1>1, <1>2
<1>4. ASSUME NEW k \in 1..Len(w) PROVE w[k] = s[k]
  <2>1. k \in 1..(y - 1 + 1) /\ 1 + k - 1 = k
    BY <1>1, <1>3
  <2> QED BY <2>1, <1>2
<1> QED BY <1>2, <1>3, <1>4, SeqEqual

\* The first n bytes of the content, and what the stream holds then.
Parted(a, q, s, n, data) ==
  s = Append(data, Newline) /\ a = SubSeq(s, 1, n) /\ q = SubSeq(s, n + 1, Len(s))

\* The sample in front of the rest is the content again.
LEMMA SniffIs ==
  ASSUME NEW data \in Seq(Byte), NEW n \in Nat, n <= Len(data),
         NEW stream0, NEW a, NEW q, Parted(a, q, stream0, n, data)
  PROVE  /\ a \in Seq(Byte) /\ Len(a) = n
         /\ q \in Seq(Byte) /\ Len(q) = Len(data) - n + 1
         /\ \A b : b = SubSeq(q, 1, Len(data) - n) => a \o b = data
<1> DEFINE L == Len(data)
           M == Len(stream0)
<1>0. stream0 = Append(data, Newline) /\ a = SubSeq(stream0, 1, n) /\ q = SubSeq(stream0, n + 1, Len(stream0))
  BY DEF Parted
<1>1. L \in Nat /\ Newline \in Byte /\ n <= L
  BY ChunksAssumption
<1>2. /\ stream0 \in Seq(Byte) /\ M = L + 1 /\ \A k \in 1..L : stream0[k] = data[k]
  BY <1>0, <1>1, AppendProperties
<1> HIDE DEF L, M
<1>3. /\ a \in Seq(Byte) /\ Len(a) = n /\ \A k \in 1..n : a[k] = stream0[k]
  <2>1. 1 \in Nat /\ 1 > 0 /\ n \in Int /\ n <= Len(stream0)
    BY <1>1, <1>2 DEF M
  <2>2. /\ a \in Seq(Byte) /\ Len(a) = (IF 1 <= n THEN n - 1 + 1 ELSE 0)
        /\ \A k \in 1..(n - 1 + 1) : a[k] = stream0[1 + k - 1]
    BY <1>0, <2>1, <1>2, PartOf
  <2>3. Len(a) = n
    BY <2>2
  <2>4. ASSUME NEW k \in 1..n PROVE a[k] = stream0[k]
    <3>1. k \in 1..(n - 1 + 1) /\ 1 + k - 1 = k
      OBVIOUS
    <3> QED BY <3>1, <2>2
  <2> QED BY <2>2, <2>3, <2>4
<1>4. /\ q \in Seq(Byte) /\ Len(q) = L - n + 1 /\ \A k \in 1..(L - n + 1) : q[k] = stream0[n + k]
  <2> DEFINE x == n + 1
  <2>1. x \in Nat /\ x > 0 /\ M \in Int /\ M <= Len(stream0)
    BY <1>1, <1>2 DEF M
  <2>2. /\ q \in Seq(Byte) /\ Len(q) = (IF x <= M THEN M - x + 1 ELSE 0)
        /\ \A k \in 1..(M - x + 1) : q[k] = stream0[x + k - 1]
    <3>1. q = SubSeq(stream0, x, M)
      BY <1>0 DEF M
    <3> HIDE DEF x
    <3>2. stream0 \in Seq(Byte)
      BY <1>2
    <3> QED BY ONLY <2>1, <3>1, <3>2, PartOf
  <2>3. Len(q) = L - n + 1
    BY <2>2, <1>1, <1>2
  <2>4. ASSUME NEW k \in 1..(L - n + 1) PROVE q[k] = stream0[n + k]
    <3>1. k \in 1..(M - x + 1) /\ x + k - 1 = n + k
      BY <1>1, <1>2
    <3> QED BY <3>1, <2>2
  <2> QED BY <2>2, <2>3, <2>4
<1>5. ASSUME NEW b, b = SubSeq(q, 1, L - n) PROVE a \o b = data
  <2> DEFINE y == L - n
             w == a \o b
  <2>1. 1 \in Nat /\ 1 > 0 /\ y \in Int /\ y <= Len(q) /\ y \in Nat
    BY <1>1, <1>4
  <2>2. /\ b \in Seq(Byte) /\ Len(b) = (IF 1 <= y THEN y - 1 + 1 ELSE 0)
        /\ \A k \in 1..(y - 1 + 1) : b[k] = q[1 + k - 1]
    <3>1. b = SubSeq(q, 1, y)
      BY <1>5
    <3> HIDE DEF y
    <3>2. q \in Seq(Byte)
      BY <1>4
    <3> QED BY ONLY <2>1, <3>1, <3>2, PartOf
  <2>3. Len(b) = y
    BY <2>1, <2>2
  <2>4. /\ w \in Seq(Byte) /\ Len(w) = Len(a) + Len(b)
        /\ \A k \in 1..(Len(a) + Len(b)) : w[k] = IF k <= Len(a) THEN a[k] ELSE b[k - Len(a)]
    BY <1>3, <2>2, ConcatProperties
  <2> HIDE DEF w
  <2>5. Len(w) = Len(data)
    BY <1>1, <1>3, <2>3, <2>4 DEF L
  <2>6. ASSUME NEW k \in 1..Len(w) PROVE w[k] = data[k]
    <3>0. k \in 1..L /\ k \in 1..(Len(a) + Len(b)) /\ k \in Nat
      BY <2>4, <2>5, <1>1 DEF L
    <3>1. CASE k <= n
      <4>1. w[k] = a[k] /\ a[k] = stream0[k]
        BY <3>0, <3>1, <2>4, <1>3
      <4> QED BY <4>1, <3>0, <1>2
    <3>2. CASE ~(k <= n)
      <4>1. k - n \in 1..y /\ k - n \in 1..(y - 1 + 1) /\ 1 + (k - n) - 1 = k - n /\ n + (k - n) = k
            /\ k - n \in 1..(L - n + 1)
        BY <3>0, <3>2, <1>1
      <4>2. w[k] = b[k - n]
        BY <3>0, <3>2, <2>4, <1>3
      <4>3. b[k - n] = q[k - n]
        BY <4>1, <2>2
      <4>4. q[k - n] = stream0[k]
        BY <4>1, <1>4
      <4> QED BY <4>2, <4>3, <4>4, <3>0, <1>2
    <3> QED BY <3>1, <3>2
  <2>7. w = data
    BY <2>4, <2>5, <2>6, SeqEqual
  <2> QED BY <2>7 DEF w
<1> QED BY <1>3, <1>4, <1>5 DEF L

\* Before the first line.
LEMMA SplitNone ==
  ASSUME NEW data \in Seq(Byte)
  PROVE  SplitAt(data, 0, 0) /\ \A w : w = SubSeq(data, 0 + 1, Len(data)) => w = data
<1>1. Rank(Ends(data), 0) = 0
  <2> DEFINE A == {x \in Ends(data) : x <= 0}
  <2>1. A = {}
    <3>1. ASSUME NEW x \in Ends(data) PROVE ~(x <= 0)
      <4>1. x \in 1..(Len(data) + 1) /\ Len(data) \in Nat
        BY EndsAre
      <4> QED BY <4>1
    <3> QED BY <3>1
  <2>2. Cardinality(A) = 0
    <3> HIDE DEF A
    <3> QED BY <2>1, FS_EmptySet
  <2> QED BY <2>2 DEF Rank
<1>2. Len(data) \in Nat /\ 0 + 1 = 1
  OBVIOUS
<1>3. \A w : w = SubSeq(data, 1, Len(data)) => w = data
  BY WholeIs
<1> QED BY <1>1, <1>2, <1>3 DEF SplitAt

\* A text's first line and the rest of it, whatever the text.
LEMMA NextLineType ==
  ASSUME NEW data \in Seq(Byte)
  PROVE  NextLine(data).text \in Seq(Byte) /\ NextLine(data).rest \in Seq(Byte)
<1> DEFINE nl == NewlineAt(data)
           x == nl + 1
           y == nl - 1
           z == Len(data)
<1>1. z \in Nat /\ (nl = 0 \/ nl \in 1..z)
  BY NewlineAtIs
<1>2. CASE nl > 0
  <2> HIDE DEF nl
  <2>1. /\ x \in Nat /\ x > 0 /\ z \in Int /\ z <= Len(data)
        /\ 1 \in Nat /\ 1 > 0 /\ y \in Int /\ y <= Len(data)
    BY <1>1, <1>2
  <2>2. SubSeq(data, x, z) \in Seq(Byte) /\ SubSeq(data, 1, y) \in Seq(Byte)
    <3> HIDE DEF x, y, z
    <3> QED BY <2>1, PartOf
  <2>3. WithoutReturn(SubSeq(data, 1, y)) \in Seq(Byte)
    BY <2>2, WithoutReturnIs
  <2> QED BY <1>2, <2>2, <2>3 DEF NextLine, nl
<1>3. CASE ~(nl > 0)
  BY <1>3 DEF NextLine
<1> QED BY <1>2, <1>3
-----------------------------------------------------------------------------
(* The truth of a source, and the chunks that tell it.                     *)

\* TrueLines, Misread, Misfiled and Truncated in a configuration and with a set of excuses.
Truth(cfg, src) ==
  LET first == IF cfg.mode = "blobs" THEN 1 ELSE cfg.input[src[1]].hunks[src[2]].start
      lines == IF cfg.mode = "blobs" THEN BlobLines(cfg.input[src[1]].data)
               ELSE HunkLines(cfg.input[src[1]].hunks[src[2]])
  IN  [i \in DOMAIN lines |-> [n |-> first + i - 1, text |-> lines[i]]]

HasPlusPlus(hunk) == \E line \in ToSet(hunk.lines) : LooksLikeFileLine(line) /\ Head(line) = "+"
MisreadIn(cfg, src) == cfg.mode = "diff" /\ HasPlusPlus(cfg.input[src[1]].hunks[src[2]])
MisfiledIn(cfg, src) == cfg.mode = "diff" /\ MisfiledPatch(cfg.input[src[1]])
Cut(cfg, exc, src) == src \in exc /\ cfg.catFileDies

\* A chunk as the scanner sees it.
Box == [id : (Nat \X Nat) \X Nat, path : Path, rows : Seq(Row)]

\* The path is that of the source, unless the header of its patch was not understood.
Named(cfg, src, path) == MisfiledIn(cfg, src) \/ path = cfg.input[src[1]].path

\* A chunk has the path of its source, and is a part of it unless that was misread or cut
\* off.
Faithful(cfg, exc, c) ==
  /\ Named(cfg, c.id[1], c.path)
  /\ \/ MisreadIn(cfg, c.id[1])
     \/ Cut(cfg, exc, c.id[1])
     \/ IsTruth(Truth(cfg, c.id[1])) /\ IsSegment(c.rows, Truth(cfg, c.id[1]))

\* The same in a state.
LEMMA StateTruth ==
  ASSUME NEW src
  PROVE  /\ TrueLines(src) = Truth(config, src)
         /\ Misread(src) <=> MisreadIn(config, src)
         /\ Misfiled(src) <=> MisfiledIn(config, src)
         /\ Truncated(src) <=> Cut(config, excuse, src)
<1>1. TrueLines(src) = Truth(config, src)
  BY DEF TrueLines, Truth
<1>2. Misread(src) <=> MisreadIn(config, src)
  BY DEF Misread, MisreadIn, HasPlusPlus
<1>3. Truncated(src) <=> Cut(config, excuse, src)
  BY DEF Truncated, Cut
<1>4. Misfiled(src) <=> MisfiledIn(config, src)
  BY DEF Misfiled, MisfiledIn
<1> QED BY <1>1, <1>2, <1>3, <1>4

\* More excuses excuse more.
LEMMA FaithfulGrows ==
  ASSUME NEW cfg, NEW e1, NEW e2, e1 \subseteq e2, NEW c, Faithful(cfg, e1, c)
  PROVE  Faithful(cfg, e2, c)
BY DEF Faithful, Cut

\* A hit in a faithful chunk is a true finding.
LEMMA FaithfulIsTrue ==
  ASSUME NEW cfg, NEW exc, NEW c, Faithful(cfg, exc, c), NEW pack,
         \A i \in DOMAIN pack : RuleType(pack[i]), NEW h \in Hits(c, pack),
         ~MisreadIn(cfg, c.id[1]), ~Cut(cfg, exc, c.id[1])
  PROVE  IsTrue(FindingAt(c, pack[h[1]], h[2]), Truth(cfg, c.id[1]))
<1>1. IsTruth(Truth(cfg, c.id[1])) /\ IsSegment(c.rows, Truth(cfg, c.id[1]))
  BY DEF Faithful
<1>2. c.rows # <<>>
  BY <1>1 DEF IsSegment
<1>3. h[1] \in DOMAIN pack /\ h[2] \in FindAll(Joined(c.rows), pack[h[1]].pattern)
  BY <1>2 DEF Hits
<1>4. RuleType(pack[h[1]])
  BY <1>3
<1> QED BY <1>1, <1>3, <1>4, FindingIsTrue

-----------------------------------------------------------------------------
(* A blob in the worker's hands.                                           *)

\* The worker has split and built all of the blob but rest.
InText(rest, data, b, truth) ==
  \E p : SplitAt(data, p, b.total) /\ IsLeft(rest, data, p) /\ Built(b, truth, b.total)

\* The truth of a blob.
IsTruthOf(truth, data) ==
  truth = [i \in DOMAIN BlobLines(data) |-> [n |-> 1 + i - 1, text |-> BlobLines(data)[i]]]

\* Before the first line.
LEMMA TextBegins ==
  ASSUME NEW data \in Seq(Byte), NEW truth, IsTruthOf(truth, data)
  PROVE  InText(data, data, Begin, truth)
<1>1. truth \in Seq(Row)
  BY BlobTruth DEF IsTruthOf, IsTruth
<1>2. Begin.total = 0 /\ Built(Begin, truth, 0)
  BY <1>1, BeginIs
<1>3. SplitAt(data, 0, 0)
  BY SplitNone
<1> DEFINE w == SubSeq(data, 0 + 1, Len(data))
<1>4. w = data
  <2>1. w = SubSeq(data, 0 + 1, Len(data))
    OBVIOUS
  <2> HIDE DEF w
  <2> QED BY <2>1, SplitNone
<1>5. IsLeft(data, data, 0)
  BY <1>4 DEF IsLeft
<1> QED BY <1>2, <1>3, <1>5 DEF InText

\* Line: one line is split off and built.
LEMMA TextGoesOn ==
  ASSUME NEW data \in Seq(Byte), NEW truth, IsTruthOf(truth, data),
         NEW rest, NEW b, InText(rest, data, b, truth), rest # <<>>,
         NEW next, next = NextLine(rest)
  PROVE  InText(next.rest, data, AddLine(b, [n |-> b.total + 1, text |-> next.text]), truth)
<1> DEFINE m == b.total
           row == [n |-> m + 1, text |-> next.text]
           d == AddLine(b, row)
<1>1. PICK p : SplitAt(data, p, m) /\ IsLeft(rest, data, p) /\ Built(b, truth, m)
  BY DEF InText
<1>2. PICK e : /\ SplitAt(data, e, m + 1)
               /\ IsLeft(next.rest, data, e)
               /\ m \in Nat /\ m + 1 \in 1..Cardinality(Ends(data))
               /\ next.text = BlobLines(data)[m + 1]
  <2> HIDE DEF m
  <2>1. rest # <<>> /\ data \in Seq(Byte) /\ next = NextLine(rest)
    OBVIOUS
  <2>2. \E e : /\ SplitAt(data, e, m + 1)
               /\ IsLeft(NextLine(rest).rest, data, e)
               /\ m \in Nat /\ m + 1 \in 1..Cardinality(Ends(data))
               /\ NextLine(rest).text = BlobLines(data)[m + 1]
    BY ONLY <1>1, <2>1, NextLineIs
  <2> QED BY <2>1, <2>2
<1>3. /\ truth \in Seq(Row) /\ Len(truth) = Cardinality(Ends(data)) /\ Cardinality(Ends(data)) \in Nat
      /\ \A i \in 1..Cardinality(Ends(data)) : truth[i] = [n |-> i, text |-> BlobLines(data)[i]]
  BY BlobTruth, EndsAre DEF IsTruthOf, IsTruth
<1>4. row = truth[m + 1] /\ m < Len(truth)
  BY <1>2, <1>3
<1>5. row \in Row
  BY <1>2, <1>3, <1>4
<1>6. IsBuilder(b)
  BY <1>1 DEF Built
<1>7. d.total = m + 1 /\ Built(d, truth, m + 1)
  <2>1. /\ d.total = row.n
        /\ Built(b, truth, m) /\ m < Len(truth) /\ row = truth[m + 1] => Built(d, truth, m + 1)
    <3> HIDE DEF row, m
    <3> QED BY <1>5, <1>6, AddLineIs
  <2>2. row.n = m + 1
    OBVIOUS
  <2> HIDE DEF row, d, m
  <2> QED BY <2>1, <2>2, <1>1, <1>4
<1> HIDE DEF d
<1>8. InText(next.rest, data, d, truth)
  BY <1>2, <1>7, SMTT(30) DEF InText
<1> QED BY <1>8 DEF d

\* What boundedReader gives, and what it leaves.
LEMMA AvailableIs ==
  ASSUME NEW s \in Seq(Byte), NEW r \in Nat, NEW av, av = IF r <= Len(s) THEN r ELSE Len(s)
  PROVE  /\ av \in Nat /\ av <= Len(s) /\ r - av \in Nat
         /\ SubSeq(s, 1, av) \in Seq(Byte)
         /\ SubSeq(s, av + 1, Len(s)) \in Seq(Byte)
         /\ Len(SubSeq(s, av + 1, Len(s))) = Len(s) - av
         /\ Len(s) = r + 1 => av = r
         /\ Len(s) <= av + 1 => SubSeq(s, av + 2, Len(s)) = <<>>
<1> DEFINE L == Len(s)
           x == av + 1
           y == av + 2
<1>1. L \in Nat /\ av \in Nat /\ av <= L /\ r - av \in Nat /\ (L = r + 1 => av = r)
  OBVIOUS
<1>2. /\ x \in Nat /\ x > 0 /\ L \in Int /\ L <= Len(s)
      /\ 1 \in Nat /\ 1 > 0 /\ av \in Int /\ av <= Len(s)
  BY <1>1
<1>3. /\ SubSeq(s, x, L) \in Seq(Byte) /\ SubSeq(s, 1, av) \in Seq(Byte)
      /\ Len(SubSeq(s, x, L)) = IF x <= L THEN L - x + 1 ELSE 0
  <2> HIDE DEF x, L
  <2>1. s \in Seq(Byte)
    OBVIOUS
  <2> QED BY ONLY <1>2, <2>1, PartOf
<1>4. Len(SubSeq(s, x, L)) = L - av
  <2> DEFINE z == Len(SubSeq(s, x, L))
  <2>1. z = IF x <= L THEN L - x + 1 ELSE 0
    BY <1>3
  <2>2. av \in Nat /\ L \in Nat /\ av <= L
    BY <1>1
  <2> HIDE DEF z, L
  <2>3. z = L - av
    BY ONLY <2>1, <2>2
  <2> QED BY <2>3 DEF z
<1>5. L <= av + 1 => SubSeq(s, y, L) = <<>>
  <2>1. SUFFICES ASSUME L <= av + 1 PROVE SubSeq(s, y, L) = <<>>
    OBVIOUS
  <2>2. y \in Int /\ L \in Int /\ L < y
    BY <1>1, <2>1
  <2> HIDE DEF y, L
  <2> QED BY <2>2, SubSeqEmpty
<1> QED BY <1>1, <1>3, <1>4, <1>5

\* The last of a sequence of one, and nothing before it.
LEMMA NothingAhead ==
  ASSUME NEW t \in Seq(Byte), NEW s \in Seq(Byte), NEW av, av = (IF 0 <= Len(s) THEN 0 ELSE Len(s))
  PROVE  t \o SubSeq(s, 1, av) = t
<1>1. av = 0
  OBVIOUS
<1>2. SubSeq(s, 1, av) = <<>>
  <2>1. 1 \in Int /\ 0 \in Int /\ 0 < 1
    OBVIOUS
  <2> QED BY <1>1, <2>1, SubSeqEmpty
<1>3. t \o <<>> = t
  OBVIOUS
<1> QED BY <1>2, <1>3

\* A header before the content: the two parts of the stream.
LEMMA HeaderIs ==
  ASSUME NEW h, NEW s \in Seq(Byte), NEW w, w = <<h>> \o s
  PROVE  Head(w) = h /\ Tail(w) = s
<1> DEFINE S == Byte \cup {h}
<1>1. <<h>> \in Seq(S) /\ s \in Seq(S) /\ Len(<<h>>) = 1 /\ <<h>>[1] = h
  <2>1. h \in S
    OBVIOUS
  <2>2. s \in Seq(S)
    <3>1. \A k \in 1..Len(s) : s[k] \in S
      OBVIOUS
    <3>2. s = [k \in 1..Len(s) |-> s[k]] /\ Len(s) \in Nat
      OBVIOUS
    <3> HIDE DEF S
    <3> QED BY <3>1, <3>2
  <2> QED BY <2>1, <2>2
<1>2. /\ w \in Seq(S) /\ Len(w) = 1 + Len(s)
      /\ w[1] = h /\ \A k \in 1..Len(s) : w[k + 1] = s[k]
  <2> HIDE DEF S
  <2> DEFINE a == <<h>>
  <2>1. a \in Seq(S) /\ Len(a) = 1 /\ a[1] = h /\ w = a \o s /\ Len(s) \in Nat
    BY <1>1
  <2> HIDE DEF a
  <2>2. /\ w \in Seq(S) /\ Len(w) = Len(a) + Len(s)
        /\ \A k \in 1..(Len(a) + Len(s)) : w[k] = IF k <= Len(a) THEN a[k] ELSE s[k - Len(a)]
    BY <1>1, <2>1, ConcatProperties
  <2>3. 1 \in 1..(Len(a) + Len(s)) /\ 1 <= Len(a)
    BY <2>1
  <2>4. ASSUME NEW k \in 1..Len(s) PROVE w[k + 1] = s[k]
    <3>1. k + 1 \in 1..(Len(a) + Len(s)) /\ ~(k + 1 <= Len(a)) /\ (k + 1) - Len(a) = k
      BY <2>1
    <3> QED BY <3>1, <2>2
  <2> QED BY <2>1, <2>2, <2>3, <2>4
<1>3. w # <<>> /\ Len(s) \in Nat
  BY <1>2
<1>4. Head(w) = h
  BY <1>2, <1>3
<1>5. Tail(w) \in Seq(S) /\ Len(Tail(w)) = Len(s) /\ \A k \in 1..Len(s) : Tail(w)[k] = s[k]
  <2> HIDE DEF S
  <2>1. /\ Tail(w) \in Seq(S) /\ Len(Tail(w)) = Len(w) - 1
        /\ \A k \in 1..Len(Tail(w)) : Tail(w)[k] = w[k + 1]
    BY <1>2, <1>3, HeadTailProperties
  <2> DEFINE t == Tail(w)
  <2>2. Len(t) = Len(s)
    BY <2>1, <1>2, <1>3
  <2>3. ASSUME NEW k \in 1..Len(s) PROVE t[k] = s[k]
    BY <2>1, <2>2, <1>2
  <2> QED BY <2>1, <2>2, <2>3
<1>6. Tail(w) = s
  <2> DEFINE t == Tail(w)
  <2>1. t \in Seq(S) /\ s \in Seq(S) /\ Len(t) = Len(s) /\ \A k \in 1..Len(t) : t[k] = s[k]
    BY <1>1, <1>5
  <2> HIDE DEF t, S
  <2>2. t = s
    BY <2>1, SeqEqual
  <2> QED BY <2>2 DEF t
<1> QED BY <1>4, <1>6
-----------------------------------------------------------------------------
(* ParseUnifiedDiff, from one set of parser states to another.             *)

\* The lines git diff prints.
Minus == [tag |-> "text", text |-> <<"-", "-", "-", " ", "a">>]
Plus  == [tag |-> "text", text |-> <<"+", "+", "+", " ", "b">>]

DiffLine ==
  {Minus, Plus, [tag |-> "deleted"], [tag |-> "index"]}
    \cup [tag : {"diff"}, job : Nat, old : Seq(Name) \ {<<>>}, path : Seq(Name) \ {<<>>}]
    \cup [tag : {"hunk"}, src : Nat \X Nat, start : Nat]
    \cup [tag : {"text"}, text : Seq(Byte)]

\* The states of the parser on its way through out.
Follows(run, out) == \A i \in 1..Len(out) : run[i] = ParseLine(run[i - 1], out[i])

\* The lines out take the parser from the states P to the states Q.
Leads(out, P, Q) ==
  out \in Seq(DiffLine) /\ \A run : Follows(run, out) /\ run[0] \in P => run[Len(out)] \in Q

\* No line at all.
LEMMA LeadsNowhere ==
  ASSUME NEW P
  PROVE  Leads(<<>>, P, P)
<1>1. <<>> \in Seq(DiffLine) /\ Len(<<>>) = 0
  OBVIOUS
<1> QED BY <1>1 DEF Leads

\* One output behind another.
LEMMA LeadsThen ==
  ASSUME NEW P, NEW Q, NEW R, NEW a, NEW b, Leads(a, P, Q), Leads(b, Q, R)
  PROVE  Leads(a \o b, P, R)
<1> DEFINE w == a \o b
           A == Len(a)
           B == Len(b)
<1>1. a \in Seq(DiffLine) /\ b \in Seq(DiffLine) /\ A \in Nat /\ B \in Nat
  BY DEF Leads
<1>2. /\ w \in Seq(DiffLine) /\ Len(w) = A + B
      /\ \A k \in 1..(A + B) : w[k] = IF k <= A THEN a[k] ELSE b[k - A]
  BY <1>1, ConcatProperties
<1> HIDE DEF w, A, B
<1>3. ASSUME NEW run, Follows(run, w), run[0] \in P PROVE run[Len(w)] \in R
  <2>1. \A i \in 1..(A + B) : run[i] = ParseLine(run[i - 1], w[i])
    BY <1>2, <1>3 DEF Follows
  <2>2. Follows(run, a)
    <3>1. ASSUME NEW i \in 1..A PROVE run[i] = ParseLine(run[i - 1], a[i])
      <4>1. i \in 1..(A + B) /\ i <= A
        BY <1>1
      <4> QED BY <4>1, <2>1, <1>2
    <3> QED BY <3>1 DEF Follows, A
  <2>3. run[A] \in Q
    BY <2>2, <1>3 DEF Leads, A
  <2> DEFINE tail == [i \in 0..B |-> run[A + i]]
  <2>4. \A i \in 0..B : tail[i] = run[A + i]
    OBVIOUS
  <2> HIDE DEF tail
  <2>5. Follows(tail, b)
    <3>1. ASSUME NEW i \in 1..B PROVE tail[i] = ParseLine(tail[i - 1], b[i])
      <4>1. A + i \in 1..(A + B) /\ ~(A + i <= A) /\ (A + i) - A = i /\ i \in 0..B /\ i - 1 \in 0..B
            /\ A + (i - 1) = (A + i) - 1
        BY <1>1
      <4>2. run[A + i] = ParseLine(run[(A + i) - 1], w[A + i])
        BY <4>1, <2>1
      <4>3. w[A + i] = b[i]
        BY <4>1, <1>2
      <4>4. tail[i] = run[A + i] /\ tail[i - 1] = run[(A + i) - 1]
        <5>1. tail[i - 1] = run[A + (i - 1)]
          BY <4>1, <2>4
        <5> QED BY <5>1, <4>1, <2>4
      <4> QED BY <4>2, <4>3, <4>4
    <3> QED BY <3>1 DEF Follows, B
  <2>6. tail[0] \in Q
    <3>1. 0 \in 0..B /\ A + 0 = A
      BY <1>1
    <3> QED BY <3>1, <2>3, <2>4
  <2>7. tail[B] \in R
    BY <2>5, <2>6 DEF Leads, B
  <2>8. B \in 0..B
    BY <1>1
  <2> QED BY <2>4, <2>7, <2>8, <1>2
<1> QED BY <1>2, <1>3 DEF Leads, w

\* Line by line.
LEMMA LeadsEach ==
  ASSUME NEW out \in Seq(DiffLine), NEW P,
         \A i \in 1..Len(out) : \A st \in P[i - 1] : ParseLine(st, out[i]) \in P[i]
  PROVE  Leads(out, P[0], P[Len(out)])
<1> DEFINE N == Len(out)
<1>1. N \in Nat
  OBVIOUS
<1> HIDE DEF N
<1>2. ASSUME NEW run, Follows(run, out), run[0] \in P[0] PROVE run[N] \in P[N]
  <2> DEFINE T == {n \in Nat : n <= N => run[n] \in P[n]}
  <2>1. 0 \in T
    BY <1>2
  <2>2. ASSUME NEW n \in Nat, n \in T PROVE n + 1 \in T
    <3> SUFFICES ASSUME n + 1 <= N PROVE run[n + 1] \in P[n + 1]
      OBVIOUS
    <3>1. n + 1 \in 1..N /\ (n + 1) - 1 = n /\ n <= N
      BY <1>1
    <3>2. run[n] \in P[n]
      BY <3>1, <2>2
    <3>3. run[n + 1] = ParseLine(run[n], out[n + 1])
      BY <3>1, <1>2 DEF Follows, N
    <3>4. ParseLine(run[n], out[n + 1]) \in P[n + 1]
      BY <3>1, <3>2 DEF N
    <3> QED BY <3>3, <3>4
  <2>3. N \in T
    <3> HIDE DEF T
    <3> QED BY <1>1, <2>1, <2>2, Induction
  <2> QED BY <2>3, <1>1
<1> QED BY <1>2 DEF Leads, N

\* One line.
LEMMA LeadsOne ==
  ASSUME NEW l \in DiffLine, NEW P, NEW Q, \A st \in P : ParseLine(st, l) \in Q
  PROVE  Leads(<<l>>, P, Q)
<1> DEFINE out == <<l>>
<1>1. out \in Seq(DiffLine) /\ Len(out) = 1 /\ out[1] = l
  OBVIOUS
<1> HIDE DEF out
<1>2. ASSUME NEW run, Follows(run, out), run[0] \in P PROVE run[Len(out)] \in Q
  <2>1. 1 \in 1..Len(out) /\ 1 - 1 = 0
    BY <1>1
  <2>2. run[1] = ParseLine(run[0], l)
    BY <1>1, <1>2, <2>1 DEF Follows
  <2> QED BY <2>2, <1>1, <1>2
<1> QED BY <1>1, <1>2 DEF Leads, out

\* FlattenSeq, one sequence after the other.
LEMMA FlattenIs ==
  ASSUME NEW S, NEW seqs \in Seq(Seq(S)), seqs # <<>>
  PROVE  \E f : /\ FlattenSeq(seqs) = f[Len(seqs)] /\ f[1] = seqs[1]
                /\ \A i \in 2..Len(seqs) : f[i] = f[i - 1] \o seqs[i]
<1> DEFINE N == Len(seqs)
           Rec(f) == f = [i \in 1..Len(seqs) |-> IF i = 1 THEN seqs[i] ELSE f[i - 1] \o seqs[i]]
           step == [i \in 1..N |-> [s \in Seq(S) |-> s \o seqs[i]]]
<1>1. N \in Nat /\ N # 0 /\ \A i \in 1..N : seqs[i] \in Seq(S)
  OBVIOUS
<1>3. step \in [1..N -> [Seq(S) -> Seq(S)]] /\ seqs[1] \in Seq(S)
  BY <1>1
<1>4. \A i \in 1..N : \A s \in Seq(S) : step[i][s] = s \o seqs[i]
  OBVIOUS
<1>5. PICK f : Runs(Seq(S), N, seqs[1], step, f)
  <2>1. StepsIn(Seq(S), N, seqs[1], step)
    BY <1>1, <1>3 DEF StepsIn
  <2> HIDE DEF step, N
  <2> QED BY <2>1, Recursion
<1> HIDE DEF step
<1>6. Rec(f)
  <2>1. f \in [1..N -> Seq(S)] /\ \A i \in 1..N : f[i] = IF i = 1 THEN seqs[1] ELSE step[i][f[i - 1]]
    BY <1>5 DEF Runs
  <2>2. \A i \in 1..N : f[i] = IF i = 1 THEN seqs[i] ELSE f[i - 1] \o seqs[i]
    <3> TAKE i \in 1..N
    <3>1. CASE i # 1
      <4>1. i - 1 \in 1..N
        BY <1>1, <3>1
      <4>2. f[i - 1] \in Seq(S)
        <5> HIDE DEF N
        <5> QED BY <2>1, <4>1
      <4> QED BY <2>1, <4>2, <1>4, <3>1
    <3> QED BY <3>1, <2>1
  <2>3. f = [i \in 1..N |-> f[i]]
    BY <2>1
  <2> QED BY <2>2, <2>3, <1>1
<1> DEFINE g == CHOOSE h : Rec(h)
<1>7. Rec(g)
  <2> HIDE DEF Rec
  <2> QED BY <1>6
<1>8. FlattenSeq(seqs) = g[N]
  BY <1>1 DEF FlattenSeq
<1> HIDE DEF g
<1>9. \A i \in 1..N : g[i] = IF i = 1 THEN seqs[i] ELSE g[i - 1] \o seqs[i]
  BY <1>1, <1>7
<1> HIDE DEF Rec
<1>10. g[1] = seqs[1] /\ \A i \in 2..N : g[i] = g[i - 1] \o seqs[i]
  <2>1. 1 \in 1..N /\ \A i \in 2..N : i \in 1..N /\ i # 1
    BY <1>1
  <2> HIDE DEF N
  <2> QED BY <2>1, <1>9
<1> QED BY <1>8, <1>10

\* Many outputs, one behind the other.
LEMMA LeadsFlat ==
  ASSUME NEW seqs \in Seq(Seq(DiffLine)), NEW P,
         \A i \in 1..Len(seqs) : Leads(seqs[i], P[i - 1], P[i])
  PROVE  Leads(FlattenSeq(seqs), P[0], P[Len(seqs)])
<1> DEFINE N == Len(seqs)
<1>1. N \in Nat
  OBVIOUS
<1>2. CASE seqs = <<>>
  <2>1. FlattenSeq(seqs) = <<>> /\ Len(seqs) = 0
    BY <1>2 DEF FlattenSeq
  <2> QED BY <2>1, LeadsNowhere
<1>3. CASE seqs # <<>>
  <2>1. N # 0 /\ 1 \in 1..N
    BY <1>1, <1>3
  <2>2. PICK f : /\ FlattenSeq(seqs) = f[N] /\ f[1] = seqs[1]
                 /\ \A i \in 2..N : f[i] = f[i - 1] \o seqs[i]
    BY <1>3, FlattenIs
  <2> HIDE DEF N
  <2> DEFINE T == {n \in Nat : n + 1 <= N => Leads(f[n + 1], P[0], P[n + 1])}
  <2>3. 0 \in T
    <3>1. Leads(seqs[1], P[1 - 1], P[1])
      BY <2>1 DEF N
    <3>2. 1 - 1 = 0 /\ 0 + 1 = 1
      OBVIOUS
    <3> QED BY <3>1, <3>2, <2>2
  <2>4. ASSUME NEW n \in Nat, n \in T PROVE n + 1 \in T
    <3> SUFFICES ASSUME n + 2 <= N PROVE Leads(f[n + 2], P[0], P[n + 2])
      <4>1. (n + 1) + 1 = n + 2
        OBVIOUS
      <4> QED BY <4>1
    <3>1. n + 2 \in 1..N /\ n + 2 \in 2..N /\ (n + 2) - 1 = n + 1 /\ n + 1 <= N
      BY <1>1
    <3>2. Leads(f[n + 1], P[0], P[n + 1])
      BY <3>1, <2>4
    <3>3. Leads(seqs[n + 2], P[n + 1], P[n + 2])
      <4>1. Leads(seqs[n + 2], P[(n + 2) - 1], P[n + 2])
        BY <3>1 DEF N
      <4> QED BY <4>1, <3>1
    <3>4. f[n + 2] = f[n + 1] \o seqs[n + 2]
      BY <3>1, <2>2
    <3>5. Leads(f[n + 1] \o seqs[n + 2], P[0], P[n + 2])
      BY <3>2, <3>3, LeadsThen
    <3> QED BY <3>4, <3>5
  <2>5. N - 1 \in Nat /\ (N - 1) + 1 = N
    BY <1>1, <2>1
  <2>6. N - 1 \in T
    <3> HIDE DEF T
    <3> QED BY <2>3, <2>4, <2>5, Induction
  <2> QED BY <2>2, <2>5, <2>6 DEF N
<1> QED BY <1>2, <1>3

\* The parser's states exist, and the last one is what ParseUnifiedDiff closes.
LEMMA ParserRuns ==
  ASSUME NEW out \in Seq(DiffLine)
  PROVE  \E run : /\ Follows(run, out) /\ run[0] = Unparsed
                  /\ ParseUnifiedDiff(out) = ClosePatch(run[Len(out)]).patches
<1> DEFINE N == Len(out)
           Rec(f) == f = [i \in 0..Len(out) |-> IF i = 0 THEN Unparsed ELSE ParseLine(f[i - 1], out[i])]
           Run(f, n) == /\ f = [i \in 0..n |-> f[i]]
                        /\ \A i \in 0..n : f[i] = IF i = 0 THEN Unparsed ELSE ParseLine(f[i - 1], out[i])
           T == {n \in Nat : \E f : Run(f, n)}
<1>1. N \in Nat
  OBVIOUS
<1>2. 0 \in T
  <2> DEFINE f == [i \in 0..0 |-> Unparsed]
  <2>1. f = [i \in 0..0 |-> f[i]] /\ \A i \in 0..0 : i = 0 /\ f[i] = Unparsed
    OBVIOUS
  <2>2. Run(f, 0)
    <3> HIDE DEF f
    <3> QED BY <2>1
  <2> HIDE DEF Run, f
  <2> QED BY <2>2
<1>3. ASSUME NEW n \in Nat, n \in T PROVE n + 1 \in T
  <2>1. PICK f : Run(f, n)
    <3> HIDE DEF Run
    <3> QED BY <1>3
  <2> DEFINE v == ParseLine(f[n], out[n + 1])
             g == [i \in 0..(n + 1) |-> IF i = n + 1 THEN v ELSE f[i]]
  <2> HIDE DEF v
  <2>2. g = [i \in 0..(n + 1) |-> g[i]] /\ g[n + 1] = v /\ \A i \in 0..n : g[i] = f[i]
    OBVIOUS
  <2> HIDE DEF g
  <2>3. ASSUME NEW i \in 0..(n + 1) PROVE g[i] = IF i = 0 THEN Unparsed ELSE ParseLine(g[i - 1], out[i])
    <3>1. CASE i = n + 1
      <4>1. i # 0 /\ i - 1 = n /\ n \in 0..n
        BY <3>1
      <4> QED BY <4>1, <3>1, <2>2 DEF v
    <3>2. CASE i \in 0..n
      <4>1. i # 0 => i - 1 \in 0..n
        BY <3>2
      <4> QED BY <4>1, <3>2, <2>1, <2>2
    <3> QED BY <3>1, <3>2
  <2>4. Run(g, n + 1)
    BY <2>2, <2>3
  <2> HIDE DEF Run
  <2> QED BY <2>4
<1>4. N \in T
  <2> HIDE DEF T, N
  <2> QED BY <1>1, <1>2, <1>3, Induction
<1>5. PICK f : Run(f, N)
  <2> HIDE DEF Run, N
  <2> QED BY <1>4
<1>6. Rec(f)
  BY <1>5
<1> DEFINE after == CHOOSE h : Rec(h)
<1>7. Rec(after)
  <2> HIDE DEF Rec
  <2> QED BY <1>6
<1>8. ParseUnifiedDiff(out) = ClosePatch(after[N]).patches
  BY DEF ParseUnifiedDiff
<1> HIDE DEF after
<1>9. after[0] = Unparsed /\ \A i \in 1..N : after[i] = ParseLine(after[i - 1], out[i])
  BY <1>1, <1>7
<1> HIDE DEF Rec
<1>10. Follows(after, out)
  BY <1>9 DEF Follows
<1> QED BY <1>8, <1>9, <1>10
-----------------------------------------------------------------------------
(* What is read of a hunk and of a patch.                                  *)

\* The lines of a hunk that are in the new file, and their numbered text.
Kept(hunk) == {i \in DOMAIN hunk.lines : InNewFile(hunk.lines[i])}
HunkTruth(hunk) ==
  [i \in DOMAIN HunkLines(hunk) |-> [n |-> hunk.start + i - 1, text |-> HunkLines(hunk)[i]]]

\* A line without its mark.
LEMMA TailIs ==
  ASSUME NEW line \in Seq(Byte), line # <<>>
  PROVE  Tail(line) \in Seq(Byte)
OBVIOUS

\* A return at the end of a line is taken off behind the mark: the line stays in the new
\* file or out of it, and has the same text without its mark.
LEMMA ReturnKept ==
  ASSUME NEW line \in Seq(Byte)
  PROVE  /\ InNewFile(WithoutReturn(line)) <=> InNewFile(line)
         /\ InNewFile(line) => Tail(WithoutReturn(line)) = WithoutReturn(Tail(line))
<1>1. CASE ~(line # <<>> /\ Last(line) = Return)
  <2>1. WithoutReturn(line) = line
    BY <1>1 DEF WithoutReturn
  <2>2. ASSUME InNewFile(line) PROVE Tail(line) = WithoutReturn(Tail(line))
    <3>1. line # <<>> /\ Last(line) # Return
      BY <1>1, <2>2 DEF InNewFile
    <3>2. CASE Tail(line) = <<>>
      BY <3>2 DEF WithoutReturn
    <3>3. CASE Tail(line) # <<>>
      <4>1. Last(Tail(line)) = Last(line)
        BY <3>1, <3>3 DEF Last
      <4> QED BY <4>1, <3>1 DEF WithoutReturn
    <3> QED BY <3>2, <3>3
  <2> QED BY <2>1, <2>2
<1>2. CASE line # <<>> /\ Last(line) = Return
  <2> DEFINE n == Len(line)
             front == SubSeq(line, 1, n - 1)
             tail == Tail(line)
  <2>1. n \in Nat /\ n # 0 /\ line[n] = Return
    BY <1>2 DEF Last
  <2>2. WithoutReturn(line) = front
    BY <1>2 DEF WithoutReturn, Front
  <2>3. /\ front \in Seq(Byte) /\ Len(front) = n - 1
        /\ \A k \in 1..(n - 1) : front[k] = line[k]
    BY <1>2, FrontIs
  <2>4. /\ tail \in Seq(Byte) /\ Len(tail) = n - 1
        /\ \A k \in 1..(n - 1) : tail[k] = line[k + 1]
    BY <1>2, <2>1
  <2> HIDE DEF n, front, tail
  <2>5. CASE n = 1
    <3>1. front = <<>>
      BY <2>3, <2>5
    <3>2. Head(line) = Return
      BY <1>2, <2>1, <2>5
    <3> QED BY <2>2, <3>1, <3>2, DiffAssumption DEF InNewFile
  <2>6. CASE n # 1
    <3>1. front # <<>> /\ Head(front) = Head(line)
      BY <1>2, <2>1, <2>3, <2>6
    <3>2. tail # <<>> /\ Last(tail) = Return
      BY <2>1, <2>4, <2>6 DEF Last
    <3>3. WithoutReturn(tail) = SubSeq(tail, 1, Len(tail) - 1)
      BY <3>2 DEF WithoutReturn, Front
    <3> DEFINE a == Tail(front)
               b == SubSeq(tail, 1, Len(tail) - 1)
    <3>4. a \in Seq(Byte) /\ Len(a) = n - 2 /\ \A k \in 1..(n - 2) : a[k] = front[k + 1]
      BY <2>1, <2>3, <3>1
    <3>5. b \in Seq(Byte) /\ Len(b) = n - 2 /\ \A k \in 1..(n - 2) : b[k] = tail[k]
      <4>1. /\ b \in Seq(Byte) /\ Len(b) = Len(tail) - 1
            /\ \A k \in 1..(Len(tail) - 1) : b[k] = tail[k]
        BY <2>4, <3>2, FrontIs
      <4>2. Len(tail) - 1 = n - 2
        BY <2>1, <2>4
      <4> QED BY <4>1, <4>2
    <3> HIDE DEF a, b
    <3>6. \A k \in 1..(n - 2) : a[k] = b[k]
      <4> TAKE k \in 1..(n - 2)
      <4>1. k \in 1..(n - 1) /\ k + 1 \in 1..(n - 1)
        BY <2>1, <2>6
      <4> QED BY <4>1, <2>3, <2>4, <3>4, <3>5
    <3>7. a = b
      BY <3>4, <3>5, <3>6, SeqEqual
    <3> QED BY <2>2, <3>1, <3>3, <3>7, <1>2 DEF InNewFile, a, b, tail
  <2> QED BY <2>5, <2>6
<1> QED BY <1>1, <1>2

\* They are numbered from the start of the hunk, one by one.
LEMMA HunkTruthIs ==
  ASSUME NEW hunk \in HunkType
  PROVE  /\ hunk.lines \in Seq(Seq(Byte)) /\ hunk.start \in Nat
         /\ Kept(hunk) \in SUBSET Nat /\ Cardinality(Kept(hunk)) \in Nat
         /\ \A i \in Kept(hunk) : i \in 1..Len(hunk.lines) /\ InNewFile(hunk.lines[i])
         /\ \A i \in 1..Len(hunk.lines) : InNewFile(hunk.lines[i]) => i \in Kept(hunk)
         /\ HunkTruth(hunk) \in Seq(Row) /\ Len(HunkTruth(hunk)) = Cardinality(Kept(hunk))
         /\ \A i \in 1..Cardinality(Kept(hunk)) :
              HunkTruth(hunk)[i] = [n |-> hunk.start + i - 1,
                                    text |-> WithoutReturn(Tail(hunk.lines[Nth(Kept(hunk), i)]))]
<1> DEFINE K == Kept(hunk)
           N == Cardinality(K)
           lines == hunk.lines
           L == Len(lines)
<1>1. lines \in Seq(Seq(Byte)) /\ hunk.start \in Nat /\ L \in Nat /\ DOMAIN lines = 1..L
      /\ \A i \in 1..L : lines[i] \in Seq(Byte)
  BY DEF HunkType
<1>2. /\ K \in SUBSET Nat /\ (\A i \in K : i \in 1..L /\ i <= L /\ InNewFile(lines[i]))
      /\ \A i \in 1..L : InNewFile(lines[i]) => i \in K
  BY <1>1 DEF Kept
<1>3. N \in Nat
  <2> HIDE DEF K, L
  <2>1. IsFiniteSet(K)
    BY <1>1, <1>2, FS_BoundedSetOfNaturals
  <2> QED BY <2>1, FS_CardinalityType
<1>4. HunkLines(hunk) = [i \in 1..N |-> WithoutReturn(Tail(lines[Nth(K, i)]))]
  BY DEF HunkLines, Kept
<1> HIDE DEF N, K, lines, L
<1>5. ASSUME NEW i \in 1..N PROVE HunkLines(hunk)[i] \in Seq(Byte)
  <2>1. Nth(K, i) \in K
    BY <1>1, <1>2, SomeNth DEF N
  <2>2. lines[Nth(K, i)] \in Seq(Byte) /\ lines[Nth(K, i)] # <<>>
    BY <2>1, <1>1, <1>2 DEF InNewFile
  <2>3. Tail(lines[Nth(K, i)]) \in Seq(Byte)
    BY <2>2, TailIs
  <2> QED BY <2>3, <1>4, WithoutReturnIs
<1>6. HunkTruth(hunk) = [i \in 1..N |-> [n |-> hunk.start + i - 1, text |-> HunkLines(hunk)[i]]]
  BY <1>4 DEF HunkTruth
<1>7. \A i \in 1..N : [n |-> hunk.start + i - 1, text |-> HunkLines(hunk)[i]] \in Row
  BY <1>1, <1>3, <1>5 DEF Row
<1>8. HunkTruth(hunk) \in Seq(Row) /\ Len(HunkTruth(hunk)) = N
  BY <1>3, <1>6, <1>7
<1>9. \A i \in 1..N : HunkTruth(hunk)[i] = [n |-> hunk.start + i - 1, text |-> WithoutReturn(Tail(lines[Nth(K, i)]))]
  BY <1>4, <1>6
<1> QED BY <1>1, <1>2, <1>3, <1>8, <1>9 DEF N, K, L, lines

\* They are a truth when git numbers them from 1 or later.
LEMMA HunkIsTruth ==
  ASSUME NEW hunk \in HunkType, (\E line \in ToSet(hunk.lines) : InNewFile(line)) => hunk.start > 0
  PROVE  IsTruth(HunkTruth(hunk))
<1> DEFINE t == HunkTruth(hunk)
           N == Cardinality(Kept(hunk))
<1>1. /\ hunk.start \in Nat /\ N \in Nat /\ t \in Seq(Row) /\ Len(t) = N
      /\ \A i \in 1..N : t[i].n = hunk.start + i - 1
  <2>1. /\ hunk.start \in Nat /\ N \in Nat /\ t \in Seq(Row) /\ Len(t) = N
        /\ \A i \in 1..N : t[i] = [n |-> hunk.start + i - 1,
                                   text |-> WithoutReturn(Tail(hunk.lines[Nth(Kept(hunk), i)]))]
    BY HunkTruthIs
  <2> HIDE DEF t, N
  <2>2. \A i \in 1..N : t[i].n = hunk.start + i - 1
    BY <2>1
  <2> QED BY <2>1, <2>2
<1> HIDE DEF t, N
<1>2. t # <<>> => t[1].n > 0
  <2> SUFFICES ASSUME t # <<>> PROVE t[1].n > 0
    OBVIOUS
  <2>1. N # 0 /\ 1 \in 1..N
    BY <1>1
  <2>2. Kept(hunk) # {}
    BY <2>1, FS_EmptySet DEF N
  <2>3. PICK i \in Kept(hunk) : TRUE
    BY <2>2
  <2>4. hunk.lines[i] \in ToSet(hunk.lines) /\ InNewFile(hunk.lines[i])
    BY <2>3 DEF Kept, ToSet
  <2>5. hunk.start > 0
    BY <2>4
  <2> QED BY <2>1, <2>5, <1>1
<1>3. \A i \in 1..N : t[i].n = t[1].n + i - 1
  <2> TAKE i \in 1..N
  <2>1. 1 \in 1..N
    BY <1>1
  <2>2. t[1].n = hunk.start + 1 - 1 /\ t[i].n = hunk.start + i - 1
    BY <2>1, <1>1
  <2> QED BY <2>2, <1>1
<1> QED BY <1>1, <1>2, <1>3 DEF IsTruth, t

\* The rows the parser took from a hunk: its truth, unless a line of it was misread.
HunkRead(rows, hunk) ==
  rows \in Seq(Row) /\ (~HasPlusPlus(hunk) => rows = HunkTruth(hunk))

\* Of a hunk, j lines are read.
ReadUpTo(rows, newLine, hunk, j) ==
  /\ rows \in Seq(Row) /\ newLine \in Nat
  /\ ~HasPlusPlus(hunk) =>
       /\ newLine = hunk.start + Rank(Kept(hunk), j) /\ Len(rows) = Rank(Kept(hunk), j)
       /\ \A i \in 1..Len(rows) : rows[i] = HunkTruth(hunk)[i]

\* At the hunk header.
LEMMA NothingRead ==
  ASSUME NEW hunk \in HunkType
  PROVE  ReadUpTo(<<>>, hunk.start, hunk, 0)
<1> DEFINE K == Kept(hunk)
           A == {x \in K : x <= 0}
<1>1. hunk.start \in Nat /\ Len(hunk.lines) \in Nat /\ \A x \in K : x \in 1..Len(hunk.lines)
  BY HunkTruthIs
<1>2. A = {}
  <2>1. ASSUME NEW x \in K PROVE ~(x <= 0)
    BY <1>1
  <2> QED BY <2>1
<1>3. Rank(K, 0) = 0
  <2>1. Cardinality(A) = 0
    <3> HIDE DEF A
    <3> QED BY <1>2, FS_EmptySet
  <2> QED BY <2>1 DEF Rank
<1>4. <<>> \in Seq(Row) /\ Len(<<>>) = 0 /\ hunk.start + 0 = hunk.start
  BY <1>1
<1> QED BY <1>1, <1>3, <1>4 DEF ReadUpTo

\* At the last line.
LEMMA AllRead ==
  ASSUME NEW hunk \in HunkType, NEW rows, NEW newLine,
         ReadUpTo(rows, newLine, hunk, Len(hunk.lines))
  PROVE  HunkRead(rows, hunk)
<1> DEFINE K == Kept(hunk)
           n == Len(hunk.lines)
           t == HunkTruth(hunk)
<1>1. n \in Nat /\ (\A x \in K : x \in 1..n) /\ t \in Seq(Row) /\ Len(t) = Cardinality(K)
  BY HunkTruthIs
<1>2. Rank(K, n) = Cardinality(K)
  <2>1. {x \in K : x <= n} = K
    BY <1>1
  <2> QED BY <2>1 DEF Rank
<1> HIDE DEF K, n, t
<1>3. ASSUME ~HasPlusPlus(hunk) PROVE rows = t
  <2>1. rows \in Seq(Row) /\ Len(rows) = Rank(K, n) /\ \A i \in 1..Len(rows) : rows[i] = t[i]
    BY <1>3 DEF ReadUpTo, K, n, t
  <2> QED BY <2>1, <1>1, <1>2, SeqEqual
<1> QED BY <1>3 DEF HunkRead, ReadUpTo, t

\* A sequence of three.
LEMMA ThreeAre ==
  ASSUME NEW S, NEW c \in S
  PROVE  <<c, c, c>> \in Seq(S) /\ Len(<<c, c, c>>) = 3 /\ <<c, c, c>>[1] = c
OBVIOUS

\* A line that passes for a file header and is no added line is a removed one.
LEMMA FileLineIs ==
  ASSUME NEW line \in Seq(Byte), LooksLikeFileLine(line), Head(line) # "+"
  PROVE  ~InNewFile(line)
<1> DEFINE m == <<"-", "-", "-">>
           q == <<"+", "+", "+">>
           S == Byte \cup {"-", "+"}
<1>1. m \in Seq(S) /\ Len(m) = 3 /\ m[1] = "-" /\ q \in Seq(S) /\ Len(q) = 3 /\ q[1] = "+"
  <2>1. "-" \in S /\ "+" \in S
    OBVIOUS
  <2> HIDE DEF S
  <2> QED BY <2>1, ThreeAre
<1>2. IsPrefix(m, line) \/ IsPrefix(q, line)
  BY DEF LooksLikeFileLine
<1>3. line \in Seq(S)
  <2>1. \A k \in 1..Len(line) : line[k] \in S
    OBVIOUS
  <2>2. line = [k \in 1..Len(line) |-> line[k]] /\ Len(line) \in Nat
    OBVIOUS
  <2> HIDE DEF S
  <2> QED BY <2>1, <2>2
<1> HIDE DEF m, q, S
<1>4. ASSUME NEW h \in Seq(S), Len(h) = 3, IsPrefix(h, line) PROVE line # <<>> /\ Head(line) = h[1]
  <2>1. 3 <= Len(line)
    BY <1>4 DEF IsPrefix
  <2> DEFINE a == SubSeq(h, 1, 3)
             b == SubSeq(line, 1, 3)
  <2>2. a = b
    BY <1>4 DEF IsPrefix
  <2>3. a[1] = h[1]
    <3>1. 1 \in Nat /\ 1 > 0 /\ 3 \in Int /\ 3 <= Len(h)
      BY <1>4
    <3>2. \A k \in 1..(3 - 1 + 1) : a[k] = h[1 + k - 1]
      BY <3>1, PartOf
    <3>3. 1 \in 1..(3 - 1 + 1) /\ 1 + 1 - 1 = 1
      OBVIOUS
    <3> HIDE DEF a
    <3> QED BY <3>2, <3>3
  <2>4. b[1] = line[1]
    <3>1. 1 \in Nat /\ 1 > 0 /\ 3 \in Int /\ 3 <= Len(line)
      BY <2>1
    <3>2. \A k \in 1..(3 - 1 + 1) : b[k] = line[1 + k - 1]
      BY <1>3, <3>1, PartOf
    <3>3. 1 \in 1..(3 - 1 + 1) /\ 1 + 1 - 1 = 1
      OBVIOUS
    <3> HIDE DEF b
    <3> QED BY <3>2, <3>3
  <2> HIDE DEF a, b
  <2>5. line[1] = h[1]
    BY <2>2, <2>3, <2>4
  <2>6. line # <<>>
    BY <2>1
  <2> QED BY <2>5, <2>6
<1>5. CASE IsPrefix(q, line)
  BY <1>1, <1>4, <1>5
<1>6. CASE IsPrefix(m, line)
  <2>1. Head(line) = "-"
    BY <1>1, <1>4, <1>6
  <2> QED BY <2>1 DEF InNewFile
<1> QED BY <1>2, <1>5, <1>6
-----------------------------------------------------------------------------
(* The states of the parser between the lines git prints.                  *)

\* The types of the parser.
ParserState ==
  [patches : Seq(ParsedPatch), cur : ParsedPatch \cup {NoPatch},
   hunk : ParsedHunk \cup {NoPatch}, newLine : Nat]

\* The path is that of the file, unless its header was not understood.
HasPath(path, p) == MisfiledPatch(p) \/ path = p.path

\* A hunk is one of the input, in a patch with the path of its file.
Filed(hunk, path, input) ==
  /\ hunk \in ParsedHunk
  /\ \E q \in 1..Len(input) : \E k \in 1..Len(input[q].hunks) :
       /\ hunk.src = <<q, k>> /\ HasPath(path, input[q])
       /\ HunkRead(hunk.rows, input[q].hunks[k])

\* All the hunks of a patch are, and of all patches.
FiledPatch(patch, input) ==
  patch \in ParsedPatch /\ \A i \in 1..Len(patch.hunks) : Filed(patch.hunks[i], patch.path, input)
AllFiled(patches, input) ==
  patches \in Seq(ParsedPatch) /\ \A i \in 1..Len(patches) : FiledPatch(patches[i], input)

\* No header was understood so far.
Idle(st) == st.cur = NoPatch /\ st.hunk = NoPatch

\* At a header; behind that of patch q, understood or not; in its k-th hunk with j lines.
Between(input) ==
  {st \in ParserState :
     /\ AllFiled(st.patches, input)
     /\ \/ Idle(st)
        \/ /\ FiledPatch(st.cur, input)
           /\ st.hunk = NoPatch \/ Filed(st.hunk, st.cur.path, input)}
Within(input, q) ==
  {st \in Between(input) : st.cur = NoPatch \/ HasPath(st.cur.path, input[q])}
InHunk(input, q, k, j) ==
  {st \in ParserState :
     /\ AllFiled(st.patches, input)
     /\ \/ Idle(st)
        \/ /\ FiledPatch(st.cur, input) /\ HasPath(st.cur.path, input[q])
           /\ st.hunk # NoPatch /\ st.hunk.src = <<q, k>>
           /\ ReadUpTo(st.hunk.rows, st.newLine, input[q].hunks[k], j)}

\* nil is no patch and no hunk.
LEMMA NoPatchIs == NoPatch \notin ParsedPatch /\ NoPatch \notin ParsedHunk
BY DiffAssumption

\* The fields of a state.
LEMMA StateIs ==
  ASSUME NEW st \in ParserState
  PROVE  /\ st = [patches |-> st.patches, cur |-> st.cur, hunk |-> st.hunk, newLine |-> st.newLine]
         /\ st.patches \in Seq(ParsedPatch) /\ st.cur \in ParsedPatch \cup {NoPatch}
         /\ st.hunk \in ParsedHunk \cup {NoPatch} /\ st.newLine \in Nat
BY DEF ParserState

\* A state with these fields.
IsState(st, patches, cur, hunk, newLine) ==
  /\ patches \in Seq(ParsedPatch) /\ cur \in ParsedPatch \cup {NoPatch}
  /\ hunk \in ParsedHunk \cup {NoPatch} /\ newLine \in Nat
  /\ st = [patches |-> patches, cur |-> cur, hunk |-> hunk, newLine |-> newLine]

\* It is one, and has them.
LEMMA StateWith ==
  ASSUME NEW st, NEW patches, NEW cur, NEW hunk, NEW newLine, IsState(st, patches, cur, hunk, newLine)
  PROVE  /\ st \in ParserState /\ st.patches = patches /\ st.cur = cur
         /\ st.hunk = hunk /\ st.newLine = newLine
BY DEF ParserState, IsState

\* The fields of a patch.
LEMMA PatchIs ==
  ASSUME NEW patch \in ParsedPatch
  PROVE  /\ patch = [job |-> patch.job, path |-> patch.path, deleted |-> patch.deleted,
                     hunks |-> patch.hunks]
         /\ patch.job \in Nat /\ patch.path \in Path /\ patch.deleted \in BOOLEAN
         /\ patch.hunks \in Seq(ParsedHunk)
BY DEF ParsedPatch

\* A patch with these fields.
IsPatch(patch, job, path, deleted, hunks) ==
  /\ job \in Nat /\ path \in Path /\ deleted \in BOOLEAN /\ hunks \in Seq(ParsedHunk)
  /\ patch = [job |-> job, path |-> path, deleted |-> deleted, hunks |-> hunks]

\* It is one, and has them.
LEMMA PatchWith ==
  ASSUME NEW patch, NEW job, NEW path, NEW deleted, NEW hunks, IsPatch(patch, job, path, deleted, hunks)
  PROVE  /\ patch \in ParsedPatch /\ patch.job = job /\ patch.path = path
         /\ patch.deleted = deleted /\ patch.hunks = hunks
BY DEF ParsedPatch, IsPatch

\* The same with other hunks.
WithHunks(patch, hunks) ==
  [job |-> patch.job, path |-> patch.path, deleted |-> patch.deleted, hunks |-> hunks]

\* It is a patch of the same path.
LEMMA HunksAre ==
  ASSUME NEW patch \in ParsedPatch, NEW hunks \in Seq(ParsedHunk)
  PROVE  /\ [patch EXCEPT !.hunks = hunks] = WithHunks(patch, hunks)
         /\ WithHunks(patch, hunks) \in ParsedPatch /\ WithHunks(patch, hunks).path = patch.path
         /\ WithHunks(patch, hunks).hunks = hunks
<1> DEFINE next == WithHunks(patch, hunks)
<1>1. /\ patch = [job |-> patch.job, path |-> patch.path, deleted |-> patch.deleted, hunks |-> patch.hunks]
      /\ patch.job \in Nat /\ patch.path \in Path /\ patch.deleted \in BOOLEAN
  BY PatchIs
<1>2. IsPatch(next, patch.job, patch.path, patch.deleted, hunks)
  BY <1>1 DEF IsPatch, WithHunks
<1>3. [patch EXCEPT !.hunks = hunks] = next
  BY <1>1 DEF WithHunks
<1> HIDE DEF next
<1> QED BY <1>2, <1>3, PatchWith DEF next

\* One hunk more.
LEMMA HunkCloses ==
  ASSUME NEW input, NEW patch, FiledPatch(patch, input), NEW hunk, Filed(hunk, patch.path, input)
  PROVE  /\ [patch EXCEPT !.hunks = Append(patch.hunks, hunk)] = WithHunks(patch, Append(patch.hunks, hunk))
         /\ FiledPatch(WithHunks(patch, Append(patch.hunks, hunk)), input)
         /\ WithHunks(patch, Append(patch.hunks, hunk)).path = patch.path
<1> DEFINE hs == patch.hunks
           ns == Append(hs, hunk)
           next == WithHunks(patch, ns)
<1>1. patch \in ParsedPatch /\ hunk \in ParsedHunk /\ \A i \in 1..Len(hs) : Filed(hs[i], patch.path, input)
  BY DEF FiledPatch, Filed
<1>2. hs \in Seq(ParsedHunk) /\ Len(hs) \in Nat
  <2>1. hs \in Seq(ParsedHunk)
    BY <1>1, PatchIs
  <2> HIDE DEF hs
  <2> QED BY <2>1
<1> HIDE DEF hs
<1>3. /\ ns \in Seq(ParsedHunk) /\ Len(ns) = Len(hs) + 1 /\ ns[Len(hs) + 1] = hunk
      /\ \A i \in 1..Len(hs) : ns[i] = hs[i]
  BY <1>1, <1>2, AppendProperties
<1> HIDE DEF ns
<1>4. /\ [patch EXCEPT !.hunks = ns] = next /\ next \in ParsedPatch
      /\ next.path = patch.path /\ next.hunks = ns
  BY <1>1, <1>3, HunksAre
<1> HIDE DEF next
<1>5. \A i \in 1..Len(ns) : Filed(ns[i], patch.path, input)
  <2> TAKE i \in 1..Len(ns)
  <2>1. i \in 1..Len(hs) \/ i = Len(hs) + 1
    BY <1>2, <1>3
  <2> QED BY <2>1, <1>1, <1>3
<1>6. FiledPatch(next, input)
  BY <1>4, <1>5 DEF FiledPatch
<1> QED BY <1>4, <1>6 DEF next, ns, hs

\* The hunk at hand goes to its patch.
LEMMA CloseHunkIs ==
  ASSUME NEW input, NEW st \in Between(input), st.cur # NoPatch
  PROVE  /\ CloseHunk(st) \in ParserState /\ CloseHunk(st).hunk = NoPatch
         /\ CloseHunk(st).patches = st.patches /\ FiledPatch(CloseHunk(st).cur, input)
         /\ CloseHunk(st).cur.path = st.cur.path /\ CloseHunk(st).cur # NoPatch
<1>1. /\ st \in ParserState /\ FiledPatch(st.cur, input)
      /\ st.hunk = NoPatch \/ Filed(st.hunk, st.cur.path, input)
  BY DEF Between, Idle
<1>2. CASE st.hunk = NoPatch
  <2>1. CloseHunk(st) = st
    BY <1>2 DEF CloseHunk
  <2> QED BY <1>1, <1>2, <2>1
<1>3. CASE st.hunk # NoPatch
  <2> DEFINE cur == st.cur
             hs == Append(cur.hunks, st.hunk)
             next == WithHunks(cur, hs)
             new == [patches |-> st.patches, cur |-> next, hunk |-> NoPatch, newLine |-> st.newLine]
  <2>1. /\ st = [patches |-> st.patches, cur |-> st.cur, hunk |-> st.hunk, newLine |-> st.newLine]
        /\ st.patches \in Seq(ParsedPatch) /\ st.newLine \in Nat
    BY <1>1, StateIs
  <2>2. [cur EXCEPT !.hunks = hs] = next /\ FiledPatch(next, input) /\ next.path = cur.path
    <3>1. FiledPatch(cur, input) /\ Filed(st.hunk, cur.path, input)
      BY <1>1, <1>3
    <3> HIDE DEF cur
    <3> QED BY <3>1, HunkCloses
  <2>3. CloseHunk(st) = new
    <3>1. CloseHunk(st) = [st EXCEPT !.cur.hunks = Append(@, st.hunk), !.hunk = NoPatch]
      BY <1>3 DEF CloseHunk
    <3>2. CloseHunk(st) = [st EXCEPT !.cur = [cur EXCEPT !.hunks = hs], !.hunk = NoPatch]
      BY <3>1
    <3> HIDE DEF hs, next, cur
    <3>3. CloseHunk(st) = [st EXCEPT !.cur = next, !.hunk = NoPatch]
      BY <2>2, <3>2
    <3> QED BY <2>1, <3>3
  <2>4. next \in ParsedPatch /\ next # NoPatch
    BY <2>2, NoPatchIs DEF FiledPatch
  <2> HIDE DEF next
  <2>5. new \in ParserState /\ new.hunk = NoPatch /\ new.patches = st.patches /\ new.cur = next
    <3>1. IsState(new, st.patches, next, NoPatch, st.newLine)
      BY <2>1, <2>4 DEF IsState
    <3> HIDE DEF new
    <3> QED BY <3>1, StateWith
  <2> HIDE DEF new
  <2> QED BY <2>2, <2>3, <2>4, <2>5 DEF cur
<1> QED BY <1>2, <1>3

\* One patch more.
LEMMA PatchCloses ==
  ASSUME NEW input, NEW patches, AllFiled(patches, input), NEW patch, FiledPatch(patch, input)
  PROVE  AllFiled(Append(patches, patch), input)
<1> DEFINE ps == Append(patches, patch)
<1>1. patches \in Seq(ParsedPatch) /\ patch \in ParsedPatch /\ Len(patches) \in Nat
  BY DEF AllFiled, FiledPatch
<1>2. /\ ps \in Seq(ParsedPatch) /\ Len(ps) = Len(patches) + 1 /\ ps[Len(patches) + 1] = patch
      /\ \A i \in 1..Len(patches) : ps[i] = patches[i]
  BY <1>1, AppendProperties
<1> HIDE DEF ps
<1>3. \A i \in 1..Len(ps) : FiledPatch(ps[i], input)
  <2> TAKE i \in 1..Len(ps)
  <2>1. i \in 1..Len(patches) \/ i = Len(patches) + 1
    BY <1>1, <1>2
  <2> QED BY <2>1, <1>2 DEF AllFiled
<1> QED BY <1>2, <1>3 DEF AllFiled, ps

\* The patch at hand goes to the result.
LEMMA ClosePatchIs ==
  ASSUME NEW input, NEW st \in Between(input)
  PROVE  /\ ClosePatch(st) \in ParserState /\ Idle(ClosePatch(st))
         /\ AllFiled(ClosePatch(st).patches, input)
<1>1. st \in ParserState /\ AllFiled(st.patches, input)
  BY DEF Between
<1>2. CASE st.cur = NoPatch
  <2>1. Idle(st)
    BY <1>2, NoPatchIs DEF Between, FiledPatch
  <2> QED BY <1>1, <1>2, <2>1 DEF ClosePatch
<1>3. CASE st.cur # NoPatch
  <2> DEFINE c == CloseHunk(st)
             ps == Append(c.patches, c.cur)
             new == [patches |-> ps, cur |-> NoPatch, hunk |-> NoPatch, newLine |-> c.newLine]
  <2>1. c \in ParserState /\ c.hunk = NoPatch /\ c.patches = st.patches /\ FiledPatch(c.cur, input)
    BY <1>3, CloseHunkIs
  <2>2. ClosePatch(st) = [c EXCEPT !.patches = Append(@, c.cur), !.cur = NoPatch]
    BY <1>3 DEF ClosePatch
  <2> HIDE DEF c
  <2>3. /\ c = [patches |-> c.patches, cur |-> c.cur, hunk |-> c.hunk, newLine |-> c.newLine]
        /\ c.patches \in Seq(ParsedPatch) /\ c.newLine \in Nat
    BY <2>1, StateIs
  <2>4. ClosePatch(st) = new
    <3>1. ClosePatch(st) = [c EXCEPT !.patches = ps, !.cur = NoPatch]
      BY <2>2
    <3> HIDE DEF ps
    <3> QED BY <3>1, <2>1, <2>3
  <2>5. AllFiled(ps, input)
    BY <1>1, <2>1, PatchCloses
  <2> HIDE DEF ps
  <2>6. new \in ParserState /\ new.patches = ps /\ new.cur = NoPatch /\ new.hunk = NoPatch
    <3>1. NoPatch \in ParsedPatch \cup {NoPatch} /\ NoPatch \in ParsedHunk \cup {NoPatch}
      OBVIOUS
    <3>2. ps \in Seq(ParsedPatch) /\ c.newLine \in Nat
      BY <2>3, <2>5 DEF AllFiled
    <3>3. new = [patches |-> ps, cur |-> NoPatch, hunk |-> NoPatch, newLine |-> c.newLine]
      OBVIOUS
    <3>4. IsState(new, ps, NoPatch, NoPatch, c.newLine)
      BY ONLY <3>1, <3>2, <3>3 DEF IsState
    <3> HIDE DEF new
    <3> QED BY <3>4, StateWith
  <2> HIDE DEF new
  <2> QED BY <2>4, <2>5, <2>6 DEF Idle
<1> QED BY <1>2, <1>3
-----------------------------------------------------------------------------
(* What each line of the output does.                                      *)

\* What fileHeaderRE takes for the path is one.
LEMMA HeaderPathIs ==
  ASSUME NEW old \in Seq(Name) \ {<<>>}, NEW path \in Seq(Name)
  PROVE  HeaderPath(old, path) \in Path
<1> DEFINE M == Name \cup {AndB[name] : name \in Name}
           front == Front(old)
           mid == <<AndB[Last(old)]>>
           start == front \o mid
           names == start \o path
           I == {i \in 1..Len(names) : \E n \in Name : names[i] = AndB[n]}
           first == SelectInSeq(names, LAMBDA name : \E n \in Name : name = AndB[n])
<1>1. old \in Seq(Name) /\ Len(old) \in Nat /\ Len(old) # 0
  OBVIOUS
<1>2. front \in Seq(M)
  <2>1. \A i \in 1..(Len(old) - 1) : old[i] \in M
    BY <1>1
  <2>2. SubSeq(old, 1, Len(old) - 1) \in Seq(M)
    <3> HIDE DEF M
    <3> QED BY <1>1, <2>1, SubSeqProperties
  <2> QED BY <2>2 DEF Front
<1>3. mid \in Seq(M)
  <2>1. Last(old) \in Name
    BY <1>1 DEF Last
  <2>2. AndB[Last(old)] \in M
    BY <2>1
  <2> HIDE DEF M
  <2> QED BY <2>2
<1>4. path \in Seq(M)
  <2>1. \A i \in 1..Len(path) : path[i] \in M
    OBVIOUS
  <2> HIDE DEF M
  <2> QED BY <2>1
<1>5. names \in Seq(M)
  <2> HIDE DEF M, front, mid
  <2>1. start \in Seq(M)
    BY <1>2, <1>3
  <2> HIDE DEF start
  <2> QED BY <2>1, <1>4
<1>6. first \in Nat
  <2> HIDE DEF names
  <2>1. first = IF I # {} THEN CHOOSE x \in I : \A y \in I : x <= y ELSE 0
    BY DEF SelectInSeq, Min
  <2>2. I \in SUBSET Nat
    OBVIOUS
  <2>3. CASE I # {}
    <3> HIDE DEF I, first
    <3>1. \E x \in I : \A y \in I : x <= y
      BY <2>2, <2>3, SomeLeast
    <3> QED BY <2>1, <2>2, <2>3, <3>1
  <2> HIDE DEF I, first
  <2> QED BY <2>1, <2>3
<1>7. HeaderPath(old, path) = SubSeq(names, first + 1, Len(names))
  BY DEF HeaderPath
<1> HIDE DEF names, first, M
<1>8. SubSeq(names, first + 1, Len(names)) \in Seq(M)
  <2> DEFINE x == first + 1
             y == Len(names)
  <2>1. x \in Nat /\ x > 0 /\ y \in Int /\ y <= Len(names)
    BY <1>5, <1>6
  <2> HIDE DEF x, y
  <2>2. SubSeq(names, x, y) \in Seq(M)
    BY <1>5, <2>1, PartOf DEF y
  <2> QED BY <2>2 DEF x, y
<1> QED BY <1>7, <1>8 DEF Path, M

\* "diff --git": the patch before is closed and the next one opened, or its header does not
\* match and it is passed over.
LEMMA DiffStep ==
  ASSUME NEW input \in Seq(DiffType), NEW q \in 1..Len(input), NEW st \in Between(input),
         NEW line, line = [tag |-> "diff", job |-> q, old |-> input[q].old, path |-> input[q].path]
  PROVE  ParseLine(st, line) \in Within(input, q)
<1> DEFINE p == input[q]
<1>1. line.tag = "diff" /\ line.job = q /\ line.old = p.old /\ line.path = p.path
  OBVIOUS
<1>2. q \in Nat /\ p.old \in Seq(Name) \ {<<>>} /\ p.path \in Seq(Name)
  <2>1. p \in DiffType
    OBVIOUS
  <2> HIDE DEF p
  <2> QED BY <2>1 DEF DiffType
<1> HIDE DEF p
<1>3. CASE ~MatchesHeader(line)
  <2>1. ParseLine(st, line) = st
    BY <1>1, <1>3 DEF ParseLine
  <2>2. MisfiledPatch(p)
    BY <1>1, <1>3 DEF MatchesHeader, MisfiledPatch
  <2> QED BY <2>1, <2>2 DEF Within, HasPath, p
<1>4. CASE MatchesHeader(line)
  <2> DEFINE c == ClosePatch(st)
             path == HeaderPath(p.old, p.path)
             cur == [job |-> q, path |-> path, deleted |-> FALSE, hunks |-> <<>>]
             new == [patches |-> c.patches, cur |-> cur, hunk |-> NoPatch, newLine |-> c.newLine]
  <2>1. c \in ParserState /\ Idle(c) /\ AllFiled(c.patches, input)
    BY ClosePatchIs
  <2>2. ParseLine(st, line) = [c EXCEPT !.cur = cur]
    BY <1>1, <1>4 DEF ParseLine, FileHeader
  <2> HIDE DEF c
  <2>3. /\ c = [patches |-> c.patches, cur |-> c.cur, hunk |-> c.hunk, newLine |-> c.newLine]
        /\ c.patches \in Seq(ParsedPatch) /\ c.newLine \in Nat
    BY <2>1, StateIs
  <2>4. ParseLine(st, line) = new
    <3> HIDE DEF cur
    <3> QED BY <2>1, <2>2, <2>3 DEF Idle
  <2>5. cur \in ParsedPatch /\ cur.path = path /\ cur.hunks = <<>>
    <3>1. path \in Path
      BY <1>2, HeaderPathIs
    <3> HIDE DEF path
    <3>2. IsPatch(cur, q, path, FALSE, <<>>)
      BY <1>2, <3>1 DEF IsPatch
    <3> HIDE DEF cur
    <3> QED BY <3>2, PatchWith
  <2>6. HasPath(path, p)
    BY DEF HasPath, MisfiledPatch
  <2> HIDE DEF path
  <2>7. new \in ParserState /\ new.patches = c.patches /\ new.cur = cur /\ new.hunk = NoPatch
    <3>1. cur \in ParsedPatch \cup {NoPatch} /\ NoPatch \in ParsedHunk \cup {NoPatch}
      BY <2>5
    <3>2. c.patches \in Seq(ParsedPatch) /\ c.newLine \in Nat
      BY <2>3
    <3>3. new = [patches |-> c.patches, cur |-> cur, hunk |-> NoPatch, newLine |-> c.newLine]
      OBVIOUS
    <3> HIDE DEF new, cur
    <3>4. IsState(new, c.patches, cur, NoPatch, c.newLine)
      BY ONLY <3>1, <3>2, <3>3 DEF IsState
    <3> QED BY <3>4, StateWith
  <2> HIDE DEF new, cur
  <2>8. FiledPatch(cur, input)
    <3>1. Len(<<>>) = 0
      OBVIOUS
    <3> QED BY <2>5, <3>1 DEF FiledPatch
  <2>9. new \in Within(input, q)
    BY <2>1, <2>5, <2>6, <2>7, <2>8 DEF Within, Between, p
  <2> QED BY <2>4, <2>9
<1> QED BY <1>3, <1>4

\* The state between a header and the first hunk, by fields.
LEMMA WithinIs ==
  ASSUME NEW input, NEW q, NEW st \in Within(input, q)
  PROVE  /\ st \in ParserState /\ st \in Between(input) /\ AllFiled(st.patches, input)
         /\ st.cur = NoPatch => Idle(st)
         /\ st.cur # NoPatch => /\ FiledPatch(st.cur, input) /\ HasPath(st.cur.path, input[q])
                                /\ st.hunk = NoPatch \/ Filed(st.hunk, st.cur.path, input)
BY NoPatchIs DEF Within, Between, FiledPatch, Idle

\* "deleted file mode".
LEMMA DeletedStep ==
  ASSUME NEW input, NEW q, NEW st \in Within(input, q), NEW line, line = [tag |-> "deleted"]
  PROVE  ParseLine(st, line) \in Within(input, q)
<1>1. line.tag = "deleted" /\ ~MatchesHeader(line)
  BY DEF MatchesHeader
<1>2. CASE st.cur = NoPatch
  BY <1>1, <1>2 DEF ParseLine
<1>3. CASE st.cur # NoPatch
  <2> DEFINE cur == st.cur
             gone == [job |-> cur.job, path |-> cur.path, deleted |-> TRUE, hunks |-> cur.hunks]
             new == [patches |-> st.patches, cur |-> gone, hunk |-> st.hunk, newLine |-> st.newLine]
             x == [st.cur EXCEPT !.deleted = TRUE]
  <2>1. /\ st \in ParserState /\ AllFiled(st.patches, input)
        /\ FiledPatch(cur, input) /\ HasPath(cur.path, input[q])
        /\ st.hunk = NoPatch \/ Filed(st.hunk, cur.path, input)
    BY <1>3, WithinIs
  <2>2. ParseLine(st, line) = [st EXCEPT !.cur = x]
    BY <1>1, <1>3 DEF ParseLine
  <2>3. /\ st = [patches |-> st.patches, cur |-> st.cur, hunk |-> st.hunk, newLine |-> st.newLine]
        /\ st.patches \in Seq(ParsedPatch) /\ st.newLine \in Nat /\ st.hunk \in ParsedHunk \cup {NoPatch}
    BY <2>1, StateIs
  <2>4. /\ cur = [job |-> cur.job, path |-> cur.path, deleted |-> cur.deleted, hunks |-> cur.hunks]
        /\ cur.job \in Nat /\ cur.path \in Path /\ cur.hunks \in Seq(ParsedHunk)
    <3>1. cur \in ParsedPatch
      BY <2>1 DEF FiledPatch
    <3> HIDE DEF cur
    <3> QED BY <3>1, PatchIs
  <2>5. x = gone
    <3> DEFINE t == TRUE
    <3>1. [cur EXCEPT !.deleted = t] = [job |-> cur.job, path |-> cur.path, deleted |-> t, hunks |-> cur.hunks]
      <4> HIDE DEF cur, t
      <4> QED BY <2>4
    <3> QED BY <3>1
  <2> HIDE DEF x
  <2>6. gone \in ParsedPatch /\ gone.path = cur.path /\ gone.hunks = cur.hunks
    <3>1. IsPatch(gone, cur.job, cur.path, TRUE, cur.hunks)
      <4> HIDE DEF cur
      <4> QED BY <2>4 DEF IsPatch
    <3> HIDE DEF gone, cur
    <3> QED BY <3>1, PatchWith
  <2> HIDE DEF gone
  <2>7. ParseLine(st, line) = new
    BY <2>2, <2>3, <2>5
  <2>8. new \in ParserState /\ new.patches = st.patches /\ new.cur = gone /\ new.hunk = st.hunk
    <3>1. gone \in ParsedPatch \cup {NoPatch}
      BY <2>6
    <3>2. new = [patches |-> st.patches, cur |-> gone, hunk |-> st.hunk, newLine |-> st.newLine]
      OBVIOUS
    <3> HIDE DEF new
    <3>3. IsState(new, st.patches, gone, st.hunk, st.newLine)
      BY <2>3, <3>1, <3>2 DEF IsState
    <3> QED BY <3>3, StateWith
  <2> HIDE DEF new, cur
  <2>9. FiledPatch(gone, input)
    BY <2>1, <2>6 DEF FiledPatch
  <2>10. new \in Within(input, q)
    BY <2>1, <2>6, <2>8, <2>9 DEF Within, Between
  <2> QED BY <2>7, <2>10
<1> QED BY <1>2, <1>3

\* "index", "---" and "+++" are passed over.
LEMMA IdleStep ==
  ASSUME NEW st, NEW line,
         line.tag = "index" \/ (line.tag = "text" /\ LooksLikeFileLine(line.text))
  PROVE  ParseLine(st, line) = st
<1>1. ~MatchesHeader(line)
  BY DEF MatchesHeader
<1>2. CASE line.tag = "index"
  BY <1>1, <1>2 DEF ParseLine
<1>3. CASE line.tag = "text" /\ LooksLikeFileLine(line.text)
  BY <1>1, <1>3 DEF ParseLine
<1> QED BY <1>2, <1>3

\* The two lines git prints with the paths.
LEMMA FileLines ==
  /\ Minus.tag = "text" /\ LooksLikeFileLine(Minus.text)
  /\ Plus.tag = "text" /\ LooksLikeFileLine(Plus.text)
<1>1. ASSUME NEW c, NEW d
      PROVE  IsPrefix(<<c, c, c>>, <<c, c, c, " ", d>>)
  <2> DEFINE s == <<c, c, c>>
             t == <<c, c, c, " ", d>>
             S == {c, d, " "}
  <2>1. /\ s \in Seq(S) /\ t \in Seq(S) /\ Len(s) = 3 /\ Len(t) = 5
        /\ s[1] = t[1] /\ s[2] = t[2] /\ s[3] = t[3]
    OBVIOUS
  <2> HIDE DEF s, t, S
  <2>2. \A k \in 1..Len(s) : s[k] = t[k]
    <3>1. \A k \in 1..Len(s) : k = 1 \/ k = 2 \/ k = 3
      BY <2>1
    <3> QED BY <2>1, <3>1
  <2>3. IsPrefix(s, t)
    BY <2>1, <2>2, PrefixIs
  <2> QED BY <2>3 DEF s, t
<1> QED BY <1>1 DEF Minus, Plus, LooksLikeFileLine

\* A hunk with no line yet.
LEMMA HunkOpens ==
  ASSUME NEW src \in Nat \X Nat, NEW rows \in Seq(Row)
  PROVE  /\ [src |-> src, rows |-> rows] \in ParsedHunk /\ [src |-> src, rows |-> rows] # NoPatch
         /\ [src |-> src, rows |-> rows].src = src /\ [src |-> src, rows |-> rows].rows = rows
<1>1. [src |-> src, rows |-> rows] \in ParsedHunk
  BY DEF ParsedHunk
<1> QED BY <1>1, NoPatchIs

\* "@@": the hunk before is closed, the next one opened.
LEMMA HunkStep ==
  ASSUME NEW input \in Seq(DiffType), NEW q \in 1..Len(input), NEW k \in 1..Len(input[q].hunks),
         NEW st \in Within(input, q),
         NEW line, line = [tag |-> "hunk", src |-> <<q, k>>, start |-> input[q].hunks[k].start]
  PROVE  ParseLine(st, line) \in InHunk(input, q, k, 0)
<1> DEFINE start == input[q].hunks[k].start
           src == <<q, k>>
<1>1. line.tag = "hunk" /\ line.src = src /\ line.start = start /\ ~MatchesHeader(line)
  BY DEF MatchesHeader
<1>2. input[q].hunks[k] \in HunkType /\ src \in Nat \X Nat
  <2>1. input[q] \in DiffType
    OBVIOUS
  <2>2. input[q].hunks \in Seq(HunkType)
    BY <2>1 DEF DiffType
  <2> QED BY <2>2
<1>3. CASE st.cur = NoPatch
  <2>1. ParseLine(st, line) = st
    BY <1>1, <1>3 DEF ParseLine
  <2> QED BY <1>3, <2>1, WithinIs DEF InHunk
<1>4. CASE st.cur # NoPatch
  <2> DEFINE c == CloseHunk(st)
             hunk == [src |-> src, rows |-> <<>>]
             new == [patches |-> c.patches, cur |-> c.cur, hunk |-> hunk, newLine |-> start]
  <2>1. st \in Between(input) /\ AllFiled(st.patches, input) /\ HasPath(st.cur.path, input[q])
    BY <1>4, WithinIs
  <2>2. /\ c \in ParserState /\ c.hunk = NoPatch /\ c.patches = st.patches /\ FiledPatch(c.cur, input)
        /\ c.cur.path = st.cur.path
    BY <1>4, <2>1, CloseHunkIs
  <2>3. ParseLine(st, line) = [c EXCEPT !.hunk = hunk, !.newLine = start]
    BY <1>1, <1>4 DEF ParseLine, HunkHeader
  <2> HIDE DEF c
  <2>4. /\ c = [patches |-> c.patches, cur |-> c.cur, hunk |-> c.hunk, newLine |-> c.newLine]
        /\ c.patches \in Seq(ParsedPatch) /\ c.cur \in ParsedPatch \cup {NoPatch}
    BY <2>2, StateIs
  <2>5. hunk \in ParsedHunk /\ hunk # NoPatch /\ hunk.src = src /\ hunk.rows = <<>>
    <3>1. <<>> \in Seq(Row)
      OBVIOUS
    <3> HIDE DEF src
    <3> QED BY <1>2, <3>1, HunkOpens
  <2>6. ReadUpTo(<<>>, start, input[q].hunks[k], 0) /\ start \in Nat
    BY <1>2, NothingRead DEF ReadUpTo
  <2> HIDE DEF hunk, start, src
  <2>7. ParseLine(st, line) = new
    BY <2>3, <2>4
  <2>8. /\ new \in ParserState /\ new.patches = c.patches /\ new.cur = c.cur
        /\ new.hunk = hunk /\ new.newLine = start
    <3>1. hunk \in ParsedHunk \cup {NoPatch}
      BY <2>5
    <3>2. new = [patches |-> c.patches, cur |-> c.cur, hunk |-> hunk, newLine |-> start]
      OBVIOUS
    <3> HIDE DEF new
    <3>3. IsState(new, c.patches, c.cur, hunk, start)
      BY <2>4, <2>6, <3>1, <3>2 DEF IsState
    <3> QED BY <3>3, StateWith
  <2> HIDE DEF new
  <2>9. new \in InHunk(input, q, k, 0)
    BY <2>1, <2>2, <2>5, <2>6, <2>8 DEF InHunk, src
  <2> QED BY <2>7, <2>9
<1> QED BY <1>3, <1>4

\* One line more of a hunk.
LEMMA RankGrows ==
  ASSUME NEW S \in SUBSET Nat, NEW j \in Nat, j > 0
  PROVE  /\ Rank(S, j - 1) \in Nat
         /\ Rank(S, j) = IF j \in S THEN Rank(S, j - 1) + 1 ELSE Rank(S, j - 1)
<1> DEFINE p == j - 1
<1>1. p \in Nat /\ p < j /\ \A x \in S : x <= p \/ x >= j
  OBVIOUS
<1> HIDE DEF p
<1>2. Rank(S, p) \in Nat /\ Rank(S, j) = IF j \in S THEN Rank(S, p) + 1 ELSE Rank(S, p)
  BY <1>1, RankNext
<1> QED BY <1>2 DEF p

\* A rank is at most the number of members.
LEMMA RankBound ==
  ASSUME NEW S \in SUBSET Nat, NEW n \in Nat, \A x \in S : x <= n, NEW j
  PROVE  Rank(S, j) \in Nat /\ Rank(S, j) <= Cardinality(S)
<1> DEFINE A == {x \in S : x <= j}
<1>1. IsFiniteSet(S) /\ A \in SUBSET S
  BY FS_BoundedSetOfNaturals
<1> HIDE DEF A
<1>2. IsFiniteSet(A) /\ Cardinality(A) <= Cardinality(S)
  BY <1>1, FS_Subset
<1>3. Cardinality(A) \in Nat
  BY <1>2, FS_CardinalityType
<1> QED BY <1>2, <1>3 DEF Rank, A

\* One line more is read, or passed over if it is not in the new file.
LEMMA LineRead ==
  ASSUME NEW hunk \in HunkType, NEW j \in 1..Len(hunk.lines), NEW rows, NEW newLine,
         ReadUpTo(rows, newLine, hunk, j - 1)
  PROVE  /\ InNewFile(hunk.lines[j]) =>
              ReadUpTo(Append(rows, [n |-> newLine, text |-> WithoutReturn(Tail(hunk.lines[j]))]), newLine + 1, hunk, j)
         /\ ~InNewFile(hunk.lines[j]) => ReadUpTo(rows, newLine, hunk, j)
<1> DEFINE K == Kept(hunk)
           N == Cardinality(K)
           t == HunkTruth(hunk)
           L == Len(hunk.lines)
           r == Rank(K, j - 1)
           row == [n |-> newLine, text |-> WithoutReturn(Tail(hunk.lines[j]))]
           next == Append(rows, row)
<1>1. /\ hunk.lines \in Seq(Seq(Byte)) /\ hunk.start \in Nat /\ L \in Nat
      /\ K \in SUBSET Nat /\ N \in Nat
      /\ (\A i \in K : i \in 1..L /\ InNewFile(hunk.lines[i]))
      /\ (\A i \in 1..L : InNewFile(hunk.lines[i]) => i \in K)
      /\ \A i \in 1..N : t[i] = [n |-> hunk.start + i - 1, text |-> WithoutReturn(Tail(hunk.lines[Nth(K, i)]))]
  BY HunkTruthIs
<1>2. /\ rows \in Seq(Row) /\ newLine \in Nat /\ Len(rows) \in Nat
      /\ ~HasPlusPlus(hunk) =>
           /\ newLine = hunk.start + r /\ Len(rows) = r
           /\ \A i \in 1..Len(rows) : rows[i] = t[i]
  BY DEF ReadUpTo
<1> HIDE DEF K, N, t, r
<1>3. r \in Nat /\ Rank(K, j) = IF j \in K THEN r + 1 ELSE r
  <2>1. j \in Nat /\ j > 0
    BY <1>1
  <2>2. K \in SUBSET Nat
    BY <1>1
  <2> HIDE DEF L
  <2> QED BY ONLY <2>1, <2>2, RankGrows DEF r
<1>4. ASSUME InNewFile(hunk.lines[j]) PROVE ReadUpTo(next, newLine + 1, hunk, j)
  <2>1. j \in K
    BY <1>1, <1>4
  <2>2. row \in Row
    <3>1. hunk.lines[j] \in Seq(Byte) /\ hunk.lines[j] # <<>>
      <4>1. hunk.lines[j] # <<>>
        BY <1>4 DEF InNewFile
      <4>2. hunk.lines[j] \in Seq(Byte)
        BY <1>1
      <4> QED BY <4>1, <4>2
    <3>2. WithoutReturn(Tail(hunk.lines[j])) \in Seq(Byte)
      BY <3>1, TailIs, WithoutReturnIs
    <3> QED BY <3>2, <1>2 DEF Row
  <2> HIDE DEF row
  <2>3. /\ next \in Seq(Row) /\ Len(next) = Len(rows) + 1 /\ next[Len(rows) + 1] = row
        /\ \A i \in 1..Len(rows) : next[i] = rows[i]
    BY <1>2, <2>2, AppendProperties
  <2> HIDE DEF next
  <2>4. ASSUME ~HasPlusPlus(hunk)
        PROVE  /\ newLine + 1 = hunk.start + Rank(K, j) /\ Len(next) = Rank(K, j)
               /\ \A i \in 1..Len(next) : next[i] = t[i]
    <3>1. newLine = hunk.start + r /\ Len(rows) = r /\ Rank(K, j) = r + 1
      BY <1>2, <1>3, <2>1, <2>4
    <3>2. Nth(K, r + 1) = j
      BY <1>1, <2>1, <3>1, NthIs
    <3>3. r + 1 \in 1..N
      <4>1. Rank(K, j) <= N
        <5>1. \A x \in K : x <= L
          BY <1>1
        <5> QED BY <1>1, <5>1, RankBound DEF N
      <4> QED BY <4>1, <3>1, <1>3, <1>1
    <3>4. t[r + 1] = row
      <4>1. t[r + 1] = [n |-> hunk.start + (r + 1) - 1, text |-> WithoutReturn(Tail(hunk.lines[Nth(K, r + 1)]))]
        BY <3>3, <1>1
      <4>2. hunk.start + (r + 1) - 1 = newLine
        BY <3>1, <1>1, <1>3
      <4> QED BY <4>1, <4>2, <3>2 DEF row
    <3>5. \A i \in 1..Len(next) : next[i] = t[i]
      <4> TAKE i \in 1..Len(next)
      <4>1. i \in 1..Len(rows) \/ i = Len(rows) + 1
        BY <2>3, <1>2
      <4>2. CASE i \in 1..Len(rows)
        BY <4>2, <2>3, <2>4, <1>2
      <4>3. CASE i = Len(rows) + 1
        BY <4>3, <2>3, <3>1, <3>4
      <4> QED BY <4>1, <4>2, <4>3
    <3>6. newLine + 1 = hunk.start + Rank(K, j)
      BY <3>1, <1>1, <1>2, <1>3
    <3>7. Len(next) = Rank(K, j)
      BY <3>1, <2>3
    <3> QED BY <3>5, <3>6, <3>7
  <2>5. newLine + 1 \in Nat
    BY <1>2
  <2> QED BY <2>3, <2>4, <2>5 DEF ReadUpTo, K, t
<1>5. ASSUME ~InNewFile(hunk.lines[j]) PROVE ReadUpTo(rows, newLine, hunk, j)
  <2>1. j \notin K
    BY <1>1, <1>5
  <2>2. Rank(K, j) = r
    BY <2>1, <1>3
  <2> QED BY <2>2, <1>2 DEF ReadUpTo, K, t
<1> QED BY <1>4, <1>5 DEF next, row

\* A line of a hunk.
LEMMA TextStep ==
  ASSUME NEW input, NEW q, NEW k, input[q].hunks[k] \in HunkType,
         NEW j \in 1..Len(input[q].hunks[k].lines), NEW st \in InHunk(input, q, k, j - 1),
         NEW line, line = [tag |-> "text", text |-> input[q].hunks[k].lines[j]]
  PROVE  ParseLine(st, line) \in InHunk(input, q, k, j)
<1> DEFINE hunk == input[q].hunks[k]
           text == hunk.lines[j]
           shown == WithoutReturn(text)
           rows == st.hunk.rows
           row == [n |-> st.newLine, text |-> WithoutReturn(Tail(text))]
<1>1. st \in ParserState /\ AllFiled(st.patches, input)
  BY DEF InHunk
<1>2. line.tag = "text" /\ line.text = text /\ ~MatchesHeader(line)
  BY SMTT(30) DEF MatchesHeader
<1>3. CASE Idle(st)
  <2>1. ParseLine(st, line) = st
    BY <1>2, <1>3 DEF ParseLine, Idle
  <2> QED BY <1>1, <1>3, <2>1 DEF InHunk
<1>4. CASE ~Idle(st)
  <2>1. /\ FiledPatch(st.cur, input) /\ HasPath(st.cur.path, input[q])
        /\ st.hunk # NoPatch /\ st.hunk.src = <<q, k>>
        /\ ReadUpTo(rows, st.newLine, hunk, j - 1)
    BY <1>4 DEF InHunk
  <2>2. st.cur \in ParsedPatch /\ st.cur # NoPatch
    BY <2>1, NoPatchIs DEF FiledPatch
  <2>3. ParseLine(st, line) = IF LooksLikeFileLine(text) THEN st ELSE HunkLine(st, shown)
    BY <1>2, <2>1, <2>2 DEF ParseLine
  <2>4. text \in Seq(Byte) /\ text \in ToSet(hunk.lines)
    BY DEF HunkType, ToSet
  <2>5. /\ InNewFile(text) => ReadUpTo(Append(rows, row), st.newLine + 1, hunk, j)
        /\ ~InNewFile(text) => ReadUpTo(rows, st.newLine, hunk, j)
    <3> HIDE DEF hunk
    <3>1. hunk \in HunkType /\ j \in 1..Len(hunk.lines)
      BY DEF hunk
    <3> QED BY <2>1, <3>1, LineRead
  <2>6. /\ InNewFile(shown) <=> InNewFile(text)
        /\ InNewFile(text) => Tail(shown) = WithoutReturn(Tail(text))
    BY <2>4, ReturnKept, SMTT(30)
  <2> HIDE DEF text, row, hunk, rows, shown
  <2>7. CASE ReadUpTo(rows, st.newLine, hunk, j) /\ ParseLine(st, line) = st
    BY <1>1, <2>1, <2>7 DEF InHunk, hunk, rows
  <2>8. CASE LooksLikeFileLine(text)
    <3>1. ParseLine(st, line) = st
      BY <2>3, <2>8
    <3>2. CASE Head(text) = "+"
      <4>1. HasPlusPlus(hunk)
        BY <2>4, <2>8, <3>2 DEF HasPlusPlus
      <4>2. ReadUpTo(rows, st.newLine, hunk, j)
        BY <4>1, <2>1 DEF ReadUpTo
      <4> QED BY <3>1, <4>2, <2>7
    <3>3. CASE Head(text) # "+"
      <4>1. ~InNewFile(text)
        BY <2>4, <2>8, <3>3, FileLineIs
      <4> QED BY <3>1, <4>1, <2>5, <2>7
    <3> QED BY <3>2, <3>3
  <2>9. CASE ~LooksLikeFileLine(text) /\ ~InNewFile(text)
    <3>1. ~InNewFile(shown)
      BY <2>6, <2>9
    <3>2. ParseLine(st, line) = st
      BY <2>3, <2>9, <3>1 DEF HunkLine, InNewFile
    <3> QED BY <3>2, <2>5, <2>7, <2>9
  <2>10. CASE ~LooksLikeFileLine(text) /\ InNewFile(text)
    <3> DEFINE h == Append(rows, row)
               n == st.newLine + 1
               src == <<q, k>>
               next == [src |-> src, rows |-> h]
               new == [patches |-> st.patches, cur |-> st.cur, hunk |-> next, newLine |-> n]
    <3>1. /\ st = [patches |-> st.patches, cur |-> st.cur, hunk |-> st.hunk, newLine |-> st.newLine]
          /\ st.patches \in Seq(ParsedPatch) /\ st.cur \in ParsedPatch \cup {NoPatch}
          /\ st.hunk \in ParsedHunk \cup {NoPatch}
      BY <1>1, StateIs
    <3>2. st.hunk \in ParsedHunk
      BY <2>1, <3>1
    <3>3. st.hunk = [src |-> src, rows |-> rows] /\ src \in Nat \X Nat
      BY <2>1, <3>2 DEF ParsedHunk, rows
    <3>4. InNewFile(shown) /\ Tail(shown) = row.text
      BY <2>6, <2>10 DEF row
    <3>5. ParseLine(st, line) = [st EXCEPT !.hunk.rows = Append(@, row), !.newLine = @ + 1]
      <4>1. ParseLine(st, line) = HunkLine(st, shown)
        BY <2>3, <2>10
      <4>2. row = [n |-> st.newLine, text |-> Tail(shown)]
        BY <3>4 DEF row
      <4>3. shown # <<>> /\ Head(shown) \in {" ", "+"}
        BY <3>4 DEF InNewFile
      <4> QED BY <4>1, <4>2, <4>3 DEF HunkLine
    <3> HIDE DEF src
    <3>6. [st.hunk EXCEPT !.rows = h] = next
      <4> HIDE DEF h
      <4> QED BY <3>3
    <3>7. ParseLine(st, line) = new
      <4>1. ParseLine(st, line) = [st EXCEPT !.hunk = [st.hunk EXCEPT !.rows = h], !.newLine = n]
        BY <3>5 DEF rows
      <4> HIDE DEF h, n, next
      <4>2. ParseLine(st, line) = [st EXCEPT !.hunk = next, !.newLine = n]
        BY <3>6, <4>1
      <4> QED BY <3>1, <4>2
    <3>8. ReadUpTo(h, n, hunk, j)
      BY <2>5, <2>10
    <3> HIDE DEF h, n
    <3>9. h \in Seq(Row) /\ n \in Nat
      BY <3>8 DEF ReadUpTo
    <3>10. next \in ParsedHunk /\ next # NoPatch /\ next.src = src /\ next.rows = h
      BY <3>3, <3>9, HunkOpens
    <3> HIDE DEF next
    <3>11. new \in ParserState /\ new.patches = st.patches /\ new.cur = st.cur /\ new.hunk = next /\ new.newLine = n
      <4>1. new = [patches |-> st.patches, cur |-> st.cur, hunk |-> next, newLine |-> n]
        OBVIOUS
      <4> HIDE DEF new
      <4>2. IsState(new, st.patches, st.cur, next, n)
        BY <3>1, <3>9, <3>10, <4>1 DEF IsState
      <4> QED BY <4>2, StateWith
    <3> HIDE DEF new
    <3>12. new \in InHunk(input, q, k, j)
      BY <1>1, <2>1, <3>8, <3>10, <3>11 DEF InHunk, hunk, src
    <3> QED BY <3>7, <3>12
  <2> QED BY <2>8, <2>9, <2>10
<1> QED BY <1>3, <1>4

\* Behind its last line.
LEMMA HunkOver ==
  ASSUME NEW input, NEW q \in 1..Len(input), NEW k \in 1..Len(input[q].hunks),
         input[q].hunks[k] \in HunkType,
         NEW st \in InHunk(input, q, k, Len(input[q].hunks[k].lines))
  PROVE  st \in Within(input, q)
<1>1. st \in ParserState /\ AllFiled(st.patches, input)
  BY DEF InHunk
<1>2. CASE Idle(st)
  BY <1>1, <1>2 DEF Within, Between, Idle
<1>3. CASE ~Idle(st)
  <2>1. /\ FiledPatch(st.cur, input) /\ HasPath(st.cur.path, input[q])
        /\ st.hunk # NoPatch /\ st.hunk.src = <<q, k>>
        /\ ReadUpTo(st.hunk.rows, st.newLine, input[q].hunks[k], Len(input[q].hunks[k].lines))
    BY <1>3 DEF InHunk
  <2>2. HunkRead(st.hunk.rows, input[q].hunks[k])
    BY <2>1, AllRead
  <2>3. st.hunk \in ParsedHunk
    BY <1>1, <2>1, StateIs
  <2>4. Filed(st.hunk, st.cur.path, input)
    BY <2>1, <2>2, <2>3 DEF Filed
  <2> QED BY <1>1, <2>1, <2>4 DEF Within, Between
<1> QED BY <1>2, <1>3
-----------------------------------------------------------------------------
(* The whole output.                                                       *)

\* From fewer states, to more.
LEMMA LeadsOver ==
  ASSUME NEW out, NEW P, NEW Q, Leads(out, P, Q), NEW P0, P0 \subseteq P, NEW Q0, Q \subseteq Q0
  PROVE  Leads(out, P0, Q0)
BY DEF Leads

\* Three lines, and the same put together.
Triple(x, y, z) == <<x, y, z>>
OneByOne(x, y, z) == (<<x>> \o <<y>>) \o <<z>>

\* They are the same.
LEMMA ThreeTogether ==
  ASSUME NEW x, NEW y, NEW z
  PROVE  Triple(x, y, z) = OneByOne(x, y, z)
<1> DEFINE S == {x, y, z}
           a == <<x>>
           b == <<y>>
           c == <<z>>
           t == <<x, y, z>>
           u == a \o b
           w == u \o c
<1>1. /\ a \in Seq(S) /\ b \in Seq(S) /\ c \in Seq(S) /\ t \in Seq(S)
      /\ Len(a) = 1 /\ a[1] = x /\ Len(b) = 1 /\ b[1] = y /\ Len(c) = 1 /\ c[1] = z
      /\ Len(t) = 3 /\ t[1] = x /\ t[2] = y /\ t[3] = z
  OBVIOUS
<1> HIDE DEF S, a, b, c, t
<1>2. /\ u \in Seq(S) /\ Len(u) = Len(a) + Len(b)
      /\ \A i \in 1..(Len(a) + Len(b)) : u[i] = IF i <= Len(a) THEN a[i] ELSE b[i - Len(a)]
  BY <1>1, ConcatProperties
<1> HIDE DEF u
<1>3. /\ w \in Seq(S) /\ Len(w) = Len(u) + Len(c)
      /\ \A i \in 1..(Len(u) + Len(c)) : w[i] = IF i <= Len(u) THEN u[i] ELSE c[i - Len(u)]
  <2>1. u \in Seq(S) /\ c \in Seq(S)
    BY <1>1, <1>2
  <2> QED BY ONLY <2>1, ConcatProperties
<1> HIDE DEF w
<1>4. Len(u) = 2 /\ u[1] = x /\ u[2] = y
  BY <1>1, <1>2
<1>5. Len(w) = 3 /\ w[1] = x /\ w[2] = y /\ w[3] = z
  BY <1>1, <1>3, <1>4
<1>6. \A i \in 1..Len(t) : t[i] = w[i]
  <2>1. \A i \in 1..Len(t) : i = 1 \/ i = 2 \/ i = 3
    BY <1>1
  <2> QED BY <2>1, <1>1, <1>5
<1>7. t = w
  BY <1>1, <1>3, <1>5, <1>6, SeqEqual
<1> QED BY <1>7 DEF t, w, u, a, b, c, Triple, OneByOne

\* The lines of the output are lines of the output.
LEMMA DiffLineIs ==
  /\ Minus \in DiffLine /\ Plus \in DiffLine /\ [tag |-> "deleted"] \in DiffLine /\ [tag |-> "index"] \in DiffLine
  /\ \A job \in Nat : \A old, path \in Seq(Name) \ {<<>>} :
       [tag |-> "diff", job |-> job, old |-> old, path |-> path] \in DiffLine
  /\ \A src \in Nat \X Nat : \A start \in Nat : [tag |-> "hunk", src |-> src, start |-> start] \in DiffLine
  /\ \A text \in Seq(Byte) : [tag |-> "text", text |-> text] \in DiffLine
BY DEF DiffLine

\* A hunk.
LEMMA HunkLeads ==
  ASSUME NEW input \in Seq(DiffType), NEW q \in 1..Len(input), NEW k \in 1..Len(input[q].hunks)
  PROVE  Leads(<<[tag |-> "hunk", src |-> <<q, k>>, start |-> input[q].hunks[k].start]>>
                 \o [i \in DOMAIN input[q].hunks[k].lines |->
                       [tag |-> "text", text |-> input[q].hunks[k].lines[i]]],
               Within(input, q), Within(input, q))
<1> DEFINE hunk == input[q].hunks[k]
           lines == hunk.lines
           n == Len(lines)
           header == [tag |-> "hunk", src |-> <<q, k>>, start |-> hunk.start]
           texts == [i \in DOMAIN lines |-> [tag |-> "text", text |-> lines[i]]]
           P == [j \in 0..n |-> InHunk(input, q, k, j)]
           W == Within(input, q)
<1>1. hunk \in HunkType /\ <<q, k>> \in Nat \X Nat
  <2>1. input[q] \in DiffType
    OBVIOUS
  <2>2. input[q].hunks \in Seq(HunkType)
    BY <2>1 DEF DiffType
  <2> QED BY <2>2
<1>2. lines \in Seq(Seq(Byte)) /\ hunk.start \in Nat /\ n \in Nat /\ DOMAIN lines = 1..n
      /\ \A j \in 1..n : lines[j] \in Seq(Byte)
  BY <1>1 DEF HunkType
<1>3. Leads(<<header>>, W, InHunk(input, q, k, 0))
  <2>1. header \in DiffLine
    BY <1>1, <1>2, DiffLineIs
  <2>2. \A st \in W : ParseLine(st, header) \in InHunk(input, q, k, 0)
    BY HunkStep
  <2> HIDE DEF header, W
  <2> QED BY <2>1, <2>2, LeadsOne
<1>4. Leads(texts, InHunk(input, q, k, 0), InHunk(input, q, k, n))
  <2>1. \A j \in 1..n : [tag |-> "text", text |-> lines[j]] \in DiffLine
    BY <1>2, DiffLineIs
  <2>2. texts \in Seq(DiffLine) /\ Len(texts) = n /\ \A j \in 1..n : texts[j] = [tag |-> "text", text |-> lines[j]]
    BY <1>2, <2>1
  <2>3. ASSUME NEW j \in 1..n, NEW st \in P[j - 1] PROVE ParseLine(st, texts[j]) \in P[j]
    <3>1. j - 1 \in 0..n /\ j \in 0..n
      BY <1>2, SMTT(30)
    <3>2. st \in InHunk(input, q, k, j - 1)
      BY <2>3, <3>1
    <3>3. j \in 1..Len(input[q].hunks[k].lines) /\ texts[j] = [tag |-> "text", text |-> input[q].hunks[k].lines[j]]
      BY <2>2
    <3> HIDE DEF texts
    <3>4. ParseLine(st, texts[j]) \in InHunk(input, q, k, j)
      BY <1>1, <3>2, <3>3, TextStep
    <3> QED BY <3>1, <3>4
  <2>4. 0 \in 0..n /\ n \in 0..n
    BY <1>2
  <2>5. P[0] = InHunk(input, q, k, 0) /\ P[n] = InHunk(input, q, k, n)
    BY <2>4
  <2> HIDE DEF P, texts, n
  <2>6. Leads(texts, P[0], P[Len(texts)])
    BY <2>2, <2>3, LeadsEach
  <2> QED BY <2>2, <2>5, <2>6
<1>5. InHunk(input, q, k, n) \subseteq W
  BY <1>1, HunkOver
<1> DEFINE a == <<header>>
<1>6. Leads(a \o texts, W, W)
  <2>1. Leads(a, W, InHunk(input, q, k, 0))
    BY <1>3
  <2> HIDE DEF a, texts, n, W
  <2>2. Leads(texts, InHunk(input, q, k, 0), W)
    BY <1>4, <1>5, LeadsOver
  <2> QED BY <2>1, <2>2, LeadsThen
<1> QED BY <1>6

\* The lines of a hunk.
HunkPrint(src, hunk) ==
  <<[tag |-> "hunk", src |-> src, start |-> hunk.start]>>
    \o [i \in DOMAIN hunk.lines |-> [tag |-> "text", text |-> hunk.lines[i]]]

\* All the hunks of a patch.
LEMMA HunksLead ==
  ASSUME NEW input \in Seq(DiffType), NEW q \in 1..Len(input)
  PROVE  Leads(FlattenSeq([h \in DOMAIN input[q].hunks |-> HunkPrint(<<q, h>>, input[q].hunks[h])]),
               Within(input, q), Within(input, q))
<1> DEFINE hunks == input[q].hunks
           n == Len(hunks)
           seqs == [h \in DOMAIN hunks |-> HunkPrint(<<q, h>>, hunks[h])]
           W == Within(input, q)
           P == [k \in 0..n |-> W]
<1>1. n \in Nat /\ DOMAIN hunks = 1..n
  <2>1. input[q] \in DiffType
    OBVIOUS
  <2>2. input[q].hunks \in Seq(HunkType)
    BY <2>1 DEF DiffType
  <2> QED BY <2>2
<1>2. ASSUME NEW k \in 1..n PROVE Leads(HunkPrint(<<q, k>>, hunks[k]), W, W)
  BY HunkLeads DEF HunkPrint
<1>3. \A k \in 1..n : HunkPrint(<<q, k>>, hunks[k]) \in Seq(DiffLine)
  BY <1>2 DEF Leads
<1>4. seqs \in Seq(Seq(DiffLine)) /\ Len(seqs) = n /\ \A k \in 1..n : seqs[k] = HunkPrint(<<q, k>>, hunks[k])
  BY <1>1, <1>3
<1> HIDE DEF W
<1>5. \A k \in 1..n : Leads(seqs[k], P[k - 1], P[k])
  <2> TAKE k \in 1..n
  <2>1. k - 1 \in 0..n /\ k \in 0..n
    BY <1>1
  <2>2. P[k - 1] = W /\ P[k] = W
    BY <2>1
  <2> HIDE DEF P, seqs
  <2> QED BY <1>2, <1>4, <2>2
<1>6. 0 \in 0..n /\ n \in 0..n
  BY <1>1
<1>7. P[0] = W /\ P[n] = W
  BY <1>6
<1> HIDE DEF P, seqs, n
<1>8. Leads(FlattenSeq(seqs), P[0], P[Len(seqs)])
  BY <1>4, <1>5, LeadsFlat
<1> QED BY <1>4, <1>7, <1>8 DEF seqs, n, W

\* What git diff prints of patch q of an input.
PatchPrint(input, q) ==
  <<[tag |-> "diff", job |-> q, old |-> input[q].old, path |-> input[q].path]>>
    \o (IF input[q].deleted THEN <<[tag |-> "deleted"]>> ELSE <<>>)
    \o <<[tag |-> "index"], Minus, Plus>>
    \o FlattenSeq([h \in DOMAIN input[q].hunks |-> HunkPrint(<<q, h>>, input[q].hunks[h])])

\* It is what the model renders.
LEMMA RenderedIs ==
  ASSUME NEW q
  PROVE  Rendered(q) = PatchPrint(config.input, q)
BY DEF Rendered, PatchPrint, HunkPrint, Minus, Plus

\* A patch.
LEMMA PatchLeads ==
  ASSUME NEW input \in Seq(DiffType), NEW q \in 1..Len(input)
  PROVE  Leads(PatchPrint(input, q), Between(input), Between(input))
<1> DEFINE p == input[q]
           a == <<[tag |-> "diff", job |-> q, old |-> p.old, path |-> p.path]>>
           b == IF p.deleted THEN <<[tag |-> "deleted"]>> ELSE <<>>
           i == <<[tag |-> "index"]>>
           m == <<Minus>>
           l == <<Plus>>
           c == <<[tag |-> "index"], Minus, Plus>>
           d == FlattenSeq([h \in DOMAIN p.hunks |-> HunkPrint(<<q, h>>, p.hunks[h])])
           W == Within(input, q)
           B == Between(input)
<1>1. q \in Nat /\ p.old \in Seq(Name) \ {<<>>} /\ p.path \in Seq(Name) \ {<<>>}
  <2>1. p \in DiffType
    OBVIOUS
  <2> HIDE DEF p
  <2> QED BY <2>1 DEF DiffType
<1>2. Leads(a, B, W)
  <2> DEFINE line == [tag |-> "diff", job |-> q, old |-> p.old, path |-> p.path]
  <2>1. line \in DiffLine
    <3> HIDE DEF p
    <3> QED BY <1>1, DiffLineIs
  <2>2. \A st \in B : ParseLine(st, line) \in W
    BY DiffStep
  <2> HIDE DEF line, B, W
  <2>3. Leads(<<line>>, B, W)
    BY <2>1, <2>2, LeadsOne
  <2> QED BY <2>3 DEF line
<1>3. Leads(b, W, W)
  <2>1. CASE p.deleted
    <3> DEFINE line == [tag |-> "deleted"]
    <3>1. line \in DiffLine /\ \A st \in W : ParseLine(st, line) \in W
      BY DiffLineIs, DeletedStep
    <3> HIDE DEF line, W
    <3>2. Leads(<<line>>, W, W)
      BY <3>1, LeadsOne
    <3> QED BY <2>1, <3>2 DEF line
  <2>2. CASE ~p.deleted
    <3>1. Leads(<<>>, W, W)
      <4> HIDE DEF W
      <4> QED BY LeadsNowhere
    <3> QED BY <2>2, <3>1
  <2> QED BY <2>1, <2>2
<1> HIDE DEF W
<1>4. Leads(i, W, W)
  <2> DEFINE line == [tag |-> "index"]
  <2>1. line \in DiffLine /\ line.tag = "index"
    BY DiffLineIs
  <2> HIDE DEF line
  <2>2. \A st \in W : ParseLine(st, line) \in W
    BY <2>1, IdleStep
  <2>3. Leads(<<line>>, W, W)
    BY <2>1, <2>2, LeadsOne
  <2> QED BY <2>3 DEF line
<1>5. Leads(m, W, W) /\ Leads(l, W, W)
  <2>1. \A st \in W : ParseLine(st, Minus) \in W /\ ParseLine(st, Plus) \in W
    BY FileLines, IdleStep
  <2> QED BY <2>1, DiffLineIs, LeadsOne
<1>6. Leads(c, W, W)
  <2>1. c = (i \o m) \o l
    <3> DEFINE line == [tag |-> "index"]
    <3>1. c = Triple(line, Minus, Plus)
      BY DEF Triple
    <3>2. (i \o m) \o l = OneByOne(line, Minus, Plus)
      BY DEF OneByOne
    <3>3. Triple(line, Minus, Plus) = OneByOne(line, Minus, Plus)
      BY ThreeTogether
    <3> HIDE DEF line, c, i, m, l
    <3> QED BY <3>1, <3>2, <3>3
  <2> HIDE DEF i, m, l
  <2>2. Leads(i \o m, W, W)
    BY <1>4, <1>5, LeadsThen
  <2>3. Leads((i \o m) \o l, W, W)
    BY <1>5, <2>2, LeadsThen
  <2> QED BY <2>1, <2>3
<1>7. Leads(d, W, B)
  <2>1. Leads(d, W, W)
    BY HunksLead DEF W
  <2>2. W \subseteq B
    BY DEF W, Within
  <2> HIDE DEF d, B
  <2> QED BY <2>1, <2>2, LeadsOver
<1>8. PatchPrint(input, q) = ((a \o b) \o c) \o d
  BY DEF PatchPrint
<1>9. Leads(((a \o b) \o c) \o d, B, B)
  <2> HIDE DEF a, b, c, d, B
  <2>1. Leads(a \o b, B, W)
    BY <1>2, <1>3, LeadsThen
  <2>2. Leads((a \o b) \o c, B, W)
    BY <1>6, <2>1, LeadsThen
  <2> QED BY <1>7, <2>2, LeadsThen
<1> HIDE DEF a, b, c, d
<1> QED BY <1>8, <1>9

\* Every hunk ParseUnifiedDiff returns is one of the input with its numbered lines, in a
\* patch with the path of its file, unless the header of that was not understood.
LEMMA ParsedIs ==
  ASSUME NEW input \in Seq(DiffType), NEW out, out = FlattenSeq([q \in DOMAIN input |-> PatchPrint(input, q)])
  PROVE  AllFiled(ParseUnifiedDiff(out), input)
<1> DEFINE n == Len(input)
           seqs == [q \in DOMAIN input |-> PatchPrint(input, q)]
           B == Between(input)
           P == [k \in 0..n |-> B]
<1>1. n \in Nat /\ DOMAIN input = 1..n
  OBVIOUS
<1>2. \A k \in 1..n : Leads(PatchPrint(input, k), B, B)
  BY PatchLeads
<1> HIDE DEF B
<1>3. \A k \in 1..n : PatchPrint(input, k) \in Seq(DiffLine)
  BY <1>2 DEF Leads
<1>4. seqs \in Seq(Seq(DiffLine)) /\ Len(seqs) = n /\ \A k \in 1..n : seqs[k] = PatchPrint(input, k)
  BY <1>1, <1>3
<1>5. \A k \in 1..n : Leads(seqs[k], P[k - 1], P[k])
  <2> TAKE k \in 1..n
  <2>1. k - 1 \in 0..n /\ k \in 0..n
    BY <1>1
  <2>2. P[k - 1] = B /\ P[k] = B
    BY <2>1
  <2> HIDE DEF P, seqs
  <2> QED BY <1>2, <1>4, <2>2
<1>6. P[0] = B /\ P[n] = B
  <2>1. 0 \in 0..n /\ n \in 0..n
    BY <1>1
  <2> QED BY <2>1
<1> HIDE DEF P, seqs, n
<1>7. Leads(out, B, B)
  <2>1. Leads(FlattenSeq(seqs), P[0], P[Len(seqs)])
    BY <1>4, <1>5, LeadsFlat
  <2>2. out = FlattenSeq(seqs)
    BY DEF seqs
  <2> QED BY <1>4, <1>6, <2>1, <2>2
<1>8. out \in Seq(DiffLine)
  BY <1>7 DEF Leads
<1>9. PICK run : /\ Follows(run, out) /\ run[0] = Unparsed
                 /\ ParseUnifiedDiff(out) = ClosePatch(run[Len(out)]).patches
  <2>1. \E run : /\ Follows(run, out) /\ run[0] = Unparsed
                 /\ ParseUnifiedDiff(out) = ClosePatch(run[Len(out)]).patches
    BY <1>8, ParserRuns
  <2> QED BY <2>1
<1>10. Unparsed \in B
  <2>1. IsState(Unparsed, <<>>, NoPatch, NoPatch, 0)
    BY DEF IsState, Unparsed
  <2>2. /\ Unparsed \in ParserState /\ Unparsed.patches = <<>> /\ Unparsed.cur = NoPatch
        /\ Unparsed.hunk = NoPatch
    BY <2>1, StateWith
  <2>3. AllFiled(<<>>, input)
    BY DEF AllFiled
  <2> QED BY <2>2, <2>3 DEF B, Between, Idle
<1> DEFINE st == run[Len(out)]
<1>11. st \in B
  BY <1>7, <1>9, <1>10 DEF Leads
<1> HIDE DEF st
<1>12. AllFiled(ClosePatch(st).patches, input)
  BY <1>11, ClosePatchIs DEF B
<1> QED BY <1>9, <1>12 DEF st
-----------------------------------------------------------------------------
(* The patches that are left, and the chunks of a source.                  *)

\* One patch less.
LEMMA PatchesTail ==
  ASSUME NEW input, NEW patches, AllFiled(patches, input), patches # <<>>
  PROVE  AllFiled(Tail(patches), input)
<1> DEFINE t == Tail(patches)
<1>1. /\ patches \in Seq(ParsedPatch) /\ Len(patches) \in Nat
      /\ \A i \in 1..Len(patches) : FiledPatch(patches[i], input)
  BY DEF AllFiled
<1>2. /\ t \in Seq(ParsedPatch) /\ Len(t) = Len(patches) - 1
      /\ \A i \in 1..Len(t) : t[i] = patches[i + 1]
  BY <1>1, HeadTailProperties
<1> HIDE DEF t
<1>3. \A i \in 1..Len(t) : i + 1 \in 1..Len(patches)
  BY <1>1, <1>2
<1>4. \A i \in 1..Len(t) : FiledPatch(t[i], input)
  BY <1>1, <1>2, <1>3
<1> QED BY <1>2, <1>4 DEF AllFiled, t

\* The first hunk of a patch is taken.
LEMMA HunkTaken ==
  ASSUME NEW input, NEW patch, FiledPatch(patch, input), patch.hunks # <<>>
  PROVE  /\ Filed(Head(patch.hunks), patch.path, input)
         /\ [patch EXCEPT !.hunks = Tail(@)] = WithHunks(patch, Tail(patch.hunks))
         /\ FiledPatch(WithHunks(patch, Tail(patch.hunks)), input)
<1> DEFINE hs == patch.hunks
           t == Tail(hs)
           next == WithHunks(patch, t)
<1>1. patch \in ParsedPatch /\ \A i \in 1..Len(hs) : Filed(hs[i], patch.path, input)
  BY DEF FiledPatch
<1>2. hs \in Seq(ParsedHunk)
  BY <1>1, PatchIs
<1> HIDE DEF hs
<1>3. Len(hs) \in Nat /\ Len(hs) # 0 /\ hs # <<>>
  BY <1>2 DEF hs
<1>4. /\ t \in Seq(ParsedHunk) /\ Len(t) = Len(hs) - 1 /\ Head(hs) = hs[1]
      /\ \A i \in 1..Len(t) : t[i] = hs[i + 1]
  BY <1>2, <1>3, HeadTailProperties
<1> HIDE DEF t
<1>5. [patch EXCEPT !.hunks = t] = next /\ next \in ParsedPatch /\ next.path = patch.path /\ next.hunks = t
  BY <1>1, <1>4, HunksAre
<1> HIDE DEF next
<1>6. 1 \in 1..Len(hs) /\ \A i \in 1..Len(t) : i + 1 \in 1..Len(hs)
  BY <1>3, <1>4
<1>7. FiledPatch(next, input)
  BY <1>1, <1>4, <1>5, <1>6 DEF FiledPatch
<1>8. Filed(Head(hs), patch.path, input)
  BY <1>1, <1>4, <1>6
<1> QED BY <1>5, <1>7, <1>8 DEF next, t, hs

\* Chunks to publish, all of them faithful.
Boxes(cfg, exc, boxes) ==
  boxes \in Seq(Box) /\ \A i \in 1..Len(boxes) : Faithful(cfg, exc, boxes[i])

\* What Finish returns is faithful, if the truth went through the Builder.
LEMMA BoxesAre ==
  ASSUME NEW cfg, NEW exc, NEW src \in Nat \X Nat, NEW path \in Path, Named(cfg, src, path),
         NEW b, IsBuilder(b),
         \/ MisreadIn(cfg, src)
         \/ Cut(cfg, exc, src)
         \/ IsTruth(Truth(cfg, src)) /\ \E m : Built(b, Truth(cfg, src), m)
  PROVE  Boxes(cfg, exc, Boxed(src, path, Finish(b)))
<1> DEFINE truth == Truth(cfg, src)
<1>1. PICK all \in Seq(Seq(Row)) :
           /\ Finish(b) = [i \in 1..Len(all) |-> [rows |-> all[i], index |-> i - 1, count |-> Len(all), total |-> b.total]]
           /\ \A t, m : Built(b, t, m) => \A c \in 1..Len(all) : IsSegment(all[c], t)
  BY FinishIs
<1> DEFINE n == Len(all)
           boxes == Boxed(src, path, Finish(b))
<1>2. n \in Nat /\ \A i \in 1..n : all[i] \in Seq(Row) /\ i - 1 \in Nat
  OBVIOUS
<1>3. boxes = [i \in 1..n |-> [id |-> <<src, i - 1>>, path |-> path, rows |-> all[i]]]
  BY <1>1 DEF Boxed
<1> HIDE DEF n, boxes
<1>4. ASSUME NEW i \in 1..n
      PROVE  /\ boxes[i] \in Box /\ boxes[i].id[1] = src /\ boxes[i].rows = all[i]
             /\ boxes[i].path = path
  <2>1. boxes[i] = [id |-> <<src, i - 1>>, path |-> path, rows |-> all[i]]
    BY <1>3
  <2>2. <<src, i - 1>> \in (Nat \X Nat) \X Nat /\ all[i] \in Seq(Row)
    BY <1>2
  <2>3. boxes[i].id = <<src, i - 1>> /\ boxes[i].path = path /\ boxes[i].rows = all[i]
    BY <2>1
  <2>4. boxes[i].id[1] = src
    BY <2>3
  <2> QED BY <2>1, <2>2, <2>3, <2>4 DEF Box
<1>5. boxes \in Seq(Box) /\ Len(boxes) = n
  BY <1>2, <1>3, <1>4
<1>6. ASSUME NEW i \in 1..n PROVE Faithful(cfg, exc, boxes[i])
  <2>1. boxes[i].id[1] = src /\ boxes[i].path = path /\ boxes[i].rows = all[i]
    BY <1>4
  <2>2. CASE IsTruth(truth) /\ \E m : Built(b, truth, m)
    <3>1. IsSegment(all[i], truth)
      BY <1>1, <2>2 DEF n
    <3> QED BY <2>1, <2>2, <3>1 DEF Faithful
  <2>3. CASE MisreadIn(cfg, src) \/ Cut(cfg, exc, src)
    BY <2>1, <2>3 DEF Faithful
  <2> QED BY <2>2, <2>3
<1> QED BY <1>5, <1>6 DEF Boxes, boxes

\* More excuses excuse more.
LEMMA BoxesGrow ==
  ASSUME NEW cfg, NEW e1, NEW e2, e1 \subseteq e2, NEW boxes, Boxes(cfg, e1, boxes)
  PROVE  Boxes(cfg, e2, boxes)
BY FaithfulGrows DEF Boxes

\* No chunk.
LEMMA BoxesEmpty ==
  ASSUME NEW cfg, NEW exc
  PROVE  Boxes(cfg, exc, <<>>)
BY DEF Boxes

\* The first and the others.
LEMMA BoxesTail ==
  ASSUME NEW cfg, NEW exc, NEW boxes, Boxes(cfg, exc, boxes), boxes # <<>>
  PROVE  Faithful(cfg, exc, Head(boxes)) /\ Boxes(cfg, exc, Tail(boxes))
<1> DEFINE t == Tail(boxes)
<1>1. boxes \in Seq(Box) /\ Len(boxes) \in Nat /\ Len(boxes) # 0 /\ \A i \in 1..Len(boxes) : Faithful(cfg, exc, boxes[i])
  BY DEF Boxes
<1>2. /\ t \in Seq(Box) /\ Len(t) = Len(boxes) - 1 /\ Head(boxes) = boxes[1]
      /\ \A i \in 1..Len(t) : t[i] = boxes[i + 1]
  BY <1>1, HeadTailProperties
<1> HIDE DEF t
<1>3. 1 \in 1..Len(boxes) /\ \A i \in 1..Len(t) : i + 1 \in 1..Len(boxes)
  BY <1>1, <1>2
<1>4. \A i \in 1..Len(t) : Faithful(cfg, exc, t[i])
  BY <1>1, <1>2, <1>3
<1> QED BY <1>1, <1>2, <1>3, <1>4 DEF Boxes, t
-----------------------------------------------------------------------------
(* The invariant: what is in the worker's hands, by the stage it is at.    *)

\* The sources of a blob scan, and the content of one.
Jobs(cfg) == {<<j, 0>> : j \in 1..Len(cfg.input)}
Content(cfg, it) == cfg.input[it[1]].data

\* The types of the rules and of the bits that steer.
TypeInv ==
  /\ config \in Config /\ alive \in BOOLEAN
  /\ file \in Version /\ read \in Version \cup {NoPack} /\ current \in Version \cup {NoPack}

\* What was published and what is about to be is faithful to its source.
StreamInv == Boxes(config, excuse, outbox) /\ \A c \in stream : Faithful(config, excuse, c)

\* What the worker has not taken yet; in a diff it never opens a blob, and the patch whose
\* hunk is published stays in front.
TodoInv ==
  /\ config.mode = "blobs" => todo \in Seq(1..Len(config.input))
  /\ config.mode = "diff" => /\ AllFiled(todo, config.input)
                             /\ stage = "publish" => todo # <<>>
                             /\ stage \notin {"header", "sniff", "lines"}

\* The pipe has a whole blob and its newline; a header in front of it.
Whole(s, n, data) == s = Append(data, Newline) /\ n = Len(data)
Headed(p, s) == s \in Seq(Byte) /\ p = <<"HEADER">> \o s

\* Of a blob: cat-file, alive, has written it to the end; the pipe is empty between blobs,
\* and what was read of it went into the Builder line by line.  Once cat-file has died,
\* the blob in hand is cut off.
ReaderInv ==
  config.mode = "blobs" =>
    /\ stage \in {"off", "next"} /\ alive => pipe = <<>>
    /\ stage \in {"header", "sniff", "lines", "publish"} =>
         item \in Jobs(config) /\ remaining \in Nat /\ (~alive => Cut(config, excuse, item))
    /\ stage = "header" =>
         \E s : Headed(pipe, s) /\ (alive => Whole(s, remaining, Content(config, item)))
    /\ stage = "sniff" =>
         /\ pipe \in Seq(Byte) /\ builder = Begin
         /\ alive => Whole(pipe, remaining, Content(config, item))
    /\ stage \in {"lines", "publish"} =>
         pipe \in Seq(Byte) /\ (alive => Len(pipe) = remaining + 1)
    /\ stage = "lines" =>
         /\ buffer \in Seq(Byte) /\ IsBuilder(builder)
         /\ alive => InText(Unsplit, Content(config, item), builder, Truth(config, item))

\* A finding is a hit of a version of the rules in a published chunk.
FoundInv ==
  \A f \in published :
    \E c \in stream : \E v \in Version : \E h \in Hits(c, v.pack) :
      f = FindingAt(c, v.pack[h[1]], h[2])

\* The inductive invariant.
ContentInv == TypeInv /\ StreamInv /\ TodoInv /\ ReaderInv /\ FoundInv

-----------------------------------------------------------------------------

\* A configuration is of one of two modes.
LEMMA ConfigIs ==
  ASSUME NEW cfg \in Config
  PROVE  /\ cfg.mode \in {"blobs", "diff"} /\ cfg.rules \in Version
         /\ cfg.mode = "blobs" => cfg.input \in Seq(BlobType)
         /\ cfg.mode = "diff" => DiffInput(cfg.input)
BY PipelineAssumption DEF ConfigType

\* The truth of a blob of the input.
LEMMA JobIs ==
  ASSUME NEW cfg \in Config, cfg.mode = "blobs", NEW it \in Jobs(cfg)
  PROVE  /\ Content(cfg, it) \in Seq(Byte) /\ it \in Nat \X Nat
         /\ IsTruthOf(Truth(cfg, it), Content(cfg, it)) /\ IsTruth(Truth(cfg, it))
         /\ cfg.input[it[1]].path \in Path
<1>1. PICK j \in 1..Len(cfg.input) : it = <<j, 0>>
  BY DEF Jobs
<1>2. cfg.input \in Seq(BlobType)
  BY ConfigIs
<1>3. cfg.input[j] \in BlobType /\ it[1] = j /\ it \in Nat \X Nat
  BY <1>1, <1>2
<1>4. Content(cfg, it) = cfg.input[j].data /\ cfg.input[j].data \in Seq(Byte)
  BY <1>3 DEF Content, BlobType
<1>5. IsTruthOf(Truth(cfg, it), Content(cfg, it))
  BY <1>3, <1>4 DEF IsTruthOf, Truth
<1>6. IsTruth(Truth(cfg, it))
  BY <1>4, <1>5, BlobTruth DEF IsTruthOf
<1>7. cfg.input[it[1]].path \in Path
  BY <1>3 DEF BlobType
<1> QED BY <1>3, <1>4, <1>5, <1>6, <1>7

\* It holds at the start.
LEMMA ContentInit ==
  Init => ContentInv
<1> SUFFICES ASSUME Init PROVE ContentInv
  OBVIOUS
<1>1. /\ config \in Config /\ alive = TRUE /\ file = config.rules /\ read = NoPack /\ current = NoPack
      /\ todo = <<>> /\ stage = "off" /\ pipe = <<>> /\ outbox = <<>> /\ stream = {} /\ published = {}
  BY DEF Init, WatchInit
<1>2. TypeInv
  BY <1>1, ConfigIs DEF TypeInv
<1>3. StreamInv
  BY <1>1, BoxesEmpty DEF StreamInv
<1>4. TodoInv
  <2>1. todo \in Seq(1..Len(config.input))
    BY <1>1
  <2>2. AllFiled(todo, config.input)
    BY <1>1 DEF AllFiled
  <2> QED BY <1>1, <2>1, <2>2 DEF TodoInv
<1>5. ReaderInv
  BY <1>1 DEF ReaderInv
<1>6. FoundInv
  BY <1>1 DEF FoundInv
<1> QED BY <1>2, <1>3, <1>4, <1>5, <1>6 DEF ContentInv

-----------------------------------------------------------------------------
(* What a step of the getter leaves alone.                                 *)

\* A step of the getter leaves the rules and the findings alone.
Frame ==
  config' = config /\ published' = published /\ file' = file /\ read' = read /\ current' = current

\* Every one does.
LEMMA GetterFrame ==
  Getter => Frame
<1> USE DEF Frame, getterSame, scannerVars, watchVars
<1>1. Start \/ DiffFails \/ SkipByName \/ ReadBlob \/ ReadFails \/ Header => Frame
  BY DEF Start, DiffFails, SkipByName, ReadBlob, ReadFails, Header
<1>2. SniffRefuses \/ Sniff \/ Line \/ LineTooLong \/ EndOfText \/ SkipDeleted \/ SkipPatch => Frame
  BY DEF SniffRefuses, Sniff, Line, LineTooLong, EndOfText, SkipDeleted, SkipPatch
<1>3. TakeHunk \/ PatchDone \/ Publish \/ PublishFails \/ AllPublished \/ EndScan => Frame
  BY DEF TakeHunk, PatchDone, Publish, PublishFails, AllPublished, EndScan
<1> QED BY <1>1, <1>2, <1>3 DEF Getter

\* Then the findings are still those of published chunks.
LEMMA FoundKept ==
  ASSUME TypeInv, FoundInv, Frame, alive' \in BOOLEAN, stream \subseteq stream'
  PROVE  TypeInv' /\ FoundInv'
<1>1. TypeInv'
  BY DEF TypeInv, Frame
<1>2. FoundInv'
  BY DEF FoundInv, Frame
<1> QED BY <1>1, <1>2

\* A step that publishes the first chunk or none.
LEMMA StreamKept ==
  ASSUME StreamInv, config' = config, excuse \subseteq excuse', outbox' = outbox \/ outbox' = <<>>,
         \A c \in stream' : c \in stream \/ (outbox # <<>> /\ c = Head(outbox))
  PROVE  StreamInv'
<1>1. Boxes(config, excuse, outbox) /\ \A c \in stream : Faithful(config, excuse, c)
  BY DEF StreamInv
<1>2. Boxes(config', excuse', outbox')
  BY <1>1, BoxesGrow, BoxesEmpty
<1>3. ASSUME NEW c \in stream' PROVE Faithful(config', excuse', c)
  <2>1. CASE c \in stream
    BY <2>1, <1>1, FaithfulGrows
  <2>2. CASE outbox # <<>> /\ c = Head(outbox)
    BY <2>2, <1>1, BoxesTail, FaithfulGrows
  <2> QED BY <1>3, <2>1, <2>2
<1> QED BY <1>2, <1>3 DEF StreamInv

\* A step between blobs, or of a diff, that leaves the reader alone.
LEMMA ReaderIdle ==
  ASSUME ReaderInv, config' = config, stage' \in {"off", "next", "over"},
         stage \in {"off", "next"}, alive' => alive, pipe' = pipe
  PROVE  ReaderInv'
BY DEF ReaderInv

\* A diff has no reader.
LEMMA ReaderOff ==
  ASSUME config' = config, config.mode = "diff"
  PROVE  ReaderInv'
BY DEF ReaderInv
-----------------------------------------------------------------------------
(* The steps of the getter.                                                *)

\* What is left to show of a step of the getter.
GoesOn ==
  /\ StreamInv' /\ TodoInv' /\ ReaderInv'
  /\ alive' \in BOOLEAN /\ stream \subseteq stream'

\* The first of a sequence and the others.
LEMMA TailJobs ==
  ASSUME NEW S, NEW s \in Seq(S), s # <<>>
  PROVE  Head(s) \in S /\ Tail(s) \in Seq(S)
OBVIOUS

\* The jobs, or the parsed patches.
LEMMA StartKeeps ==
  ASSUME ContentInv, Start
  PROVE  GoesOn
<1>1. /\ config' = config /\ stage = "off" /\ stage' = "next" /\ pipe' = pipe /\ alive' = alive
      /\ outbox' = outbox /\ excuse' = excuse /\ stream' = stream
      /\ todo' = IF config.mode = "blobs" THEN [i \in DOMAIN config.input |-> i] ELSE ParseUnifiedDiff(Output)
  BY DEF Start, getterSame
<1>2. config \in Config /\ alive \in BOOLEAN /\ StreamInv /\ ReaderInv
  BY DEF ContentInv, TypeInv
<1>3. StreamInv'
  BY <1>1, <1>2, StreamKept
<1>4. ReaderInv'
  BY <1>1, <1>2, ReaderIdle
<1>5. CASE config.mode = "blobs"
  <2>1. config.input \in Seq(BlobType)
    BY <1>2, <1>5, ConfigIs
  <2>2. todo' = [i \in 1..Len(config.input) |-> i] /\ Len(config.input) \in Nat
    BY <1>1, <1>5, <2>1
  <2>3. todo' \in Seq(1..Len(config.input))
    BY <2>2
  <2>4. TodoInv'
    BY <1>1, <1>5, <2>3 DEF TodoInv
  <2> QED BY <1>1, <1>2, <1>3, <1>4, <2>4 DEF GoesOn
<1>6. CASE config.mode = "diff"
  <2>1. config.input \in Seq(DiffType)
    BY <1>2, <1>6, ConfigIs DEF DiffInput
  <2>2. AllFiled(ParseUnifiedDiff(Output), config.input)
    <3>1. \A q : Rendered(q) = PatchPrint(config.input, q)
      BY RenderedIs
    <3>2. Output = FlattenSeq([q \in DOMAIN config.input |-> PatchPrint(config.input, q)])
      BY <3>1 DEF Output
    <3> QED BY <2>1, <3>2, ParsedIs
  <2>3. TodoInv'
    BY <1>1, <1>6, <2>2 DEF TodoInv
  <2> QED BY <1>1, <1>2, <1>3, <1>4, <2>3 DEF GoesOn
<1> QED BY <1>2, <1>5, <1>6, ConfigIs

\* A job or a patch is passed over, or the scan ends.
LEMMA PassedOver ==
  ASSUME ContentInv, DiffFails \/ SkipByName \/ SkipDeleted \/ SkipPatch \/ PatchDone \/ EndScan
  PROVE  GoesOn
<1>1. /\ config' = config /\ pipe' = pipe /\ alive' = alive
      /\ outbox' = outbox /\ excuse' = excuse /\ stream' = stream
      /\ item' = item /\ remaining' = remaining
  BY DEF DiffFails, SkipByName, SkipDeleted, SkipPatch, PatchDone, EndScan, AtPatch, getterSame
<1>2. /\ stage' = "over" \/ (stage = "next" /\ stage' = "next")
      /\ todo' = todo \/ (todo # <<>> /\ todo' = Tail(todo))
  BY DEF DiffFails, SkipByName, SkipDeleted, SkipPatch, PatchDone, EndScan, AtPatch
<1>3. config \in Config /\ alive \in BOOLEAN /\ StreamInv /\ ReaderInv /\ TodoInv
  BY DEF ContentInv, TypeInv
<1>4. StreamInv'
  BY <1>1, <1>3, StreamKept
<1>5. ReaderInv'
  BY <1>1, <1>2, <1>3 DEF ReaderInv
<1>6. config.mode = "blobs" => todo' \in Seq(1..Len(config.input))
  BY <1>2, <1>3, TailJobs DEF TodoInv
<1>7. config.mode = "diff" => AllFiled(todo', config.input)
  BY <1>2, <1>3, PatchesTail DEF TodoInv
<1>8. TodoInv'
  BY <1>1, <1>2, <1>6, <1>7 DEF TodoInv
<1> QED BY <1>1, <1>3, <1>4, <1>5, <1>8 DEF GoesOn

\* No reader is opened.
LEMMA ReadFailsKeeps ==
  ASSUME ContentInv, ReadFails
  PROVE  GoesOn
<1>1. /\ config' = config /\ stage = "next" /\ stage' = stage /\ pipe' = pipe /\ config.mode = "blobs"
      /\ outbox' = outbox /\ excuse \subseteq excuse' /\ stream' = stream
      /\ alive' = (alive /\ Job.missing) /\ todo # <<>> /\ todo' = Tail(todo)
  BY DEF ReadFails, getterSame
<1>2. config \in Config /\ alive \in BOOLEAN /\ StreamInv /\ ReaderInv /\ TodoInv
  BY DEF ContentInv, TypeInv
<1>3. StreamInv'
  BY <1>1, <1>2, StreamKept
<1>4. ReaderInv'
  BY <1>1, <1>2, ReaderIdle
<1>5. TodoInv'
  BY <1>1, <1>2, TailJobs DEF TodoInv
<1>6. alive' \in BOOLEAN
  BY <1>1, <1>2
<1> QED BY <1>1, <1>3, <1>4, <1>5, <1>6 DEF GoesOn

\* The pipe was empty, so it holds a header and this blob; a blob cut off is excused.
LEMMA ReadBlobKeeps ==
  ASSUME ContentInv, ReadBlob
  PROVE  GoesOn
<1>1. /\ config' = config /\ stage = "next" /\ stage' = "header" /\ config.mode = "blobs"
      /\ outbox' = outbox /\ stream' = stream /\ alive = TRUE
      /\ todo # <<>> /\ todo' = Tail(todo) /\ item' = <<Head(todo), 0>> /\ remaining' = Len(Job.data)
  BY DEF ReadBlob, getterSame, ContentInv, TypeInv
<1>2. config \in Config /\ alive \in BOOLEAN /\ StreamInv /\ ReaderInv /\ TodoInv
  BY DEF ContentInv, TypeInv
<1>3. PICK n \in 0..Len(Job.data) :
        /\ n < Len(Job.data) => config.catFileDies
        /\ alive' = (n = Len(Job.data))
        /\ pipe' = pipe \o <<"HEADER">>
                     \o (IF alive' THEN Append(Job.data, Newline) ELSE SubSeq(Job.data, 1, n))
        /\ excuse' = IF alive' THEN excuse ELSE excuse \cup {<<Head(todo), 0>>}
  BY DEF ReadBlob
<1>4. pipe = <<>>
  BY <1>1, <1>2 DEF ReaderInv
<1>5. Head(todo) \in 1..Len(config.input) /\ item' \in Jobs(config) /\ Content(config, item') = Job.data
  <2>1. todo \in Seq(1..Len(config.input))
    BY <1>1, <1>2 DEF TodoInv
  <2>2. Head(todo) \in 1..Len(config.input)
    BY <1>1, <2>1, TailJobs
  <2>3. item' \in Jobs(config)
    BY <1>1, <2>2 DEF Jobs
  <2>4. item'[1] = Head(todo)
    BY <1>1
  <2> QED BY <2>2, <2>3, <2>4 DEF Content, Job
<1>6. Job.data \in Seq(Byte) /\ Len(Job.data) \in Nat
  BY <1>1, <1>2, <1>5, JobIs
<1> DEFINE d == Job.data
           s == IF alive' THEN Append(d, Newline) ELSE SubSeq(d, 1, n)
<1>7. s \in Seq(Byte)
  <2> HIDE DEF s
  <2>1. Newline \in Byte
    BY ChunksAssumption
  <2>2. Append(d, Newline) \in Seq(Byte)
    BY <1>6, <2>1
  <2>3. SubSeq(d, 1, n) \in Seq(Byte)
    <3>1. n \in Int /\ n <= Len(d) /\ 1 \in Nat /\ 1 > 0
      BY <1>6
    <3> HIDE DEF d
    <3> QED BY <1>6, <3>1, PartOf DEF d
  <2> QED BY <2>2, <2>3 DEF s
<1>8. Headed(pipe', s)
  <2>1. pipe' = pipe \o <<"HEADER">> \o s
    BY <1>3
  <2> HIDE DEF s
  <2>2. pipe' = <<"HEADER">> \o s
    BY <2>1, <1>4
  <2> QED BY <1>7, <2>2 DEF Headed
<1>9. alive' => Whole(s, remaining', d)
  BY <1>1 DEF Whole
<1>10. ~alive' => Cut(config, excuse', item')
  <2>1. SUFFICES ASSUME ~alive' PROVE Cut(config, excuse', item')
    OBVIOUS
  <2>2. n # Len(Job.data) /\ excuse' = excuse \cup {<<Head(todo), 0>>}
    BY <1>3, <2>1
  <2>3. n < Len(Job.data)
    BY <1>6, <2>2
  <2>4. config.catFileDies
    BY <1>3, <2>3
  <2> QED BY <1>1, <2>2, <2>4 DEF Cut
<1> HIDE DEF s, d
<1>11. ReaderInv'
  BY <1>1, <1>5, <1>6, <1>8, <1>9, <1>10 DEF ReaderInv, d
<1>12. StreamInv'
  <2>1. excuse \subseteq excuse'
    BY <1>3
  <2> QED BY <2>1, <1>1, <1>2, StreamKept
<1>13. TodoInv'
  BY <1>1, <1>2, TailJobs DEF TodoInv
<1>14. alive' \in BOOLEAN
  BY <1>3
<1> QED BY <1>1, <1>11, <1>12, <1>13, <1>14 DEF GoesOn

\* What is in the pipe starts with a header.
LEMMA HeaderKeeps ==
  ASSUME ContentInv, Header
  PROVE  GoesOn
<1>1. /\ config' = config /\ stage = "header" /\ alive' = alive /\ builder' = Begin
      /\ outbox' = outbox /\ stream' = stream /\ excuse' = excuse /\ todo' = todo
      /\ item' = item /\ remaining' = remaining
  BY DEF Header, getterSame
<1>2. config \in Config /\ alive \in BOOLEAN /\ StreamInv /\ ReaderInv /\ TodoInv
  BY DEF ContentInv, TypeInv
<1>3. config.mode = "blobs"
  BY <1>1, <1>2, ConfigIs DEF TodoInv
<1>4. /\ item \in Jobs(config) /\ remaining \in Nat /\ (~alive => Cut(config, excuse, item))
      /\ \E s : Headed(pipe, s) /\ (alive => Whole(s, remaining, Content(config, item)))
  BY <1>1, <1>2, <1>3 DEF ReaderInv
<1>5. PICK s : Headed(pipe, s) /\ (alive => Whole(s, remaining, Content(config, item)))
  BY <1>4
<1>6. Head(pipe) = "HEADER" /\ Tail(pipe) = s /\ s \in Seq(Byte)
  BY <1>5, HeaderIs DEF Headed
<1>7. stage' = "sniff" /\ pipe' = s
  BY <1>6 DEF Header
<1>8. ReaderInv'
  BY <1>1, <1>4, <1>5, <1>6, <1>7 DEF ReaderInv
<1>9. TodoInv'
  BY <1>1, <1>2, <1>3 DEF TodoInv
<1>10. StreamInv'
  BY <1>1, <1>2, StreamKept
<1> QED BY <1>1, <1>2, <1>8, <1>9, <1>10 DEF GoesOn
-----------------------------------------------------------------------------
(* A blob is closed: the pipe is empty behind it.                          *)

\* Close reads what is left of the blob and its newline.
LEMMA BlobEnds ==
  ASSUME ContentInv, config' = config, alive' = alive, stage \in {"sniff", "lines", "publish"}, stage' = "next",
         config.mode = "blobs" => pipe' = Drained
  PROVE  ReaderInv'
<1>1. config \in Config /\ alive \in BOOLEAN /\ ReaderInv
  BY DEF ContentInv, TypeInv
<1>2. CASE config.mode = "blobs"
  <2>1. SUFFICES ASSUME alive PROVE pipe' = <<>>
    BY DEF ReaderInv
  <2>2. /\ item \in Jobs(config) /\ remaining \in Nat /\ pipe \in Seq(Byte)
        /\ stage = "sniff" => Whole(pipe, remaining, Content(config, item))
        /\ stage \in {"lines", "publish"} => Len(pipe) = remaining + 1
    BY <1>1, <1>2, <2>1 DEF ReaderInv
  <2>3. Len(pipe) = remaining + 1
    <3>1. CASE stage = "sniff"
      <4>1. pipe = Append(Content(config, item), Newline) /\ remaining = Len(Content(config, item))
        BY <2>2, <3>1 DEF Whole
      <4>2. Content(config, item) \in Seq(Byte)
        BY <1>1, <1>2, <2>2, JobIs
      <4> QED BY <4>1, <4>2
    <3> QED BY <3>1, <2>2
  <2>4. Available \in Nat /\ Available = remaining
    BY <2>2, <2>3 DEF Available
  <2>5. Len(pipe) <= Available + 1 => SubSeq(pipe, Available + 2, Len(pipe)) = <<>>
    <3>1. Available = IF remaining <= Len(pipe) THEN remaining ELSE Len(pipe)
      BY DEF Available
    <3> QED BY <3>1, <2>2, AvailableIs
  <2>6. Len(pipe) <= Available + 1
    BY <2>2, <2>3, <2>4
  <2>7. Drained = <<>>
    BY <2>5, <2>6 DEF Drained
  <2> QED BY <2>7, <1>2
<1>3. CASE config.mode = "diff"
  BY <1>3, ReaderOff
<1> QED BY <1>1, <1>2, <1>3, ConfigIs

\* The blob is refused, too long, or published; or a hunk is.
LEMMA EndKeeps ==
  ASSUME ContentInv, SniffRefuses \/ LineTooLong \/ AllPublished
  PROVE  GoesOn
<1>1. /\ config' = config /\ alive' = alive /\ excuse' = excuse /\ stream' = stream /\ todo' = todo
      /\ stage \in {"sniff", "lines", "publish"} /\ stage' = "next" /\ outbox' = <<>>
      /\ pipe' = Drained \/ config.mode = "diff"
  BY DEF SniffRefuses, LineTooLong, AllPublished, EndBlob, getterSame
<1>2. alive \in BOOLEAN /\ StreamInv /\ TodoInv
  BY DEF ContentInv, TypeInv
<1>3. ReaderInv'
  BY <1>1, BlobEnds
<1>4. StreamInv'
  BY <1>1, <1>2, StreamKept
<1>5. TodoInv'
  BY <1>1, <1>2 DEF TodoInv
<1> QED BY <1>1, <1>2, <1>3, <1>4, <1>5 DEF GoesOn

\* A chunk is not published, or is although the publish failed.
LEMMA PublishFailsKeeps ==
  ASSUME ContentInv, PublishFails
  PROVE  GoesOn
<1>1. /\ config' = config /\ alive' = alive /\ excuse \subseteq excuse' /\ outbox # <<>>
      /\ stream' = stream \/ stream' = stream \cup {Head(outbox)}
      /\ stage = "publish" /\ stage' = "next" /\ outbox' = <<>>
      /\ \/ config.mode = "blobs" /\ pipe' = Drained /\ todo' = todo
         \/ config.mode = "diff" /\ todo' = Tail(todo)
  BY DEF PublishFails, EndBlob, getterSame
<1>2. config \in Config /\ alive \in BOOLEAN /\ StreamInv /\ TodoInv
  BY DEF ContentInv, TypeInv
<1>3. ReaderInv'
  BY <1>1, BlobEnds
<1>4. StreamInv'
  <2>1. \A c \in stream' : c \in stream \/ (outbox # <<>> /\ c = Head(outbox))
    BY <1>1
  <2> QED BY <2>1, <1>1, <1>2, StreamKept
<1>5. config.mode = "diff" => AllFiled(todo', config.input)
  BY <1>1, <1>2, PatchesTail DEF TodoInv
<1>6. TodoInv'
  BY <1>1, <1>2, <1>5 DEF TodoInv
<1> QED BY <1>1, <1>2, <1>3, <1>4, <1>6 DEF GoesOn

\* One chunk goes to the stream.
LEMMA PublishKeeps ==
  ASSUME ContentInv, Publish
  PROVE  GoesOn
<1>1. /\ config' = config /\ alive' = alive /\ excuse' = excuse /\ outbox # <<>> /\ outbox' = Tail(outbox)
      /\ stream' = stream \cup {Head(outbox)} /\ todo' = todo /\ stage = "publish" /\ stage' = stage
      /\ pipe' = pipe /\ item' = item /\ remaining' = remaining
  BY DEF Publish, getterSame
<1>2. alive \in BOOLEAN /\ StreamInv /\ TodoInv /\ ReaderInv
  BY DEF ContentInv, TypeInv
<1>3. ReaderInv'
  BY <1>1, <1>2 DEF ReaderInv
<1>4. TodoInv'
  BY <1>1, <1>2 DEF TodoInv
<1>5. Faithful(config, excuse, Head(outbox)) /\ Boxes(config, excuse, Tail(outbox))
  BY <1>1, <1>2, BoxesTail DEF StreamInv
<1>6. StreamInv'
  BY <1>1, <1>2, <1>5 DEF StreamInv
<1> QED BY <1>1, <1>2, <1>3, <1>4, <1>6 DEF GoesOn

-----------------------------------------------------------------------------
(* The text of a blob.                                                     *)

\* The sample is put back in front.
LEMMA SniffKeeps ==
  ASSUME ContentInv, Sniff
  PROVE  GoesOn
<1>1. /\ config' = config /\ alive' = alive /\ excuse' = excuse /\ outbox' = outbox /\ stream' = stream
      /\ todo' = todo /\ item' = item /\ builder' = builder /\ stage = "sniff" /\ stage' = "lines"
      /\ buffer' = Sample
      /\ pipe' = SubSeq(pipe, Len(Sample) + 1, Len(pipe))
      /\ remaining' = remaining - Len(Sample)
  BY DEF Sniff, getterSame
<1>2. config \in Config /\ alive \in BOOLEAN /\ StreamInv /\ TodoInv /\ ReaderInv
  BY DEF ContentInv, TypeInv
<1>3. config.mode = "blobs"
  BY <1>1, <1>2, ConfigIs DEF TodoInv
<1>4. /\ item \in Jobs(config) /\ remaining \in Nat /\ (~alive => Cut(config, excuse, item))
      /\ pipe \in Seq(Byte) /\ builder = Begin
      /\ alive => Whole(pipe, remaining, Content(config, item))
  BY <1>1, <1>2, <1>3 DEF ReaderInv
<1> DEFINE n == IF SniffBytes <= Available THEN SniffBytes ELSE Available
           d == Content(config, item)
<1>5. Available \in Nat /\ Available <= Len(pipe) /\ Available <= remaining /\ Len(pipe) \in Nat
  BY <1>4 DEF Available
<1>6. n \in Nat /\ n <= Available
  BY <1>5, FilterAssumption
<1>7. Sample = SubSeq(pipe, 1, n)
  BY DEF Sample
<1> HIDE DEF n
<1>8. n \in Nat /\ n <= Len(pipe) /\ n <= remaining
  BY <1>4, <1>5, <1>6
<1>9. Sample \in Seq(Byte) /\ Len(Sample) = n
  <2>1. n \in Int /\ 1 \in Nat /\ 1 > 0
    BY <1>8
  <2>2. Sample \in Seq(Byte) /\ Len(Sample) = IF 1 <= n THEN n - 1 + 1 ELSE 0
    BY <2>1, <1>4, <1>7, <1>8, PartOf
  <2> QED BY <2>2, <1>8
<1>10. pipe' = SubSeq(pipe, n + 1, Len(pipe)) /\ remaining' = remaining - n /\ remaining' \in Nat
  BY <1>1, <1>4, <1>8, <1>9
<1>11. pipe' \in Seq(Byte)
  <2>1. n + 1 \in Nat /\ n + 1 > 0 /\ Len(pipe) \in Int /\ Len(pipe) <= Len(pipe)
    BY <1>5, <1>8
  <2> QED BY <2>1, <1>4, <1>10, PartOf
<1>12. /\ d \in Seq(Byte) /\ IsTruthOf(Truth(config, item), d)
  BY <1>2, <1>3, <1>4, JobIs
<1> HIDE DEF d
<1>13. ASSUME alive
       PROVE  Len(pipe') = remaining' + 1 /\ InText(Unsplit', d, Begin, Truth(config, item))
  <2>1. pipe = Append(d, Newline) /\ remaining = Len(d)
    BY <1>4, <1>13 DEF Whole, d
  <2>2. /\ Len(pipe') = Len(d) - n + 1
        /\ \A b : b = SubSeq(pipe', 1, Len(d) - n) => Sample \o b = d
    <3>1. n <= Len(d)
      BY <2>1, <1>8
    <3>2. pipe' = SubSeq(pipe, n + 1, Len(pipe))
      BY <1>10
    <3>3. pipe = Append(d, Newline) /\ d \in Seq(Byte) /\ n \in Nat
      BY <2>1, <1>8, <1>12
    <3>4. SubSeq(pipe, 1, n) = Sample
      BY <1>7
    <3>5. Parted(Sample, pipe', pipe, n, d)
      BY <3>2, <3>3, <3>4 DEF Parted
    <3> QED BY ONLY <3>1, <3>3, <3>5, SniffIs
  <2>3. remaining' = Len(d) - n
    BY <2>1, <1>10
  <2>4. Available' = remaining'
    <3>1. Len(pipe') = remaining' + 1 /\ remaining' \in Nat
      BY <2>2, <2>3, <1>10
    <3>2. remaining' <= Len(pipe')
      <4> DEFINE x == Len(pipe')
                 y == remaining'
      <4>1. x = y + 1 /\ y \in Nat
        BY <3>1
      <4> HIDE DEF x, y
      <4>2. y <= x
        BY <4>1
      <4> QED BY <4>2 DEF x, y
    <3>3. Available' = IF remaining' <= Len(pipe') THEN remaining' ELSE Len(pipe')
      BY DEF Available
    <3> QED BY <3>2, <3>3
  <2>5. Unsplit' = Sample \o SubSeq(pipe', 1, Len(d) - n)
    BY <2>3, <2>4, <1>1 DEF Unsplit
  <2>6. Unsplit' = d
    BY <2>2, <2>5
  <2>7. InText(d, d, Begin, Truth(config, item))
    BY <1>12, TextBegins
  <2> QED BY <2>2, <2>3, <2>6, <2>7
<1>14. IsBuilder(Begin)
  BY BeginIs
<1>15. ReaderInv'
  BY <1>1, <1>4, <1>9, <1>10, <1>11, <1>13, <1>14 DEF ReaderInv, d
<1>16. StreamInv'
  BY <1>1, <1>2, StreamKept
<1>17. TodoInv'
  BY <1>1, <1>2, <1>3 DEF TodoInv
<1> QED BY <1>1, <1>2, <1>15, <1>16, <1>17 DEF GoesOn

\* One line is split off and built; of what the reader gives nothing is left in the pipe.
LEMMA LineKeeps ==
  ASSUME ContentInv, Line
  PROVE  GoesOn
<1>1. /\ config' = config /\ alive' = alive /\ excuse' = excuse /\ outbox' = outbox /\ stream' = stream
      /\ todo' = todo /\ item' = item /\ stage = "lines" /\ stage' = "lines" /\ Unsplit # <<>>
      /\ buffer' = NextLine(Unsplit).rest
      /\ pipe' = SubSeq(pipe, Available + 1, Len(pipe))
      /\ remaining' = remaining - Available
      /\ builder' = AddLine(builder, [n |-> builder.total + 1, text |-> NextLine(Unsplit).text])
  BY DEF Line, getterSame
<1>2. config \in Config /\ alive \in BOOLEAN /\ StreamInv /\ TodoInv /\ ReaderInv
  BY DEF ContentInv, TypeInv
<1>3. config.mode = "blobs"
  BY <1>1, <1>2, ConfigIs DEF TodoInv
<1> DEFINE d == Content(config, item)
           t == Truth(config, item)
<1>4. /\ item \in Jobs(config) /\ remaining \in Nat /\ (~alive => Cut(config, excuse, item))
      /\ pipe \in Seq(Byte) /\ buffer \in Seq(Byte) /\ IsBuilder(builder)
      /\ alive => Len(pipe) = remaining + 1 /\ InText(Unsplit, d, builder, t)
  BY <1>1, <1>2, <1>3 DEF ReaderInv
<1>5. /\ d \in Seq(Byte) /\ IsTruthOf(t, d)
  BY <1>2, <1>3, <1>4, JobIs
<1> HIDE DEF d, t
<1>6. /\ Available \in Nat /\ Available <= Len(pipe) /\ remaining - Available \in Nat
      /\ SubSeq(pipe, 1, Available) \in Seq(Byte)
      /\ pipe' \in Seq(Byte) /\ Len(pipe') = Len(pipe) - Available
      /\ Len(pipe) = remaining + 1 => Available = remaining
  <2>1. Available = IF remaining <= Len(pipe) THEN remaining ELSE Len(pipe)
    BY DEF Available
  <2> QED BY <2>1, <1>1, <1>4, AvailableIs
<1>7. Unsplit \in Seq(Byte)
  BY <1>4, <1>6 DEF Unsplit
<1>8. NextLine(Unsplit).text \in Seq(Byte) /\ buffer' \in Seq(Byte)
  BY <1>1, <1>7, NextLineType
<1>9. IsBuilder(builder')
  <2>1. builder.total \in Nat
    BY <1>4 DEF IsBuilder
  <2>2. [n |-> builder.total + 1, text |-> NextLine(Unsplit).text] \in Row
    BY <2>1, <1>8 DEF Row
  <2> QED BY <2>2, <1>1, <1>4, AddLineIs
<1>10. remaining' \in Nat
  BY <1>1, <1>6
<1>11. ASSUME alive
       PROVE  Len(pipe') = remaining' + 1 /\ InText(Unsplit', d, builder', t)
  <2>1. Len(pipe) = remaining + 1 /\ InText(Unsplit, d, builder, t)
    BY <1>4, <1>11
  <2>2. remaining' = 0 /\ Len(pipe') = 1
    BY <2>1, <1>1, <1>4, <1>6
  <2>3. Unsplit' = buffer'
    <3>1. Available' = IF 0 <= Len(pipe') THEN 0 ELSE Len(pipe')
      BY <2>2 DEF Available
    <3>2. Unsplit' = buffer' \o SubSeq(pipe', 1, Available')
      BY DEF Unsplit
    <3> HIDE DEF Available, Unsplit
    <3> QED BY <3>1, <3>2, <1>6, <1>8, NothingAhead
  <2>4. InText(NextLine(Unsplit).rest, d, builder', t)
    BY <2>1, <1>1, <1>5, TextGoesOn
  <2> QED BY <2>2, <2>3, <2>4, <1>1
<1>12. ReaderInv'
  BY <1>1, <1>4, <1>6, <1>8, <1>9, <1>10, <1>11 DEF ReaderInv, d, t
<1>13. StreamInv'
  BY <1>1, <1>2, StreamKept
<1>14. TodoInv'
  BY <1>1, <1>2, <1>3 DEF TodoInv
<1> QED BY <1>1, <1>2, <1>12, <1>13, <1>14 DEF GoesOn

\* The Builder is finished: its chunks are faithful.
LEMMA EndOfTextKeeps ==
  ASSUME ContentInv, EndOfText
  PROVE  GoesOn
<1>1. /\ config' = config /\ alive' = alive /\ excuse' = excuse /\ stream' = stream
      /\ todo' = todo /\ item' = item /\ stage = "lines" /\ stage' = "publish"
      /\ pipe' = pipe /\ remaining' = remaining
      /\ outbox' = Boxed(item, config.input[item[1]].path, Finish(builder))
  BY DEF EndOfText, getterSame
<1>2. config \in Config /\ alive \in BOOLEAN /\ StreamInv /\ TodoInv /\ ReaderInv
  BY DEF ContentInv, TypeInv
<1>3. config.mode = "blobs"
  BY <1>1, <1>2, ConfigIs DEF TodoInv
<1>4. /\ item \in Jobs(config) /\ remaining \in Nat /\ (~alive => Cut(config, excuse, item))
      /\ pipe \in Seq(Byte) /\ IsBuilder(builder)
      /\ alive => /\ Len(pipe) = remaining + 1
                  /\ InText(Unsplit, Content(config, item), builder, Truth(config, item))
  BY <1>1, <1>2, <1>3 DEF ReaderInv
<1>5. item \in Nat \X Nat /\ IsTruth(Truth(config, item))
      /\ config.input[item[1]].path \in Path /\ Named(config, item, config.input[item[1]].path)
  BY <1>2, <1>3, <1>4, JobIs DEF Named
<1>6. alive => \E m : Built(builder, Truth(config, item), m)
  BY <1>4 DEF InText
<1>7. Boxes(config, excuse, outbox')
  <2>1. CASE alive
    BY <2>1, <1>1, <1>4, <1>5, <1>6, BoxesAre
  <2>2. CASE ~alive
    BY <2>2, <1>1, <1>4, <1>5, BoxesAre
  <2> QED BY <2>1, <2>2
<1>8. StreamInv'
  BY <1>1, <1>2, <1>7 DEF StreamInv
<1>9. ReaderInv'
  BY <1>1, <1>4 DEF ReaderInv
<1>10. TodoInv'
  BY <1>1, <1>2, <1>3 DEF TodoInv
<1> QED BY <1>1, <1>2, <1>8, <1>9, <1>10 DEF GoesOn
-----------------------------------------------------------------------------
(* A hunk of a diff.                                                       *)

\* The truth of a hunk of the input.
LEMMA HunkIs ==
  ASSUME NEW cfg \in Config, cfg.mode = "diff", NEW p \in 1..Len(cfg.input),
         NEW h \in 1..Len(cfg.input[p].hunks), NEW src, src = <<p, h>>
  PROVE  LET hunk == cfg.input[p].hunks[h]
         IN  /\ src \in Nat \X Nat
             /\ Truth(cfg, src) = HunkTruth(hunk) /\ IsTruth(HunkTruth(hunk))
             /\ MisreadIn(cfg, src) <=> HasPlusPlus(hunk)
             /\ \A path : HasPath(path, cfg.input[p]) => Named(cfg, src, path)
<1> DEFINE hunk == cfg.input[p].hunks[h]
<1>1. DiffInput(cfg.input)
  BY ConfigIs
<1>2. cfg.input \in Seq(DiffType) /\ p \in DOMAIN cfg.input
  BY <1>1 DEF DiffInput
<1>3. cfg.input[p] \in DiffType
  BY <1>2
<1>4. cfg.input[p].hunks \in Seq(HunkType)
  BY <1>3 DEF DiffType
<1>5. hunk \in HunkType /\ h \in DOMAIN cfg.input[p].hunks
  BY <1>4
<1>6. (\E line \in ToSet(hunk.lines) : InNewFile(line)) => hunk.start > 0
  BY <1>1, <1>2, <1>5 DEF DiffInput
<1>7. IsTruth(HunkTruth(hunk))
  BY <1>5, <1>6, HunkIsTruth
<1>8. src \in Nat \X Nat /\ src[1] = p /\ src[2] = h
  BY <1>2, <1>4
<1>9. Truth(cfg, src) = HunkTruth(hunk)
  BY <1>8 DEF Truth, HunkTruth
<1>10. MisreadIn(cfg, src) <=> HasPlusPlus(hunk)
  BY <1>8 DEF MisreadIn
<1>11. \A path : HasPath(path, cfg.input[p]) => Named(cfg, src, path)
  BY <1>8 DEF HasPath, Named, MisfiledIn
<1> QED BY <1>7, <1>8, <1>9, <1>10, <1>11

\* The chunks of a hunk are faithful.
LEMMA HunkBoxes ==
  ASSUME NEW cfg \in Config, cfg.mode = "diff", NEW exc, NEW p \in 1..Len(cfg.input),
         NEW h \in 1..Len(cfg.input[p].hunks), NEW rows, HunkRead(rows, cfg.input[p].hunks[h]),
         NEW path \in Path, HasPath(path, cfg.input[p])
  PROVE  Boxes(cfg, exc, Boxed(<<p, h>>, path, Finish(AddLines(rows))))
<1> DEFINE hunk == cfg.input[p].hunks[h]
           src == <<p, h>>
           b == AddLines(rows)
<1>1. rows \in Seq(Row) /\ (~HasPlusPlus(hunk) => rows = HunkTruth(hunk))
  BY DEF HunkRead
<1>2. /\ src \in Nat \X Nat
      /\ Truth(cfg, src) = HunkTruth(hunk) /\ IsTruth(HunkTruth(hunk))
      /\ (MisreadIn(cfg, src) <=> HasPlusPlus(hunk)) /\ Named(cfg, src, path)
  BY HunkIs
<1>3. Built(b, rows, Len(rows)) /\ IsBuilder(b)
  BY <1>1, AddLinesIs DEF Built
<1> HIDE DEF hunk, src, b
<1>4. \/ MisreadIn(cfg, src)
      \/ IsTruth(Truth(cfg, src)) /\ \E m : Built(b, Truth(cfg, src), m)
  BY <1>1, <1>2, <1>3
<1>5. Boxes(cfg, exc, Boxed(src, path, Finish(b)))
  BY <1>2, <1>3, <1>4, BoxesAre
<1> QED BY <1>5 DEF src, b

\* The patches after the first hunk of the first was taken.
LEMMA PatchesGoOn ==
  ASSUME NEW input, NEW patches, AllFiled(patches, input), patches # <<>>,
         NEW next, FiledPatch(next, input)
  PROVE  AllFiled([patches EXCEPT ![1] = next], input) /\ [patches EXCEPT ![1] = next] # <<>>
<1> DEFINE after == [patches EXCEPT ![1] = next]
<1>1. /\ patches \in Seq(ParsedPatch) /\ Len(patches) \in Nat /\ Len(patches) # 0
      /\ \A i \in 1..Len(patches) : FiledPatch(patches[i], input)
  BY DEF AllFiled
<1>2. next \in ParsedPatch
  BY DEF FiledPatch
<1>3. /\ after \in Seq(ParsedPatch) /\ Len(after) = Len(patches)
      /\ \A i \in 1..Len(patches) : after[i] = IF i = 1 THEN next ELSE patches[i]
  BY <1>1, <1>2
<1> HIDE DEF after
<1>4. \A i \in 1..Len(after) : FiledPatch(after[i], input)
  BY <1>1, <1>3
<1>5. AllFiled(after, input) /\ after # <<>>
  BY <1>1, <1>3, <1>4 DEF AllFiled
<1> QED BY <1>5 DEF after

\* The hunk in front becomes chunks, under the path of its patch.
LEMMA TakeHunkKeeps ==
  ASSUME ContentInv, TakeHunk
  PROVE  GoesOn
<1> DEFINE patch == Head(todo)
           hunk == Head(patch.hunks)
           next == WithHunks(patch, Tail(patch.hunks))
<1>1. /\ config' = config /\ alive' = alive /\ excuse' = excuse /\ stream' = stream
      /\ config.mode = "diff" /\ stage' = "publish" /\ todo # <<>> /\ patch.hunks # <<>>
      /\ outbox' = Boxed(hunk.src, patch.path, Finish(AddLines(hunk.rows)))
      /\ todo' = [todo EXCEPT ![1].hunks = Tail(@)]
  BY DEF TakeHunk, AtPatch, getterSame
<1>2. config \in Config /\ alive \in BOOLEAN /\ StreamInv /\ TodoInv
  BY DEF ContentInv, TypeInv
<1>3. AllFiled(todo, config.input)
  BY <1>1, <1>2 DEF TodoInv
<1>4. todo \in Seq(ParsedPatch) /\ patch = todo[1] /\ 1 \in 1..Len(todo)
  BY <1>1, <1>3 DEF AllFiled
<1>5. FiledPatch(patch, config.input)
  BY <1>3, <1>4 DEF AllFiled
<1>6. /\ Filed(hunk, patch.path, config.input)
      /\ [patch EXCEPT !.hunks = Tail(@)] = next /\ FiledPatch(next, config.input)
  <2> HIDE DEF patch
  <2> QED BY <1>1, <1>5, HunkTaken
<1>7. patch.path \in Path
  <2>1. patch \in ParsedPatch
    BY <1>4
  <2> HIDE DEF patch
  <2> QED BY <2>1, PatchIs
<1>8. Boxes(config, excuse, outbox')
  <2> HIDE DEF patch, hunk
  <2>1. PICK q \in 1..Len(config.input) : \E k \in 1..Len(config.input[q].hunks) :
             /\ hunk.src = <<q, k>> /\ HasPath(patch.path, config.input[q])
             /\ HunkRead(hunk.rows, config.input[q].hunks[k])
    BY <1>6 DEF Filed
  <2>2. PICK k \in 1..Len(config.input[q].hunks) :
             /\ hunk.src = <<q, k>> /\ HasPath(patch.path, config.input[q])
             /\ HunkRead(hunk.rows, config.input[q].hunks[k])
    BY <2>1
  <2> QED BY <1>1, <1>2, <1>7, <2>2, HunkBoxes
<1>9. todo' = [todo EXCEPT ![1] = next]
  <2>1. todo' = [todo EXCEPT ![1] = [patch EXCEPT !.hunks = Tail(@)]]
    BY <1>1, <1>4
  <2> QED BY <1>6, <2>1
<1> HIDE DEF next, patch
<1>10. AllFiled(todo', config.input) /\ todo' # <<>>
  <2> HIDE DEF hunk
  <2>1. todo # <<>> /\ FiledPatch(next, config.input)
    BY <1>1, <1>6
  <2>2. AllFiled([todo EXCEPT ![1] = next], config.input) /\ [todo EXCEPT ![1] = next] # <<>>
    BY <2>1, <1>3, PatchesGoOn
  <2> QED BY <2>2, <1>9
<1>11. TodoInv'
  BY <1>1, <1>10 DEF TodoInv
<1>12. StreamInv'
  BY <1>1, <1>2, <1>8 DEF StreamInv
<1>13. ReaderInv'
  BY <1>1, ReaderOff
<1> QED BY <1>1, <1>2, <1>11, <1>12, <1>13 DEF GoesOn

-----------------------------------------------------------------------------
(* Every step.                                                             *)

\* Every step of the getter.
LEMMA GetterKeeps ==
  ContentInv /\ Getter => ContentInv'
<1> SUFFICES ASSUME ContentInv, Getter PROVE ContentInv'
  OBVIOUS
<1>1. Start \/ ReadBlob \/ ReadFails \/ Header => GoesOn
  BY StartKeeps, ReadBlobKeeps, ReadFailsKeeps, HeaderKeeps
<1>2. DiffFails \/ SkipByName \/ SkipDeleted \/ SkipPatch \/ PatchDone \/ EndScan => GoesOn
  BY PassedOver
<1>3. SniffRefuses \/ LineTooLong \/ AllPublished \/ PublishFails \/ Publish => GoesOn
  BY EndKeeps, PublishFailsKeeps, PublishKeeps
<1>4. Sniff \/ Line \/ EndOfText \/ TakeHunk => GoesOn
  BY SniffKeeps, LineKeeps, EndOfTextKeeps, TakeHunkKeeps
<1>5. GoesOn
  BY <1>1, <1>2, <1>3, <1>4 DEF Getter
<1>6. TypeInv' /\ FoundInv'
  BY <1>5, GetterFrame, FoundKept DEF ContentInv, GoesOn
<1> QED BY <1>5, <1>6 DEF ContentInv, GoesOn

\* The parts that only the getter's variables matter to.
LEMMA GetterStays ==
  ASSUME ContentInv, UNCHANGED <<config, getterVars, stream>>
  PROVE  StreamInv' /\ TodoInv' /\ ReaderInv' /\ alive' = alive /\ stream' = stream /\ config' = config
<1>1. /\ config' = config /\ todo' = todo /\ stage' = stage /\ item' = item /\ pipe' = pipe
      /\ alive' = alive /\ remaining' = remaining /\ buffer' = buffer /\ builder' = builder
      /\ outbox' = outbox /\ excuse' = excuse /\ stream' = stream
  BY DEF getterVars
<1>2. StreamInv'
  BY <1>1 DEF ContentInv, StreamInv
<1>3. TodoInv'
  BY <1>1 DEF ContentInv, TodoInv
<1>4. Unsplit' = Unsplit
  BY <1>1 DEF Unsplit, Available
<1>5. ReaderInv'
  BY <1>1, <1>4 DEF ContentInv, ReaderInv
<1> QED BY <1>1, <1>2, <1>3, <1>5

\* A delivery publishes hits in its chunk, of the rules the scanner holds.
LEMMA HandledKeeps ==
  ASSUME ContentInv, NEW c \in stream, current # NoPack,
         NEW hits, hits \subseteq Hits(c, current.pack), Handled(c, hits)
  PROVE  ContentInv'
<1> DEFINE found == {FindingAt(c, current.pack[h[1]], h[2]) : h \in hits}
<1>1. /\ UNCHANGED <<config, getterVars, stream>> /\ UNCHANGED watchVars
      /\ published' \subseteq published \cup found
  BY DEF Handled
<1>2. StreamInv' /\ TodoInv' /\ ReaderInv' /\ alive' = alive /\ stream' = stream /\ config' = config
  BY <1>1, GetterStays
<1>3. TypeInv'
  BY <1>1, <1>2 DEF ContentInv, TypeInv, watchVars
<1>4. current \in Version
  BY DEF ContentInv, TypeInv
<1>5. ASSUME NEW f \in published'
      PROVE  \E k \in stream : \E v \in Version : \E h \in Hits(k, v.pack) :
               f = FindingAt(k, v.pack[h[1]], h[2])
  <2>1. CASE f \in published
    BY <2>1 DEF ContentInv, FoundInv
  <2>2. CASE f \in found
    <3>1. PICK h \in hits : f = FindingAt(c, current.pack[h[1]], h[2])
      BY <2>2
    <3>2. h \in Hits(c, current.pack)
      BY <3>1
    <3> QED BY <3>1, <3>2, <1>4
  <2> QED BY <1>1, <2>1, <2>2
<1>6. FoundInv'
  BY <1>2, <1>5 DEF FoundInv
<1> QED BY <1>2, <1>3, <1>6 DEF ContentInv

\* Every step of the scanner.
LEMMA ScannerKeeps ==
  ContentInv /\ Scanner => ContentInv'
<1> SUFFICES ASSUME ContentInv, Scanner PROVE ContentInv'
  OBVIOUS
<1>1. CASE Handle
  <2>1. PICK c \in stream : current # NoPack /\ Handled(c, Hits(c, current.pack))
    BY <1>1 DEF Handle
  <2> QED BY <2>1, HandledKeeps
<1>2. CASE HandleFails
  <2>1. PICK c \in stream :
          /\ current # NoPack
          /\ \E stop \in Hits(c, current.pack) :
               Handled(c, {h \in Hits(c, current.pack) : Earlier(h, stop)})
    BY <1>2 DEF HandleFails
  <2>2. PICK stop \in Hits(c, current.pack) : Handled(c, {h \in Hits(c, current.pack) : Earlier(h, stop)})
    BY <2>1
  <2>3. {h \in Hits(c, current.pack) : Earlier(h, stop)} \subseteq Hits(c, current.pack)
    OBVIOUS
  <2> QED BY <2>1, <2>2, <2>3, HandledKeeps
<1> QED BY <1>1, <1>2 DEF Scanner

\* The rules change under the scanner, but to a version of the file.
LEMMA WatchKeeps ==
  ASSUME ContentInv, Watch \/ Edit \/ UNCHANGED watchVars, UNCHANGED pipelineSame
  PROVE  ContentInv'
<1>1. UNCHANGED <<config, getterVars, stream>> /\ published' = published
  BY DEF pipelineSame, scannerVars
<1>2. StreamInv' /\ TodoInv' /\ ReaderInv' /\ alive' = alive /\ stream' = stream /\ config' = config
  BY <1>1, GetterStays
<1>3. file \in Version /\ read \in Version \cup {NoPack} /\ current \in Version \cup {NoPack}
  BY DEF ContentInv, TypeInv
<1>4. file' \in Version /\ read' \in Version \cup {NoPack} /\ current' \in Version \cup {NoPack}
  <2>1. CASE Watch
    BY <2>1, <1>3 DEF Watch, CheckMtime, Load, LoadFails, FirstLoadFails, Swap, Stat
  <2>2. CASE Edit
    BY <2>2, <1>3 DEF Edit
  <2>3. CASE UNCHANGED watchVars
    BY <2>3, <1>3 DEF watchVars
  <2> QED BY <2>1, <2>2, <2>3
<1>5. TypeInv'
  BY <1>2, <1>4 DEF ContentInv, TypeInv
<1>6. FoundInv'
  BY <1>1, <1>2 DEF ContentInv, FoundInv
<1> QED BY <1>2, <1>5, <1>6 DEF ContentInv

\* Every step.
LEMMA ContentStep ==
  ContentInv /\ [Next]_vars => ContentInv'
<1> SUFFICES ASSUME ContentInv, [Next]_vars PROVE ContentInv'
  OBVIOUS
<1>1. CASE Getter
  BY <1>1, GetterKeeps
<1>2. CASE Scanner
  BY <1>2, ScannerKeeps
<1>3. CASE Prepare /\ UNCHANGED <<pipelineSame, watchVars>>
  BY <1>3, WatchKeeps
<1>4. CASE Watch /\ UNCHANGED <<pipelineSame, checkoutVars>>
  BY <1>4, WatchKeeps
<1>5. CASE config.edits /\ Edit /\ UNCHANGED <<pipelineSame, checkoutVars>>
  BY <1>5, WatchKeeps
<1>6. CASE UNCHANGED vars
  BY <1>6, WatchKeeps DEF vars, pipelineSame
<1> QED BY <1>1, <1>2, <1>3, <1>4, <1>5, <1>6 DEF Next

\* The invariant holds.
LEMMA ContentAlways ==
  Spec => []ContentInv
<1>1. Init => ContentInv
  BY ContentInit
<1>2. ContentInv /\ [Next]_vars => ContentInv'
  BY ContentStep
<1> QED BY <1>1, <1>2, PTL DEF Spec

\* Where a finding comes from.
LEMMA FoundIn ==
  ASSUME ContentInv, NEW f \in published
  PROVE  \E c \in stream : \E v \in Version : \E h \in Hits(c, v.pack) :
           /\ f = FindingAt(c, v.pack[h[1]], h[2]) /\ f.chunk = c.id /\ f.path = c.path
           /\ Faithful(config, excuse, c)
<1>1. PICK c \in stream : \E v \in Version : \E h \in Hits(c, v.pack) :
             f = FindingAt(c, v.pack[h[1]], h[2])
  BY DEF ContentInv, FoundInv
<1>2. PICK v \in Version : \E h \in Hits(c, v.pack) : f = FindingAt(c, v.pack[h[1]], h[2])
  BY <1>1
<1>3. PICK h \in Hits(c, v.pack) : f = FindingAt(c, v.pack[h[1]], h[2])
  BY <1>2, SMTT(30)
<1>4. f.chunk = c.id /\ f.path = c.path
  BY <1>3 DEF FindingAt
<1>5. Faithful(config, excuse, c)
  BY DEF ContentInv, StreamInv
<1> QED BY <1>3, <1>4, <1>5

\* The invariant gives LinesAreTrue: a finding is a hit in a faithful chunk.
LEMMA ContentIsTrue ==
  ContentInv => LinesAreTrue
<1> SUFFICES ASSUME ContentInv PROVE LinesAreTrue
  OBVIOUS
<1>1. ASSUME NEW f \in published, ~Misread(f.chunk[1]), ~Truncated(f.chunk[1])
      PROVE  IsTrue(f, TrueLines(f.chunk[1]))
  <2>1. PICK c \in stream : \E v \in Version : \E h \in Hits(c, v.pack) :
             /\ f = FindingAt(c, v.pack[h[1]], h[2]) /\ f.chunk = c.id
             /\ Faithful(config, excuse, c)
    BY FoundIn
  <2>2. PICK v \in Version : \E h \in Hits(c, v.pack) :
             f = FindingAt(c, v.pack[h[1]], h[2]) /\ f.chunk = c.id /\ Faithful(config, excuse, c)
    BY <2>1
  <2>3. PICK h \in Hits(c, v.pack) :
             f = FindingAt(c, v.pack[h[1]], h[2]) /\ f.chunk = c.id /\ Faithful(config, excuse, c)
    BY <2>2
  <2>4. /\ TrueLines(c.id[1]) = Truth(config, c.id[1])
        /\ ~MisreadIn(config, c.id[1]) /\ ~Cut(config, excuse, c.id[1])
    BY <1>1, <2>3, StateTruth
  <2>5. \A i \in DOMAIN v.pack : RuleType(v.pack[i])
    BY WatchAssumption
  <2>6. IsTrue(FindingAt(c, v.pack[h[1]], h[2]), Truth(config, c.id[1]))
    BY <2>3, <2>4, <2>5, FaithfulIsTrue
  <2> QED BY <2>3, <2>4, <2>6
<1>2. ASSUME NEW f \in published, ~Misfiled(f.chunk[1])
      PROVE  f.path = FileOf(f.chunk[1])
  <2>1. PICK c \in stream : f.chunk = c.id /\ f.path = c.path /\ Faithful(config, excuse, c)
    BY FoundIn
  <2>2. ~MisfiledIn(config, c.id[1])
    BY <1>2, <2>1, StateTruth
  <2> QED BY <2>1, <2>2 DEF Faithful, Named, FileOf
<1> QED BY <1>1, <1>2 DEF LinesAreTrue, IsTrue

\* Where a finding says it is, there it is: for every input, every size of chunk, overlap
\* and context, every rule and every edit of the rules, a published finding names the file
\* it was found in, its line number and offset lead to its secret, and the lines the
\* reports print around it stand under their own numbers in the file (LinesAreTrue, with
\* its four exceptions: headers of a diff that are not understood, hunks that are misread,
\* blobs that are truncated, SARIF's snippet of several lines).
THEOREM LinesTrue ==
  Spec => []LinesAreTrue
<1>1. Spec => []ContentInv
  BY ContentAlways
<1>2. ContentInv => LinesAreTrue
  BY ContentIsTrue
<1> QED BY <1>1, <1>2, PTL

-----------------------------------------------------------------------------
(* The checkout (PrepareRepo and its deferred calls).                      *)

\* What NothingIsLeftBehind needs at every phase: the clone directory exists from
\* MakeDest on, for a source that is cloned, and for no other.
CheckoutInv ==
  /\ NothingIsLeftBehind
  /\ phase = "start" => dest = FALSE
  /\ phase \in {"auth", "clone"} => dest = TRUE /\ ~source.local
  /\ phase = "ready" => dest = ~source.local

-----------------------------------------------------------------------------

\* The start.
LEMMA CheckoutStart == Init => CheckoutInv
BY DEF Init, CheckoutInit, CheckoutInv, NothingIsLeftBehind

\* No step of PrepareRepo breaks it, whichever of its calls fails.
LEMMA PrepareKeeps == CheckoutInv /\ Prepare => CheckoutInv'
<1> SUFFICES ASSUME CheckoutInv, Prepare PROVE CheckoutInv'
  OBVIOUS
<1> USE DEF CheckoutInv, NothingIsLeftBehind
<1>1. CASE Verify
  BY <1>1 DEF Verify
<1>2. CASE MakeDest
  BY <1>2 DEF MakeDest
<1>3. CASE WriteSecret
  BY <1>3 DEF WriteSecret
<1>4. CASE BuildFails
  BY <1>4 DEF BuildFails, FailClean
<1>5. CASE StartClone
  BY <1>5 DEF StartClone
<1>6. CASE CloneDone
  BY <1>6 DEF CloneDone
<1>7. CASE CloneFails
  BY <1>7 DEF CloneFails, FailClean
<1>8. CASE Kill
  BY <1>8 DEF Kill
<1>9. QED
  BY <1>1, <1>2, <1>3, <1>4, <1>5, <1>6, <1>7, <1>8 DEF Prepare

\* The cleanup the dispatcher deferred.
LEMMA LeaveKeeps == CheckoutInv /\ Leave => CheckoutInv'
BY DEF Leave, CheckoutInv, NothingIsLeftBehind

\* Steps that leave the checkout alone.
LEMMA AsideKeeps == CheckoutInv /\ UNCHANGED checkoutVars => CheckoutInv'
BY DEF CheckoutInv, NothingIsLeftBehind, checkoutVars

\* Of the getter's steps only the end of a scan touches the checkout.
LEMMA GetterSteps == Getter => Leave \/ UNCHANGED checkoutVars
<1>1. Start \/ DiffFails => UNCHANGED checkoutVars
  BY DEF Start, DiffFails, getterSame
<1>2. SkipByName \/ ReadBlob \/ ReadFails \/ Header => UNCHANGED checkoutVars
  BY DEF SkipByName, ReadBlob, ReadFails, Header, getterSame
<1>3. SniffRefuses \/ Sniff \/ Line \/ LineTooLong \/ EndOfText => UNCHANGED checkoutVars
  BY DEF SniffRefuses, Sniff, Line, LineTooLong, EndOfText, getterSame
<1>4. SkipDeleted \/ SkipPatch \/ PatchDone => UNCHANGED checkoutVars
  BY DEF SkipDeleted, SkipPatch, PatchDone, getterSame
<1>5. TakeHunk => UNCHANGED checkoutVars
  BY Zenon DEF TakeHunk, getterSame
<1>6. Publish \/ PublishFails \/ AllPublished => UNCHANGED checkoutVars
  BY DEF Publish, PublishFails, AllPublished, getterSame
<1>7. EndScan => Leave
  BY DEF EndScan
<1>8. QED
  BY <1>1, <1>2, <1>3, <1>4, <1>5, <1>6, <1>7 DEF Getter

\* A scanner never sees the checkout.
LEMMA ScannerSteps == Scanner => UNCHANGED checkoutVars
BY DEF Scanner, Handle, HandleFails, Handled

\* Every step.
LEMMA CheckoutStep == CheckoutInv /\ [Next]_vars => CheckoutInv'
<1> SUFFICES ASSUME CheckoutInv, [Next]_vars PROVE CheckoutInv'
  OBVIOUS
<1>1. CASE Prepare
  BY <1>1, PrepareKeeps
<1>2. CASE Getter
  BY <1>2, GetterSteps, LeaveKeeps, AsideKeeps
<1>3. CASE Scanner
  BY <1>3, ScannerSteps, AsideKeeps
<1>4. CASE UNCHANGED checkoutVars
  BY <1>4, AsideKeeps
<1>5. CASE UNCHANGED vars
  BY <1>5, AsideKeeps DEF vars
<1>6. QED
  BY <1>1, <1>2, <1>3, <1>4, <1>5 DEF Next

-----------------------------------------------------------------------------

\* No checkout leaves credentials or a clone behind that nobody asked for, whichever of
\* its steps fails, and whatever is scanned meanwhile: the deferred removals of
\* PrepareRepo and of the dispatcher cover every way out of them.
THEOREM CheckoutLeavesNothing == Spec => []NothingIsLeftBehind
<1>1. CheckoutInv => NothingIsLeftBehind
  BY DEF CheckoutInv
<1>2. QED
  BY CheckoutStart, CheckoutStep, <1>1, PTL DEF Spec

===============================================================================

----------------------------- MODULE DataLemmas -----------------------------
(***************************************************************************)
(* Facts about natural numbers and sequences that the proofs about the     *)
(* components share.  Induction is over sets of numbers: a claim about all *)
(* of them is a claim that a set of them is everything.                    *)
(***************************************************************************)
EXTENDS Integers, Sequences, SequencesExt, WellFoundedInduction, TLAPS

-----------------------------------------------------------------------------
(* Induction                                                               *)

LEMMA SmallestNumber ==
  ASSUME NEW T, T \subseteq Nat, T # {}
  PROVE  \E n \in T : \A m \in T : n <= m
<1> DEFINE R == OpToRel(<, Nat)
<1>1. IsWellFoundedOn(R, Nat)
  BY NatLessThanWellFounded
<1>2. R = {ss \in Nat \X Nat : ss[1] < ss[2]}
  BY DEF OpToRel
<1> HIDE DEF R
<1>3. PICK x \in T : \A y \in T : <<y, x>> \notin R
  BY <1>1, WFMin
<1>4. ASSUME NEW y \in T PROVE x <= y
  <2>1. <<y, x>> \in Nat \X Nat /\ <<y, x>>[1] = y /\ <<y, x>>[2] = x
    OBVIOUS
  <2>2. ~(y < x)
    BY <1>2, <1>3, <2>1
  <2>3. QED BY <2>2
<1>5. QED BY <1>4

\* A set of numbers up to n that holds 0 and with each number the next one
\* holds them all.
LEMMA RangeInduction ==
  ASSUME NEW n \in Nat, NEW T, 0 \in T,
         \A k \in 1..n : k - 1 \in T => k \in T
  PROVE  \A k \in 0..n : k \in T
<1> DEFINE Missing == {k \in 0..n : k \notin T}
<1>1. SUFFICES ASSUME Missing # {} PROVE FALSE
  OBVIOUS
<1>2. PICK k \in Missing : \A m \in Missing : k <= m
  <2>1. Missing \subseteq Nat
    OBVIOUS
  <2> HIDE DEF Missing
  <2>2. QED BY <1>1, <2>1, SmallestNumber
<1>3. k \in 1..n /\ k - 1 \in 0..n
  BY <1>2
<1>4. k - 1 \in T
  BY <1>2, <1>3
<1>5. QED BY <1>2, <1>3, <1>4

\* Steps 1 to n can be taken one after the other.
LEMMA Folding ==
  ASSUME NEW S, NEW start \in S, NEW n \in Nat, NEW step \in [1..n -> [S -> S]]
  PROVE  \E g \in [0..n -> S] : g[0] = start /\ \A k \in 1..n : g[k] = step[k][g[k - 1]]
<1> DEFINE Partial(m) ==
             {g \in [0..m -> S] : g[0] = start /\ \A k \in 1..m : g[k] = step[k][g[k - 1]]}
           T == {m \in 0..n : Partial(m) # {}}
<1>1. 0 \in T
  <2>1. [k \in 0..0 |-> start] \in Partial(0)
    OBVIOUS
  <2>2. QED BY <2>1
<1>2. ASSUME NEW m \in 1..n, m - 1 \in T PROVE m \in T
  <2>1. PICK g \in Partial(m - 1) : TRUE
    BY <1>2
  <2> DEFINE h == [k \in 0..m |-> IF k = m THEN step[m][g[m - 1]] ELSE g[k]]
  <2>2. g \in [0..m - 1 -> S] /\ m - 1 \in 0..m - 1 /\ m - 1 \in Nat
    BY <1>2, <2>1
  <2>3. step[m][g[m - 1]] \in S
    BY <2>2
  <2>4. h \in [0..m -> S]
    BY <2>2, <2>3
  <2>5. h[0] = start
    BY <1>2, <2>1
  <2>6. ASSUME NEW k \in 1..m PROVE h[k] = step[k][h[k - 1]]
    <3>1. CASE k = m
      <4>1. h[m] = step[m][g[m - 1]] /\ h[m - 1] = g[m - 1]
        BY <1>2
      <4>2. QED BY <3>1, <4>1
    <3>2. CASE k # m
      <4>1. k \in 1..m - 1 /\ k - 1 \in 0..m - 1
        BY <1>2, <3>2
      <4>2. h[k] = g[k] /\ h[k - 1] = g[k - 1]
        BY <1>2, <3>2, <4>1
      <4>3. g[k] = step[k][g[k - 1]]
        BY <2>1, <4>1
      <4>4. QED BY <4>2, <4>3
    <3>3. QED BY <3>1, <3>2
  <2>7. h \in Partial(m)
    BY <2>4, <2>5, <2>6
  <2>8. m \in 0..n
    BY <1>2
  <2> HIDE DEF h, Partial
  <2>9. QED BY <2>7, <2>8
<1> HIDE DEF T
<1>3. n \in T
  <2>1. \A k \in 0..n : k \in T
    BY <1>1, <1>2, RangeInduction
  <2>2. QED BY <2>1
<1>4. QED BY <1>3 DEF T

\* The sequences of n equal steps from a start.
Runs(S, start, step, n) ==
  {g \in [0..n -> S] : g[0] = start /\ \A k \in 1..n : g[k] = step[g[k - 1]]}

\* A step can be taken n times.
LEMMA Iteration ==
  ASSUME NEW S, NEW start \in S, NEW step \in [S -> S], NEW n \in Nat
  PROVE  Runs(S, start, step, n) # {}
<1> DEFINE numbered == [k \in 1..n |-> step]
<1>1. numbered \in [1..n -> [S -> S]]
  OBVIOUS
<1>2. \A k \in 1..n : numbered[k] = step
  OBVIOUS
<1> HIDE DEF numbered
<1>3. PICK g \in [0..n -> S] : g[0] = start /\ \A k \in 1..n : g[k] = numbered[k][g[k - 1]]
  BY <1>1, Folding
<1>4. ASSUME NEW k \in 1..n PROVE g[k] = step[g[k - 1]]
  <2>1. g[k - 1] \in S
    BY <1>3
  <2>2. QED BY <1>2, <1>3, <2>1
<1>5. QED BY <1>3, <1>4 DEF Runs

-----------------------------------------------------------------------------
(* Sequences                                                               *)

LEMMA ConcatFacts ==
  ASSUME NEW S, NEW s \in Seq(S), NEW t \in Seq(S)
  PROVE  /\ s \o t \in Seq(S)
         /\ Len(s \o t) = Len(s) + Len(t)
         /\ \A k \in 1..Len(s) : (s \o t)[k] = s[k]
         /\ \A k \in 1..Len(t) : (s \o t)[Len(s) + k] = t[k]
<1>1. s \o t \in Seq(S) /\ Len(s \o t) = Len(s) + Len(t)
  OBVIOUS
<1>2. \A k \in 1..Len(s) : (s \o t)[k] = s[k]
  OBVIOUS
<1>3. ASSUME NEW k \in 1..Len(t) PROVE (s \o t)[Len(s) + k] = t[k]
  OBVIOUS
<1>4. QED BY <1>1, <1>2, <1>3

\* Taking out the element at i.
LEMMA RemoveAtFacts ==
  ASSUME NEW S, NEW s \in Seq(S), NEW i \in 1..Len(s)
  PROVE  /\ RemoveAt(s, i) \in Seq(S)
         /\ Len(RemoveAt(s, i)) = Len(s) - 1
         /\ \A k \in 1..i - 1 : RemoveAt(s, i)[k] = s[k]
         /\ \A k \in i..Len(s) - 1 : RemoveAt(s, i)[k] = s[k + 1]
<1> DEFINE front == SubSeq(s, 1, i - 1)
           back  == SubSeq(s, i + 1, Len(s))
<1>1. /\ front \in Seq(S) /\ Len(front) = i - 1
      /\ \A k \in 1..i - 1 : front[k] = s[k]
  OBVIOUS
<1>2. /\ back \in Seq(S) /\ Len(back) = Len(s) - i
      /\ \A k \in 1..Len(s) - i : back[k] = s[k + i]
  OBVIOUS
<1>3. RemoveAt(s, i) = front \o back
  BY DEF RemoveAt
<1> HIDE DEF front, back
<1>4. front \o back \in Seq(S) /\ Len(front \o back) = Len(s) - 1
  BY <1>1, <1>2
<1>5. ASSUME NEW k \in 1..i - 1 PROVE (front \o back)[k] = s[k]
  BY <1>1, <1>2
<1>6. ASSUME NEW k \in i..Len(s) - 1 PROVE (front \o back)[k] = s[k + 1]
  <2> DEFINE m == k - (i - 1)
  <2>1. m \in 1..Len(back) /\ k \in 1..Len(front) + Len(back) /\ k > Len(front)
    BY <1>1, <1>2
  <2>2. (front \o back)[k] = back[m]
    BY <1>1, <1>2, <2>1
  <2>3. back[m] = s[m + i] /\ m + i = k + 1
    BY <1>2, <2>1
  <2>4. QED BY <2>2, <2>3
<1>7. QED BY <1>3, <1>4, <1>5, <1>6

\* Putting x in at position i.
LEMMA InsertAtFacts ==
  ASSUME NEW S, NEW s \in Seq(S), NEW i \in 1..Len(s) + 1, NEW x \in S
  PROVE  /\ InsertAt(s, i, x) \in Seq(S)
         /\ Len(InsertAt(s, i, x)) = Len(s) + 1
         /\ InsertAt(s, i, x)[i] = x
         /\ \A k \in 1..i - 1 : InsertAt(s, i, x)[k] = s[k]
         /\ \A k \in i + 1..Len(s) + 1 : InsertAt(s, i, x)[k] = s[k - 1]
<1> DEFINE front == SubSeq(s, 1, i - 1)
           back  == SubSeq(s, i, Len(s))
<1>1. /\ front \in Seq(S) /\ Len(front) = i - 1
      /\ \A k \in 1..i - 1 : front[k] = s[k]
  OBVIOUS
<1>2. /\ back \in Seq(S) /\ Len(back) = Len(s) - i + 1
      /\ \A k \in 1..Len(s) - i + 1 : back[k] = s[k + i - 1]
  OBVIOUS
<1>3. InsertAt(s, i, x) = (front \o <<x>>) \o back
  BY DEF InsertAt
<1> HIDE DEF front, back
<1>4. <<x>> \in Seq(S) /\ Len(<<x>>) = 1 /\ <<x>>[1] = x
  OBVIOUS
<1> DEFINE head == front \o <<x>>
<1>5. head \in Seq(S) /\ Len(head) = Len(front) + 1
  BY <1>1, <1>4, ConcatFacts
<1>6. head[Len(front) + 1] = x /\ \A k \in 1..Len(front) : head[k] = front[k]
  BY <1>1, <1>4, ConcatFacts
<1> HIDE DEF head
<1>7. /\ Len(head) = i /\ head[i] = x
      /\ \A k \in 1..i - 1 : head[k] = s[k]
  BY <1>1, <1>5, <1>6
<1>8. /\ head \o back \in Seq(S) /\ Len(head \o back) = i + Len(back)
      /\ \A k \in 1..i : (head \o back)[k] = head[k]
      /\ \A k \in 1..Len(back) : (head \o back)[i + k] = back[k]
  BY <1>2, <1>5, <1>7, ConcatFacts
<1>9. ASSUME NEW k \in i + 1..Len(s) + 1 PROVE (head \o back)[k] = s[k - 1]
  <2> DEFINE m == k - i
  <2>1. m \in 1..Len(back) /\ i + m = k /\ m + i - 1 = k - 1
    BY <1>2
  <2>2. (head \o back)[k] = back[m] /\ back[m] = s[k - 1]
    BY <1>2, <1>8, <2>1
  <2>3. QED BY <2>2
<1>10. Len(head \o back) = Len(s) + 1
  BY <1>2, <1>8
<1>11. \A k \in 1..i : k \in 1..i - 1 \/ k = i
  OBVIOUS
<1>12. QED BY <1>3, <1>7, <1>8, <1>9, <1>10, <1>11 DEF head
=============================================================================

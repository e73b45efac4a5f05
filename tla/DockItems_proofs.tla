--------------------------- MODULE DockItems_proofs ---------------------------
(***************************************************************************)
(* Proofs about the items of the dock, for any number of applications and  *)
(* files: no launcher and no application has two items, a pinned item has  *)
(* its file's launcher or will learn that it has not, the saved order is   *)
(* that of the items, a restart restores it, and in one life of the dock   *)
(* every visible running application has its item.                         *)
(*                                                                         *)
(* Items are made and lost in folds over sequences (process_queued_files,  *)
(* add_transient_items, the filters of update_visible_elements), so the    *)
(* first parts are about such folds: they exist, and what every round      *)
(* keeps the whole keeps. Then each operator is shown to lead from good    *)
(* items to good items, and each action to keep the invariant Inv.         *)
(***************************************************************************)
EXTENDS MCDockItems, DataLemmas, FiniteSetTheorems, TLAPS

-----------------------------------------------------------------------------
(* The elements of a sequence at some positions                            *)

\* g holds the values that the steps 1 to n lead to.
Folded(g, S, start, n, step) ==
  g \in [0..n -> S] /\ g[0] = start /\ \A k \in 1..n : g[k] = step[k][g[k - 1]]

LEMMA FoldedExists ==
  ASSUME NEW S, NEW start \in S, NEW n \in Nat, NEW step \in [1..n -> [S -> S]]
  PROVE  \E g : Folded(g, S, start, n, step)
<1>1. PICK g \in [0..n -> S] : g[0] = start /\ \A k \in 1..n : g[k] = step[k][g[k - 1]]
  BY Folding
<1>2. Folded(g, S, start, n, step)
  BY <1>1 DEF Folded
<1>3. QED BY <1>2

\* g holds what has been taken of s after each of its first n positions.
Takes(g, S, s, K, n) ==
  /\ g \in [0..n -> Seq(S)] /\ g[0] = <<>>
  /\ \A k \in 1..n : g[k] = IF k \in K THEN Append(g[k - 1], s[k]) ELSE g[k - 1]

LEMMA TakesSome ==
  ASSUME NEW S, NEW n \in Nat, NEW s \in [1..n -> S], NEW K
  PROVE  \E g : Takes(g, S, s, K, n)
<1> DEFINE Q == Seq(S)
           step == [k \in 1..n |-> [v \in Q |-> IF k \in K THEN Append(v, s[k]) ELSE v]]
<1>1. \A v \in Q, k \in 1..n : Append(v, s[k]) \in Q
  OBVIOUS
<1>2. PICK e : e = <<>> /\ e \in Q
  <2>1. <<>> \in Q
    OBVIOUS
  <2>2. QED BY <2>1
<1> HIDE DEF Q
<1>3. step \in [1..n -> [Q -> Q]]
  BY <1>1
<1>4. \A k \in 1..n, v \in Q : step[k][v] = IF k \in K THEN Append(v, s[k]) ELSE v
  OBVIOUS
<1> HIDE DEF step
<1>a. PICK g : Folded(g, Q, e, n, step)
  BY <1>2, <1>3, FoldedExists
<1>5. g \in [0..n -> Q] /\ g[0] = e /\ \A k \in 1..n : g[k] = step[k][g[k - 1]]
  BY <1>a DEF Folded
<1>6. ASSUME NEW k \in 1..n PROVE g[k] = IF k \in K THEN Append(g[k - 1], s[k]) ELSE g[k - 1]
  <2>1. k - 1 \in 0..n
    OBVIOUS
  <2>2. g[k - 1] \in Q
    BY <1>5, <2>1
  <2>3. QED BY <1>4, <1>5, <2>2
<1>7. QED BY <1>2, <1>5, <1>6 DEF Takes, Q

\* There is only one such g.
Taken(s, K, n) ==
  CHOOSE o : o = [k \in 0..n |-> IF k = 0 THEN <<>>
                  ELSE IF k \in K THEN Append(o[k - 1], s[k]) ELSE o[k - 1]]

LEMMA TakesOne ==
  ASSUME NEW S, NEW n \in Nat, NEW s, NEW K, NEW g, Takes(g, S, s, K, n)
  PROVE  Taken(s, K, n) = g
<1> DEFINE Step(v, k) == IF k \in K THEN Append(v, s[k]) ELSE v
           body(o) == [k \in 0..n |-> IF k = 0 THEN <<>> ELSE Step(o[k - 1], k)]
           kept == CHOOSE o : o = body(o)
<1> HIDE DEF Step
<1>1. g \in [0..n -> Seq(S)] /\ g[0] = <<>> /\ \A k \in 1..n : g[k] = Step(g[k - 1], k)
  BY DEF Takes, Step
<1>2. g = body(g)
  <2>1. \A k \in 0..n : k = 0 \/ k \in 1..n
    OBVIOUS
  <2>2. \A k \in 0..n : g[k] = body(g)[k]
    BY <1>1, <2>1
  <2>3. QED BY <1>1, <2>2
<1>3. kept = body(kept)
  <2> HIDE DEF body
  <2>1. QED BY <1>2
<1> HIDE DEF kept
<1>4. kept = [k \in 0..n |-> kept[k]]
  BY <1>3
<1>5. kept[0] = <<>> /\ \A k \in 1..n : kept[k] = Step(kept[k - 1], k)
  BY <1>3
<1> DEFINE T == {k \in 0..n : kept[k] = g[k]}
<1>6. 0 \in T
  BY <1>1, <1>5
<1>7. \A k \in 1..n : k - 1 \in T => k \in T
  <2>1. SUFFICES ASSUME NEW k \in 1..n, kept[k - 1] = g[k - 1] PROVE kept[k] = g[k] /\ k \in 0..n
    OBVIOUS
  <2>2. QED BY <1>1, <1>5, <2>1
<1>8. \A k \in 0..n : kept[k] = g[k]
  <2>1. \A k \in 0..n : k \in T
    <3> HIDE DEF T
    <3>1. QED BY <1>6, <1>7, RangeInduction
  <2>2. QED BY <2>1
<1>9. kept = g
  BY <1>1, <1>4, <1>8
<1>10. QED BY <1>9 DEF kept, Step, Taken

\* Those takes the positions one after the other.
LEMMA ThoseSteps ==
  ASSUME NEW S, NEW s \in Seq(S), NEW K
  PROVE  \E g : Takes(g, S, s, K, Len(s)) /\ Those(s, K) = g[Len(s)]
<1>1. PICK n \in Nat : n = Len(s)
  OBVIOUS
<1>2. s \in [1..n -> S]
  BY <1>1
<1>3. PICK g : Takes(g, S, s, K, n)
  BY <1>2, TakesSome
<1>4. Taken(s, K, n) = g
  BY <1>3, TakesOne
<1>5. Those(s, K) = Taken(s, K, n)[n]
  BY <1>1 DEF Those, Taken
<1>6. QED BY <1>1, <1>3, <1>4, <1>5

\* v holds the elements of the first k positions of s that are in K: h says
\* where its elements are in s.
Embeds(h, s, K, k, v) ==
  /\ h \in [1..Len(v) -> 1..k]
  /\ \A i, j \in 1..Len(v) : i < j => h[i] < h[j]
  /\ \A j \in 1..Len(v) : h[j] \in K /\ v[j] = s[h[j]]
  /\ \A i \in 1..k : i \in K => \E j \in 1..Len(v) : h[j] = i

Sub(s, K, k, v) ==
  /\ Len(v) <= k
  /\ Len(v) = k => \A j \in 1..k : v[j] = s[j]
  /\ 1..k \subseteq K => Len(v) = k
  /\ \E h : Embeds(h, s, K, k, v)

LEMMA LastOrEarlier ==
  ASSUME NEW m \in Nat
  PROVE  \A j \in 1..m + 1 : j \in 1..m \/ j = m + 1
OBVIOUS

\* One position more, which is taken.
Prolongs(f, h, m, k) ==
  /\ f \in [1..m + 1 -> 1..k + 1] /\ f[m + 1] = k + 1
  /\ \A j \in 1..m : f[j] = h[j] /\ f[j] < k + 1

LEMMA EmbedsMore ==
  ASSUME NEW m \in Nat, NEW k \in Nat, NEW h \in [1..m -> 1..k]
  PROVE  \E f : Prolongs(f, h, m, k)
<1> DEFINE f == [j \in 1..m + 1 |-> IF j = m + 1 THEN k + 1 ELSE h[j]]
<1>1. \A j \in 1..m : j \in 1..m + 1 /\ j # m + 1 /\ h[j] \in 1..k + 1 /\ h[j] < k + 1
  OBVIOUS
<1>2. m + 1 \in 1..m + 1 /\ k + 1 \in 1..k + 1
  OBVIOUS
<1>3. f \in [1..m + 1 -> 1..k + 1]
  BY <1>1, <1>2, LastOrEarlier
<1>4. f[m + 1] = k + 1 /\ \A j \in 1..m : f[j] = h[j]
  BY <1>1, <1>2
<1> HIDE DEF f
<1>5. QED BY <1>1, <1>3, <1>4 DEF Prolongs

LEMMA SubTakes ==
  ASSUME NEW S, NEW s \in Seq(S), NEW K, NEW k \in Nat, k + 1 \in 1..Len(s), k + 1 \in K,
         NEW v \in Seq(S), Sub(s, K, k, v)
  PROVE  Sub(s, K, k + 1, Append(v, s[k + 1]))
<1>m. PICK m \in Nat : m = Len(v)
  OBVIOUS
<1>k. PICK l : l = k + 1
  OBVIOUS
<1>1. PICK h : Embeds(h, s, K, k, v)
  BY DEF Sub
<1>2. /\ m <= k
      /\ m = k => \A j \in 1..k : v[j] = s[j]
      /\ 1..k \subseteq K => m = k
  BY <1>m DEF Sub
<1>3. /\ h \in [1..m -> 1..k]
      /\ \A i, j \in 1..m : i < j => h[i] < h[j]
      /\ \A j \in 1..m : h[j] \in K /\ v[j] = s[h[j]]
      /\ \A i \in 1..k : i \in K => \E j \in 1..m : h[j] = i
  BY <1>1, <1>m DEF Embeds
<1>4. PICK u : u = Append(v, s[l])
  OBVIOUS
<1>5. Len(u) = m + 1 /\ u[m + 1] = s[l] /\ \A j \in 1..m : u[j] = v[j]
  BY <1>k, <1>m, <1>4
<1>a. PICK f : Prolongs(f, h, m, k)
  BY <1>3, EmbedsMore
<1>6. f \in [1..m + 1 -> 1..l] /\ f[m + 1] = l /\ \A j \in 1..m : f[j] = h[j] /\ f[j] < l
  BY <1>k, <1>a DEF Prolongs
<1>7. \A i, j \in 1..m + 1 : i < j => i \in 1..m
  OBVIOUS
<1>8. \A j \in 1..m + 1 : j \in 1..m \/ j = m + 1
  BY LastOrEarlier
<1>9. \A i \in 1..l : i \in 1..k \/ i = l
  BY <1>k, LastOrEarlier
<1>10. \A i, j \in 1..m + 1 : i < j => f[i] < f[j]
  <2>1. SUFFICES ASSUME NEW i \in 1..m + 1, NEW j \in 1..m + 1, i < j PROVE f[i] < f[j]
    OBVIOUS
  <2>2. i \in 1..m
    BY <1>7, <2>1
  <2>3. CASE j = m + 1
    BY <1>6, <2>2, <2>3
  <2>4. CASE j \in 1..m
    BY <1>3, <1>6, <2>1, <2>2, <2>4
  <2>5. QED BY <1>8, <2>3, <2>4
<1>11. \A j \in 1..m + 1 : f[j] \in K /\ u[j] = s[f[j]]
  <2>1. f[m + 1] \in K /\ u[m + 1] = s[f[m + 1]]
    BY <1>k, <1>5, <1>6
  <2>2. \A j \in 1..m : f[j] \in K /\ u[j] = s[f[j]]
    BY <1>3, <1>5, <1>6
  <2>3. QED BY <1>8, <2>1, <2>2
<1>12. \A i \in 1..l : i \in K => \E j \in 1..m + 1 : f[j] = i
  <2>1. m + 1 \in 1..m + 1 /\ \A j \in 1..m : j \in 1..m + 1
    OBVIOUS
  <2>2. QED BY <1>3, <1>6, <1>9, <2>1
<1>13. Embeds(f, s, K, l, u)
  BY <1>5, <1>6, <1>10, <1>11, <1>12 DEF Embeds
<1>14. m + 1 <= l /\ (1..l \subseteq K => m + 1 = l)
  <2>1. m + 1 <= l
    BY <1>k, <1>2
  <2>2. 1..k \subseteq 1..l
    BY <1>k
  <2>3. QED BY <1>k, <1>2, <2>1, <2>2
<1>15. m + 1 = l => \A j \in 1..l : u[j] = s[j]
  <2>1. m + 1 = l => m = k
    BY <1>k
  <2>2. QED BY <1>2, <1>5, <1>9, <2>1
<1>16. Sub(s, K, l, u)
  BY <1>5, <1>13, <1>14, <1>15 DEF Sub
<1>17. QED BY <1>k, <1>4, <1>16

LEMMA SubSkips ==
  ASSUME NEW S, NEW s \in Seq(S), NEW K, NEW k \in Nat, k + 1 \notin K,
         NEW v \in Seq(S), Sub(s, K, k, v)
  PROVE  Sub(s, K, k + 1, v)
<1>m. PICK m \in Nat : m = Len(v)
  OBVIOUS
<1>k. PICK l \in Nat : l = k + 1
  OBVIOUS
<1>1. PICK h : Embeds(h, s, K, k, v)
  BY DEF Sub
<1>2. m <= k
  BY <1>m DEF Sub
<1>3. /\ h \in [1..m -> 1..k]
      /\ \A i, j \in 1..m : i < j => h[i] < h[j]
      /\ \A j \in 1..m : h[j] \in K /\ v[j] = s[h[j]]
      /\ \A i \in 1..k : i \in K => \E j \in 1..m : h[j] = i
  BY <1>1, <1>m DEF Embeds
<1>4. h \in [1..m -> 1..l]
  <2>1. 1..k \subseteq 1..l
    BY <1>k
  <2>2. QED BY <1>3, <2>1
<1>5. \A i \in 1..l : i \in K => i \in 1..k
  BY <1>k, LastOrEarlier
<1>6. \A i \in 1..l : i \in K => \E j \in 1..m : h[j] = i
  BY <1>3, <1>5
<1>7. Embeds(h, s, K, l, v)
  BY <1>m, <1>3, <1>4, <1>6 DEF Embeds
<1>8. m <= l /\ m # l /\ l \in 1..l /\ l \notin K
  BY <1>k, <1>2
<1>9. Sub(s, K, l, v)
  BY <1>m, <1>7, <1>8 DEF Sub
<1>10. QED BY <1>k, <1>9

\* What they are: a subsequence, which is all of s only if it is as long.
LEMMA ThoseFacts ==
  ASSUME NEW S, NEW s \in Seq(S), NEW K
  PROVE  /\ Those(s, K) \in Seq(S)
         /\ Sub(s, K, Len(s), Those(s, K))
         /\ Len(Those(s, K)) = Len(s) => Those(s, K) = s
         /\ DOMAIN s \subseteq K => Those(s, K) = s
<1>n. PICK n \in Nat : n = Len(s)
  OBVIOUS
<1>a. PICK g : Takes(g, S, s, K, n) /\ Those(s, K) = g[n]
  BY <1>n, ThoseSteps
<1>1. /\ g \in [0..n -> Seq(S)] /\ g[0] = <<>> /\ Those(s, K) = g[n]
      /\ \A k \in 1..n : g[k] = IF k \in K THEN Append(g[k - 1], s[k]) ELSE g[k - 1]
  BY <1>a DEF Takes
<1> DEFINE T == {k \in 0..n : Sub(s, K, k, g[k])}
<1>2. 0 \in T
  <2>1. PICK v : v = g[0]
    OBVIOUS
  <2>2. v = <<>>
    BY <1>1, <2>1
  <2>3. Len(v) = 0 /\ 1..0 = {}
    BY <2>2
  <2>4. Embeds([i \in 1..0 |-> i], s, K, 0, v)
    BY <2>3 DEF Embeds
  <2>5. Sub(s, K, 0, v)
    BY <2>3, <2>4 DEF Sub
  <2>6. 0 \in 0..n
    OBVIOUS
  <2>7. QED BY <2>1, <2>5, <2>6
<1>3. ASSUME NEW k \in 1..n, k - 1 \in T PROVE k \in T
  <2>1. PICK l \in Nat : l = k - 1
    OBVIOUS
  <2>2. k = l + 1 /\ l + 1 \in 1..Len(s) /\ l \in 0..n /\ k \in 0..n
    BY <1>n, <2>1
  <2>3. g[l] \in Seq(S) /\ Sub(s, K, l, g[l])
    BY <1>1, <1>3, <2>1, <2>2
  <2>4. g[k] = IF l + 1 \in K THEN Append(g[l], s[l + 1]) ELSE g[l]
    BY <1>1, <2>1, <2>2
  <2>5. PICK v \in Seq(S) : v = g[l]
    BY <2>3
  <2>6. Sub(s, K, l, v)
    BY <2>3, <2>5
  <2>7. CASE l + 1 \in K
    <3>1. Sub(s, K, l + 1, Append(v, s[l + 1]))
      BY <2>2, <2>6, <2>7, SubTakes
    <3>2. g[k] = Append(v, s[l + 1])
      BY <2>4, <2>5, <2>7
    <3>3. QED BY <2>2, <3>1, <3>2
  <2>8. CASE l + 1 \notin K
    <3>1. Sub(s, K, l + 1, v)
      BY <2>6, <2>8, SubSkips
    <3>2. g[k] = v
      BY <2>4, <2>5, <2>8
    <3>3. QED BY <2>2, <3>1, <3>2
  <2>9. QED BY <2>7, <2>8
<1>4. n \in T
  <2> HIDE DEF T
  <2>1. \A k \in 0..n : k \in T
    BY <1>2, <1>3, RangeInduction
  <2>2. n \in 0..n
    OBVIOUS
  <2>3. QED BY <2>1, <2>2
<1>5. PICK t \in Seq(S) : t = Those(s, K)
  <2>1. n \in 0..n
    OBVIOUS
  <2>2. QED BY <1>1, <2>1
<1>6. Sub(s, K, n, t)
  BY <1>1, <1>4, <1>5
<1>7. ASSUME Len(t) = n PROVE t = s
  <2>1. \A j \in 1..n : t[j] = s[j]
    BY <1>6, <1>7 DEF Sub
  <2>2. QED BY <1>n, <1>7, <2>1
<1>8. DOMAIN s \subseteq K => Len(t) = n
  BY <1>n, <1>6 DEF Sub
<1>9. QED BY <1>n, <1>5, <1>6, <1>7, <1>8

\* Those of a sequence that is as long, or has one element more.
LEMMA ThoseOfLonger ==
  ASSUME NEW S, NEW s \in Seq(S), NEW t \in Seq(S), NEW K, NEW L,
         Len(s) <= Len(t), Len(t) <= Len(s) + 1,
         \A k \in 1..Len(s) : t[k] = s[k] /\ (k \in K <=> k \in L)
  PROVE  Those(t, L) = IF Len(t) = Len(s) + 1 /\ Len(t) \in L THEN Append(Those(s, K), t[Len(t)])
                       ELSE Those(s, K)
<1>n. PICK n \in Nat : n = Len(s)
  OBVIOUS
<1>m. PICK m \in Nat : m = Len(t)
  OBVIOUS
<1>a. PICK g : Takes(g, S, s, K, n) /\ Those(s, K) = g[n]
  BY <1>n, ThoseSteps
<1>1. /\ g \in [0..n -> Seq(S)] /\ g[0] = <<>> /\ Those(s, K) = g[n]
      /\ \A k \in 1..n : g[k] = IF k \in K THEN Append(g[k - 1], s[k]) ELSE g[k - 1]
  BY <1>a DEF Takes
<1>b. PICK f : Takes(f, S, t, L, m) /\ Those(t, L) = f[m]
  BY <1>m, ThoseSteps
<1>2. /\ f \in [0..m -> Seq(S)] /\ f[0] = <<>> /\ Those(t, L) = f[m]
      /\ \A k \in 1..m : f[k] = IF k \in L THEN Append(f[k - 1], t[k]) ELSE f[k - 1]
  BY <1>b DEF Takes
<1> DEFINE T == {k \in 0..n : f[k] = g[k]}
<1>3. 0 \in T
  BY <1>n, <1>1, <1>2
<1>4. ASSUME NEW k \in 1..n, k - 1 \in T PROVE k \in T
  <2>1. k \in 1..m /\ k \in 0..n
    BY <1>n, <1>m
  <2>3. t[k] = s[k] /\ (k \in K <=> k \in L) /\ f[k - 1] = g[k - 1]
    BY <1>n, <1>4
  <2>2. f[k] = g[k]
    BY <1>1, <1>2, <2>1, <2>3
  <2>4. QED BY <2>1, <2>2
<1>5. f[n] = g[n]
  <2>1. n \in T
    <3> HIDE DEF T
    <3>1. \A k \in 0..n : k \in T
      BY <1>3, <1>4, RangeInduction
    <3>2. QED BY <3>1
  <2>2. QED BY <2>1
<1>6. m = n \/ (m = n + 1 /\ m \in 1..m /\ m - 1 = n)
  BY <1>n, <1>m
<1>7. CASE m = n
  BY <1>n, <1>m, <1>1, <1>2, <1>5, <1>7
<1>8. CASE m = n + 1
  <2>1. f[m] = IF m \in L THEN Append(g[n], t[m]) ELSE g[n]
    BY <1>2, <1>5, <1>6, <1>8
  <2>2. QED BY <1>n, <1>m, <1>1, <1>2, <1>8, <2>1
<1>9. QED BY <1>6, <1>7, <1>8

-----------------------------------------------------------------------------
(* Items                                                                   *)

Item == [kind : {"pinned", "transient"}, file : Files \cup {NoFile},
         launcher : Launchers \cup {Empty}, app : Apps \cup {NoApp}, unity : BOOLEAN]

\* An item has the launcher of its file and of its application.
Good(i) ==
  /\ i.kind = "pinned" => i.file \in Files /\ i.launcher = Content[i.file]
  /\ i.kind = "transient" => i.file = NoFile
  /\ i.app # NoApp => i.launcher = LauncherOf[i.app]

GoodItems == {i \in Item : Good(i)}

\* UniqueItems, of any sequence of items.
Unique(s) ==
  \A i, j \in DOMAIN s :
    i # j => /\ s[i].launcher = s[j].launcher => s[i].launcher = Empty
             /\ s[i].app = s[j].app => s[i].app = NoApp

Has(s, a) == \E k \in DOMAIN s : s[k].app = a

LEMMA GoodFacts ==
  ASSUME NEW i \in GoodItems
  PROVE  /\ i \in Item /\ i.kind \in {"pinned", "transient"} /\ i.file \in Files \cup {NoFile}
         /\ i.launcher \in Launchers \cup {Empty} /\ i.app \in Apps \cup {NoApp}
         /\ i.unity \in BOOLEAN
         /\ i.kind = "pinned" => i.file \in Files /\ i.launcher = Content[i.file]
                                  /\ i.launcher # Empty
         /\ i.kind = "transient" <=> i.file = NoFile
         /\ i.app # NoApp => i.launcher = LauncherOf[i.app]
<1>1. i \in Item /\ Good(i)
  BY DEF GoodItems
<1>2. \A f \in Files : f # NoFile /\ Content[f] # Empty
  BY DockAssumption DEF DockAssumption
<1>3. QED BY <1>1, <1>2 DEF Item, Good

LEMMA MadeFacts ==
  ASSUME NEW f \in Files
  PROVE  /\ Made(f, Content[f]) \in GoodItems
         /\ Made(f, Content[f]).kind = "pinned" /\ Made(f, Content[f]).file = f
         /\ Made(f, Content[f]).launcher = Content[f] /\ Made(f, Content[f]).app = NoApp
         /\ Content[f] # Empty /\ Content[f] # Absent /\ Content[f] \in Launchers
<1>1. Content[f] \in Launchers /\ Content[f] # Empty /\ Content[f] # Absent
  BY DockAssumption DEF DockAssumption
<1> DEFINE i == Made(f, Content[f])
<1>2. i = [kind |-> "pinned", file |-> f, launcher |-> Content[f], app |-> NoApp, unity |-> FALSE]
  BY <1>1 DEF Made
<1>3. i \in Item /\ i.kind = "pinned" /\ i.file = f /\ i.launcher = Content[f] /\ i.app = NoApp
  BY <1>1, <1>2 DEF Item
<1> HIDE DEF i
<1>4. i \in GoodItems
  BY <1>3 DEF GoodItems, Good
<1>5. QED BY <1>1, <1>3, <1>4 DEF i

LEMMA TransientFacts ==
  ASSUME NEW a \in Apps
  PROVE  /\ Transient(a) \in GoodItems
         /\ Transient(a).kind = "transient" /\ Transient(a).file = NoFile
         /\ Transient(a).launcher = LauncherOf[a] /\ Transient(a).app = a
         /\ a # NoApp
<1>1. LauncherOf[a] \in Launchers \cup {Empty} /\ a # NoApp
  BY DockAssumption DEF DockAssumption
<1> DEFINE i == Transient(a)
<1>3. /\ i \in Item /\ i.kind = "transient" /\ i.file = NoFile
      /\ i.launcher = LauncherOf[a] /\ i.app = a
  BY <1>1 DEF Item, Transient
<1> HIDE DEF i
<1>4. i \in GoodItems
  BY <1>1, <1>3 DEF GoodItems, Good
<1>5. QED BY <1>1, <1>3, <1>4 DEF i

\* The application of an item may change to one with the same launcher.
LEMMA AppFacts ==
  ASSUME NEW i \in GoodItems, NEW a \in Apps \cup {NoApp}, a # NoApp => i.launcher = LauncherOf[a]
  PROVE  LET u == [i EXCEPT !.app = a] IN
         /\ u \in GoodItems /\ u.app = a
         /\ u.kind = i.kind /\ u.file = i.file /\ u.launcher = i.launcher /\ u.unity = i.unity
<1> DEFINE u == [i EXCEPT !.app = a]
<1>1. i \in Item /\ Good(i)
  BY DEF GoodItems
<1>2. /\ u \in Item /\ u.app = a
      /\ u.kind = i.kind /\ u.file = i.file /\ u.launcher = i.launcher /\ u.unity = i.unity
  BY <1>1 DEF Item
<1> HIDE DEF u
<1>3. u \in GoodItems
  BY <1>1, <1>2 DEF GoodItems, Good
<1>4. QED BY <1>2, <1>3 DEF u

LEMMA UnityFacts ==
  ASSUME NEW i \in GoodItems, NEW b \in BOOLEAN
  PROVE  LET u == [i EXCEPT !.unity = b] IN
         /\ u \in GoodItems /\ u.app = i.app
         /\ u.kind = i.kind /\ u.file = i.file /\ u.launcher = i.launcher
<1> DEFINE u == [i EXCEPT !.unity = b]
<1>1. i \in Item /\ Good(i)
  BY DEF GoodItems
<1>2. /\ u \in Item /\ u.app = i.app
      /\ u.kind = i.kind /\ u.file = i.file /\ u.launcher = i.launcher
  BY <1>1 DEF Item
<1> HIDE DEF u
<1>3. u \in GoodItems
  BY <1>1, <1>2 DEF GoodItems, Good
<1>4. QED BY <1>2, <1>3 DEF u

\* A sequence whose elements come from different elements of another.
LEMMA UniqueFrom ==
  ASSUME NEW s, NEW t, NEW h, Unique(s),
         \A j \in DOMAIN t : /\ h[j] \in DOMAIN s /\ t[j].launcher = s[h[j]].launcher
                             /\ t[j].app = s[h[j]].app \/ t[j].app = NoApp,
         \A i, j \in DOMAIN t : h[i] = h[j] => i = j
  PROVE  Unique(t)
<1>1. SUFFICES ASSUME NEW i \in DOMAIN t, NEW j \in DOMAIN t, i # j
               PROVE  /\ t[i].launcher = t[j].launcher => t[i].launcher = Empty
                      /\ t[i].app = t[j].app => t[i].app = NoApp
  BY DEF Unique
<1>2. h[i] \in DOMAIN s /\ h[j] \in DOMAIN s /\ h[i] # h[j]
  BY <1>1
<1>3. /\ s[h[i]].launcher = s[h[j]].launcher => s[h[i]].launcher = Empty
      /\ s[h[i]].app = s[h[j]].app => s[h[i]].app = NoApp
  BY <1>2 DEF Unique
<1>4. /\ t[i].launcher = s[h[i]].launcher /\ (t[i].app = s[h[i]].app \/ t[i].app = NoApp)
      /\ t[j].launcher = s[h[j]].launcher /\ (t[j].app = s[h[j]].app \/ t[j].app = NoApp)
  OBVIOUS
<1>5. QED BY <1>3, <1>4

\* All but the element at p come from another sequence.
LEMMA UniqueWith ==
  ASSUME NEW s, NEW t, NEW h, NEW p \in DOMAIN t, Unique(s),
         \A j \in DOMAIN t \ {p} : /\ h[j] \in DOMAIN s /\ t[j].launcher = s[h[j]].launcher
                                   /\ t[j].app = s[h[j]].app,
         \A i, j \in DOMAIN t \ {p} : h[i] = h[j] => i = j,
         t[p].launcher # Empty => \A k \in DOMAIN s : s[k].launcher # t[p].launcher,
         t[p].app # NoApp => \A k \in DOMAIN s : s[k].app # t[p].app
  PROVE  Unique(t)
<1>1. SUFFICES ASSUME NEW i \in DOMAIN t, NEW j \in DOMAIN t, i # j
               PROVE  /\ t[i].launcher = t[j].launcher => t[i].launcher = Empty
                      /\ t[i].app = t[j].app => t[i].app = NoApp
  BY DEF Unique
<1>2. CASE i = p
  <2>1. h[j] \in DOMAIN s /\ t[j].launcher = s[h[j]].launcher /\ t[j].app = s[h[j]].app
    BY <1>1, <1>2
  <2>2. QED BY <1>2, <2>1
<1>3. CASE j = p
  <2>1. h[i] \in DOMAIN s /\ t[i].launcher = s[h[i]].launcher /\ t[i].app = s[h[i]].app
    BY <1>1, <1>3
  <2>2. QED BY <1>3, <2>1
<1>4. CASE i # p /\ j # p
  <2>1. /\ h[i] \in DOMAIN s /\ t[i].launcher = s[h[i]].launcher /\ t[i].app = s[h[i]].app
        /\ h[j] \in DOMAIN s /\ t[j].launcher = s[h[j]].launcher /\ t[j].app = s[h[j]].app
        /\ h[i] # h[j]
    BY <1>1, <1>4
  <2>2. QED BY <2>1 DEF Unique
<1>5. QED BY <1>2, <1>3, <1>4

\* Where item_for_application looks.
LEMMA item_for_application_Facts ==
  ASSUME NEW s \in Seq(GoodItems), NEW a \in Apps
  PROVE  LET k == item_for_application(s, a) IN
         \/ /\ k = 0
            /\ \A j \in DOMAIN s : /\ s[j].app # a
                                   /\ s[j].launcher # Empty => s[j].launcher # LauncherOf[a]
         \/ /\ k \in DOMAIN s /\ k # 0 /\ s[k].launcher = LauncherOf[a]
            /\ s[k].app = a \/ s[k].launcher # Empty
<1>n. PICK n \in Nat : n = Len(s) /\ DOMAIN s = 1..n
  OBVIOUS
<1> DEFINE Found(i) == /\ IsApplicationItem(i)
                       /\ i.app = a \/ (i.launcher # Empty /\ i.launcher = LauncherOf[a])
           I == {k \in 1..n : Found(s[k])}
           k == item_for_application(s, a)
<1>1. k = IF I # {} THEN Min(I) ELSE 0
  BY <1>n DEF item_for_application, SelectInSeq
<1>2. a # NoApp
  BY DockAssumption DEF DockAssumption
<1>3. \A j \in 1..n : s[j] \in GoodItems
  BY <1>n
<1>4. \A j \in 1..n : IsApplicationItem(s[j]) /\ (s[j].app = a => s[j].launcher = LauncherOf[a])
  BY <1>2, <1>3, GoodFacts DEF IsApplicationItem
<1> HIDE DEF k
<1>5. CASE I = {}
  <2>1. k = 0
    BY <1>1, <1>5
  <2>2. \A j \in 1..n : ~Found(s[j])
    BY <1>5
  <2>3. QED BY <1>n, <1>4, <2>1, <2>2 DEF k
<1>6. CASE I # {}
  <2>1. I \subseteq Nat
    OBVIOUS
  <2> HIDE DEF I
  <2>2. \E x \in I : \A y \in I : x <= y
    BY <1>6, <2>1, SmallestNumber
  <2>3. k \in I
    BY <1>1, <1>6, <2>2 DEF Min
  <2>4. k \in 1..n /\ Found(s[k])
    BY <2>3 DEF I
  <2>5. k # 0
    BY <2>4
  <2>6. QED BY <1>n, <1>4, <2>4, <2>5 DEF k
<1>7. QED BY <1>5, <1>6

\* t is s with applications put on some items, and with unpinned items added
\* at the end.
Grown(s, t) ==
  /\ t \in Seq(GoodItems) /\ Unique(t) /\ Len(s) <= Len(t)
  /\ \A k \in DOMAIN s : t[k].kind = s[k].kind /\ t[k].file = s[k].file
                         /\ t[k].launcher = s[k].launcher
  /\ \A k \in DOMAIN t : k \in DOMAIN s \/ t[k].kind = "transient"
  /\ \A a \in Apps : Has(s, a) => Has(t, a)
  /\ FilesOf(t) = FilesOf(s)

LEMMA GrownSelf ==
  ASSUME NEW s \in Seq(GoodItems), Unique(s)
  PROVE  Grown(s, s)
BY DEF Grown

LEMMA GrownTrans ==
  ASSUME NEW s \in Seq(GoodItems), NEW t, NEW u, Grown(s, t), Grown(t, u)
  PROVE  Grown(s, u)
<1>1. t \in Seq(GoodItems) /\ u \in Seq(GoodItems) /\ Len(s) <= Len(t) /\ Len(t) <= Len(u)
  BY DEF Grown
<1>2. DOMAIN s \subseteq DOMAIN t
  BY <1>1
<1>3. \A k \in DOMAIN s : u[k].kind = s[k].kind /\ u[k].file = s[k].file
                          /\ u[k].launcher = s[k].launcher
  BY <1>2 DEF Grown
<1>4. \A k \in DOMAIN u : k \in DOMAIN s \/ u[k].kind = "transient"
  BY DEF Grown
<1>5. QED BY <1>1, <1>3, <1>4 DEF Grown

\* The names do not depend on anything but the kinds and the files.
LEMMA FilesSame ==
  ASSUME NEW s \in Seq(GoodItems), NEW t \in Seq(GoodItems), Len(s) = Len(t),
         \A k \in DOMAIN s : t[k].kind = s[k].kind /\ t[k].file = s[k].file
  PROVE  FilesOf(t) = FilesOf(s)
<1>1. DOMAIN s = DOMAIN t
  OBVIOUS
<1>2. Pinned(t) = Pinned(s)
  BY <1>1 DEF Pinned
<1>3. [k \in DOMAIN t |-> t[k].file] = [k \in DOMAIN s |-> s[k].file]
  BY <1>1
<1>4. QED BY <1>2, <1>3 DEF FilesOf

LEMMA FilesAppend ==
  ASSUME NEW s \in Seq(GoodItems), NEW i \in GoodItems, i.kind = "transient"
  PROVE  FilesOf(Append(s, i)) = FilesOf(s)
<1>1. PICK t : t = Append(s, i)
  OBVIOUS
<1>2. PICK n \in Nat : n = Len(s)
  OBVIOUS
<1>3. t \in Seq(GoodItems) /\ Len(t) = n + 1 /\ t[n + 1] = i /\ \A k \in 1..n : t[k] = s[k]
  BY <1>1, <1>2
<1> DEFINE F == Files \cup {NoFile}
<1>4. PICK p : p = [k \in DOMAIN s |-> s[k].file]
  OBVIOUS
<1>5. PICK q : q = [k \in DOMAIN t |-> t[k].file]
  OBVIOUS
<1>6. DOMAIN s = 1..n /\ DOMAIN t = 1..n + 1 /\ \A k \in 1..n : s[k] \in GoodItems
  BY <1>2, <1>3
<1>7. \A k \in 1..n + 1 : t[k] \in GoodItems
  BY <1>3, <1>6
<1>8. p \in Seq(F) /\ Len(p) = n
  <2>1. p \in [1..n -> F]
    BY <1>4, <1>6, GoodFacts
  <2>2. QED BY <2>1
<1>9. q \in Seq(F) /\ Len(q) = n + 1
  <2>1. q \in [1..n + 1 -> F]
    BY <1>5, <1>6, <1>7, GoodFacts
  <2>2. QED BY <2>1
<1>10. \A k \in 1..n : k \in 1..n + 1
  BY <1>2
<1>11. \A k \in 1..n : q[k] = p[k] /\ (k \in Pinned(s) <=> k \in Pinned(t))
  BY <1>3, <1>4, <1>5, <1>6, <1>10 DEF Pinned
<1>12. n + 1 \notin Pinned(t)
  BY <1>3 DEF Pinned
<1> HIDE DEF F
<1>13. Those(q, Pinned(t)) = Those(p, Pinned(s))
  <2>1. Len(p) <= Len(q) /\ Len(q) <= Len(p) + 1
    BY <1>8, <1>9
  <2>2. \A k \in 1..Len(p) : q[k] = p[k] /\ (k \in Pinned(s) <=> k \in Pinned(t))
    BY <1>8, <1>11
  <2>3. Len(q) \notin Pinned(t)
    BY <1>9, <1>12
  <2>4. PICK K : K = Pinned(s)
    OBVIOUS
  <2>5. PICK L : L = Pinned(t)
    OBVIOUS
  <2>6. Those(q, L) = Those(p, K)
    BY <1>8, <1>9, <2>1, <2>2, <2>3, <2>4, <2>5, ThoseOfLonger
  <2>7. QED BY <2>4, <2>5, <2>6
<1>14. QED BY <1>1, <1>4, <1>5, <1>13 DEF FilesOf

\* The names of the files of good items are files, each once.
LEMMA FilesFacts ==
  ASSUME NEW s \in Seq(GoodItems), Unique(s)
  PROVE  /\ FilesOf(s) \in Seq(Files)
         /\ \A i, j \in DOMAIN FilesOf(s) : FilesOf(s)[i] = FilesOf(s)[j] => i = j
<1>1. PICK n \in Nat : n = Len(s)
  OBVIOUS
<1>2. DOMAIN s = 1..n /\ \A k \in 1..n : s[k] \in GoodItems
  BY <1>1
<1>3. PICK p : p = [k \in DOMAIN s |-> s[k].file]
  OBVIOUS
<1> DEFINE F == Files \cup {NoFile}
<1>4. p \in Seq(F) /\ Len(p) = n /\ \A k \in 1..n : p[k] = s[k].file
  <2>1. p \in [1..n -> F]
    BY <1>2, <1>3, GoodFacts
  <2>2. QED BY <1>2, <1>3, <2>1
<1> HIDE DEF F
<1>5. PICK K : K = Pinned(s)
  OBVIOUS
<1>6. FilesOf(s) = Those(p, K)
  BY <1>3, <1>5 DEF FilesOf
<1>7. PICK t : t = Those(p, K)
  OBVIOUS
<1>8. t \in Seq(F) /\ Sub(p, K, n, t)
  BY <1>4, <1>7, ThoseFacts
<1>9. PICK h : Embeds(h, p, K, n, t)
  BY <1>8 DEF Sub
<1>10. PICK m \in Nat : m = Len(t) /\ DOMAIN t = 1..m
  BY <1>8
<1>11. /\ h \in [1..m -> 1..n]
       /\ \A i, j \in 1..m : i < j => h[i] < h[j]
       /\ \A j \in 1..m : h[j] \in K /\ t[j] = p[h[j]]
  BY <1>9, <1>10 DEF Embeds
<1>12. \A j \in 1..m : t[j] = s[h[j]].file /\ s[h[j]].kind = "pinned" /\ s[h[j]] \in GoodItems
  <2>1. SUFFICES ASSUME NEW j \in 1..m
                 PROVE  t[j] = s[h[j]].file /\ s[h[j]].kind = "pinned" /\ s[h[j]] \in GoodItems
    OBVIOUS
  <2>2. h[j] \in 1..n /\ h[j] \in Pinned(s) /\ t[j] = p[h[j]]
    BY <1>5, <1>11
  <2>3. QED BY <1>2, <1>4, <2>2, GoodFacts DEF Pinned
<1>13. \A j \in 1..m : t[j] \in Files
  BY <1>12, GoodFacts
<1>14. t \in Seq(Files)
  BY <1>8, <1>10, <1>13
<1>15. ASSUME NEW i \in 1..m, NEW j \in 1..m, t[i] = t[j] PROVE i = j
  <2>1. h[i] \in 1..n /\ h[j] \in 1..n
    BY <1>11
  <2>2. /\ s[h[i]].launcher = Content[t[i]] /\ s[h[j]].launcher = Content[t[i]]
        /\ s[h[i]].launcher # Empty
    BY <1>12, <1>15, GoodFacts
  <2>3. h[i] = h[j]
    BY <1>2, <2>1, <2>2 DEF Unique
  <2>4. ~(i < j) /\ ~(j < i)
    BY <1>11, <2>1, <2>3
  <2>5. QED BY <2>4
<1>16. QED BY <1>6, <1>7, <1>10, <1>14, <1>15

\* An item with the launcher of an application gets the application.
LEMMA SetAppFacts ==
  ASSUME NEW s \in Seq(GoodItems), Unique(s), NEW a \in Apps, NEW k \in DOMAIN s,
         s[k].launcher = LauncherOf[a], s[k].app = a \/ s[k].launcher # Empty
  PROVE  Grown(s, [s EXCEPT ![k].app = a]) /\ Has([s EXCEPT ![k].app = a], a)
<1>1. PICK t : t = [s EXCEPT ![k].app = a]
  OBVIOUS
<1>2. PICK i : i = [s[k] EXCEPT !.app = a]
  OBVIOUS
<1>3. s[k] \in GoodItems /\ DOMAIN s = 1..Len(s) /\ Len(s) \in Nat /\ a # NoApp
  BY DockAssumption DEF DockAssumption
<1>4. /\ i \in GoodItems /\ i.app = a
      /\ i.kind = s[k].kind /\ i.file = s[k].file /\ i.launcher = s[k].launcher
  BY <1>2, <1>3, AppFacts
<1>5. t = [s EXCEPT ![k] = i]
  BY <1>1, <1>2
<1>6. /\ t \in Seq(GoodItems) /\ Len(t) = Len(s) /\ DOMAIN t = DOMAIN s
      /\ t[k] = i /\ \A j \in DOMAIN s : j # k => t[j] = s[j]
  BY <1>3, <1>4, <1>5
<1>7. \A j \in DOMAIN s : t[j].kind = s[j].kind /\ t[j].file = s[j].file /\ t[j].launcher = s[j].launcher
  BY <1>4, <1>6
<1>8. \A j \in DOMAIN s : s[j].app # NoApp => s[j].launcher = LauncherOf[s[j].app] /\ s[j].app \in Apps
  <2>1. \A j \in DOMAIN s : s[j] \in GoodItems
    OBVIOUS
  <2>2. QED BY <2>1, GoodFacts
<1>9. \A j \in DOMAIN s : s[j].app = a => j = k
  <2>1. SUFFICES ASSUME NEW j \in DOMAIN s, s[j].app = a, j # k PROVE FALSE
    OBVIOUS
  <2>2. s[j].launcher = s[k].launcher
    BY <1>3, <1>8, <2>1
  <2>3. s[k].launcher = Empty
    BY <2>1, <2>2 DEF Unique
  <2>4. s[k].app = s[j].app
    BY <2>1, <2>3
  <2>5. QED BY <1>3, <2>1, <2>4 DEF Unique
<1>10. Unique(t)
  <2>1. SUFFICES ASSUME NEW x \in DOMAIN t, NEW y \in DOMAIN t, x # y
                 PROVE  /\ t[x].launcher = t[y].launcher => t[x].launcher = Empty
                        /\ t[x].app = t[y].app => t[x].app = NoApp
    BY DEF Unique
  <2>2. t[x].launcher = t[y].launcher => t[x].launcher = Empty
    BY <1>6, <1>7, <2>1 DEF Unique
  <2>3. t[x].app = t[y].app => t[x].app = NoApp
    <3>1. CASE x = k
      BY <1>4, <1>6, <1>9, <2>1, <3>1
    <3>2. CASE y = k
      BY <1>4, <1>6, <1>9, <2>1, <3>2
    <3>3. CASE x # k /\ y # k
      BY <1>6, <2>1, <3>3 DEF Unique
    <3>4. QED BY <3>1, <3>2, <3>3
  <2>4. QED BY <2>2, <2>3
<1>11. Has(t, a)
  BY <1>4, <1>6 DEF Has
<1>12. ASSUME NEW b \in Apps, Has(s, b) PROVE Has(t, b)
  <2>1. PICK j \in DOMAIN s : s[j].app = b
    BY <1>12 DEF Has
  <2>2. CASE j # k
    BY <1>6, <2>1, <2>2 DEF Has
  <2>3. CASE j = k
    <3>1. b # NoApp /\ LauncherOf[b] = LauncherOf[a]
      BY <1>8, <2>1, <2>3, DockAssumption DEF DockAssumption
    <3>2. b = a \/ LauncherOf[a] = Empty
      BY <3>1, DockAssumption DEF DockAssumption
    <3>3. b = a
      BY <2>1, <2>3, <3>2
    <3>4. QED BY <1>11, <3>3
  <2>4. QED BY <2>2, <2>3
<1>13. FilesOf(t) = FilesOf(s)
  BY <1>6, <1>7, FilesSame
<1>14. Grown(s, t)
  BY <1>6, <1>7, <1>10, <1>12, <1>13 DEF Grown
<1>15. QED BY <1>1, <1>11, <1>14

\* An application that has no item gets one at the end.
LEMMA AddedFacts ==
  ASSUME NEW s \in Seq(GoodItems), Unique(s), NEW a \in Apps,
         \A j \in DOMAIN s : /\ s[j].app # a
                             /\ s[j].launcher # Empty => s[j].launcher # LauncherOf[a]
  PROVE  Grown(s, Append(s, Transient(a))) /\ Has(Append(s, Transient(a)), a)
<1>1. PICK i \in GoodItems : i = Transient(a)
  BY TransientFacts
<1>2. /\ i.kind = "transient" /\ i.file = NoFile /\ i.launcher = LauncherOf[a]
      /\ i.app = a /\ a # NoApp
  BY <1>1, TransientFacts
<1>3. PICK t : t = Append(s, i)
  OBVIOUS
<1>4. PICK n \in Nat : n = Len(s) /\ DOMAIN s = 1..n
  OBVIOUS
<1>5. /\ t \in Seq(GoodItems) /\ Len(t) = n + 1 /\ DOMAIN t = 1..n + 1
      /\ t[n + 1] = i /\ \A k \in 1..n : t[k] = s[k]
  BY <1>3, <1>4
<1>6. /\ n + 1 \in DOMAIN t /\ DOMAIN t \ {n + 1} = DOMAIN s
      /\ \A k \in DOMAIN t : k \in DOMAIN s \/ k = n + 1
  BY <1>4, <1>5
<1>7. Unique(t)
  <2>1. PICK h : h = [k \in DOMAIN s |-> k]
    OBVIOUS
  <2>2. PICK p \in DOMAIN t : p = n + 1
    BY <1>6
  <2>3. DOMAIN t \ {p} = DOMAIN s /\ t[p] = i
    BY <1>5, <1>6, <2>2
  <2>4. \A j \in DOMAIN s : h[j] = j /\ t[j] = s[j]
    BY <1>4, <1>5, <2>1
  <2>5. \A j \in DOMAIN t \ {p} : /\ h[j] \in DOMAIN s /\ t[j].launcher = s[h[j]].launcher
                                  /\ t[j].app = s[h[j]].app
    BY <2>3, <2>4
  <2>6. \A k, j \in DOMAIN t \ {p} : h[k] = h[j] => k = j
    BY <2>3, <2>4
  <2>7. /\ t[p].launcher # Empty => \A k \in DOMAIN s : s[k].launcher # t[p].launcher
        /\ t[p].app # NoApp => \A k \in DOMAIN s : s[k].app # t[p].app
    BY <1>2, <2>3
  <2>8. QED BY <2>5, <2>6, <2>7, UniqueWith
<1>8. \A b \in Apps : Has(s, b) => Has(t, b)
  BY <1>4, <1>5, <1>6 DEF Has
<1>9. Has(t, a)
  BY <1>2, <1>5, <1>6 DEF Has
<1>10. FilesOf(t) = FilesOf(s)
  BY <1>2, <1>3, FilesAppend
<1>11. \A k \in DOMAIN s : t[k] = s[k]
  BY <1>4, <1>5
<1>12. \A k \in DOMAIN t : k \in DOMAIN s \/ t[k].kind = "transient"
  BY <1>2, <1>5, <1>6
<1>13. Len(s) <= Len(t)
  BY <1>4, <1>5
<1>14. Grown(s, t)
  BY <1>5, <1>7, <1>8, <1>10, <1>11, <1>12, <1>13 DEF Grown
<1>15. QED BY <1>1, <1>3, <1>9, <1>14

LEMMA MatchFacts ==
  ASSUME NEW s \in Seq(GoodItems), Unique(s), NEW a \in Apps,
         NEW u, u = s \/ u = Append(s, Transient(a))
  PROVE  Grown(s, Match(s, a, u)) /\ (u = s \/ Has(Match(s, a, u), a))
<1>1. PICK k : k = item_for_application(s, a)
  OBVIOUS
<1>2. Match(s, a, u) = IF k = 0 THEN u ELSE [s EXCEPT ![k].app = a]
  BY <1>1 DEF Match
<1>3. CASE k = 0
  <2>1. \A j \in DOMAIN s : /\ s[j].app # a
                            /\ s[j].launcher # Empty => s[j].launcher # LauncherOf[a]
    BY <1>1, <1>3, item_for_application_Facts
  <2>2. Match(s, a, u) = u
    BY <1>2, <1>3
  <2>3. CASE u = s
    BY <2>2, <2>3, GrownSelf
  <2>4. CASE u = Append(s, Transient(a))
    BY <2>1, <2>2, <2>4, AddedFacts
  <2>5. QED BY <2>3, <2>4
<1>4. CASE k # 0
  <2>1. k \in DOMAIN s /\ s[k].launcher = LauncherOf[a] /\ (s[k].app = a \/ s[k].launcher # Empty)
    BY <1>1, <1>4, item_for_application_Facts
  <2>2. Match(s, a, u) = [s EXCEPT ![k].app = a]
    BY <1>2, <1>4
  <2>3. k \in DOMAIN s /\ s[k].launcher = LauncherOf[a] /\ (s[k].app = a \/ s[k].launcher # Empty)
    BY <2>1
  <2>4. Grown(s, [s EXCEPT ![k].app = a]) /\ Has([s EXCEPT ![k].app = a], a)
    BY <2>3, SetAppFacts
  <2>5. QED BY <2>2, <2>4
<1>5. QED BY <1>3, <1>4

LEMMA AddTransientFacts ==
  ASSUME NEW s \in Seq(GoodItems), Unique(s), NEW a \in Apps, NEW visible
  PROVE  /\ Grown(s, AddTransient(s, a, visible))
         /\ a \in visible => Has(AddTransient(s, a, visible), a)
<1>1. PICK u : u = IF a \in visible THEN Append(s, Transient(a)) ELSE s
  OBVIOUS
<1>2. AddTransient(s, a, visible) = Match(s, a, u)
  BY <1>1 DEF AddTransient
<1>3. u = s \/ u = Append(s, Transient(a))
  BY <1>1
<1>4. Grown(s, Match(s, a, u)) /\ (u = s \/ Has(Match(s, a, u), a))
  BY <1>3, MatchFacts
<1>5. CASE a \in visible
  <2>1. u = Append(s, Transient(a)) /\ u # s
    <3>1. Len(Append(s, Transient(a))) # Len(s)
      BY TransientFacts
    <3>2. QED BY <1>1, <1>5, <3>1
  <2>2. QED BY <1>2, <1>4, <2>1
<1>6. CASE a \notin visible
  BY <1>2, <1>4, <1>6
<1>7. QED BY <1>5, <1>6

\* SetToSeq lists a finite set.
LEMMA ListFacts ==
  ASSUME NEW T, IsFiniteSet(T)
  PROVE  /\ SetToSeq(T) \in Seq(T)
         /\ \A x \in T : \E k \in DOMAIN SetToSeq(T) : SetToSeq(T)[k] = x
<1>1. PICK n \in Nat : n = Cardinality(T)
  BY FS_CardinalityType
<1>2. \E f \in [1..n -> T] : IsInjective(f)
  <2>1. PICK f : f \in Bijection(1..n, T)
    BY <1>1, FS_CardinalityType DEF ExistsBijection
  <2>2. f \in [1..n -> T] /\ IsInjective(f)
    BY <2>1 DEF Bijection, Injection, IsInjective
  <2>3. QED BY <2>2
<1>3. PICK o : o = SetToSeq(T)
  OBVIOUS
<1>4. o \in [1..n -> T] /\ IsInjective(o)
  BY <1>1, <1>2, <1>3 DEF SetToSeq
<1>5. o \in Injection(1..n, T)
  BY <1>4 DEF Injection, IsInjective
<1>6. IsFiniteSet(1..n) /\ Cardinality(1..n) = n
  BY FS_Interval
<1>7. o \in Surjection(1..n, T)
  BY <1>1, <1>5, <1>6, FS_Injection
<1>8. \A x \in T : \E k \in 1..n : o[k] = x
  BY <1>7 DEF Surjection
<1>9. o \in Seq(T) /\ DOMAIN o = 1..n
  BY <1>4
<1>10. QED BY <1>3, <1>8, <1>9

GoodDocks == {t \in Seq(GoodItems) : Unique(t)}

\* What add_transient_items makes of s.
LEMMA AddTransientsFacts ==
  ASSUME NEW s \in GoodDocks, NEW up \in SUBSET Apps, NEW visible \in SUBSET up
  PROVE  /\ Grown(s, AddTransients(s, up, visible))
         /\ \A a \in visible : Has(AddTransients(s, up, visible), a)
<1>1. PICK running : running = SetToSeq(up)
  OBVIOUS
<1>2. /\ running \in Seq(up)
      /\ \A x \in up : \E k \in DOMAIN running : running[k] = x
  <2>1. IsFiniteSet(up)
    BY FS_Subset, DockAssumption DEF DockAssumption
  <2>2. QED BY <1>1, <2>1, ListFacts
<1>3. PICK n \in Nat : n = Len(running) /\ DOMAIN running = 1..n
  BY <1>2
<1>4. \A k \in 1..n : running[k] \in Apps
  BY <1>2, <1>3
<1> DEFINE body(o) == [k \in 0..n |-> IF k = 0 THEN s ELSE AddTransient(o[k - 1], running[k], visible)]
           added == CHOOSE o : o = body(o)
           step == [k \in 1..n |-> [t \in GoodDocks |-> AddTransient(t, running[k], visible)]]
<1>5. AddTransients(s, up, visible) = added[n]
  BY <1>1, <1>3 DEF AddTransients
<1>6. ASSUME NEW t \in GoodDocks, NEW k \in 1..n
      PROVE  /\ Grown(t, AddTransient(t, running[k], visible))
             /\ running[k] \in visible => Has(AddTransient(t, running[k], visible), running[k])
             /\ AddTransient(t, running[k], visible) \in GoodDocks
  <2>1. PICK a \in Apps : a = running[k]
    BY <1>4
  <2>2. t \in Seq(GoodItems) /\ Unique(t)
    BY DEF GoodDocks
  <2>3. /\ Grown(t, AddTransient(t, a, visible))
        /\ a \in visible => Has(AddTransient(t, a, visible), a)
    BY <2>2, AddTransientFacts
  <2>4. AddTransient(t, a, visible) \in GoodDocks
    BY <2>3 DEF Grown, GoodDocks
  <2>5. QED BY <2>1, <2>3, <2>4
<1>7. step \in [1..n -> [GoodDocks -> GoodDocks]]
  BY <1>6
<1>8. \A k \in 1..n, t \in GoodDocks : step[k][t] = AddTransient(t, running[k], visible)
  OBVIOUS
<1> HIDE DEF step
<1>9. PICK g : Folded(g, GoodDocks, s, n, step)
  BY <1>7, FoldedExists
<1>10. g \in [0..n -> GoodDocks] /\ g[0] = s /\ \A k \in 1..n : g[k] = step[k][g[k - 1]]
  BY <1>9 DEF Folded
<1>11. g = body(g)
  <2>1. ASSUME NEW k \in 0..n PROVE g[k] = body(g)[k]
    <3>1. CASE k = 0
      BY <1>10, <3>1
    <3>2. CASE k # 0
      <4>1. k \in 1..n /\ k - 1 \in 0..n
        BY <3>2
      <4>2. g[k - 1] \in GoodDocks
        BY <1>10, <4>1
      <4>3. g[k] = AddTransient(g[k - 1], running[k], visible)
        BY <1>8, <1>10, <4>1, <4>2
      <4>4. QED BY <3>2, <4>3
    <3>3. QED BY <3>1, <3>2
  <2>2. QED BY <1>10, <2>1
<1>12. added = body(added)
  <2> HIDE DEF body
  <2>1. QED BY <1>11
<1> HIDE DEF added
<1>13. added[0] = s /\ \A k \in 1..n : added[k] = AddTransient(added[k - 1], running[k], visible)
  BY <1>12
<1> HIDE DEF body
<1> DEFINE Done(k) == /\ added[k] \in GoodDocks /\ Grown(s, added[k])
                      /\ \A j \in 1..k : running[j] \in visible => Has(added[k], running[j])
           T == {k \in 0..n : Done(k)}
<1>14. 0 \in T
  <2>1. Grown(s, s)
    BY GrownSelf DEF GoodDocks
  <2>2. QED BY <1>13, <2>1
<1>15. ASSUME NEW k \in 1..n, k - 1 \in T PROVE k \in T
  <2>1. PICK t \in GoodDocks : t = added[k - 1]
    BY <1>15
  <2>2. PICK u : u = added[k]
    OBVIOUS
  <2>3. Grown(s, t) /\ \A j \in 1..k - 1 : running[j] \in visible => Has(t, running[j])
    BY <1>15, <2>1
  <2>4. u = AddTransient(t, running[k], visible)
    BY <1>13, <2>1, <2>2
  <2>5. /\ Grown(t, u) /\ u \in GoodDocks
        /\ running[k] \in visible => Has(u, running[k])
    BY <1>6, <2>4
  <2>6. Grown(s, u)
    BY <2>3, <2>5, GrownTrans DEF GoodDocks
  <2>7. ASSUME NEW j \in 1..k, running[j] \in visible PROVE Has(u, running[j])
    <3>1. CASE j = k
      BY <2>5, <2>7, <3>1
    <3>2. CASE j # k
      <4>1. j \in 1..k - 1 /\ j \in 1..n
        BY <3>2
      <4>2. Has(t, running[j]) /\ running[j] \in Apps
        BY <1>4, <2>3, <2>7, <4>1
      <4>3. QED BY <2>5, <4>2 DEF Grown
    <3>3. QED BY <3>1, <3>2
  <2>8. k \in 0..n
    OBVIOUS
  <2>9. QED BY <2>2, <2>5, <2>6, <2>7, <2>8
<1>16. Done(n)
  <2>1. \A k \in 0..n : k \in T
    <3> HIDE DEF T
    <3>1. QED BY <1>14, <1>15, RangeInduction
  <2>2. n \in 0..n
    OBVIOUS
  <2>3. QED BY <2>1, <2>2
<1>17. ASSUME NEW a \in visible PROVE Has(added[n], a)
  <2>1. PICK k \in 1..n : running[k] = a
    BY <1>2, <1>3
  <2>2. QED BY <1>16, <2>1
<1>18. QED BY <1>5, <1>16, <1>17

-----------------------------------------------------------------------------
(* The queue of new files                                                  *)

\* What Process works on.
AnyItem == [kind : {"pinned", "file", "transient"}, file : Files \cup {NoFile},
            launcher : Launchers \cup {Empty}, app : Apps \cup {NoApp}, unity : BOOLEAN]
Stores == [items : Seq(AnyItem), disk : [Files -> Launchers \cup {Empty, Absent}],
           created : SUBSET Files]

LEMMA ProcessFileCloses ==
  ASSUME NEW v \in Stores, NEW f \in Files
  PROVE  ProcessFile(v, f) \in Stores
<1>1. /\ v.items \in Seq(AnyItem) /\ v.disk \in [Files -> Launchers \cup {Empty, Absent}]
      /\ v.created \in SUBSET Files
  BY DEF Stores
<1>2. PICK l : l = IF v.disk[f] = Absent THEN Empty ELSE v.disk[f]
  OBVIOUS
<1>3. PICK c : c = IF v.disk[f] = Absent THEN v.created \cup {f} ELSE v.created
  OBVIOUS
<1>4. l \in Launchers \cup {Empty} /\ c \in SUBSET Files
  BY <1>1, <1>2, <1>3
<1>5. PICK i : i = Made(f, l)
  OBVIOUS
<1>6. i \in AnyItem
  BY <1>4, <1>5 DEF Made, AnyItem
<1>7. Append(v.items, i) \in Seq(AnyItem)
  BY <1>1, <1>6
<1>8. /\ [v.disk EXCEPT ![f] = Absent] \in [Files -> Launchers \cup {Empty, Absent}]
      /\ [v.disk EXCEPT ![f] = l] \in [Files -> Launchers \cup {Empty, Absent}]
  BY <1>1, <1>4
<1>9. \/ ProcessFile(v, f) = v
      \/ ProcessFile(v, f) = [v EXCEPT !.disk = [@ EXCEPT ![f] = Absent], !.created = c]
      \/ ProcessFile(v, f) = [v EXCEPT !.items = Append(@, i), !.disk = [@ EXCEPT ![f] = l], !.created = c]
  BY <1>2, <1>3, <1>5 DEF ProcessFile
<1>10. [v EXCEPT !.disk = [@ EXCEPT ![f] = Absent], !.created = c] \in Stores
  BY <1>4, <1>8 DEF Stores
<1>11. [v EXCEPT !.items = Append(@, i), !.disk = [@ EXCEPT ![f] = l], !.created = c] \in Stores
  BY <1>4, <1>7, <1>8 DEF Stores
<1>12. QED BY <1>9, <1>10, <1>11

\* Processing a file that is there: an item for it is made, or its launcher
\* has one and the file is deleted, unless it has an item itself.
LEMMA ProcessFileFacts ==
  ASSUME NEW v \in Stores, v.items \in GoodDocks, NEW f \in Files, v.disk[f] = Content[f]
  PROVE  LET u == ProcessFile(v, f) IN
         /\ u \in Stores /\ u.items \in GoodDocks /\ u.created = v.created
         /\ \/ u.items = v.items
            \/ u.items = Append(v.items, Made(f, Content[f]))
         /\ \A g \in Files : \/ u.disk[g] = v.disk[g]
                             \/ /\ g = f /\ u.disk[g] = Absent /\ u.items = v.items
                                /\ \A k \in DOMAIN v.items : v.items[k].file # f
<1>1. PICK u : u = ProcessFile(v, f)
  OBVIOUS
<1>2. u \in Stores
  BY <1>1, ProcessFileCloses
<1>3. PICK i \in GoodItems : i = Made(f, Content[f])
  BY MadeFacts
<1>4. /\ i.launcher = Content[f] /\ i.app = NoApp
      /\ Content[f] # Absent /\ Content[f] # Empty
  BY <1>3, MadeFacts
<1>5. /\ v.items \in Seq(GoodItems) /\ Unique(v.items)
      /\ v.disk \in [Files -> Launchers \cup {Empty, Absent}]
  BY DEF Stores, GoodDocks
<1>6. u = IF \E k \in DOMAIN v.items : v.items[k].file = f THEN v
          ELSE IF exists_for_uri(v.items, Content[f])
               THEN [v EXCEPT !.disk[f] = Absent, !.created = v.created]
               ELSE [v EXCEPT !.items = Append(@, i), !.disk[f] = Content[f], !.created = v.created]
  BY <1>1, <1>3, <1>4 DEF ProcessFile
<1>7. CASE \E k \in DOMAIN v.items : v.items[k].file = f
  <2>1. u = v
    BY <1>6, <1>7
  <2>2. QED BY <1>1, <2>1
<1>8. CASE (\A k \in DOMAIN v.items : v.items[k].file # f) /\ exists_for_uri(v.items, Content[f])
  <2>1. u = [v EXCEPT !.disk[f] = Absent, !.created = v.created]
    BY <1>6, <1>8
  <2>2. /\ u.items = v.items /\ u.created = v.created
        /\ u.disk = [v.disk EXCEPT ![f] = Absent]
    BY <2>1 DEF Stores
  <2>3. QED BY <1>1, <1>2, <1>5, <1>8, <2>2
<1>9. CASE (\A k \in DOMAIN v.items : v.items[k].file # f) /\ ~exists_for_uri(v.items, Content[f])
  <2>1. u = [v EXCEPT !.items = Append(@, i), !.disk[f] = Content[f], !.created = v.created]
    BY <1>6, <1>9
  <2>2. /\ u.items = Append(v.items, i) /\ u.created = v.created
        /\ u.disk = [v.disk EXCEPT ![f] = Content[f]]
    BY <2>1 DEF Stores
  <2>3. \A g \in Files : u.disk[g] = v.disk[g]
    BY <1>5, <2>2
  <2>4. PICK n \in Nat : n = Len(v.items) /\ DOMAIN v.items = 1..n
    BY <1>5
  <2>5. PICK s : s = v.items
    OBVIOUS
  <2>6. PICK t : t = Append(s, i)
    OBVIOUS
  <2>7. /\ t \in Seq(GoodItems) /\ DOMAIN t = 1..n + 1 /\ t[n + 1] = i
        /\ \A k \in 1..n : t[k] = s[k]
    BY <1>5, <2>4, <2>5, <2>6
  <2>8. Unique(t)
    <3>1. PICK h : h = [k \in DOMAIN s |-> k]
      OBVIOUS
    <3>2. PICK p \in DOMAIN t : p = n + 1
      BY <2>7
    <3>3. DOMAIN t \ {p} = DOMAIN s /\ t[p] = i
      BY <2>4, <2>5, <2>7, <3>2
    <3>4. \A j \in DOMAIN s : h[j] = j /\ t[j] = s[j]
      BY <2>4, <2>5, <2>7, <3>1
    <3>5. /\ t[p].launcher # Empty => \A k \in DOMAIN s : s[k].launcher # t[p].launcher
          /\ t[p].app = NoApp
      BY <1>4, <1>9, <2>5, <3>3 DEF exists_for_uri
    <3>6. Unique(s)
      BY <1>5, <2>5
    <3>7. QED BY <3>3, <3>4, <3>5, <3>6, UniqueWith
  <2>9. u.items \in GoodDocks
    BY <2>2, <2>5, <2>6, <2>7, <2>8 DEF GoodDocks
  <2>10. QED BY <1>1, <1>2, <1>3, <2>2, <2>3, <2>9
<1>10. QED BY <1>7, <1>8, <1>9

\* What has been done to the items s and the disk d when the files in F have
\* been processed.
Processed(s, d, F, t, e) ==
  /\ t \in GoodDocks /\ Len(s) <= Len(t)
  /\ \A k \in DOMAIN s : t[k] = s[k]
  /\ \A k \in DOMAIN t : k \in DOMAIN s \/ (\E f \in F : t[k] = Made(f, Content[f]))
  /\ e \in [Files -> Launchers \cup {Absent}]
  /\ \A f \in Files : \/ e[f] = d[f]
                      \/ f \in F /\ e[f] = Absent /\ \A k \in DOMAIN t : t[k].file # f

LEMMA ProcessFacts ==
  ASSUME NEW s \in GoodDocks, NEW d \in [Files -> Launchers \cup {Absent}],
         NEW c \in SUBSET Files, NEW files \in Seq(Files),
         \A i, j \in DOMAIN files : files[i] = files[j] => i = j,
         \A k \in DOMAIN files : d[files[k]] = Content[files[k]]
  PROVE  /\ Processed(s, d, ToSet(files), Process(s, d, c, files).items, Process(s, d, c, files).disk)
         /\ Process(s, d, c, files).created = c
<1>1. PICK n \in Nat : n = Len(files) /\ DOMAIN files = 1..n
  OBVIOUS
<1>2. \A k \in 1..n : files[k] \in Files
  BY <1>1
<1>3. PICK start : start = [items |-> s, disk |-> d, created |-> c]
  OBVIOUS
<1>4. start \in Stores /\ start.items = s /\ start.disk = d /\ start.created = c
  <2>1. s \in Seq(AnyItem)
    <3>1. s \in Seq(GoodItems)
      BY DEF GoodDocks
    <3>2. GoodItems \subseteq AnyItem
      BY DEF GoodItems, Item, AnyItem
    <3>3. QED BY <3>1, <3>2
  <2>2. d \in [Files -> Launchers \cup {Empty, Absent}]
    OBVIOUS
  <2>3. QED BY <1>3, <2>1, <2>2 DEF Stores
<1> DEFINE body(o) == [k \in 0..n |-> IF k = 0 THEN start ELSE ProcessFile(o[k - 1], files[k])]
           st == CHOOSE o : o = body(o)
           step == [k \in 1..n |-> [v \in Stores |-> ProcessFile(v, files[k])]]
<1>5. Process(s, d, c, files) = st[n]
  BY <1>1, <1>3 DEF Process
<1>6. \A v \in Stores, k \in 1..n : ProcessFile(v, files[k]) \in Stores
  BY <1>2, ProcessFileCloses
<1>7. step \in [1..n -> [Stores -> Stores]]
  BY <1>6
<1>8. \A k \in 1..n, v \in Stores : step[k][v] = ProcessFile(v, files[k])
  OBVIOUS
<1> HIDE DEF step
<1>9. PICK g : Folded(g, Stores, start, n, step)
  BY <1>4, <1>7, FoldedExists
<1>10. g \in [0..n -> Stores] /\ g[0] = start /\ \A k \in 1..n : g[k] = step[k][g[k - 1]]
  BY <1>9 DEF Folded
<1>11. g = body(g)
  <2>1. ASSUME NEW k \in 0..n PROVE g[k] = body(g)[k]
    <3>1. CASE k = 0
      BY <1>10, <3>1
    <3>2. CASE k # 0
      <4>1. k \in 1..n /\ k - 1 \in 0..n
        BY <3>2
      <4>2. g[k - 1] \in Stores
        BY <1>10, <4>1
      <4>3. g[k] = ProcessFile(g[k - 1], files[k])
        BY <1>8, <1>10, <4>1, <4>2
      <4>4. QED BY <3>2, <4>3
    <3>3. QED BY <3>1, <3>2
  <2>2. QED BY <1>10, <2>1
<1>12. st = body(st)
  <2> HIDE DEF body
  <2>1. QED BY <1>11
<1> HIDE DEF st
<1>13. st[0] = start /\ \A k \in 1..n : st[k] = ProcessFile(st[k - 1], files[k])
  <2>1. ASSUME NEW k \in 0..n
        PROVE  st[k] = IF k = 0 THEN start ELSE ProcessFile(st[k - 1], files[k])
    <3>1. st[k] = body(st)[k]
      <4> HIDE DEF body
      <4>1. QED BY <1>12
    <3>2. body(st)[k] = IF k = 0 THEN start ELSE ProcessFile(st[k - 1], files[k])
      OBVIOUS
    <3>3. QED BY <3>1, <3>2
  <2>2. 0 \in 0..n /\ \A k \in 1..n : k \in 0..n /\ k # 0
    OBVIOUS
  <2>3. QED BY <2>1, <2>2
<1> HIDE DEF body
<1> DEFINE F(k) == {files[j] : j \in 1..k}
           Done(k) == /\ st[k] \in Stores /\ st[k].created = c
                      /\ Processed(s, d, F(k), st[k].items, st[k].disk)
           T == {k \in 0..n : Done(k)}
<1>14. 0 \in T
  <2>1. Processed(s, d, F(0), s, d)
    BY DEF Processed, GoodDocks
  <2>2. QED BY <1>4, <1>13, <2>1
<1>15. ASSUME NEW k \in 1..n, k - 1 \in T PROVE k \in T
  <2>1. PICK v \in Stores : v = st[k - 1]
    BY <1>15
  <2>2. v.created = c /\ Processed(s, d, F(k - 1), v.items, v.disk)
    BY <1>15, <2>1
  <2>3. PICK f \in Files : f = files[k]
    BY <1>2
  <2>4. f \notin F(k - 1) /\ F(k) = F(k - 1) \cup {f}
    <3>1. \A j \in 1..k - 1 : j \in 1..n /\ j # k
      OBVIOUS
    <3>2. \A j \in 1..k - 1 : files[j] # files[k]
      BY <1>1, <3>1
    <3>3. \A j \in 1..k : j \in 1..k - 1 \/ j = k
      OBVIOUS
    <3>4. \A j \in 1..k - 1 : j \in 1..k
      OBVIOUS
    <3>5. k \in 1..k
      OBVIOUS
    <3>6. QED BY <2>3, <3>2, <3>3, <3>4, <3>5
  <2>5. PICK G : G = F(k - 1)
    OBVIOUS
  <2>6. v.disk[f] = Content[f] /\ v.items \in GoodDocks
    BY <1>1, <2>2, <2>3, <2>4 DEF Processed
  <2>7. PICK u : u = ProcessFile(v, f)
    OBVIOUS
  <2>8. /\ u \in Stores /\ u.items \in GoodDocks /\ u.created = v.created
        /\ \/ u.items = v.items
           \/ u.items = Append(v.items, Made(f, Content[f]))
        /\ \A x \in Files : \/ u.disk[x] = v.disk[x]
                            \/ /\ x = f /\ u.disk[x] = Absent /\ u.items = v.items
                               /\ \A j \in DOMAIN v.items : v.items[j].file # f
    BY <2>6, <2>7, ProcessFileFacts
  <2>9. Processed(s, d, G \cup {f}, u.items, u.disk)
    <3>1. Processed(s, d, G, v.items, v.disk)
      BY <2>2, <2>5
    <3>2. PICK t : t = v.items
      OBVIOUS
    <3>3. PICK w : w = u.items
      OBVIOUS
    <3>4. PICK i \in GoodItems : i = Made(f, Content[f])
      BY MadeFacts
    <3>5. /\ t \in Seq(GoodItems) /\ w \in Seq(GoodItems) /\ s \in Seq(GoodItems)
          /\ t \in GoodDocks /\ w \in GoodDocks
      BY <2>6, <2>8, <3>2, <3>3 DEF GoodDocks
    <3>6. /\ Len(s) <= Len(t) /\ \A j \in DOMAIN s : t[j] = s[j]
          /\ \A j \in DOMAIN t : j \in DOMAIN s \/ (\E x \in G : t[j] = Made(x, Content[x]))
      BY <3>1, <3>2 DEF Processed
    <3>7. w = t \/ w = Append(t, i)
      BY <2>8, <3>2, <3>3, <3>4
    <3>8. /\ Len(t) <= Len(w) /\ \A j \in DOMAIN t : j \in DOMAIN w /\ w[j] = t[j]
          /\ \A j \in DOMAIN w : j \in DOMAIN t \/ w[j] = i
      <4>1. CASE w = t
        BY <3>5, <4>1
      <4>2. CASE w = Append(t, i)
        <5>1. PICK m \in Nat : m = Len(t) /\ DOMAIN t = 1..m
          BY <3>5
        <5>2. Len(w) = m + 1 /\ DOMAIN w = 1..m + 1 /\ w[m + 1] = i /\ \A j \in 1..m : w[j] = t[j]
          BY <3>5, <4>2, <5>1
        <5>3. \A j \in 1..m + 1 : j \in 1..m \/ j = m + 1
          BY LastOrEarlier
        <5>4. \A j \in 1..m : j \in 1..m + 1
          OBVIOUS
        <5>5. QED BY <5>1, <5>2, <5>3, <5>4
      <4>3. QED BY <3>7, <4>1, <4>2
    <3>9. DOMAIN s \subseteq DOMAIN t /\ Len(s) <= Len(w)
      BY <3>5, <3>6, <3>8
    <3>10. \A j \in DOMAIN s : w[j] = s[j]
      BY <3>6, <3>8, <3>9
    <3>11. \A j \in DOMAIN w : j \in DOMAIN s \/ (\E x \in G \cup {f} : w[j] = Made(x, Content[x]))
      BY <3>4, <3>6, <3>8
    <3>12. \A x \in Files : \/ u.disk[x] = d[x]
                            \/ x \in G \cup {f} /\ u.disk[x] = Absent /\ \A j \in DOMAIN w : w[j].file # x
      <4>1. SUFFICES ASSUME NEW x \in Files, u.disk[x] # d[x]
                     PROVE  x \in G \cup {f} /\ u.disk[x] = Absent /\ \A j \in DOMAIN w : w[j].file # x
        OBVIOUS
      <4>2. CASE u.disk[x] = v.disk[x]
        <5>1. x \in G /\ v.disk[x] = Absent /\ \A j \in DOMAIN t : t[j].file # x
          BY <3>1, <3>2, <4>1, <4>2 DEF Processed
        <5>2. i.file # x
          BY <2>4, <2>5, <3>4, <5>1, MadeFacts
        <5>3. QED BY <3>8, <4>2, <5>1, <5>2
      <4>3. CASE u.disk[x] # v.disk[x]
        BY <2>8, <3>2, <3>3, <4>3
      <4>4. QED BY <4>2, <4>3
    <3>13. u.disk \in [Files -> Launchers \cup {Absent}]
      <4>1. u.disk \in [Files -> Launchers \cup {Empty, Absent}]
        BY <2>8 DEF Stores
      <4>2. \A x \in Files : u.disk[x] \in Launchers \cup {Absent}
        BY <3>12
      <4>3. QED BY <4>1, <4>2
    <3>14. Processed(s, d, G \cup {f}, w, u.disk)
      BY <3>5, <3>9, <3>10, <3>11, <3>12, <3>13 DEF Processed
    <3>15. QED BY <3>3, <3>14
  <2>10. st[k] = u
    BY <1>13, <2>1, <2>3, <2>7
  <2>11. F(k) = G \cup {f}
    BY <2>4, <2>5
  <2>12. k \in 0..n
    OBVIOUS
  <2> HIDE DEF F
  <2>13. QED BY <2>2, <2>8, <2>9, <2>10, <2>11, <2>12
<1>16. Done(n)
  <2>1. \A k \in 0..n : k \in T
    <3> HIDE DEF T
    <3>1. QED BY <1>14, <1>15, RangeInduction
  <2>2. n \in 0..n
    OBVIOUS
  <2>3. QED BY <2>1, <2>2
<1>17. F(n) = ToSet(files)
  BY <1>1 DEF ToSet
<1> HIDE DEF F
<1>18. QED BY <1>5, <1>16, <1>17


\* The pinned items of s have their files on the disk d, or are in w.
BackedBy(s, d, w) ==
  \A k \in DOMAIN s :
    s[k].kind # "transient" => d[s[k].file] = s[k].launcher \/ s[k].file \in w

\* What every disk holds, and which files can be processed.
Disks == {d \in [Files -> Launchers \cup {Absent}] : \A f \in Files : d[f] \in {Content[f], Absent}}

NoneTwice(q) == \A i, j \in DOMAIN q : q[i] = q[j] => i = j

Settled(s, c, w, t, e) ==
  /\ t \in GoodDocks /\ e \in Disks
  /\ \A f \in c : e[f] # Absent
  /\ BackedBy(t, e, w)
  /\ Len(t) = Len(s) => t = s
  /\ \A a \in Apps : Has(s, a) => Has(t, a)

LEMMA ProcessSettles ==
  ASSUME NEW s \in GoodDocks, NEW d \in Disks, NEW c \in SUBSET Files, NEW w,
         NEW files \in Seq(Files), NoneTwice(files),
         \A k \in DOMAIN files : d[files[k]] # Absent /\ files[k] \notin c,
         \A f \in c : d[f] # Absent, BackedBy(s, d, w)
  PROVE  /\ Settled(s, c, w, Process(s, d, c, files).items, Process(s, d, c, files).disk)
         /\ Process(s, d, c, files).created = c
<1>1. PICK st : st = Process(s, d, c, files)
  OBVIOUS
<1>2. PICK F : F = ToSet(files)
  OBVIOUS
<1>3. \A f \in F : f \in Files /\ f \notin c /\ d[f] # Absent
  BY <1>2 DEF ToSet
<1>4. d \in [Files -> Launchers \cup {Absent}] /\ \A f \in Files : d[f] \in {Content[f], Absent}
  BY DEF Disks
<1>5. Processed(s, d, F, st.items, st.disk) /\ st.created = c
  <2>1. \A k \in DOMAIN files : d[files[k]] = Content[files[k]]
    BY <1>4
  <2>2. QED BY <1>1, <1>2, <1>4, <2>1, ProcessFacts DEF NoneTwice
<1>6. PICK t : t = st.items
  OBVIOUS
<1>7. PICK e : e = st.disk
  OBVIOUS
<1>8. /\ t \in GoodDocks /\ Len(s) <= Len(t)
      /\ \A k \in DOMAIN s : t[k] = s[k]
      /\ \A k \in DOMAIN t : k \in DOMAIN s \/ (\E f \in F : t[k] = Made(f, Content[f]))
      /\ e \in [Files -> Launchers \cup {Absent}]
      /\ \A f \in Files : \/ e[f] = d[f]
                          \/ f \in F /\ e[f] = Absent /\ \A k \in DOMAIN t : t[k].file # f
  BY <1>5, <1>6, <1>7 DEF Processed
<1>9. e \in Disks
  BY <1>4, <1>8 DEF Disks
<1>10. \A f \in c : e[f] # Absent
  BY <1>3, <1>8
<1>11. s \in Seq(GoodItems) /\ t \in Seq(GoodItems)
  BY <1>8 DEF GoodDocks
<1>12. DOMAIN s \subseteq DOMAIN t /\ (Len(t) = Len(s) => t = s)
  BY <1>8, <1>11
<1>13. BackedBy(t, e, w)
  <2>1. SUFFICES ASSUME NEW k \in DOMAIN t, t[k].kind # "transient"
                 PROVE  e[t[k].file] = t[k].launcher \/ t[k].file \in w
    BY DEF BackedBy
  <2>2. t[k] \in GoodItems
    BY <1>11
  <2>3. t[k].file \in Files
    BY <2>1, <2>2, GoodFacts
  <2>4. e[t[k].file] = d[t[k].file]
    BY <1>8, <2>3
  <2>5. CASE k \in DOMAIN s
    BY <1>8, <2>1, <2>4, <2>5 DEF BackedBy
  <2>6. CASE k \notin DOMAIN s
    <3>1. PICK f \in F : t[k] = Made(f, Content[f])
      BY <1>8, <2>6
    <3>2. f \in Files /\ d[f] = Content[f]
      BY <1>3, <1>4
    <3>3. t[k].file = f /\ t[k].launcher = Content[f]
      BY <3>1, <3>2, MadeFacts
    <3>4. QED BY <2>4, <3>2, <3>3
  <2>7. QED BY <2>5, <2>6
<1>14. \A a \in Apps : Has(s, a) => Has(t, a)
  BY <1>8, <1>12 DEF Has
<1>15. Settled(s, c, w, t, e)
  BY <1>8, <1>9, <1>10, <1>12, <1>13, <1>14 DEF Settled
<1>16. QED BY <1>1, <1>5, <1>6, <1>7, <1>15

-----------------------------------------------------------------------------
(* Sequences made from others                                              *)

\* The elements of t come from different elements of s.
From(s, t) ==
  \E h : /\ \A j \in DOMAIN t :
              /\ h[j] \in DOMAIN s /\ t[j].launcher = s[h[j]].launcher
              /\ t[j].app = s[h[j]].app \/ t[j].app = NoApp
              /\ t[j].kind = "pinned" => s[h[j]].kind = "pinned" /\ t[j].file = s[h[j]].file
         /\ \A i, j \in DOMAIN t : h[i] = h[j] => i = j

\* A sequence whose elements are different elements of s.
LEMMA FromBy ==
  ASSUME NEW s, NEW t, NEW h, \A j \in DOMAIN t : h[j] \in DOMAIN s /\ t[j] = s[h[j]],
         \A i, j \in DOMAIN t : h[i] = h[j] => i = j
  PROVE  From(s, t)
<1>1. /\ \A j \in DOMAIN t :
           /\ h[j] \in DOMAIN s /\ t[j].launcher = s[h[j]].launcher
           /\ t[j].app = s[h[j]].app \/ t[j].app = NoApp
           /\ t[j].kind = "pinned" => s[h[j]].kind = "pinned" /\ t[j].file = s[h[j]].file
      /\ \A i, j \in DOMAIN t : h[i] = h[j] => i = j
  OBVIOUS
<1>2. QED BY <1>1 DEF From

LEMMA FromFacts ==
  ASSUME NEW s \in GoodDocks, NEW t \in Seq(GoodItems), From(s, t)
  PROVE  /\ t \in GoodDocks
         /\ \A d, w : BackedBy(s, d, w) => BackedBy(t, d, w)
<1>1. PICK h : /\ \A j \in DOMAIN t :
                    /\ h[j] \in DOMAIN s /\ t[j].launcher = s[h[j]].launcher
                    /\ t[j].app = s[h[j]].app \/ t[j].app = NoApp
                    /\ t[j].kind = "pinned" => s[h[j]].kind = "pinned" /\ t[j].file = s[h[j]].file
               /\ \A i, j \in DOMAIN t : h[i] = h[j] => i = j
  BY DEF From
<1>2. Unique(s)
  BY DEF GoodDocks
<1>3. Unique(t)
  BY <1>1, <1>2, UniqueFrom
<1>4. ASSUME NEW d, NEW w, BackedBy(s, d, w) PROVE BackedBy(t, d, w)
  <2>1. SUFFICES ASSUME NEW j \in DOMAIN t, t[j].kind # "transient"
                 PROVE  d[t[j].file] = t[j].launcher \/ t[j].file \in w
    BY DEF BackedBy
  <2>2. t[j] \in GoodItems
    OBVIOUS
  <2>3. t[j].kind = "pinned"
    BY <2>1, <2>2, GoodFacts
  <2>4. /\ h[j] \in DOMAIN s /\ t[j].launcher = s[h[j]].launcher
        /\ s[h[j]].kind # "transient" /\ t[j].file = s[h[j]].file
    BY <1>1, <2>3
  <2>5. QED BY <1>4, <2>4 DEF BackedBy
<1>5. QED BY <1>3, <1>4 DEF GoodDocks

\* A sequence of the same length, item for item.
LEMMA FromSame ==
  ASSUME NEW s \in GoodDocks, NEW t \in Seq(GoodItems), Len(t) = Len(s),
         \A k \in DOMAIN s :
           /\ t[k].launcher = s[k].launcher
           /\ t[k].app = s[k].app \/ t[k].app = NoApp
           /\ t[k].kind = "pinned" => s[k].kind = "pinned" /\ t[k].file = s[k].file
  PROVE  /\ t \in GoodDocks
         /\ \A d, w : BackedBy(s, d, w) => BackedBy(t, d, w)
<1>1. DOMAIN t = DOMAIN s
  BY DEF GoodDocks
<1>2. From(s, t)
  <2>1. PICK h : h = [k \in DOMAIN s |-> k]
    OBVIOUS
  <2>2. \A k \in DOMAIN s : h[k] = k
    BY <2>1
  <2>3. /\ \A j \in DOMAIN t :
             /\ h[j] \in DOMAIN s /\ t[j].launcher = s[h[j]].launcher
             /\ t[j].app = s[h[j]].app \/ t[j].app = NoApp
             /\ t[j].kind = "pinned" => s[h[j]].kind = "pinned" /\ t[j].file = s[h[j]].file
        /\ \A i, j \in DOMAIN t : h[i] = h[j] => i = j
    BY <1>1, <2>2
  <2>4. QED BY <2>3 DEF From
<1>3. QED BY <1>2, FromFacts

LEMMA FromThose ==
  ASSUME NEW s \in GoodDocks, NEW K
  PROVE  /\ Those(s, K) \in GoodDocks
         /\ \A d, w : BackedBy(s, d, w) => BackedBy(Those(s, K), d, w)
         /\ \A i \in DOMAIN s \cap K : \E j \in DOMAIN Those(s, K) : Those(s, K)[j] = s[i]
         /\ \A j \in DOMAIN Those(s, K) : \E i \in DOMAIN s \cap K : Those(s, K)[j] = s[i]
         /\ Len(Those(s, K)) = Len(s) => Those(s, K) = s
         /\ DOMAIN s \subseteq K => Those(s, K) = s
<1>1. s \in Seq(GoodItems)
  BY DEF GoodDocks
<1>2. PICK n \in Nat : n = Len(s) /\ DOMAIN s = 1..n
  BY <1>1
<1>3. PICK t : t = Those(s, K)
  OBVIOUS
<1>4. /\ t \in Seq(GoodItems) /\ Sub(s, K, n, t)
      /\ Len(t) = n => t = s
      /\ DOMAIN s \subseteq K => t = s
  BY <1>1, <1>2, <1>3, ThoseFacts
<1>5. PICK h : Embeds(h, s, K, n, t)
  BY <1>4 DEF Sub
<1>6. PICK m \in Nat : m = Len(t) /\ DOMAIN t = 1..m
  BY <1>4
<1>7. /\ h \in [1..m -> 1..n]
      /\ \A i, j \in 1..m : i < j => h[i] < h[j]
      /\ \A j \in 1..m : h[j] \in K /\ t[j] = s[h[j]]
      /\ \A i \in 1..n : i \in K => \E j \in 1..m : h[j] = i
  BY <1>5, <1>6 DEF Embeds
<1>8. \A i, j \in 1..m : h[i] = h[j] => i = j
  <2>1. SUFFICES ASSUME NEW i \in 1..m, NEW j \in 1..m, h[i] = h[j] PROVE i = j
    OBVIOUS
  <2>2. h[i] \in Int /\ ~(i < j) /\ ~(j < i)
    BY <1>7, <2>1
  <2>3. QED BY <2>2
<1>9. \A j \in 1..m : h[j] \in 1..n /\ t[j] = s[h[j]] /\ h[j] \in K
  BY <1>7
<1>10. From(s, t)
  <2>1. \A j \in DOMAIN t : h[j] \in DOMAIN s /\ t[j] = s[h[j]]
    BY <1>2, <1>6, <1>9
  <2>2. \A i, j \in DOMAIN t : h[i] = h[j] => i = j
    BY <1>6, <1>8
  <2>3. QED BY <2>1, <2>2, FromBy
<1>11. t \in GoodDocks /\ \A d, w : BackedBy(s, d, w) => BackedBy(t, d, w)
  BY <1>4, <1>10, FromFacts
<1>12. ASSUME NEW i \in DOMAIN s \cap K PROVE \E j \in DOMAIN t : t[j] = s[i]
  <2>1. PICK j \in 1..m : h[j] = i
    BY <1>2, <1>7
  <2>2. t[j] = s[i] /\ j \in DOMAIN t
    BY <1>6, <1>9, <2>1
  <2>3. QED BY <2>2
<1>13. \A j \in DOMAIN t : \E i \in DOMAIN s \cap K : t[j] = s[i]
  BY <1>2, <1>6, <1>9
<1>14. QED BY <1>2, <1>3, <1>4, <1>11, <1>12, <1>13

LEMMA FromRemoved ==
  ASSUME NEW s \in GoodDocks, NEW p \in DOMAIN s
  PROVE  /\ RemoveAt(s, p) \in GoodDocks
         /\ Len(RemoveAt(s, p)) = Len(s) - 1
         /\ \A d, w : BackedBy(s, d, w) => BackedBy(RemoveAt(s, p), d, w)
         /\ \A i \in DOMAIN s \ {p} : \E j \in DOMAIN RemoveAt(s, p) : RemoveAt(s, p)[j] = s[i]
         /\ \A j \in DOMAIN RemoveAt(s, p) : \E i \in DOMAIN s \ {p} : RemoveAt(s, p)[j] = s[i]
<1>1. s \in Seq(GoodItems)
  BY DEF GoodDocks
<1>2. PICK n \in Nat : n = Len(s) /\ DOMAIN s = 1..n
  BY <1>1
<1>3. PICK t : t = RemoveAt(s, p)
  OBVIOUS
<1>4. /\ t \in Seq(GoodItems) /\ Len(t) = n - 1
      /\ \A k \in 1..p - 1 : t[k] = s[k]
      /\ \A k \in p..n - 1 : t[k] = s[k + 1]
  <2>1. p \in 1..Len(s)
    BY <1>2
  <2>2. /\ RemoveAt(s, p) \in Seq(GoodItems) /\ Len(RemoveAt(s, p)) = Len(s) - 1
        /\ \A k \in 1..p - 1 : RemoveAt(s, p)[k] = s[k]
        /\ \A k \in p..Len(s) - 1 : RemoveAt(s, p)[k] = s[k + 1]
    BY <1>1, <2>1, RemoveAtFacts
  <2>3. QED BY <1>2, <1>3, <2>2
<1>5. DOMAIN t = 1..n - 1 /\ p \in 1..n /\ n - 1 \in Nat
  BY <1>2, <1>4
<1>6. PICK h : h = [k \in 1..n - 1 |-> IF k < p THEN k ELSE k + 1]
  OBVIOUS
<1>7. ASSUME NEW k \in 1..n - 1
      PROVE  h[k] \in 1..n /\ h[k] # p /\ t[k] = s[h[k]] /\ h[k] = IF k < p THEN k ELSE k + 1
  <2>1. h[k] = IF k < p THEN k ELSE k + 1
    BY <1>6
  <2>2. CASE k < p
    <3>1. k \in 1..p - 1
      BY <1>5, <2>2
    <3>2. QED BY <1>4, <1>5, <2>1, <2>2, <3>1
  <2>3. CASE ~(k < p)
    <3>1. k \in p..n - 1
      BY <1>5, <2>3
    <3>2. QED BY <1>4, <1>5, <2>1, <2>3, <3>1
  <2>4. QED BY <2>2, <2>3
<1>8. \A i, j \in 1..n - 1 : h[i] = h[j] => i = j
  BY <1>5, <1>7
<1>9. From(s, t)
  <2>1. \A k \in DOMAIN t : h[k] \in DOMAIN s /\ t[k] = s[h[k]]
    BY <1>2, <1>5, <1>7
  <2>2. \A i, j \in DOMAIN t : h[i] = h[j] => i = j
    BY <1>5, <1>8
  <2>3. QED BY <2>1, <2>2, FromBy
<1>10. t \in GoodDocks /\ \A d, w : BackedBy(s, d, w) => BackedBy(t, d, w)
  BY <1>4, <1>9, FromFacts
<1>11. ASSUME NEW i \in DOMAIN s \ {p} PROVE \E j \in DOMAIN t : t[j] = s[i]
  <2>1. CASE i < p
    <3>1. i \in 1..n - 1 /\ i \in 1..p - 1
      BY <1>2, <1>5, <2>1
    <3>2. QED BY <1>4, <1>5, <3>1
  <2>2. CASE ~(i < p)
    <3>1. i - 1 \in 1..n - 1 /\ i - 1 \in p..n - 1 /\ (i - 1) + 1 = i
      BY <1>2, <1>5, <2>2
    <3>2. QED BY <1>4, <1>5, <3>1
  <2>3. QED BY <2>1, <2>2
<1>12. \A j \in DOMAIN t : \E i \in DOMAIN s \ {p} : t[j] = s[i]
  BY <1>2, <1>5, <1>7
<1>13. QED BY <1>2, <1>3, <1>4, <1>10, <1>11, <1>12

\* A new element at p, whose launcher and application no element has.
LEMMA FromInserted ==
  ASSUME NEW s \in GoodDocks, NEW i \in GoodItems, NEW p \in 1..Len(s) + 1,
         i.launcher # Empty => \A k \in DOMAIN s : s[k].launcher # i.launcher,
         i.app # NoApp => \A k \in DOMAIN s : s[k].app # i.app
  PROVE  /\ InsertAt(s, p, i) \in GoodDocks
         /\ Len(InsertAt(s, p, i)) = Len(s) + 1
         /\ InsertAt(s, p, i)[p] = i /\ p \in DOMAIN InsertAt(s, p, i)
         /\ \A k \in DOMAIN s : \E j \in DOMAIN InsertAt(s, p, i) : InsertAt(s, p, i)[j] = s[k]
         /\ \A j \in DOMAIN InsertAt(s, p, i) :
              InsertAt(s, p, i)[j] = i \/ \E k \in DOMAIN s : InsertAt(s, p, i)[j] = s[k]
<1>1. s \in Seq(GoodItems) /\ Unique(s)
  BY DEF GoodDocks
<1>2. PICK n \in Nat : n = Len(s) /\ DOMAIN s = 1..n
  BY <1>1
<1>3. PICK t : t = InsertAt(s, p, i)
  OBVIOUS
<1>4. /\ t \in Seq(GoodItems) /\ Len(t) = n + 1 /\ t[p] = i
      /\ \A k \in 1..p - 1 : t[k] = s[k]
      /\ \A k \in p + 1..n + 1 : t[k] = s[k - 1]
  <2>1. /\ InsertAt(s, p, i) \in Seq(GoodItems)
        /\ Len(InsertAt(s, p, i)) = Len(s) + 1
        /\ InsertAt(s, p, i)[p] = i
        /\ \A k \in 1..p - 1 : InsertAt(s, p, i)[k] = s[k]
        /\ \A k \in p + 1..Len(s) + 1 : InsertAt(s, p, i)[k] = s[k - 1]
    BY <1>1, InsertAtFacts
  <2>2. QED BY <1>2, <1>3, <2>1
<1>5. DOMAIN t = 1..n + 1 /\ p \in 1..n + 1 /\ p \in DOMAIN t
  BY <1>2, <1>4
<1>6. PICK h : h = [k \in 1..n + 1 |-> IF k < p THEN k ELSE k - 1]
  OBVIOUS
<1>7. ASSUME NEW k \in 1..n + 1, k # p
      PROVE  h[k] \in 1..n /\ t[k] = s[h[k]] /\ h[k] = IF k < p THEN k ELSE k - 1
  <2>1. h[k] = IF k < p THEN k ELSE k - 1
    BY <1>6
  <2>2. CASE k < p
    <3>1. k \in 1..p - 1 /\ k \in 1..n
      BY <1>5, <2>2
    <3>2. QED BY <1>4, <2>1, <2>2, <3>1
  <2>3. CASE ~(k < p)
    <3>1. k \in p + 1..n + 1 /\ k - 1 \in 1..n
      BY <1>5, <1>7, <2>3
    <3>2. QED BY <1>4, <2>1, <2>3, <3>1
  <2>4. QED BY <2>2, <2>3
<1>8. \A x, y \in DOMAIN t \ {p} : h[x] = h[y] => x = y
  BY <1>5, <1>7
<1>9. Unique(t)
  <2>1. \A j \in DOMAIN t \ {p} : /\ h[j] \in DOMAIN s /\ t[j].launcher = s[h[j]].launcher
                                  /\ t[j].app = s[h[j]].app
    BY <1>2, <1>5, <1>7
  <2>2. /\ t[p].launcher # Empty => \A k \in DOMAIN s : s[k].launcher # t[p].launcher
        /\ t[p].app # NoApp => \A k \in DOMAIN s : s[k].app # t[p].app
    BY <1>4
  <2>3. p \in DOMAIN t /\ Unique(s)
    BY <1>1, <1>5
  <2>4. QED BY <1>8, <2>1, <2>2, <2>3, UniqueWith
<1>10. ASSUME NEW k \in DOMAIN s PROVE \E j \in DOMAIN t : t[j] = s[k]
  <2>1. CASE k < p
    <3>1. k \in 1..n + 1 /\ k \in 1..p - 1
      BY <1>2, <1>5, <2>1
    <3>2. QED BY <1>4, <1>5, <3>1
  <2>2. CASE ~(k < p)
    <3>1. k + 1 \in 1..n + 1 /\ k + 1 \in p + 1..n + 1 /\ (k + 1) - 1 = k
      BY <1>2, <1>5, <2>2
    <3>2. QED BY <1>4, <1>5, <3>1
  <2>3. QED BY <2>1, <2>2
<1>11. \A j \in DOMAIN t : t[j] = i \/ \E k \in DOMAIN s : t[j] = s[k]
  BY <1>2, <1>4, <1>5, <1>7
<1>12. QED BY <1>2, <1>3, <1>4, <1>5, <1>9, <1>10, <1>11 DEF GoodDocks

\* An element that leaves its place for another.
LEMMA FromMoved ==
  ASSUME NEW s \in GoodDocks, NEW x \in DOMAIN s, NEW y \in DOMAIN s
  PROVE  /\ move_to(s, x, y) \in GoodDocks
         /\ \A d, w : BackedBy(s, d, w) => BackedBy(move_to(s, x, y), d, w)
         /\ \A a \in Apps : Has(s, a) => Has(move_to(s, x, y), a)
<1>1. s \in Seq(GoodItems) /\ Unique(s)
  BY DEF GoodDocks
<1>2. PICK n \in Nat : n = Len(s) /\ DOMAIN s = 1..n
  BY <1>1
<1>3. PICK r : r = RemoveAt(s, x)
  OBVIOUS
<1>4. /\ r \in GoodDocks /\ Len(r) = n - 1
      /\ \A d, w : BackedBy(s, d, w) => BackedBy(r, d, w)
      /\ \A k \in DOMAIN s \ {x} : \E j \in DOMAIN r : r[j] = s[k]
      /\ \A j \in DOMAIN r : \E k \in DOMAIN s \ {x} : r[j] = s[k]
  <2>1. /\ r \in GoodDocks /\ Len(r) = Len(s) - 1
        /\ \A d, w : BackedBy(s, d, w) => BackedBy(r, d, w)
        /\ \A k \in DOMAIN s \ {x} : \E j \in DOMAIN r : r[j] = s[k]
        /\ \A j \in DOMAIN r : \E k \in DOMAIN s \ {x} : r[j] = s[k]
    BY <1>3, FromRemoved
  <2>2. QED BY <1>2, <2>1
<1>5. PICK i \in GoodItems : i = s[x]
  BY <1>1
<1>6. /\ i.launcher # Empty => \A k \in DOMAIN r : r[k].launcher # i.launcher
      /\ i.app # NoApp => \A k \in DOMAIN r : r[k].app # i.app
  BY <1>1, <1>4, <1>5 DEF Unique
<1>7. y \in 1..Len(r) + 1
  BY <1>2, <1>4
<1>8. PICK t : t = InsertAt(r, y, i)
  OBVIOUS
<1>9. /\ t \in GoodDocks /\ t[y] = i /\ y \in DOMAIN t
      /\ \A k \in DOMAIN r : \E j \in DOMAIN t : t[j] = r[k]
      /\ \A j \in DOMAIN t : t[j] = i \/ \E k \in DOMAIN r : t[j] = r[k]
  BY <1>4, <1>6, <1>7, <1>8, FromInserted
<1>10. \A k \in DOMAIN s : \E j \in DOMAIN t : t[j] = s[k]
  BY <1>4, <1>5, <1>9
<1>11. \A j \in DOMAIN t : \E k \in DOMAIN s : t[j] = s[k]
  BY <1>4, <1>5, <1>9
<1>12. move_to(s, x, y) = t
  BY <1>3, <1>5, <1>8 DEF move_to
<1>13. \A d, w : BackedBy(s, d, w) => BackedBy(t, d, w)
  BY <1>11 DEF BackedBy
<1>14. \A a \in Apps : Has(s, a) => Has(t, a)
  BY <1>10 DEF Has
<1>15. QED BY <1>9, <1>12, <1>13, <1>14

LEMMA GrownBacked ==
  ASSUME NEW s \in GoodDocks, NEW t, Grown(s, t)
  PROVE  t \in GoodDocks /\ \A d, w : BackedBy(s, d, w) => BackedBy(t, d, w)
BY DEF Grown, GoodDocks, BackedBy

-----------------------------------------------------------------------------
(* The inductive invariant                                                 *)

ItemsInv == items \in GoodDocks

FilesInv ==
  /\ disk \in Disks
  /\ created \in SUBSET Files /\ deleted \in SUBSET Files /\ changed \in SUBSET Files
  /\ \A f \in created : disk[f] # Absent

QueueInv ==
  /\ queued \in Seq(Files) /\ NoneTwice(queued)
  /\ \A k \in DOMAIN queued : disk[queued[k]] # Absent /\ queued[k] \notin created

OtherInv ==
  /\ state \in [Apps -> {"off", "hidden", "running", "closing"}]
  /\ pending \in SUBSET Apps
  /\ timer \in BOOLEAN /\ delayed \in BOOLEAN /\ PinnedOnly \in BOOLEAN
  /\ DockItemsPref \in Seq(Files) /\ NoneTwice(DockItemsPref)

\* A view that was opened hidden is pending until it is seen or closed; only
\* a restart forgets it.
LiveInv ==
  ~Restarts =>
    /\ RunningShown
    /\ \A a \in Apps : state[a] = "hidden" => a \in pending

Saved == ~timer => DockItemsPref = FilesOf(items)

Inv == ItemsInv /\ FilesInv /\ QueueInv /\ OtherInv /\ Backed /\ Saved /\ LiveInv

\* When the theorems hold: a file waits for the provider to look at it, and a
\* dock that is restarted has no two files for one launcher.
OwnItems ==
  /\ ~Hasty
  /\ Restarts => \A f, g \in Files : Content[f] = Content[g] => f = g

\* What the actions do to the items, and what it takes to keep Inv.
LEMMA ShownFacts ==
  ASSUME OtherInv
  PROVE  RunningShown <=>
           (~PinnedOnly => \A a \in Apps : state[a] = "running" => Has(items, a))
BY DEF OtherInv, RunningShown, Has

LEMMA BackedFacts ==
  Backed <=> BackedBy(items, disk, deleted \cup changed)
BY DEF Backed, BackedBy

\* The applications and the saved order do not change.
LEMMA StorageOnly ==
  ASSUME Inv, items' \in GoodDocks, FilesInv', QueueInv',
         BackedBy(items', disk', deleted' \cup changed'),
         timer' \in BOOLEAN, delayed' \in BOOLEAN,
         ~timer' => ~timer /\ FilesOf(items') = FilesOf(items),
         ~PinnedOnly => \A a \in Apps : state[a] = "running" => Has(items', a) \/ ~Has(items, a),
         UNCHANGED <<apps, DockItemsPref, PinnedOnly>>
  PROVE  Inv'
<1>1. ItemsInv'
  BY DEF ItemsInv
<1>2. OtherInv'
  BY DEF Inv, OtherInv, apps
<1>3. Backed'
  BY DEF Backed, BackedBy
<1>4. Saved'
  BY DEF Inv, Saved
<1>5. LiveInv'
  <2>1. SUFFICES ASSUME ~Restarts
                 PROVE  RunningShown' /\ \A a \in Apps : state'[a] = "hidden" => a \in pending'
    BY DEF LiveInv
  <2>2. /\ ~PinnedOnly => \A a \in Apps : state[a] = "running" => Has(items, a)
        /\ \A a \in Apps : state[a] = "hidden" => a \in pending
    BY <2>1, ShownFacts DEF Inv, LiveInv
  <2>3. state' = state /\ pending' = pending /\ PinnedOnly' = PinnedOnly
    BY DEF apps
  <2>4. ~PinnedOnly' => \A a \in Apps : state'[a] = "running" => Has(items', a)
    BY <2>2, <2>3
  <2>5. RunningShown'
    BY <2>3, <2>4 DEF Inv, OtherInv, RunningShown, Has
  <2>6. QED BY <2>2, <2>3, <2>5
<1>6. QED BY <1>1, <1>2, <1>3, <1>4, <1>5 DEF Inv

\* The files and the events do not change either.
LEMMA ItemsOnly ==
  ASSUME Inv, items' \in GoodDocks, BackedBy(items', disk, deleted \cup changed),
         timer' \in BOOLEAN, ~timer' => ~timer /\ FilesOf(items') = FilesOf(items),
         ~PinnedOnly => \A a \in Apps : state[a] = "running" => Has(items', a) \/ ~Has(items, a),
         UNCHANGED <<queued, delayed, storage, apps, DockItemsPref, PinnedOnly>>
  PROVE  Inv'
<1>1. FilesInv' /\ QueueInv'
  BY DEF Inv, FilesInv, QueueInv, storage
<1>2. BackedBy(items', disk', deleted' \cup changed') /\ delayed' \in BOOLEAN
  BY DEF Inv, OtherInv, storage
<1>3. QED BY <1>1, <1>2, StorageOnly

-----------------------------------------------------------------------------
(* The launchers directory                                                 *)

LEMMA UserCreatesFileKeeps ==
  ASSUME Inv, NEW f \in Files, UserCreatesFile(f)
  PROVE  Inv'
<1>1. /\ disk[f] = Absent /\ disk' = [disk EXCEPT ![f] = Content[f]]
      /\ created' = created \cup {f} /\ changed' = Rewritten(f) /\ deleted' = deleted
      /\ items' = items /\ queued' = queued /\ delayed' = delayed
      /\ timer' = timer /\ DockItemsPref' = DockItemsPref
  BY DEF UserCreatesFile, provider, order
<1>2. disk \in Disks /\ disk \in [Files -> Launchers \cup {Absent}]
  BY DEF Inv, FilesInv, Disks
<1>3. Content[f] \in Launchers /\ Content[f] # Absent
  BY DockAssumption DEF DockAssumption
<1>4. /\ \A g \in Files : disk'[g] = IF g = f THEN Content[f] ELSE disk[g]
      /\ disk' \in Disks
  BY <1>1, <1>2, <1>3 DEF Disks
<1>5. changed' \in SUBSET Files /\ changed \subseteq changed'
  BY <1>1 DEF Inv, FilesInv, Rewritten
<1>6. FilesInv'
  BY <1>1, <1>3, <1>4, <1>5 DEF Inv, FilesInv
<1>7. QueueInv'
  <2>1. \A k \in DOMAIN queued : queued[k] \in Files /\ queued[k] # f
    BY <1>1 DEF Inv, QueueInv
  <2>2. QED BY <1>1, <1>4, <2>1 DEF Inv, QueueInv
<1>8. BackedBy(items, disk', deleted \cup changed')
  <2>1. SUFFICES ASSUME NEW k \in DOMAIN items, items[k].kind # "transient"
                 PROVE  \/ disk'[items[k].file] = items[k].launcher
                        \/ items[k].file \in deleted \cup changed'
    BY DEF BackedBy
  <2>2. items[k] \in GoodItems
    BY DEF Inv, ItemsInv, GoodDocks
  <2>3. items[k].file \in Files
    BY <2>1, <2>2, GoodFacts
  <2>4. CASE items[k].file = f
    BY <1>1, <2>4 DEF Rewritten, WithFile
  <2>5. CASE items[k].file # f
    BY <1>4, <1>5, <2>1, <2>3, <2>5 DEF Inv, Backed
  <2>6. QED BY <2>4, <2>5
<1>9. UNCHANGED <<apps, DockItemsPref, PinnedOnly>>
  BY DEF UserCreatesFile, order
<1>10. QED BY <1>1, <1>6, <1>7, <1>8, <1>9, StorageOnly DEF Inv, ItemsInv, OtherInv

LEMMA UserDeletesFileKeeps ==
  ASSUME Inv, ~Hasty, NEW f \in Files, UserDeletesFile(f)
  PROVE  Inv'
<1>1. /\ disk' = [disk EXCEPT ![f] = Absent] /\ f \notin created \cup ToSet(queued)
      /\ deleted' = IF WithFile(f) # {} THEN deleted \cup {f} ELSE deleted
      /\ created' = created /\ changed' = changed
      /\ items' = items /\ queued' = queued /\ delayed' = delayed
      /\ timer' = timer /\ DockItemsPref' = DockItemsPref
  BY DEF UserDeletesFile, provider, order
<1>2. disk \in Disks /\ disk \in [Files -> Launchers \cup {Absent}]
  BY DEF Inv, FilesInv, Disks
<1>3. /\ \A g \in Files : disk'[g] = IF g = f THEN Absent ELSE disk[g]
      /\ disk' \in Disks
  BY <1>1, <1>2 DEF Disks
<1>4. deleted' \in SUBSET Files /\ deleted \subseteq deleted'
  BY <1>1 DEF Inv, FilesInv
<1>5. FilesInv'
  BY <1>1, <1>3, <1>4 DEF Inv, FilesInv
<1>6. QueueInv'
  <2>1. \A k \in DOMAIN queued : queued[k] \in Files /\ queued[k] # f
    BY <1>1 DEF Inv, QueueInv, ToSet
  <2>2. QED BY <1>1, <1>3, <2>1 DEF Inv, QueueInv
<1>7. BackedBy(items, disk', deleted' \cup changed)
  <2>1. SUFFICES ASSUME NEW k \in DOMAIN items, items[k].kind # "transient"
                 PROVE  \/ disk'[items[k].file] = items[k].launcher
                        \/ items[k].file \in deleted' \cup changed
    BY DEF BackedBy
  <2>2. items[k] \in GoodItems
    BY DEF Inv, ItemsInv, GoodDocks
  <2>3. items[k].file \in Files
    BY <2>1, <2>2, GoodFacts
  <2>4. CASE items[k].file = f
    BY <1>1, <2>4 DEF WithFile
  <2>5. CASE items[k].file # f
    BY <1>3, <1>4, <2>1, <2>3, <2>5 DEF Inv, Backed
  <2>6. QED BY <2>4, <2>5
<1>8. UNCHANGED <<apps, DockItemsPref, PinnedOnly>>
  BY DEF UserDeletesFile, order
<1>9. QED BY <1>1, <1>5, <1>6, <1>7, <1>8, StorageOnly DEF Inv, ItemsInv, OtherInv

\* The files of q have been processed over other items, files and events.
LEMMA SettledKeeps ==
  ASSUME Inv, NEW s, NEW c \in SUBSET Files,
         ~PinnedOnly => \A a \in Apps : state[a] = "running" => Has(s, a) \/ ~Has(items, a),
         Settled(s, c, deleted' \cup changed', items', disk'),
         created' = c, queued' = <<>>, delayed' \in BOOLEAN,
         deleted' \in SUBSET Files, changed' \in SUBSET Files, NEW signal \in BOOLEAN,
         UpdateItems(items', signal \/ Len(items') # Len(s)),
         signal \/ FilesOf(s) = FilesOf(items),
         UNCHANGED <<apps, DockItemsPref, PinnedOnly>>
  PROVE  Inv'
<1>1. /\ items' \in GoodDocks /\ disk' \in Disks /\ \A f \in c : disk'[f] # Absent
      /\ BackedBy(items', disk', deleted' \cup changed')
      /\ Len(items') = Len(s) => items' = s
      /\ \A a \in Apps : Has(s, a) => Has(items', a)
  BY DEF Settled
<1>2. FilesInv'
  BY <1>1 DEF FilesInv
<1>3. QueueInv'
  BY DEF QueueInv, NoneTwice
<1>4. timer' \in BOOLEAN /\ (~timer' => ~timer /\ FilesOf(items') = FilesOf(items))
  BY <1>1 DEF UpdateItems, Inv, OtherInv
<1>5. QED BY <1>1, <1>2, <1>3, <1>4, StorageOnly

LEMMA FileCreatedKeeps ==
  ASSUME Inv, NEW f \in Files, FileCreated(f)
  PROVE  Inv'
<1>1. f \in created /\ disk[f] # Absent /\ created \ {f} \in SUBSET Files
  BY DEF FileCreated, Inv, FilesInv
<1>2. /\ deleted' = deleted /\ changed' = changed
      /\ UNCHANGED <<apps, DockItemsPref, PinnedOnly>>
  BY DEF FileCreated
<1>3. /\ items \in GoodDocks /\ disk \in Disks /\ queued \in Seq(Files) /\ NoneTwice(queued)
      /\ \A k \in DOMAIN queued : disk[queued[k]] # Absent /\ queued[k] \notin created
      /\ \A g \in created : disk[g] # Absent
      /\ BackedBy(items, disk, deleted \cup changed)
      /\ timer \in BOOLEAN /\ delayed \in BOOLEAN
      /\ deleted \in SUBSET Files /\ changed \in SUBSET Files
  BY BackedFacts DEF Inv, ItemsInv, FilesInv, QueueInv, OtherInv
<1>4. CASE WithFile(f) # {}
  <2>1. /\ created' = created \ {f} /\ items' = items /\ queued' = queued
        /\ delayed' = delayed /\ disk' = disk /\ timer' = timer
    BY <1>4 DEF FileCreated, provider
  <2>2. FilesInv' /\ QueueInv'
    BY <1>1, <1>2, <1>3, <2>1 DEF FilesInv, QueueInv
  <2>3. QED BY <1>2, <1>3, <2>1, <2>2, StorageOnly
<1>5. PICK q : q = Append(queued, f)
  OBVIOUS
<1>6. /\ q \in Seq(Files) /\ NoneTwice(q)
      /\ \A k \in DOMAIN q : disk[q[k]] # Absent /\ q[k] \notin created \ {f}
  <2>1. PICK n \in Nat : n = Len(queued) /\ DOMAIN queued = 1..n
    BY <1>3
  <2>2. /\ q \in Seq(Files) /\ DOMAIN q = 1..n + 1 /\ q[n + 1] = f
        /\ \A k \in 1..n : q[k] = queued[k]
    BY <1>3, <1>5, <2>1
  <2>3. \A k \in 1..n + 1 : k \in 1..n \/ k = n + 1
    BY LastOrEarlier
  <2>4. \A k \in 1..n : queued[k] # f
    BY <1>1, <1>3, <2>1
  <2>5. NoneTwice(q)
    BY <1>3, <2>1, <2>2, <2>3, <2>4 DEF NoneTwice
  <2>6. \A k \in DOMAIN q : disk[q[k]] # Absent /\ q[k] \notin created \ {f}
    BY <1>1, <1>3, <2>1, <2>2, <2>3
  <2>7. QED BY <2>2, <2>5, <2>6
<1>7. CASE WithFile(f) = {} /\ delayed
  <2>1. /\ created' = created \ {f} /\ items' = items /\ queued' = q
        /\ delayed' = delayed /\ disk' = disk /\ timer' = timer
    BY <1>5, <1>7 DEF FileCreated
  <2>2. FilesInv' /\ QueueInv'
    BY <1>1, <1>2, <1>3, <1>6, <2>1 DEF FilesInv, QueueInv
  <2>3. QED BY <1>2, <1>3, <2>1, <2>2, StorageOnly
<1>8. CASE WithFile(f) = {} /\ ~delayed
  <2>1. PICK st : st = Process(items, disk, created \ {f}, q)
    OBVIOUS
  <2>2. /\ items' = st.items /\ disk' = st.disk /\ created' = st.created
        /\ UpdateItems(st.items, Len(st.items) # Len(items))
        /\ queued' = <<>> /\ delayed' = delayed
    BY <1>5, <1>8, <2>1 DEF FileCreated, UpdateItems
  <2>3. PICK c \in SUBSET Files : c = created \ {f}
    BY <1>1
  <2>4. \A g \in c : disk[g] # Absent
    BY <1>3, <2>3
  <2>5. \A k \in DOMAIN q : disk[q[k]] # Absent /\ q[k] \notin c
    BY <1>6, <2>3
  <2>6. Settled(items, c, deleted \cup changed, st.items, st.disk) /\ st.created = c
    BY <1>3, <1>6, <2>1, <2>3, <2>4, <2>5, ProcessSettles
  <2>7. Settled(items, c, deleted' \cup changed', items', disk') /\ created' = c
    BY <1>2, <2>2, <2>6
  <2>8. UpdateItems(items', FALSE \/ Len(items') # Len(items))
    BY <2>2
  <2>9. QED BY <1>2, <1>3, <2>2, <2>7, <2>8, SettledKeeps
<1>9. QED BY <1>4, <1>7, <1>8

\* The items of a file that is gone lose it, or go.
LEMMA HandleItemDeletedFacts ==
  ASSUME Inv, NEW f \in Files, HandleItemDeleted(f)
  PROVE  /\ items' \in GoodDocks /\ BackedBy(items', disk, (deleted \cup changed) \ {f})
         /\ timer' \in BOOLEAN /\ (~timer' => ~timer /\ FilesOf(items') = FilesOf(items))
         /\ ~PinnedOnly =>
              \A a \in Apps : state[a] = "running" => Has(items', a) \/ ~Has(items, a)
<1>1. /\ items \in GoodDocks /\ state \in [Apps -> {"off", "hidden", "running", "closing"}]
      /\ BackedBy(items, disk, deleted \cup changed) /\ timer \in BOOLEAN
  BY BackedFacts DEF Inv, ItemsInv, OtherInv
<1>2. PICK K : K = {k \in DOMAIN items :
                      items[k].file # f \/ (items[k].app \in Active /\ ~PinnedOnly)}
  OBVIOUS
<1>3. PICK s : s = Those(items, K)
  OBVIOUS
<1>4. /\ s \in GoodDocks /\ BackedBy(s, disk, deleted \cup changed)
      /\ \A i \in DOMAIN items \cap K : \E j \in DOMAIN s : s[j] = items[i]
      /\ \A j \in DOMAIN s : \E i \in DOMAIN items \cap K : s[j] = items[i]
      /\ DOMAIN items \subseteq K => s = items
  BY <1>1, <1>3, FromThose
<1>5. PICK t : t = [k \in DOMAIN s |->
                      IF s[k].file # f THEN s[k] ELSE [Transient(s[k].app) EXCEPT !.unity = s[k].unity]]
  OBVIOUS
<1>6. items' = t /\ timer' = (timer \/ WithFile(f) # {})
  BY <1>2, <1>3, <1>5 DEF HandleItemDeleted, UpdateItems
<1>7. ASSUME NEW k \in DOMAIN s
      PROVE  /\ s[k] \in GoodItems
             /\ t[k] \in GoodItems /\ t[k].launcher = s[k].launcher /\ t[k].app = s[k].app
             /\ t[k].kind = "pinned" => t[k] = s[k] /\ s[k].file # f
  <2>1. s[k] \in GoodItems
    BY <1>4 DEF GoodDocks
  <2>2. CASE s[k].file # f
    BY <1>5, <2>1, <2>2
  <2>3. CASE s[k].file = f
    <3>1. PICK i \in DOMAIN items \cap K : s[k] = items[i]
      BY <1>4
    <3>2. s[k].app \in Active
      BY <1>2, <2>3, <3>1
    <3>3. PICK a \in Apps : a = s[k].app
      BY <1>1, <3>2 DEF Active
    <3>4. /\ Transient(a) \in GoodItems /\ Transient(a).kind = "transient"
          /\ Transient(a).launcher = LauncherOf[a] /\ Transient(a).app = a /\ a # NoApp
      BY TransientFacts
    <3>5. PICK u : u = [Transient(a) EXCEPT !.unity = s[k].unity]
      OBVIOUS
    <3>6. /\ u \in GoodItems /\ u.app = a /\ u.kind = "transient" /\ u.launcher = LauncherOf[a]
      BY <2>1, <3>4, <3>5, GoodFacts, UnityFacts
    <3>7. s[k].launcher = LauncherOf[a]
      BY <2>1, <3>3, <3>4, GoodFacts
    <3>8. t[k] = u
      BY <1>5, <2>3, <3>3, <3>5
    <3>9. QED BY <2>1, <3>3, <3>6, <3>7, <3>8
  <2>4. QED BY <2>2, <2>3
<1>8. DOMAIN t = DOMAIN s /\ s \in Seq(GoodItems)
  BY <1>4, <1>5 DEF GoodDocks
<1>9. t \in Seq(GoodItems) /\ Len(t) = Len(s)
  <2>1. PICK n \in Nat : n = Len(s) /\ DOMAIN s = 1..n
    BY <1>8
  <2>2. t \in [1..n -> GoodItems]
    BY <1>5, <1>7, <2>1
  <2>3. QED BY <2>1, <2>2
<1>10. t \in GoodDocks /\ BackedBy(t, disk, deleted \cup changed)
  BY <1>4, <1>7, <1>9, FromSame
<1>11. BackedBy(t, disk, (deleted \cup changed) \ {f})
  <2>1. SUFFICES ASSUME NEW k \in DOMAIN t, t[k].kind # "transient"
                 PROVE  disk[t[k].file] = t[k].launcher \/ t[k].file \in (deleted \cup changed) \ {f}
    BY DEF BackedBy
  <2>2. t[k].kind = "pinned"
    BY <1>7, <1>8, <2>1, GoodFacts
  <2>3. t[k].file # f
    BY <1>7, <1>8, <2>2
  <2>4. QED BY <1>10, <2>1, <2>3 DEF BackedBy
<1>12. ASSUME WithFile(f) = {} PROVE t = items
  <2>1. \A k \in DOMAIN items : items[k].file # f
    BY <1>12 DEF WithFile
  <2>2. s = items
    BY <1>2, <1>4, <2>1
  <2>3. \A k \in DOMAIN s : t[k] = s[k]
    BY <1>5, <2>1, <2>2
  <2>4. QED BY <1>8, <1>9, <2>2, <2>3
<1>13. ASSUME ~PinnedOnly, NEW a \in Apps, state[a] = "running", Has(items, a) PROVE Has(t, a)
  <2>1. PICK k \in DOMAIN items : items[k].app = a
    BY <1>13 DEF Has
  <2>2. a \in Active
    BY <1>1, <1>13 DEF Active
  <2>3. CASE k \in K
    <3>1. PICK j \in DOMAIN s : s[j] = items[k]
      BY <1>4, <2>3
    <3>2. t[j].app = a
      BY <1>7, <2>1, <3>1
    <3>3. QED BY <1>8, <3>2 DEF Has
  <2>4. k \in K
    BY <1>2, <1>13, <2>1, <2>2
  <2>5. QED BY <2>3, <2>4
<1>14. QED BY <1>1, <1>6, <1>10, <1>11, <1>12, <1>13

LEMMA FileDeletedKeeps ==
  ASSUME Inv, NEW f \in Files, FileDeleted(f)
  PROVE  Inv'
<1>1. /\ deleted' = deleted \ {f} /\ changed' = changed /\ created' = created /\ disk' = disk
      /\ queued' = queued /\ delayed' = delayed
      /\ UNCHANGED <<apps, DockItemsPref, PinnedOnly>>
  BY DEF FileDeleted
<1>2. /\ items \in GoodDocks /\ disk \in Disks
      /\ BackedBy(items, disk, deleted \cup changed)
      /\ timer \in BOOLEAN /\ delayed \in BOOLEAN
  BY BackedFacts DEF Inv, ItemsInv, FilesInv, OtherInv
<1>3. FilesInv' /\ QueueInv'
  BY <1>1 DEF Inv, FilesInv, QueueInv
<1>4. CASE disk[f] # Absent
  <2>1. items' = items /\ timer' = timer
    BY <1>4 DEF FileDeleted
  <2>2. BackedBy(items, disk, deleted' \cup changed)
    <3>1. SUFFICES ASSUME NEW k \in DOMAIN items, items[k].kind # "transient"
                   PROVE  \/ disk[items[k].file] = items[k].launcher
                          \/ items[k].file \in deleted' \cup changed
      BY DEF BackedBy
    <3>2. items[k] \in GoodItems
      BY <1>2 DEF GoodDocks
    <3>3. items[k].file \in Files /\ items[k].launcher = Content[items[k].file]
      BY <3>1, <3>2, GoodFacts
    <3>4. CASE items[k].file = f
      BY <1>2, <1>4, <3>3, <3>4 DEF Disks
    <3>5. CASE items[k].file # f
      BY <1>1, <1>2, <3>1, <3>5 DEF BackedBy
    <3>6. QED BY <3>4, <3>5
  <2>3. QED BY <1>1, <1>2, <1>3, <2>1, <2>2, StorageOnly
<1>5. CASE disk[f] = Absent
  <2>1. HandleItemDeleted(f)
    BY <1>5 DEF FileDeleted
  <2>2. /\ items' \in GoodDocks /\ BackedBy(items', disk, (deleted \cup changed) \ {f})
        /\ timer' \in BOOLEAN /\ (~timer' => ~timer /\ FilesOf(items') = FilesOf(items))
        /\ ~PinnedOnly =>
              \A a \in Apps : state[a] = "running" => Has(items', a) \/ ~Has(items, a)
    BY <2>1, HandleItemDeletedFacts
  <2>3. BackedBy(items', disk', deleted' \cup changed')
    BY <1>1, <2>2 DEF BackedBy
  <2>4. QED BY <1>1, <1>2, <1>3, <2>2, <2>3, StorageOnly
<1>6. QED BY <1>4, <1>5

LEMMA FileChangedKeeps ==
  ASSUME Inv, NEW f \in Files, FileChanged(f)
  PROVE  Inv'
<1>1. /\ changed' = changed \ {f} /\ deleted' = deleted /\ created' = created /\ disk' = disk
      /\ queued' = queued /\ delayed' = delayed
      /\ UNCHANGED <<apps, DockItemsPref, PinnedOnly>>
  BY DEF FileChanged
<1>2. /\ items \in GoodDocks /\ disk \in Disks
      /\ BackedBy(items, disk, deleted \cup changed)
      /\ timer \in BOOLEAN /\ delayed \in BOOLEAN
  BY BackedFacts DEF Inv, ItemsInv, FilesInv, OtherInv
<1>3. FilesInv' /\ QueueInv'
  BY <1>1 DEF Inv, FilesInv, QueueInv
<1>4. CASE disk[f] # Absent
  <2>1. PICK t : t = [k \in DOMAIN items |->
                        IF items[k].file = f THEN [items[k] EXCEPT !.launcher = disk[f]]
                        ELSE items[k]]
    OBVIOUS
  <2>2. items' = t /\ timer' = timer
    BY <1>2, <1>4, <2>1 DEF FileChanged, UpdateItems
  <2>3. ASSUME NEW k \in DOMAIN items PROVE t[k] = items[k]
    <3>1. items[k] \in GoodItems
      BY <1>2 DEF GoodDocks
    <3>2. CASE items[k].file # f
      BY <2>1, <3>2
    <3>3. CASE items[k].file = f
      <4>1. items[k].launcher = Content[f] /\ items[k] \in Item
        BY <3>1, <3>3, GoodFacts, DockAssumption DEF DockAssumption
      <4>2. disk[f] = Content[f]
        BY <1>2, <1>4 DEF Disks
      <4>3. PICK i \in Item : i = items[k]
        BY <4>1
      <4>4. [i EXCEPT !.launcher = disk[f]] = i
        BY <4>1, <4>2, <4>3 DEF Item
      <4>5. QED BY <2>1, <3>3, <4>3, <4>4
    <3>4. QED BY <3>2, <3>3
  <2>4. items \in Seq(GoodItems) /\ DOMAIN t = DOMAIN items
    BY <1>2, <2>1 DEF GoodDocks
  <2>5. t = items
    <3>1. items = [k \in DOMAIN items |-> items[k]]
      BY <2>4
    <3>2. t = [k \in DOMAIN items |-> t[k]]
      BY <2>1
    <3>3. QED BY <2>3, <3>1, <3>2
  <2>6. BackedBy(items, disk, deleted \cup changed')
    <3>1. SUFFICES ASSUME NEW k \in DOMAIN items, items[k].kind # "transient"
                   PROVE  \/ disk[items[k].file] = items[k].launcher
                          \/ items[k].file \in deleted \cup changed'
      BY DEF BackedBy
    <3>2. items[k] \in GoodItems
      BY <1>2 DEF GoodDocks
    <3>3. items[k].file \in Files /\ items[k].launcher = Content[items[k].file]
      BY <3>1, <3>2, GoodFacts
    <3>4. CASE items[k].file = f
      BY <1>2, <1>4, <3>3, <3>4 DEF Disks
    <3>5. CASE items[k].file # f
      BY <1>1, <1>2, <3>1, <3>5 DEF BackedBy
    <3>6. QED BY <3>4, <3>5
  <2>7. QED BY <1>1, <1>2, <1>3, <2>2, <2>5, <2>6, StorageOnly
<1>5. CASE disk[f] = Absent
  <2>1. HandleItemDeleted(f)
    BY <1>5 DEF FileChanged
  <2>2. /\ items' \in GoodDocks /\ BackedBy(items', disk, (deleted \cup changed) \ {f})
        /\ timer' \in BOOLEAN /\ (~timer' => ~timer /\ FilesOf(items') = FilesOf(items))
        /\ ~PinnedOnly =>
              \A a \in Apps : state[a] = "running" => Has(items', a) \/ ~Has(items, a)
    BY <2>1, HandleItemDeletedFacts
  <2>3. BackedBy(items', disk', deleted' \cup changed')
    BY <1>1, <2>2 DEF BackedBy
  <2>4. QED BY <1>1, <1>2, <1>3, <2>2, <2>3, StorageOnly
<1>6. QED BY <1>4, <1>5

-----------------------------------------------------------------------------
(* Pinning, dropping, moving                                               *)

LEMMA ResumeKeeps ==
  ASSUME Inv, NEW s \in GoodDocks, NEW d \in Disks, NEW c \in SUBSET Files,
         NEW signal \in BOOLEAN, ResumeItemsMonitor(s, d, c, signal),
         \A k \in DOMAIN queued : d[queued[k]] # Absent /\ queued[k] \notin c,
         \A f \in c : d[f] # Absent, BackedBy(s, d, deleted' \cup changed'),
         deleted' \in SUBSET Files, changed' \in SUBSET Files,
         signal \/ FilesOf(s) = FilesOf(items),
         ~PinnedOnly => \A a \in Apps : state[a] = "running" => Has(s, a) \/ ~Has(items, a),
         UNCHANGED <<apps, DockItemsPref, PinnedOnly>>
  PROVE  Inv'
<1>1. PICK st : st = Process(s, d, c, queued)
  OBVIOUS
<1>2. /\ UpdateItems(st.items, signal \/ Len(st.items) # Len(s))
      /\ disk' = st.disk /\ created' = st.created /\ delayed' = FALSE /\ queued' = <<>>
  BY <1>1 DEF ResumeItemsMonitor
<1>3. items' = st.items
  BY <1>2 DEF UpdateItems
<1>4. queued \in Seq(Files) /\ NoneTwice(queued)
  BY DEF Inv, QueueInv
<1>5. Settled(s, c, deleted' \cup changed', st.items, st.disk) /\ st.created = c
  BY <1>1, <1>4, ProcessSettles
<1>6. Settled(s, c, deleted' \cup changed', items', disk') /\ created' = c
  BY <1>2, <1>3, <1>5
<1>7. UpdateItems(items', signal \/ Len(items') # Len(s)) /\ delayed' \in BOOLEAN
  BY <1>2, <1>3
<1>8. QED BY <1>2, <1>6, <1>7, SettledKeeps

LEMMA PinKeeps ==
  ASSUME Inv, NEW k \in DOMAIN items, Pin(k)
  PROVE  Inv'
<1>1. items[k].kind = "transient" /\ deleted' = deleted /\ UNCHANGED <<apps, DockItemsPref, PinnedOnly>>
  BY DEF Pin
<1>2. /\ items \in GoodDocks /\ disk \in Disks
      /\ queued \in Seq(Files)
      /\ \A j \in DOMAIN queued : disk[queued[j]] # Absent /\ queued[j] \notin created
      /\ \A g \in created : disk[g] # Absent
      /\ BackedBy(items, disk, deleted \cup changed)
      /\ timer \in BOOLEAN
      /\ deleted \in SUBSET Files /\ changed \in SUBSET Files /\ created \in SUBSET Files
  BY BackedFacts DEF Inv, ItemsInv, FilesInv, QueueInv, OtherInv
<1>3. CASE /\ delayed' = TRUE
           /\ UNCHANGED <<items, queued, disk, created, changed, timer>>
  <2>1. FilesInv' /\ QueueInv'
    BY <1>1, <1>3 DEF Inv, FilesInv, QueueInv
  <2>2. QED BY <1>1, <1>2, <1>3, <2>1, StorageOnly
<1>4. ASSUME NEW f \in Files, Content[f] = items[k].launcher, disk[f] = Absent,
             changed' = Rewritten(f),
             ResumeItemsMonitor([items EXCEPT ![k].kind = "pinned", ![k].file = f],
                                [disk EXCEPT ![f] = Content[f]], created \cup {f}, TRUE)
      PROVE  Inv'
  <2>1. items \in Seq(GoodItems) /\ items[k] \in GoodItems /\ items[k] \in Item
    BY <1>2, GoodFacts DEF GoodDocks
  <2>2. Content[f] \in Launchers /\ Content[f] # Absent /\ Content[f] # Empty
    BY MadeFacts
  <2>3. PICK i : i = [items[k] EXCEPT !.kind = "pinned", !.file = f]
    OBVIOUS
  <2>4. /\ i \in Item /\ i.kind = "pinned" /\ i.file = f /\ i.app = items[k].app
        /\ i.launcher = items[k].launcher
    BY <2>1, <2>3 DEF Item
  <2>5. i.app # NoApp => i.launcher = LauncherOf[i.app]
    BY <2>1, <2>4, GoodFacts
  <2>6. i \in GoodItems
    BY <1>4, <2>4, <2>5 DEF GoodItems, Good
  <2>7. PICK s : s = [items EXCEPT ![k] = i]
    OBVIOUS
  <2>8. s = [items EXCEPT ![k].kind = "pinned", ![k].file = f]
    BY <2>1, <2>3, <2>7
  <2>9. /\ s \in Seq(GoodItems) /\ Len(s) = Len(items) /\ DOMAIN s = DOMAIN items
        /\ s[k] = i /\ \A j \in DOMAIN items : j # k => s[j] = items[j]
    BY <2>1, <2>6, <2>7
  <2>10. \A j \in DOMAIN items : s[j].launcher = items[j].launcher /\ s[j].app = items[j].app
    BY <2>4, <2>9
  <2>11. s \in GoodDocks
    BY <1>2, <2>9, <2>10 DEF GoodDocks, Unique
  <2>12. PICK d : d = [disk EXCEPT ![f] = Content[f]]
    OBVIOUS
  <2>13. disk \in [Files -> Launchers \cup {Absent}]
    BY <1>2 DEF Disks
  <2>14. d \in Disks /\ \A g \in Files : d[g] = IF g = f THEN Content[f] ELSE disk[g]
    BY <1>2, <2>2, <2>12, <2>13 DEF Disks
  <2>15. PICK c \in SUBSET Files : c = created \cup {f}
    BY <1>2
  <2>16. ResumeItemsMonitor(s, d, c, TRUE)
    BY <1>4, <2>8, <2>12, <2>15
  <2>17. \A j \in DOMAIN queued : queued[j] \in Files /\ queued[j] # f
    BY <1>2, <1>4
  <2>18. \A j \in DOMAIN queued : d[queued[j]] # Absent /\ queued[j] \notin c
    BY <1>2, <2>14, <2>15, <2>17
  <2>19. \A g \in c : d[g] # Absent
    BY <1>2, <2>2, <2>14, <2>15
  <2>20. changed' \in SUBSET Files /\ changed \subseteq changed'
    BY <1>2, <1>4 DEF Rewritten
  <2>21. BackedBy(s, d, deleted' \cup changed')
    <3>1. SUFFICES ASSUME NEW j \in DOMAIN s, s[j].kind # "transient"
                   PROVE  d[s[j].file] = s[j].launcher \/ s[j].file \in deleted' \cup changed'
      BY DEF BackedBy
    <3>2. CASE j = k
      BY <1>4, <2>4, <2>9, <2>14, <3>2
    <3>3. CASE j # k
      <4>1. s[j] = items[j] /\ j \in DOMAIN items /\ items[j] \in GoodItems
        BY <2>1, <2>9, <3>3
      <4>2. items[j].file \in Files
        BY <3>1, <4>1, GoodFacts
      <4>3. CASE items[j].file = f
        BY <1>4, <4>1, <4>3 DEF Rewritten, WithFile
      <4>4. CASE items[j].file # f
        BY <1>1, <1>2, <2>14, <2>20, <3>1, <4>1, <4>2, <4>4 DEF BackedBy
      <4>5. QED BY <4>3, <4>4
    <3>4. QED BY <3>2, <3>3
  <2>22. \A a \in Apps : Has(items, a) => Has(s, a)
    BY <2>9, <2>10 DEF Has
  <2>23. deleted' \in SUBSET Files
    BY <1>1, <1>2
  <2>24. QED BY <1>1, <2>11, <2>14, <2>16, <2>18, <2>19, <2>20, <2>21, <2>22, <2>23, ResumeKeeps
<1>5. QED BY <1>3, <1>4 DEF Pin

LEMMA UnpinKeeps ==
  ASSUME Inv, ~Hasty, NEW k \in DOMAIN items, Unpin(k)
  PROVE  Inv'
<1>1. PICK i : i = items[k]
  OBVIOUS
<1>2. PICK gone \in BOOLEAN : gone = ~(i.app \in Active \/ i.unity)
  OBVIOUS
<1>3. PICK s : s = IF gone THEN RemoveAt(items, k) ELSE items
  OBVIOUS
<1>4. PICK d : d = [disk EXCEPT ![i.file] = Absent]
  OBVIOUS
<1>5. /\ i.kind = "pinned" /\ i.file \notin created \cup ToSet(queued)
      /\ deleted' = IF gone \/ disk[i.file] = Absent THEN deleted ELSE deleted \cup {i.file}
      /\ changed' = changed /\ UNCHANGED <<apps, DockItemsPref, PinnedOnly>>
  BY <1>1, <1>2 DEF Unpin
<1>6. ResumeItemsMonitor(s, d, created, gone)
  BY <1>1, <1>2, <1>3, <1>4 DEF Unpin
<1>7. /\ items \in GoodDocks /\ disk \in Disks
      /\ queued \in Seq(Files)
      /\ \A j \in DOMAIN queued : disk[queued[j]] # Absent /\ queued[j] \notin created
      /\ \A g \in created : disk[g] # Absent
      /\ BackedBy(items, disk, deleted \cup changed)
      /\ deleted \in SUBSET Files /\ changed \in SUBSET Files /\ created \in SUBSET Files
      /\ state \in [Apps -> {"off", "hidden", "running", "closing"}]
  BY BackedFacts DEF Inv, ItemsInv, FilesInv, QueueInv, OtherInv
<1>8. items \in Seq(GoodItems) /\ Unique(items) /\ i \in GoodItems
  BY <1>1, <1>7 DEF GoodDocks
<1>9. i.file \in Files /\ i.launcher = Content[i.file] /\ i.launcher # Empty
  BY <1>5, <1>8, GoodFacts
<1>10. disk \in [Files -> Launchers \cup {Absent}]
  BY <1>7 DEF Disks
<1>11. d \in Disks /\ \A g \in Files : d[g] = IF g = i.file THEN Absent ELSE disk[g]
  BY <1>4, <1>7, <1>9, <1>10 DEF Disks
<1>12. \A j \in DOMAIN queued : d[queued[j]] # Absent /\ queued[j] \notin created
  <2>1. \A j \in DOMAIN queued : queued[j] \in Files /\ queued[j] # i.file
    BY <1>5, <1>7 DEF ToSet
  <2>2. QED BY <1>7, <1>11, <2>1
<1>13. \A g \in created : d[g] # Absent
  BY <1>5, <1>7, <1>11
<1>14. deleted' \in SUBSET Files /\ deleted \subseteq deleted'
  BY <1>5, <1>7, <1>9
<1>15. ASSUME NEW j \in DOMAIN items, j # k, items[j].kind # "transient"
       PROVE  items[j].file # i.file
  <2>1. items[j] \in GoodItems
    BY <1>8
  <2>2. items[j].launcher = Content[items[j].file]
    BY <1>15, <2>1, GoodFacts
  <2>3. items[j].launcher = items[k].launcher => items[j].launcher = Empty
    BY <1>8, <1>15 DEF Unique
  <2>4. QED BY <1>1, <1>9, <2>2, <2>3
<1>16. BackedBy(items, d, deleted \cup changed \cup {i.file})
  <2>1. SUFFICES ASSUME NEW j \in DOMAIN items, items[j].kind # "transient"
                 PROVE  \/ d[items[j].file] = items[j].launcher
                        \/ items[j].file \in deleted \cup changed \cup {i.file}
    BY DEF BackedBy
  <2>2. items[j] \in GoodItems
    BY <1>8
  <2>3. items[j].file \in Files
    BY <2>1, <2>2, GoodFacts
  <2>4. QED BY <1>7, <1>11, <2>1, <2>3 DEF BackedBy
<1>17. CASE gone
  <2>1. s = RemoveAt(items, k)
    BY <1>3, <1>17
  <2>2. /\ s \in GoodDocks /\ BackedBy(s, d, deleted \cup changed \cup {i.file})
        /\ \A x \in DOMAIN items \ {k} : \E y \in DOMAIN s : s[y] = items[x]
        /\ \A y \in DOMAIN s : \E x \in DOMAIN items \ {k} : s[y] = items[x]
    BY <1>7, <1>16, <2>1, FromRemoved
  <2>3. BackedBy(s, d, deleted' \cup changed')
    <3>1. SUFFICES ASSUME NEW j \in DOMAIN s, s[j].kind # "transient"
                   PROVE  d[s[j].file] = s[j].launcher \/ s[j].file \in deleted' \cup changed'
      BY DEF BackedBy
    <3>2. s[j].file # i.file
      BY <1>15, <2>2, <3>1
    <3>3. QED BY <1>5, <1>14, <2>2, <3>1, <3>2 DEF BackedBy
  <2>4. ASSUME NEW a \in Apps, state[a] = "running", Has(items, a) PROVE Has(s, a)
    <3>1. PICK x \in DOMAIN items : items[x].app = a
      BY <2>4 DEF Has
    <3>2. a \in Active
      BY <1>7, <2>4 DEF Active
    <3>3. x # k
      BY <1>1, <1>2, <1>17, <3>1, <3>2
    <3>4. QED BY <2>2, <3>1, <3>3 DEF Has
  <2>5. changed' \in SUBSET Files /\ created \in SUBSET Files /\ s \in GoodDocks /\ d \in Disks
    BY <1>5, <1>7, <1>11, <2>2
  <2>6. gone \/ FilesOf(s) = FilesOf(items)
    BY <1>17
  <2>7. deleted' \in SUBSET Files /\ UNCHANGED <<apps, DockItemsPref, PinnedOnly>>
    BY <1>5, <1>14
  <2>8. ~PinnedOnly => \A a \in Apps : state[a] = "running" => Has(s, a) \/ ~Has(items, a)
    BY <2>4
  <2>9. QED BY <1>6, <1>12, <1>13, <2>3, <2>5, <2>6, <2>7, <2>8, ResumeKeeps
<1>18. CASE ~gone
  <2>1. s = items
    BY <1>3, <1>18
  <2>2. BackedBy(items, d, deleted' \cup changed')
    <3>1. CASE disk[i.file] # Absent
      <4>1. deleted \cup changed \cup {i.file} \subseteq deleted' \cup changed'
        BY <1>5, <1>18, <3>1
      <4>2. QED BY <1>16, <4>1 DEF BackedBy
    <3>2. CASE disk[i.file] = Absent
      <4>1. i.file \in deleted \cup changed
        <5>1. disk[i.file] # i.launcher
          BY <1>9, <3>2, MadeFacts
        <5>2. QED BY <1>1, <1>5, <1>7, <5>1 DEF BackedBy
      <4>2. deleted \cup changed \cup {i.file} \subseteq deleted' \cup changed'
        BY <1>5, <1>14, <4>1
      <4>3. QED BY <1>16, <4>2 DEF BackedBy
    <3>3. QED BY <3>1, <3>2
  <2>3. BackedBy(s, d, deleted' \cup changed')
    BY <2>1, <2>2
  <2>4. changed' \in SUBSET Files /\ created \in SUBSET Files /\ s \in GoodDocks /\ d \in Disks
    BY <1>5, <1>7, <1>11, <2>1
  <2>5. gone \/ FilesOf(s) = FilesOf(items)
    BY <2>1
  <2>6. deleted' \in SUBSET Files /\ UNCHANGED <<apps, DockItemsPref, PinnedOnly>>
    BY <1>5, <1>14
  <2>7. ~PinnedOnly => \A a \in Apps : state[a] = "running" => Has(s, a) \/ ~Has(items, a)
    BY <2>1
  <2>8. QED BY <1>6, <1>12, <1>13, <2>3, <2>4, <2>5, <2>6, <2>7, ResumeKeeps
<1>19. QED BY <1>17, <1>18

LEMMA DropKeeps ==
  ASSUME Inv, NEW f \in Files, NEW to \in 1..Len(items) + 1, Drop(f, to)
  PROVE  Inv'
<1>1. PICK i \in GoodItems : i = Made(f, Content[f])
  BY MadeFacts
<1>2. /\ i.kind = "pinned" /\ i.file = f /\ i.launcher = Content[f] /\ i.app = NoApp
      /\ Content[f] # Empty /\ Content[f] # Absent /\ Content[f] \in Launchers
  BY <1>1, MadeFacts
<1>3. PICK s : s = InsertAt(items, to, i)
  OBVIOUS
<1>4. PICK d : d = [disk EXCEPT ![f] = Content[f]]
  OBVIOUS
<1>5. /\ ~exists_for_uri(items, Content[f]) /\ disk[f] = Absent /\ changed' = Rewritten(f)
      /\ ResumeItemsMonitor(s, d, created \cup {f}, TRUE)
      /\ deleted' = deleted /\ UNCHANGED <<apps, DockItemsPref, PinnedOnly>>
  BY <1>1, <1>3, <1>4 DEF Drop
<1>6. /\ items \in GoodDocks /\ disk \in Disks
      /\ queued \in Seq(Files)
      /\ \A j \in DOMAIN queued : disk[queued[j]] # Absent /\ queued[j] \notin created
      /\ \A g \in created : disk[g] # Absent
      /\ BackedBy(items, disk, deleted \cup changed)
      /\ deleted \in SUBSET Files /\ changed \in SUBSET Files /\ created \in SUBSET Files
  BY BackedFacts DEF Inv, ItemsInv, FilesInv, QueueInv, OtherInv
<1>7. \A k \in DOMAIN items : items[k].launcher # i.launcher
  BY <1>2, <1>5 DEF exists_for_uri
<1>8. /\ s \in GoodDocks
      /\ \A k \in DOMAIN items : \E j \in DOMAIN s : s[j] = items[k]
      /\ \A j \in DOMAIN s : s[j] = i \/ \E k \in DOMAIN items : s[j] = items[k]
  BY <1>2, <1>3, <1>6, <1>7, FromInserted
<1>9. disk \in [Files -> Launchers \cup {Absent}]
  BY <1>6 DEF Disks
<1>10. d \in Disks /\ \A g \in Files : d[g] = IF g = f THEN Content[f] ELSE disk[g]
  BY <1>2, <1>4, <1>6, <1>9 DEF Disks
<1>11. PICK c \in SUBSET Files : c = created \cup {f}
  BY <1>6
<1>12. \A j \in DOMAIN queued : d[queued[j]] # Absent /\ queued[j] \notin c
  <2>1. \A j \in DOMAIN queued : queued[j] \in Files /\ queued[j] # f
    BY <1>5, <1>6
  <2>2. QED BY <1>6, <1>10, <1>11, <2>1
<1>13. \A g \in c : d[g] # Absent
  BY <1>2, <1>6, <1>10, <1>11
<1>14. changed' \in SUBSET Files /\ changed \subseteq changed' /\ deleted' \in SUBSET Files
  BY <1>5, <1>6 DEF Rewritten
<1>15. BackedBy(s, d, deleted' \cup changed')
  <2>1. SUFFICES ASSUME NEW j \in DOMAIN s, s[j].kind # "transient"
                 PROVE  d[s[j].file] = s[j].launcher \/ s[j].file \in deleted' \cup changed'
    BY DEF BackedBy
  <2>2. CASE s[j] = i
    BY <1>2, <1>10, <2>2
  <2>3. ASSUME NEW k \in DOMAIN items, s[j] = items[k]
        PROVE  d[s[j].file] = s[j].launcher \/ s[j].file \in deleted' \cup changed'
    <3>1. items[k] \in GoodItems
      BY <1>6 DEF GoodDocks
    <3>2. items[k].file \in Files /\ items[k].launcher = Content[items[k].file]
      BY <2>1, <2>3, <3>1, GoodFacts
    <3>3. items[k].file # f
      BY <1>2, <1>7, <3>2
    <3>4. QED BY <1>5, <1>6, <1>10, <1>14, <2>1, <2>3, <3>2, <3>3 DEF BackedBy
  <2>4. QED BY <1>8, <2>2, <2>3
<1>16. \A a \in Apps : Has(items, a) => Has(s, a)
  BY <1>8 DEF Has
<1>17. ResumeItemsMonitor(s, d, c, TRUE)
  BY <1>5, <1>11
<1>18. ~PinnedOnly => \A a \in Apps : state[a] = "running" => Has(s, a) \/ ~Has(items, a)
  BY <1>16
<1>19. s \in GoodDocks /\ d \in Disks /\ changed' \in SUBSET Files /\ deleted' \in SUBSET Files
       /\ UNCHANGED <<apps, DockItemsPref, PinnedOnly>>
  BY <1>5, <1>8, <1>10, <1>14
<1>20. QED BY <1>12, <1>13, <1>15, <1>17, <1>18, <1>19, ResumeKeeps

LEMMA MoveKeeps ==
  ASSUME Inv, NEW i \in DOMAIN items, NEW j \in DOMAIN items, Move(i, j)
  PROVE  Inv'
<1>1. /\ items' = move_to(items, i, j) /\ timer' = (timer \/ TRUE)
      /\ UNCHANGED <<queued, delayed, storage, apps, DockItemsPref, PinnedOnly>>
  BY DEF Move, UpdateItems
<1>2. items \in GoodDocks /\ BackedBy(items, disk, deleted \cup changed)
  BY BackedFacts DEF Inv, ItemsInv
<1>3. /\ items' \in GoodDocks /\ BackedBy(items', disk, deleted \cup changed)
      /\ \A a \in Apps : Has(items, a) => Has(items', a)
  BY <1>1, <1>2, FromMoved
<1>4. timer' = TRUE
  BY <1>1
<1>5. QED BY <1>1, <1>3, <1>4, ItemsOnly

-----------------------------------------------------------------------------
(* Applications                                                            *)

States == [Apps -> {"off", "hidden", "running", "closing"}]

\* What LiveInv says.
LEMMA LiveFacts ==
  ASSUME Inv, ~Restarts
  PROVE  /\ ~PinnedOnly => \A a \in Apps : state[a] = "running" => Has(items, a)
         /\ \A a \in Apps : state[a] = "hidden" => a \in pending
BY ShownFacts DEF Inv, LiveInv

\* The files and the events do not change.
LEMMA AppsOnly ==
  ASSUME Inv, items' \in GoodDocks, BackedBy(items', disk, deleted \cup changed),
         timer' \in BOOLEAN, ~timer' => ~timer /\ FilesOf(items') = FilesOf(items),
         state' \in States, pending' \in SUBSET Apps, PinnedOnly' \in BOOLEAN,
         ~Restarts => /\ ~PinnedOnly' => \A a \in Apps : state'[a] = "running" => Has(items', a)
                      /\ \A a \in Apps : state'[a] = "hidden" => a \in pending',
         UNCHANGED <<queued, delayed, storage, DockItemsPref>>
  PROVE  Inv'
<1>1. ItemsInv'
  BY DEF ItemsInv
<1>2. FilesInv' /\ QueueInv'
  BY DEF Inv, FilesInv, QueueInv, storage
<1>3. OtherInv'
  BY DEF Inv, OtherInv, States
<1>4. Backed'
  BY DEF Backed, BackedBy, storage
<1>5. Saved'
  BY DEF Inv, Saved
<1>6. LiveInv'
  <2>1. RunningShown' <=>
          (~PinnedOnly' => \A a \in Apps : state'[a] = "running" => Has(items', a))
    BY DEF RunningShown, Has, States
  <2>2. QED BY <2>1 DEF LiveInv
<1>7. QED BY <1>1, <1>2, <1>3, <1>4, <1>5, <1>6 DEF Inv

LEMMA SetPinnedOnlyKeeps ==
  ASSUME Inv, NEW b \in BOOLEAN, SetPinnedOnly(b)
  PROVE  Inv'
<1>1. PICK s : s = IF b THEN Those(items, Pinned(items)) ELSE AddTransients(items, Active, Visible)
  OBVIOUS
<1>2. /\ items' = s /\ timer' = (timer \/ Len(s) # Len(items)) /\ PinnedOnly' = b
      /\ UNCHANGED <<queued, delayed, storage, apps, DockItemsPref>>
  BY <1>1 DEF SetPinnedOnly, UpdateItems
<1>3. /\ items \in GoodDocks /\ BackedBy(items, disk, deleted \cup changed)
      /\ state \in States /\ pending \in SUBSET Apps /\ timer \in BOOLEAN
  BY BackedFacts DEF Inv, ItemsInv, OtherInv, States
<1>4. /\ s \in GoodDocks /\ BackedBy(s, disk, deleted \cup changed)
      /\ Len(s) = Len(items) => FilesOf(s) = FilesOf(items)
      /\ ~b => \A a \in Visible : Has(s, a)
  <2>1. CASE b
    BY <1>1, <1>3, <2>1, FromThose
  <2>2. CASE ~b
    <3>1. Active \in SUBSET Apps /\ Visible \in SUBSET Active
      BY <1>3 DEF Active, Visible, States
    <3>2. Grown(items, s) /\ \A a \in Visible : Has(s, a)
      BY <1>1, <1>3, <2>2, <3>1, AddTransientsFacts
    <3>3. FilesOf(s) = FilesOf(items)
      BY <3>2 DEF Grown
    <3>4. s \in GoodDocks /\ BackedBy(s, disk, deleted \cup changed)
      BY <1>3, <3>2, GrownBacked
    <3>5. QED BY <2>2, <3>2, <3>3, <3>4
  <2>3. QED BY <2>1, <2>2
<1>5. state' = state /\ pending' = pending
  BY <1>2 DEF apps
<1>6. ~PinnedOnly' => \A a \in Apps : state'[a] = "running" => Has(items', a)
  BY <1>2, <1>3, <1>4, <1>5 DEF Visible, States
<1>7. ~Restarts => \A a \in Apps : state'[a] = "hidden" => a \in pending'
  BY <1>5, LiveFacts
<1>8. timer' \in BOOLEAN /\ (~timer' => ~timer /\ FilesOf(items') = FilesOf(items))
  BY <1>2, <1>3, <1>4
<1>9. state' \in States /\ pending' \in SUBSET Apps /\ PinnedOnly' \in BOOLEAN
  BY <1>2, <1>3, <1>5
<1>10. items' \in GoodDocks /\ BackedBy(items', disk, deleted \cup changed)
  BY <1>2, <1>4
<1>11. UNCHANGED <<queued, delayed, storage, DockItemsPref>>
  BY <1>2
<1>12. QED BY <1>6, <1>7, <1>8, <1>9, <1>10, <1>11, AppsOnly

\* The application has an item, unless only pinned items are shown.
LEMMA AppOpenedFacts ==
  ASSUME Inv, NEW a \in Apps, AppOpened(a)
  PROVE  /\ items' \in GoodDocks /\ BackedBy(items', disk, deleted \cup changed)
         /\ timer' \in BOOLEAN /\ (~timer' => ~timer /\ FilesOf(items') = FilesOf(items))
         /\ \A b \in Apps : Has(items, b) => Has(items', b)
         /\ ~PinnedOnly => Has(items', a)
<1>1. PICK u : u = IF PinnedOnly THEN items ELSE Append(items, Transient(a))
  OBVIOUS
<1>2. PICK s : s = Match(items, a, u)
  OBVIOUS
<1>3. items' = s /\ timer' = (timer \/ Len(s) # Len(items))
  BY <1>1, <1>2 DEF AppOpened, UpdateItems
<1>4. /\ items \in GoodDocks /\ BackedBy(items, disk, deleted \cup changed)
      /\ timer \in BOOLEAN
  BY BackedFacts DEF Inv, ItemsInv, OtherInv
<1>5. items \in Seq(GoodItems) /\ Unique(items)
  BY <1>4 DEF GoodDocks
<1>6. u = items \/ u = Append(items, Transient(a))
  BY <1>1
<1>7. Grown(items, s) /\ (u = items \/ Has(s, a))
  BY <1>2, <1>5, <1>6, MatchFacts
<1>8. s \in GoodDocks /\ BackedBy(s, disk, deleted \cup changed)
  BY <1>4, <1>7, GrownBacked
<1>9. ~PinnedOnly => u # items
  <2>1. Len(Append(items, Transient(a))) # Len(items)
    BY <1>5, TransientFacts
  <2>2. QED BY <1>1, <2>1
<1>10. FilesOf(s) = FilesOf(items) /\ \A b \in Apps : Has(items, b) => Has(s, b)
  BY <1>7 DEF Grown
<1>11. QED BY <1>3, <1>4, <1>7, <1>8, <1>9, <1>10

LEMMA StartsKeeps ==
  ASSUME Inv, NEW a \in Apps, NEW v \in BOOLEAN, Starts(a, v)
  PROVE  Inv'
<1>1. /\ state[a] = "off"
      /\ state' = [state EXCEPT ![a] = IF v THEN "running" ELSE "hidden"]
      /\ UNCHANGED <<queued, delayed, storage, DockItemsPref, PinnedOnly>>
  BY DEF Starts
<1>2. /\ items \in GoodDocks /\ BackedBy(items, disk, deleted \cup changed)
      /\ state \in States /\ pending \in SUBSET Apps /\ timer \in BOOLEAN /\ PinnedOnly \in BOOLEAN
  BY BackedFacts DEF Inv, ItemsInv, OtherInv, States
<1>3. /\ state' \in States
      /\ \A b \in Apps : state'[b] = IF b = a THEN (IF v THEN "running" ELSE "hidden") ELSE state[b]
  BY <1>1, <1>2 DEF States
<1>4. CASE v
  <2>1. AppOpened(a) /\ pending' = pending
    BY <1>4 DEF Starts
  <2>2. /\ items' \in GoodDocks /\ BackedBy(items', disk, deleted \cup changed)
        /\ timer' \in BOOLEAN /\ (~timer' => ~timer /\ FilesOf(items') = FilesOf(items))
        /\ \A b \in Apps : Has(items, b) => Has(items', b)
        /\ ~PinnedOnly => Has(items', a)
    BY <2>1, AppOpenedFacts
  <2>3. ~Restarts => /\ ~PinnedOnly' => \A b \in Apps : state'[b] = "running" => Has(items', b)
                     /\ \A b \in Apps : state'[b] = "hidden" => b \in pending'
    BY <1>1, <1>3, <1>4, <2>1, <2>2, LiveFacts
  <2>4. QED BY <1>1, <1>2, <1>3, <2>1, <2>2, <2>3, AppsOnly
<1>5. CASE ~v
  <2>1. pending' = pending \cup {a} /\ items' = items /\ timer' = timer
    BY <1>5 DEF Starts
  <2>2. ~Restarts => /\ ~PinnedOnly' => \A b \in Apps : state'[b] = "running" => Has(items', b)
                     /\ \A b \in Apps : state'[b] = "hidden" => b \in pending'
    BY <1>1, <1>3, <1>5, <2>1, LiveFacts
  <2>3. QED BY <1>1, <1>2, <1>3, <2>1, <2>2, AppsOnly
<1>6. QED BY <1>4, <1>5

LEMMA BecomesVisibleKeeps ==
  ASSUME Inv, NEW a \in Apps, BecomesVisible(a)
  PROVE  Inv'
<1>1. /\ state[a] = "hidden" /\ state' = [state EXCEPT ![a] = "running"]
      /\ UNCHANGED <<queued, delayed, storage, pending, DockItemsPref, PinnedOnly>>
  BY DEF BecomesVisible
<1>2. /\ items \in GoodDocks /\ BackedBy(items, disk, deleted \cup changed)
      /\ state \in States /\ pending \in SUBSET Apps /\ timer \in BOOLEAN /\ PinnedOnly \in BOOLEAN
  BY BackedFacts DEF Inv, ItemsInv, OtherInv, States
<1>3. /\ state' \in States
      /\ \A b \in Apps : state'[b] = IF b = a THEN "running" ELSE state[b]
  BY <1>1, <1>2 DEF States
<1>4. CASE a \in pending
  <2>1. AppOpened(a)
    BY <1>4 DEF BecomesVisible
  <2>2. /\ items' \in GoodDocks /\ BackedBy(items', disk, deleted \cup changed)
        /\ timer' \in BOOLEAN /\ (~timer' => ~timer /\ FilesOf(items') = FilesOf(items))
        /\ \A b \in Apps : Has(items, b) => Has(items', b)
        /\ ~PinnedOnly => Has(items', a)
    BY <2>1, AppOpenedFacts
  <2>3. ~Restarts => /\ ~PinnedOnly' => \A b \in Apps : state'[b] = "running" => Has(items', b)
                     /\ \A b \in Apps : state'[b] = "hidden" => b \in pending'
    BY <1>1, <1>3, <2>2, LiveFacts
  <2>4. QED BY <1>1, <1>2, <1>3, <2>2, <2>3, AppsOnly
<1>5. CASE a \notin pending
  <2>1. items' = items /\ timer' = timer
    BY <1>5 DEF BecomesVisible
  <2>2. Restarts
    BY <1>1, <1>5, LiveFacts
  <2>3. QED BY <1>1, <1>2, <1>3, <2>1, <2>2, AppsOnly
<1>6. QED BY <1>4, <1>5

LEMMA StopsKeeps ==
  ASSUME Inv, NEW a \in Apps, Stops(a)
  PROVE  Inv'
<1>1. /\ state' = [state EXCEPT ![a] = "closing"]
      /\ items' = items /\ timer' = timer /\ pending' = pending /\ PinnedOnly' = PinnedOnly
      /\ UNCHANGED <<queued, delayed, storage, DockItemsPref>>
  BY DEF Stops, provider, order
<1>2. /\ items \in GoodDocks /\ BackedBy(items, disk, deleted \cup changed)
      /\ state \in States /\ pending \in SUBSET Apps /\ timer \in BOOLEAN /\ PinnedOnly \in BOOLEAN
  BY BackedFacts DEF Inv, ItemsInv, OtherInv, States
<1>3. /\ state' \in States
      /\ \A b \in Apps : state'[b] = IF b = a THEN "closing" ELSE state[b]
  BY <1>1, <1>2 DEF States
<1>4. ~Restarts => /\ ~PinnedOnly' => \A b \in Apps : state'[b] = "running" => Has(items', b)
                   /\ \A b \in Apps : state'[b] = "hidden" => b \in pending'
  BY <1>1, <1>3, LiveFacts
<1>5. QED BY <1>1, <1>2, <1>3, <1>4, AppsOnly

LEMMA ClosedKeeps ==
  ASSUME Inv, NEW a \in Apps, Closed(a)
  PROVE  Inv'
<1>1. PICK s : s = [k \in DOMAIN items |->
                      IF items[k].app = a THEN [items[k] EXCEPT !.app = NoApp] ELSE items[k]]
  OBVIOUS
<1>2. PICK K : K = {k \in DOMAIN s : s[k].kind = "transient" => s[k].app # NoApp \/ s[k].unity}
  OBVIOUS
<1>3. PICK t : t = Those(s, K)
  OBVIOUS
<1>4. /\ state' = [state EXCEPT ![a] = "off"] /\ pending' = pending \ {a}
      /\ items' = t /\ timer' = (timer \/ Len(t) # Len(s))
      /\ UNCHANGED <<queued, delayed, storage, DockItemsPref, PinnedOnly>>
  BY <1>1, <1>2, <1>3 DEF Closed, UpdateItems
<1>5. /\ items \in GoodDocks /\ BackedBy(items, disk, deleted \cup changed)
      /\ state \in States /\ pending \in SUBSET Apps /\ timer \in BOOLEAN /\ PinnedOnly \in BOOLEAN
  BY BackedFacts DEF Inv, ItemsInv, OtherInv, States
<1>6. items \in Seq(GoodItems) /\ a # NoApp
  BY <1>5, DockAssumption DEF GoodDocks, DockAssumption
<1>7. ASSUME NEW k \in DOMAIN items
      PROVE  /\ s[k] \in GoodItems /\ s[k].launcher = items[k].launcher
             /\ s[k].app = IF items[k].app = a THEN NoApp ELSE items[k].app
             /\ s[k].kind = items[k].kind /\ s[k].file = items[k].file
  <2>1. PICK i \in GoodItems : i = items[k]
    BY <1>6
  <2>2. CASE i.app = a
    <3>1. PICK u : u = [i EXCEPT !.app = NoApp]
      OBVIOUS
    <3>2. /\ u \in GoodItems /\ u.app = NoApp
          /\ u.kind = i.kind /\ u.file = i.file /\ u.launcher = i.launcher
      BY <3>1, AppFacts
    <3>3. s[k] = u
      BY <1>1, <2>1, <2>2, <3>1
    <3>4. QED BY <2>1, <2>2, <3>2, <3>3
  <2>3. CASE i.app # a
    BY <1>1, <2>1, <2>3
  <2>4. QED BY <2>2, <2>3
<1>8. s \in Seq(GoodItems) /\ Len(s) = Len(items) /\ DOMAIN s = DOMAIN items
  <2>1. PICK n \in Nat : n = Len(items) /\ DOMAIN items = 1..n
    BY <1>6
  <2>2. s \in [1..n -> GoodItems]
    BY <1>1, <1>7, <2>1
  <2>3. QED BY <2>1, <2>2
<1>9. s \in GoodDocks /\ BackedBy(s, disk, deleted \cup changed)
  BY <1>5, <1>7, <1>8, FromSame
<1>10. FilesOf(s) = FilesOf(items)
  BY <1>6, <1>7, <1>8, FilesSame
<1>11. /\ t \in GoodDocks /\ BackedBy(t, disk, deleted \cup changed)
       /\ \A i \in DOMAIN s \cap K : \E j \in DOMAIN t : t[j] = s[i]
       /\ Len(t) = Len(s) => t = s
  BY <1>3, <1>9, FromThose
<1>12. timer' \in BOOLEAN /\ (~timer' => ~timer /\ FilesOf(items') = FilesOf(items))
  BY <1>4, <1>5, <1>10, <1>11
<1>13. /\ state' \in States
       /\ \A b \in Apps : state'[b] = IF b = a THEN "off" ELSE state[b]
  BY <1>4, <1>5 DEF States
<1>14. ASSUME NEW b \in Apps, b # a, Has(items, b) PROVE Has(t, b)
  <2>1. PICK k \in DOMAIN items : items[k].app = b
    BY <1>14 DEF Has
  <2>2. s[k].app = b /\ b # NoApp
    BY <1>7, <1>14, <2>1, DockAssumption DEF DockAssumption
  <2>3. k \in DOMAIN s \cap K
    BY <1>2, <1>8, <2>2
  <2>4. QED BY <1>11, <2>2, <2>3 DEF Has
<1>15. ~Restarts => /\ ~PinnedOnly' => \A b \in Apps : state'[b] = "running" => Has(items', b)
                    /\ \A b \in Apps : state'[b] = "hidden" => b \in pending'
  BY <1>4, <1>13, <1>14, LiveFacts
<1>16. pending' \in SUBSET Apps /\ PinnedOnly' \in BOOLEAN
  BY <1>4, <1>5
<1>17. QED BY <1>4, <1>11, <1>12, <1>13, <1>15, <1>16, AppsOnly

LEMMA UnityInfoKeeps ==
  ASSUME Inv, NEW k \in DOMAIN items, UnityInfo(k)
  PROVE  Inv'
<1>1. UNCHANGED <<queued, delayed, storage, apps, DockItemsPref, PinnedOnly>>
  BY DEF UnityInfo
<1>2. PICK i : i = items[k]
  OBVIOUS
<1>3. /\ items \in GoodDocks /\ BackedBy(items, disk, deleted \cup changed)
      /\ state \in States /\ timer \in BOOLEAN
  BY BackedFacts DEF Inv, ItemsInv, OtherInv, States
<1>4. items \in Seq(GoodItems) /\ i \in GoodItems
  BY <1>2, <1>3 DEF GoodDocks
<1>5. CASE i.unity /\ i.kind = "transient" /\ i.app = NoApp
  <2>1. items' = RemoveAt(items, k) /\ timer' = TRUE
    BY <1>2, <1>5 DEF UnityInfo, UpdateItems
  <2>2. /\ items' \in GoodDocks /\ BackedBy(items', disk, deleted \cup changed)
        /\ \A x \in DOMAIN items \ {k} : \E y \in DOMAIN items' : items'[y] = items[x]
    BY <1>3, <2>1, FromRemoved
  <2>3. ASSUME NEW a \in Apps, Has(items, a) PROVE Has(items', a)
    <3>1. PICK x \in DOMAIN items : items[x].app = a
      BY <2>3 DEF Has
    <3>2. x # k
      BY <1>2, <1>5, <3>1, DockAssumption DEF DockAssumption
    <3>3. QED BY <2>2, <3>1, <3>2 DEF Has
  <2>4. QED BY <1>1, <2>1, <2>2, <2>3, ItemsOnly
<1>6. CASE ~(i.unity /\ i.kind = "transient" /\ i.app = NoApp)
  <2>1. PICK s : s = [items EXCEPT ![k].unity = ~i.unity]
    OBVIOUS
  <2>2. items' = s /\ timer' = timer
    BY <1>2, <1>3, <1>6, <2>1 DEF UnityInfo, UpdateItems
  <2>3. PICK u : u = [i EXCEPT !.unity = ~i.unity]
    OBVIOUS
  <2>4. /\ u \in GoodItems /\ u.app = i.app
        /\ u.kind = i.kind /\ u.file = i.file /\ u.launcher = i.launcher
    BY <1>4, <2>3, UnityFacts
  <2>5. s = [items EXCEPT ![k] = u]
    BY <1>2, <2>1, <2>3
  <2>6. /\ s \in Seq(GoodItems) /\ Len(s) = Len(items) /\ DOMAIN s = DOMAIN items
        /\ s[k] = u /\ \A j \in DOMAIN items : j # k => s[j] = items[j]
    BY <1>4, <2>4, <2>5
  <2>7. \A j \in DOMAIN items : /\ s[j].launcher = items[j].launcher /\ s[j].app = items[j].app
                                /\ s[j].kind = items[j].kind /\ s[j].file = items[j].file
    BY <1>2, <2>4, <2>6
  <2>8. s \in GoodDocks /\ BackedBy(s, disk, deleted \cup changed)
    BY <1>3, <2>6, <2>7, FromSame
  <2>9. FilesOf(s) = FilesOf(items)
    BY <1>4, <2>6, <2>7, FilesSame
  <2>10. \A a \in Apps : Has(items, a) => Has(s, a)
    BY <2>6, <2>7 DEF Has
  <2>11. QED BY <1>1, <1>3, <2>2, <2>8, <2>9, <2>10, ItemsOnly
<1>7. QED BY <1>5, <1>6

LEMMA SerializeItemPositionsKeeps ==
  ASSUME Inv, SerializeItemPositions
  PROVE  Inv'
<1>1. /\ timer' = FALSE /\ DockItemsPref' = FilesOf(items)
      /\ items' = items /\ queued' = queued /\ delayed' = delayed
      /\ UNCHANGED <<storage, apps, PinnedOnly>>
  BY DEF SerializeItemPositions, provider
<1>2. items \in Seq(GoodItems) /\ Unique(items)
  BY DEF Inv, ItemsInv, GoodDocks
<1>3. FilesOf(items) \in Seq(Files) /\ NoneTwice(FilesOf(items))
  BY <1>2, FilesFacts DEF NoneTwice
<1>4. OtherInv'
  BY <1>1, <1>3 DEF Inv, OtherInv, apps
<1>5. FilesInv' /\ QueueInv' /\ ItemsInv' /\ Backed'
  BY <1>1 DEF Inv, FilesInv, QueueInv, ItemsInv, Backed, storage
<1>6. Saved'
  BY <1>1 DEF Saved
<1>7. LiveInv'
  BY <1>1 DEF Inv, LiveInv, RunningShown, apps
<1>8. QED BY <1>4, <1>5, <1>6, <1>7 DEF Inv

-----------------------------------------------------------------------------
(* Saving and loading                                                      *)

\* Files that are there, each once; no two with one launcher.
Unlike(d) == \A f, g \in Files : d[f] = d[g] => f = g \/ d[f] = Absent

LEMMA PresentFacts ==
  ASSUME NEW ordering \in Seq(Files), NoneTwice(ordering)
  PROVE  /\ Present(ordering) \in Seq(Files) /\ NoneTwice(Present(ordering))
         /\ \A k \in DOMAIN Present(ordering) : disk[Present(ordering)[k]] # Absent
<1>1. PICK K : K = {k \in DOMAIN ordering : disk[ordering[k]] # Absent}
  OBVIOUS
<1>2. PICK known : known = Present(ordering)
  OBVIOUS
<1>3. known = Those(ordering, K)
  BY <1>1, <1>2 DEF Present
<1>4. PICK n \in Nat : n = Len(ordering) /\ DOMAIN ordering = 1..n
  OBVIOUS
<1>5. known \in Seq(Files) /\ Sub(ordering, K, n, known)
  BY <1>3, <1>4, ThoseFacts
<1>6. PICK h : Embeds(h, ordering, K, n, known)
  BY <1>5 DEF Sub
<1>7. PICK m \in Nat : m = Len(known) /\ DOMAIN known = 1..m
  BY <1>5
<1>8. /\ h \in [1..m -> 1..n]
      /\ \A i, j \in 1..m : i < j => h[i] < h[j]
      /\ \A j \in 1..m : h[j] \in K /\ known[j] = ordering[h[j]]
  BY <1>6, <1>7 DEF Embeds
<1>9. \A k \in 1..m : disk[known[k]] # Absent
  BY <1>1, <1>8
<1>10. ASSUME NEW i \in 1..m, NEW j \in 1..m, known[i] = known[j] PROVE i = j
  <2>1. h[i] \in 1..n /\ h[j] \in 1..n /\ ordering[h[i]] = ordering[h[j]]
    BY <1>8, <1>10
  <2>2. h[i] = h[j]
    BY <1>4, <2>1 DEF NoneTwice
  <2>3. ~(i < j) /\ ~(j < i)
    BY <1>8, <2>1, <2>2
  <2>4. QED BY <2>3
<1>11. QED BY <1>2, <1>5, <1>7, <1>9, <1>10 DEF NoneTwice

\* What load_elements makes: an item for each file, in the saved order first.
LEMMA LoadedFacts ==
  ASSUME NEW ordering \in Seq(Files), NoneTwice(ordering), disk \in Disks, Unlike(disk),
         NEW m \in Loaded(ordering)
  PROVE  /\ m \in GoodDocks /\ BackedBy(m, disk, {})
         /\ \E t \in Seq(Files) : FilesOf(m) = Present(ordering) \o t
<1>1. PICK known : known = Present(ordering)
  OBVIOUS
<1>2. /\ known \in Seq(Files) /\ NoneTwice(known)
      /\ \A k \in DOMAIN known : disk[known[k]] # Absent
  BY <1>1, PresentFacts
<1>3. PICK rest : rest = {f \in Files : disk[f] # Absent} \ ToSet(known)
  OBVIOUS
<1>4. PICK s \in {known \o t : t \in SetToSeqs(rest)} : m = [k \in DOMAIN s |-> Made(s[k], disk[s[k]])]
  BY <1>1, <1>3 DEF Loaded
<1>5. PICK t \in SetToSeqs(rest) : s = known \o t
  OBVIOUS
<1>6. PICK c \in Nat : c = Cardinality(rest)
  <2>1. IsFiniteSet(rest)
    BY <1>3, FS_Subset, DockAssumption DEF DockAssumption
  <2>2. QED BY <2>1, FS_CardinalityType
<1>7. t \in [1..c -> rest] /\ \A i, j \in 1..c : i # j => t[i] # t[j]
  BY <1>6 DEF SetToSeqs
<1>8. t \in Seq(Files) /\ Len(t) = c
  <2>1. t \in [1..c -> Files]
    BY <1>3, <1>7
  <2>2. QED BY <2>1
<1>9. PICK b \in Nat : b = Len(known) /\ DOMAIN known = 1..b
  BY <1>2
<1>10. /\ s \in Seq(Files) /\ Len(s) = b + c
       /\ \A k \in 1..b : s[k] = known[k]
       /\ \A k \in 1..c : s[b + k] = t[k]
  <2>1. PICK u \in Seq(Files) : u = known
    BY <1>2
  <2>2. PICK v \in Seq(Files) : v = t
    BY <1>8
  <2>3. /\ u \o v \in Seq(Files) /\ Len(u \o v) = Len(u) + Len(v)
        /\ \A k \in 1..Len(u) : (u \o v)[k] = u[k]
        /\ \A k \in 1..Len(v) : (u \o v)[Len(u) + k] = v[k]
    BY ConcatFacts
  <2>4. QED BY <1>5, <1>8, <1>9, <2>1, <2>2, <2>3
<1>11. PICK n \in Nat : n = b + c
  OBVIOUS
<1>12. DOMAIN s = 1..n
  BY <1>10, <1>11
<1>13. \A k \in 1..n : k \in 1..b \/ (k - b \in 1..c /\ b + (k - b) = k)
  BY <1>11
<1>14. ASSUME NEW k \in 1..n
       PROVE  /\ s[k] \in Files /\ disk[s[k]] # Absent
              /\ \/ k \in 1..b /\ s[k] = known[k]
                 \/ k - b \in 1..c /\ s[k] = t[k - b] /\ \A j \in 1..b : s[k] # known[j]
  <2>1. CASE k \in 1..b
    BY <1>2, <1>9, <1>10, <1>12, <2>1
  <2>2. CASE k - b \in 1..c /\ b + (k - b) = k
    <3>1. s[k] = t[k - b] /\ t[k - b] \in rest
      BY <1>7, <1>10, <2>2
    <3>2. QED BY <1>3, <1>9, <2>2, <3>1 DEF ToSet
  <2>3. QED BY <1>13, <2>1, <2>2
<1>15. \A i, j \in 1..n : s[i] = s[j] => i = j
  <2>1. SUFFICES ASSUME NEW i \in 1..n, NEW j \in 1..n, s[i] = s[j] PROVE i = j
    OBVIOUS
  <2>2. CASE i \in 1..b /\ s[i] = known[i] /\ j \in 1..b /\ s[j] = known[j]
    BY <1>2, <1>9, <2>1, <2>2 DEF NoneTwice
  <2>3. CASE i - b \in 1..c /\ s[i] = t[i - b] /\ j - b \in 1..c /\ s[j] = t[j - b]
    <3>1. i - b = j - b
      BY <1>7, <2>1, <2>3
    <3>2. QED BY <3>1
  <2>4. QED BY <1>14, <2>1, <2>2, <2>3
<1>16. m = [k \in 1..n |-> Made(s[k], disk[s[k]])]
  BY <1>4, <1>12
<1>17. ASSUME NEW k \in 1..n
       PROVE  /\ m[k] \in GoodItems /\ m[k].kind = "pinned" /\ m[k].file = s[k]
              /\ m[k].launcher = disk[s[k]] /\ m[k].app = NoApp
  <2>1. PICK f \in Files : f = s[k]
    BY <1>14
  <2>2. disk[f] = Content[f]
    BY <1>14, <2>1 DEF Disks
  <2>3. m[k] = Made(f, Content[f])
    BY <1>16, <2>1, <2>2
  <2>4. QED BY <2>1, <2>2, <2>3, MadeFacts
<1>18. m \in Seq(GoodItems) /\ DOMAIN m = 1..n
  <2>1. m \in [1..n -> GoodItems]
    BY <1>16, <1>17
  <2>2. QED BY <2>1
<1>19. Unique(m)
  <2>1. SUFFICES ASSUME NEW i \in 1..n, NEW j \in 1..n, i # j
                 PROVE  /\ m[i].launcher = m[j].launcher => m[i].launcher = Empty
                        /\ m[i].app = m[j].app => m[i].app = NoApp
    BY <1>18 DEF Unique
  <2>2. s[i] # s[j]
    BY <1>15, <2>1
  <2>3. disk[s[i]] # disk[s[j]]
    BY <1>14, <2>2 DEF Unlike
  <2>4. QED BY <1>17, <2>3
<1>20. BackedBy(m, disk, {})
  BY <1>17, <1>18 DEF BackedBy
<1>21. FilesOf(m) = s
  <2>1. [k \in DOMAIN m |-> m[k].file] = s
    <3>1. s = [k \in 1..n |-> s[k]]
      BY <1>10, <1>12
    <3>2. QED BY <1>17, <1>18, <3>1
  <2>2. DOMAIN s \subseteq Pinned(m)
    BY <1>12, <1>17, <1>18 DEF Pinned
  <2>3. Those(s, Pinned(m)) = s
    BY <1>10, <2>2, ThoseFacts
  <2>4. QED BY <2>1, <2>3 DEF FilesOf
<1>22. QED BY <1>1, <1>8, <1>5, <1>18, <1>19, <1>20, <1>21 DEF GoodDocks

LEMMA PreparedFacts ==
  ASSUME state \in States, NEW m \in GoodDocks, BackedBy(m, disk, {}), NEW s,
         s = Prepared(m, PinnedOnly, Active, Visible)
  PROVE  /\ s \in GoodDocks /\ BackedBy(s, disk, {}) /\ FilesOf(s) = FilesOf(m)
         /\ ~PinnedOnly => \A a \in Apps : state[a] = "running" => Has(s, a)
<1>1. Active \in SUBSET Apps /\ Visible \in SUBSET Active
  BY DEF Active, Visible, States
<1>2. CASE PinnedOnly
  BY <1>2 DEF Prepared
<1>3. CASE ~PinnedOnly
  <2>1. Grown(m, s) /\ \A a \in Visible : Has(s, a)
    BY <1>1, <1>3, AddTransientsFacts DEF Prepared
  <2>2. s \in GoodDocks /\ BackedBy(s, disk, {}) /\ FilesOf(s) = FilesOf(m)
    BY <2>1, GrownBacked DEF Grown
  <2>3. \A a \in Apps : state[a] = "running" => a \in Visible
    BY DEF Visible, States
  <2>4. QED BY <2>1, <2>2, <2>3
<1>4. QED BY <1>2, <1>3

\* While no dock runs: what is on disk, and the order to come back to.
NoDock ==
  /\ Restarts
  /\ items = <<>> /\ queued = <<>> /\ delayed = FALSE
  /\ created = {} /\ deleted = {} /\ changed = {} /\ pending = {} /\ timer = FALSE
  /\ disk \in Disks /\ state \in States /\ PinnedOnly \in BOOLEAN
  /\ DockItemsPref \in Seq(Files) /\ NoneTwice(DockItemsPref)
  /\ last_seen = DockItemsPref

LEMMA OwnDisk ==
  ASSUME OwnItems, Restarts, disk \in Disks
  PROVE  Unlike(disk)
BY DEF OwnItems, Disks, Unlike

\* What a start makes of the saved order.
LEMMA StartFacts ==
  ASSUME NoDock, OwnItems, Start
  PROVE  /\ items' \in GoodDocks /\ BackedBy(items', disk, {})
         /\ \E t \in Seq(Files) : FilesOf(items') = Present(last_seen) \o t
<1>1. /\ disk \in Disks /\ state \in States /\ Unlike(disk)
      /\ DockItemsPref \in Seq(Files) /\ NoneTwice(DockItemsPref)
      /\ last_seen = DockItemsPref
  BY OwnDisk DEF NoDock
<1>2. PICK m \in Loaded(DockItemsPref) : items' = Prepared(m, PinnedOnly, Active, Visible)
  BY DEF Start
<1>3. /\ m \in GoodDocks /\ BackedBy(m, disk, {})
      /\ \E t \in Seq(Files) : FilesOf(m) = Present(DockItemsPref) \o t
  BY <1>1, LoadedFacts
<1>4. items' \in GoodDocks /\ BackedBy(items', disk, {}) /\ FilesOf(items') = FilesOf(m)
  BY <1>1, <1>2, <1>3, PreparedFacts
<1>5. QED BY <1>1, <1>3, <1>4

LEMMA StartKeeps ==
  ASSUME NoDock, OwnItems, Start
  PROVE  Inv' /\ runs' = TRUE /\ last_seen' = <<>>
<1>1. /\ items' \in GoodDocks /\ BackedBy(items', disk, {})
  BY StartFacts
<1>2. /\ created' = {} /\ deleted' = {} /\ changed' = {} /\ queued' = <<>> /\ delayed' = FALSE
      /\ pending' = {} /\ timer' = TRUE
      /\ disk' = disk /\ state' = state /\ PinnedOnly' = PinnedOnly
      /\ DockItemsPref' = DockItemsPref /\ runs' = TRUE /\ last_seen' = <<>>
  BY DEF Start, NoDock, storage, apps
<1>3. disk \in Disks /\ Restarts
  BY DEF NoDock
<1>4. ItemsInv' /\ FilesInv'
  BY <1>1, <1>2, <1>3 DEF ItemsInv, FilesInv
<1>5. QueueInv'
  BY <1>2 DEF QueueInv, NoneTwice
<1>6. OtherInv'
  BY <1>2 DEF NoDock, OtherInv, States
<1>7. Backed'
  BY <1>1, <1>2 DEF Backed, BackedBy
<1>8. Saved' /\ LiveInv'
  BY <1>2, <1>3 DEF Saved, LiveInv
<1>9. QED BY <1>2, <1>4, <1>5, <1>6, <1>7, <1>8 DEF Inv

\* Whether the controller is destroyed or not, the order to come back to is
\* the saved one: without the timer that is the order of the items.
LEMMA EndKeeps ==
  ASSUME Inv, Quit \/ Crash
  PROVE  NoDock' /\ runs' = FALSE
<1>1. /\ Restarts /\ runs' = FALSE
      /\ items' = <<>> /\ queued' = <<>> /\ delayed' = FALSE
      /\ created' = {} /\ deleted' = {} /\ changed' = {} /\ pending' = {} /\ timer' = FALSE
      /\ disk' = disk /\ state' = state /\ PinnedOnly' = PinnedOnly
  BY DEF Quit, Crash, Ends
<1>2. items \in Seq(GoodItems) /\ Unique(items)
  BY DEF Inv, ItemsInv, GoodDocks
<1>3. FilesOf(items) \in Seq(Files) /\ NoneTwice(FilesOf(items))
  BY <1>2, FilesFacts DEF NoneTwice
<1>4. DockItemsPref \in Seq(Files) /\ NoneTwice(DockItemsPref)
  BY DEF Inv, OtherInv
<1>5. /\ last_seen' = DockItemsPref'
      /\ DockItemsPref' \in {DockItemsPref, FilesOf(items)}
  BY DEF Quit, Crash, Inv, Saved
<1>6. DockItemsPref' \in Seq(Files) /\ NoneTwice(DockItemsPref')
  BY <1>3, <1>4, <1>5
<1>7. disk' \in Disks /\ state' \in States /\ PinnedOnly' \in BOOLEAN
  BY <1>1 DEF Inv, FilesInv, OtherInv, States
<1>8. QED BY <1>1, <1>5, <1>6, <1>7 DEF NoDock, NoneTwice

\* While no dock runs only files and applications change.
LEMMA FilesMoveKeeps ==
  ASSUME NoDock, NEW f \in Files, FilesMove(f)
  PROVE  NoDock' /\ runs' = runs
<1>1. disk' = [disk EXCEPT ![f] = IF @ = Absent THEN Content[f] ELSE Absent]
  BY DEF FilesMove
<1>2. disk' \in Disks
  <2>1. disk \in Disks /\ Content \in [Files -> Launchers]
    BY DockAssumption DEF NoDock, DockAssumption
  <2>2. PICK v \in {Content[f], Absent} : disk' = [disk EXCEPT ![f] = v]
    BY <1>1
  <2>3. QED BY <2>1, <2>2 DEF Disks
<1>3. UNCHANGED <<provider, created, deleted, changed, apps, order, PinnedOnly, life>>
  BY DEF FilesMove
<1>4. QED BY <1>2, <1>3 DEF NoDock, provider, apps, order, life

LEMMA AppsMoveKeeps ==
  ASSUME NoDock, NEW a \in Apps, NEW st, AppsMove(a, st)
  PROVE  NoDock' /\ runs' = runs
<1>1. /\ state' = [state EXCEPT ![a] = st] /\ st \in {"off", "hidden", "running"}
      /\ UNCHANGED <<provider, storage, pending, order, PinnedOnly, life>>
  BY DEF AppsMove
<1>2. state' \in States
  BY <1>1 DEF NoDock, States
<1>3. QED BY <1>1, <1>2 DEF NoDock, provider, storage, order, life

-----------------------------------------------------------------------------
(* The invariant                                                           *)

LEMMA InitFacts ==
  ASSUME OwnItems, Init
  PROVE  Inv
<1>1. /\ disk \in Disks /\ PinnedOnly \in BOOLEAN /\ state \in States
      /\ \A a \in Apps : state[a] # "hidden"
      /\ created = {} /\ deleted = {} /\ changed = {} /\ queued = <<>> /\ delayed = FALSE
      /\ pending = {} /\ timer = TRUE /\ DockItemsPref = <<>>
  BY DockAssumption DEF Init, Disks, States, DockAssumption
<1>2. Unlike(disk)
  BY <1>1, OwnDisk DEF Init, Unlike
<1>3. <<>> \in Seq(Files) /\ NoneTwice(<<>>)
  BY DEF NoneTwice
<1>4. PICK m \in Loaded(<<>>) : items = Prepared(m, PinnedOnly, Active, Visible)
  BY DEF Init
<1>5. m \in GoodDocks /\ BackedBy(m, disk, {})
  BY <1>1, <1>2, <1>3, LoadedFacts
<1>6. /\ items \in GoodDocks /\ BackedBy(items, disk, {})
      /\ ~PinnedOnly => \A a \in Apps : state[a] = "running" => Has(items, a)
  BY <1>1, <1>4, <1>5, PreparedFacts
<1>7. ItemsInv /\ FilesInv /\ QueueInv
  BY <1>1, <1>3, <1>6 DEF ItemsInv, FilesInv, QueueInv
<1>8. OtherInv
  BY <1>1, <1>3 DEF OtherInv, States
<1>9. Backed
  BY <1>1, <1>6 DEF Backed, BackedBy
<1>10. Saved
  BY <1>1 DEF Saved
<1>11. LiveInv
  BY <1>1, <1>6, <1>8, ShownFacts DEF LiveInv
<1>12. QED BY <1>7, <1>8, <1>9, <1>10, <1>11 DEF Inv

\* A dock that runs.
LEMMA LiveKeeps ==
  ASSUME OwnItems, Inv, Live
  PROVE  Inv'
<1>0. ~Hasty
  BY DEF OwnItems
<1>2. ASSUME NEW f \in Files, FileCreated(f) PROVE Inv'
  BY <1>2, FileCreatedKeeps
<1>3. ASSUME NEW f \in Files, FileDeleted(f) PROVE Inv'
  BY <1>3, FileDeletedKeeps
<1>4. ASSUME NEW f \in Files, FileChanged(f) PROVE Inv'
  BY <1>4, FileChangedKeeps
<1>5. ASSUME NEW a \in Apps, Closed(a) PROVE Inv'
  BY <1>5, ClosedKeeps
<1>6. CASE SerializeItemPositions
  BY <1>6, SerializeItemPositionsKeeps
<1>7. ASSUME NEW f \in Files, UserCreatesFile(f) PROVE Inv'
  BY <1>7, UserCreatesFileKeeps
<1>8. ASSUME NEW f \in Files, UserDeletesFile(f) PROVE Inv'
  BY <1>0, <1>8, UserDeletesFileKeeps
<1>9. ASSUME NEW k \in DOMAIN items, Pin(k) PROVE Inv'
  BY <1>9, PinKeeps
<1>10. ASSUME NEW k \in DOMAIN items, Unpin(k) PROVE Inv'
  BY <1>0, <1>10, UnpinKeeps
<1>11. ASSUME NEW k \in DOMAIN items, UnityInfo(k) PROVE Inv'
  BY <1>11, UnityInfoKeeps
<1>12. ASSUME NEW f \in Files, NEW to \in 1..Len(items) + 1, Drop(f, to) PROVE Inv'
  BY <1>12, DropKeeps
<1>13. ASSUME NEW i \in DOMAIN items, NEW j \in DOMAIN items, Move(i, j) PROVE Inv'
  BY <1>13, MoveKeeps
<1>14. ASSUME NEW b \in BOOLEAN, SetPinnedOnly(b) PROVE Inv'
  BY <1>14, SetPinnedOnlyKeeps
<1>15. ASSUME NEW a \in Apps, NEW v \in BOOLEAN, Starts(a, v) PROVE Inv'
  BY <1>15, StartsKeeps
<1>16. ASSUME NEW a \in Apps, BecomesVisible(a) PROVE Inv'
  BY <1>16, BecomesVisibleKeeps
<1>17. ASSUME NEW a \in Apps, Stops(a) PROVE Inv'
  BY <1>17, StopsKeeps
<1>18. QED BY <1>2, <1>3, <1>4, <1>5, <1>6, <1>7, <1>8, <1>9, <1>10, <1>11, <1>12, <1>13,
              <1>14, <1>15, <1>16, <1>17 DEF Live, System

\* In and between the lives of the dock.
Lives ==
  /\ runs \in BOOLEAN
  /\ runs => Inv /\ last_seen = <<>>
  /\ ~runs => NoDock

LEMMA NextFacts ==
  ASSUME OwnItems, Lives, [Next]_vars
  PROVE  Lives'
<1>1. CASE UNCHANGED vars
  BY <1>1 DEF vars, provider, storage, apps, order, life, Lives, NoDock, Inv, ItemsInv, FilesInv,
              QueueInv, OtherInv, Backed, Saved, LiveInv, RunningShown
<1>2. CASE runs /\ Live /\ UNCHANGED life
  BY <1>2, LiveKeeps DEF Lives, life
<1>3. CASE Quit \/ Crash
  <2>1. runs
    BY <1>3 DEF Quit, Crash, Ends
  <2>2. QED BY <1>3, <2>1, EndKeeps DEF Lives
<1>4. CASE Start
  <2>1. ~runs
    BY <1>4 DEF Start
  <2>2. QED BY <1>4, <2>1, StartKeeps DEF Lives
<1>5. ASSUME ~runs, NEW f \in Files, FilesMove(f) PROVE Lives'
  BY <1>5, FilesMoveKeeps DEF Lives
<1>6. ASSUME ~runs, NEW a \in Apps, NEW st \in {"off", "hidden", "running"}, AppsMove(a, st)
      PROVE  Lives'
  BY <1>6, AppsMoveKeeps DEF Lives
<1>7. QED BY <1>1, <1>2, <1>3, <1>4, <1>5, <1>6 DEF Next

\* The inductive invariant holds: the items of a dock that runs keep the
\* launchers of their files and applications, the queued and announced files are
\* there, and a hidden view is pending; between two docks the saved order is the
\* one to come back to (ApplicationDockItemProvider, Matcher, DockController).
THEOREM Invariance == ASSUME OwnItems PROVE Spec => []Lives
<1>1. Init => Lives
  BY InitFacts DEF Init, Lives
<1>2. Lives /\ [Next]_vars => Lives'
  BY NextFacts
<1>3. QED BY <1>1, <1>2, PTL DEF Spec

\* No launcher and no application has two items, whatever is pinned, dropped,
\* unpinned, started and stopped (add_item_with_uri, process_queued_files,
\* app_opened), for any number of applications and files.
THEOREM ItemsUnique == ASSUME OwnItems PROVE Spec => []UniqueItems
<1>1. Lives => UniqueItems
  BY DEF Lives, NoDock, Inv, ItemsInv, GoodDocks, Unique, UniqueItems
<1>2. QED BY <1>1, Invariance, PTL

\* A pinned item is backed by a file with its launcher, or is about to learn
\* that the file is gone (backing_file_changed, handle_item_deleted).
THEOREM ItemsBacked == ASSUME OwnItems PROVE Spec => []Backed
<1>1. Lives => Backed
  <2>1. CASE runs
    BY <2>1 DEF Lives, Inv
  <2>2. CASE items = <<>>
    BY <2>2 DEF Backed
  <2>3. QED BY <2>1, <2>2 DEF Lives, NoDock
<1>2. QED BY <1>1, Invariance, PTL

\* When the serialization timer has run, the saved order is that of the items
\* (update_visible_elements, serialize_item_positions).
THEOREM OrderSaved == ASSUME OwnItems PROVE Spec => []SavedCurrent
<1>1. Lives => SavedCurrent
  BY DEF Lives, Inv, Saved, SavedCurrent
<1>2. QED BY <1>1, Invariance, PTL

\* The variables have their types when a file waits for the provider to look at
\* it (OwnItems); without that process_queued_files makes an item of kind "file".
THEOREM TypeCorrect == ASSUME OwnItems PROVE Spec => []TypeOK
<1>1. Lives => TypeOK
  <2>1. SUFFICES ASSUME Lives PROVE TypeOK
    OBVIOUS
  <2>2. CASE runs
    <3>1. Inv /\ last_seen = <<>>
      BY <2>1, <2>2 DEF Lives
    <3>2. \A k \in DOMAIN items : items[k] \in GoodItems
      BY <3>1 DEF Inv, ItemsInv, GoodDocks
    <3>3. \A k \in DOMAIN items : /\ items[k].kind \in {"pinned", "transient"}
                                  /\ items[k].kind = "transient" <=> items[k].file = NoFile
                                  /\ items[k].launcher \in Launchers \cup {Empty}
                                  /\ items[k].app \in Apps \cup {NoApp}
      BY <3>2, GoodFacts
    <3>4. disk \in [Files -> Launchers \cup {Empty, Absent}]
      BY <3>1 DEF Inv, FilesInv, Disks
    <3>5. last_seen \in Seq(Files)
      BY <3>1
    <3>6. QED BY <2>2, <3>1, <3>3, <3>4, <3>5 DEF TypeOK, Inv, FilesInv, QueueInv, OtherInv
  <2>3. CASE ~runs
    <3>1. NoDock
      BY <2>1, <2>3 DEF Lives
    <3>2. disk \in [Files -> Launchers \cup {Empty, Absent}]
      BY <3>1 DEF NoDock, Disks
    <3>3. items = <<>> /\ queued \in Seq(Files)
      BY <3>1 DEF NoDock
    <3>4. \A k \in DOMAIN items : FALSE
      BY <3>3
    <3>5. /\ created = {} /\ deleted = {} /\ changed = {} /\ pending = {}
          /\ delayed = FALSE /\ timer = FALSE
          /\ state \in [Apps -> {"off", "hidden", "running", "closing"}]
          /\ DockItemsPref \in Seq(Files) /\ last_seen \in Seq(Files)
      BY <3>1 DEF NoDock, States
    <3>6. runs \in BOOLEAN
      BY <2>1 DEF Lives
    <3>7. QED BY <3>2, <3>3, <3>4, <3>5, <3>6 DEF TypeOK
  <2>4. QED BY <2>1, <2>2, <2>3 DEF Lives
<1>2. QED BY <1>1, Invariance, PTL

\* What an earlier dock has left comes back in its order: ~DockController saves
\* it in place of the timer, an earlier run of the timer has saved it, and
\* load_elements puts it before the files that are new.
THEOREM OrderRestored == ASSUME OwnItems PROVE Spec => RestartKeepsOrder
<1> DEFINE Kept == SubSeq(FilesOf(items'), 1, Len(Present(last_seen))) = Present(last_seen)
<1>1. ASSUME Lives, [Next]_vars, ~runs, runs' PROVE Kept
  <2>1. Start
    BY <1>1 DEF Next, Quit, Crash, Ends, FilesMove, AppsMove, vars, life
  <2>2. NoDock
    BY <1>1 DEF Lives
  <2>3. PICK t \in Seq(Files) : FilesOf(items') = Present(last_seen) \o t
    BY <2>1, <2>2, StartFacts
  <2>4. PICK known \in Seq(Files) : known = Present(last_seen)
    BY <2>2, PresentFacts DEF NoDock
  <2>5. SubSeq(known \o t, 1, Len(known)) = known
    OBVIOUS
  <2>6. QED BY <2>3, <2>4, <2>5
<1>2. Lives /\ [Next]_vars =>
        [~runs /\ runs' => LET kept == Present(last_seen)
                           IN SubSeq(FilesOf(items'), 1, Len(kept)) = kept]_vars
  BY <1>1
<1>3. QED BY <1>2, Invariance, PTL DEF Spec, RestartKeepsOrder

\* In one life of the dock, every visible running application has an item
\* matched to it, unless only pinned items are shown (app_opened,
\* handle_item_deleted, handle_pinned_only_changed).
THEOREM RunningAreShown == ASSUME OwnItems, ~Restarts PROVE MCSpec => []LiveRunningShown
<1> DEFINE LInv == scenario \in {"live", "restart"} /\ (scenario = "live" => Lives)
<1>1. MCInit => LInv
  BY InitFacts DEF MCInit, Init, Lives
<1>2. LInv /\ [MCNext]_<<vars, scenario>> => LInv'
  <2>1. SUFFICES ASSUME LInv, [MCNext]_<<vars, scenario>> PROVE LInv'
    OBVIOUS
  <2>2. scenario' = scenario /\ (scenario = "live" => [Next]_vars)
    BY <2>1 DEF MCNext
  <2>3. QED BY <2>1, <2>2, NextFacts
<1>3. LInv => LiveRunningShown
  BY DEF LiveRunningShown, Lives, NoDock, Inv, LiveInv
<1>4. QED BY <1>1, <1>2, <1>3, PTL DEF MCSpec
=============================================================================

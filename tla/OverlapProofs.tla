--------------------------- MODULE OverlapProofs ----------------------------
(***************************************************************************)
(* Proofs about SessionHub, for any sockets and broadcasts, about          *)
(* ParallelBuild, for any builds, milestones, answers and scaffold, about  *)
(* Billing, for any rows, checkouts, webhooks and number of Stripe's       *)
(* events, and about their composition.                                    *)
(***************************************************************************)
EXTENDS MCOverlaps, SequenceTheorems, FiniteSetTheorems, WellFoundedInduction, TLAPS

(***************************************************************************)
(* The inductive invariant of the session sockets.  After the types:       *)
(*  - a list names no socket twice, none that never connected, and the     *)
(*    entry's list is not empty;                                           *)
(*  - nobody has heard of a broadcast that has not begun, and what a       *)
(*    socket that has not connected has got is nothing;                    *)
(*  - a walking broadcast has not visited what is ahead of it in its list; *)
(*  - what is left of the sockets it owes is the beginning of the list,    *)
(*    and of those it has visited as many as there are up to its position; *)
(*  - once its list is not the session's any more, nobody owed is          *)
(*    registered.                                                          *)
(***************************************************************************)
Visited(b) == {s \in Sockets : b \in Received(s)} \cup dead[b]

Left(b) == owed[b] \cap ToSet(list[walk[b]])

ListsApart ==
  /\ \A l \in DOMAIN list : IsInjective(list[l])
  /\ \A l \in DOMAIN list : \A s \in ToSet(list[l]) : handler[s] # "none"
  /\ entry # 0 => list[entry] # <<>>

Unheard ==
  /\ \A b \in Casts : cast[b] = "new" => Visited(b) = {}
  /\ \A s \in Sockets : handler[s] = "none" => \A b \in Casts : s \notin Visited(b) \cup owed[b]

Ahead ==
  \A b \in Casts : cast[b] = "walking" =>
    /\ walk[b] # 0
    /\ \A i \in DOMAIN list[walk[b]] : i > pos[b] => list[walk[b]][i] \notin Visited(b)

OwedFirst ==
  \A b \in Casts : cast[b] = "walking" =>
    /\ \A i, j \in DOMAIN list[walk[b]] :
         i < j /\ list[walk[b]][j] \in owed[b] => list[walk[b]][i] \in owed[b]
    /\ Cardinality(Visited(b) \cap owed[b]) >= pos[b]
         \/ Cardinality(Visited(b) \cap owed[b]) >= Cardinality(Left(b))
    /\ walk[b] # entry => owed[b] \cap Registered = {}

HubInv ==
  /\ HubTypeOK /\ \A b \in Casts : IsFiniteSet(owed[b])
  /\ ListsApart /\ Unheard /\ Ahead /\ OwedFirst /\ AtMostOnce /\ MissedAtMostRemoved

-----------------------------------------------------------------------------
(* Induction over the naturals, and what is left of a list.                *)

LEMMA NatInd ==
  ASSUME NEW I, 0 \in I, \A n \in Nat : n \in I => n + 1 \in I
  PROVE  Nat \subseteq I
<1> DEFINE R == {e \in Nat \X Nat : e[1] < e[2]}
<1> SUFFICES ASSUME Nat \ I # {} PROVE FALSE
  OBVIOUS
<1>1. R = OpToRel(<, Nat)
  BY DEF OpToRel
<1>2. IsWellFoundedOn(R, Nat)
  BY <1>1, NatLessThanWellFounded
<1>3. PICK m \in Nat \ I : \A k \in Nat \ I : <<k, m>> \notin R
  <2> HIDE DEF R
  <2> QED
    BY <1>2, WFMin
<1>4. m # 0 /\ m - 1 \in Nat /\ <<m - 1, m>> \in R
  OBVIOUS
<1>5. m - 1 \in I
  BY <1>3, <1>4
<1> QED
  BY <1>4, <1>5

\* h keeps, step by step, what Without keeps of the first n elements of s.
Keeps(h, s, gone, n) ==
  h = [i \in 0..n |-> IF i = 0 THEN <<>>
                      ELSE IF s[i] \in gone THEN h[i - 1] ELSE Append(h[i - 1], s[i])]

LEMMA KeepSteps ==
  ASSUME NEW s, NEW gone, NEW n \in Nat, NEW h, Keeps(h, s, gone, n)
  PROVE  /\ h[0] = <<>>
         /\ \A i \in 1..n : h[i] = IF s[i] \in gone THEN h[i - 1] ELSE Append(h[i - 1], s[i])
<1>1. \A i \in 0..n : h[i] = IF i = 0 THEN <<>>
                             ELSE IF s[i] \in gone THEN h[i - 1] ELSE Append(h[i - 1], s[i])
  BY DEF Keeps
<1> QED
  BY <1>1

LEMMA KeepExists ==
  ASSUME NEW s, NEW gone, NEW n \in Nat
  PROVE  \E h : Keeps(h, s, gone, n)
<1> DEFINE I == {k \in Nat : \E h : Keeps(h, s, gone, k)}
<1>1. 0 \in I
  <2>1. Keeps([i \in 0..0 |-> <<>>], s, gone, 0)
    BY DEF Keeps
  <2> QED
    BY <2>1
<1>2. ASSUME NEW k \in Nat, k \in I PROVE k + 1 \in I
  <2>1. PICK h : Keeps(h, s, gone, k)
    BY <1>2
  <2> DEFINE g == [i \in 0..(k + 1) |-> IF i = 0 THEN <<>>
                     ELSE IF s[i] \in gone THEN h[i - 1] ELSE Append(h[i - 1], s[i])]
  <2>2. \A i \in 0..k : h[i] = g[i]
    <3>1. \A i \in 0..k : g[i] = IF i = 0 THEN <<>>
                     ELSE IF s[i] \in gone THEN h[i - 1] ELSE Append(h[i - 1], s[i])
      OBVIOUS
    <3> HIDE DEF g
    <3> QED
      BY <2>1, <3>1, KeepSteps
  <2>3. \A i \in 0..(k + 1) : i # 0 => i - 1 \in 0..k
    OBVIOUS
  <2>4. g = [i \in 0..(k + 1) |-> IF i = 0 THEN <<>>
                     ELSE IF s[i] \in gone THEN g[i - 1] ELSE Append(g[i - 1], s[i])]
    <3>1. \A i \in 0..(k + 1) : i # 0 => g[i - 1] = h[i - 1]
      BY <2>2, <2>3
    <3> QED
      BY <3>1
  <2>5. Keeps(g, s, gone, k + 1)
    <3> HIDE DEF g
    <3> QED
      BY <2>4 DEF Keeps
  <2> QED
    BY <2>5
<1>3. Nat \subseteq I
  <2> HIDE DEF I
  <2> QED
    BY <1>1, <1>2, NatInd
<1> QED
  BY <1>3

Kept(s, gone) == CHOOSE h : Keeps(h, s, gone, Len(s))

LEMMA WithoutKept ==
  ASSUME NEW S, NEW s \in Seq(S), NEW gone
  PROVE  Without(s, gone) = Kept(s, gone)[Len(s)] /\ Keeps(Kept(s, gone), s, gone, Len(s))
<1>1. Without(s, gone) = Kept(s, gone)[Len(s)]
  BY DEF Without, Kept, Keeps
<1>2. Keeps(Kept(s, gone), s, gone, Len(s))
  BY KeepExists DEF Kept
<1> QED
  BY <1>1, <1>2

\* t is what is left of s, in the same order.
LeftOf(t, s) ==
  \E f \in [1..Len(t) -> 1..Len(s)] :
    /\ \A i \in 1..Len(t) : t[i] = s[f[i]] /\ i <= f[i]
    /\ \A i, j \in 1..Len(t) : i < j => f[i] < f[j]

LEMMA LeftOfItself ==
  ASSUME NEW S, NEW s \in Seq(S)
  PROVE  LeftOf(s, s)
<1> DEFINE f == [i \in 1..Len(s) |-> i]
<1>1. f \in [1..Len(s) -> 1..Len(s)] /\ \A i \in 1..Len(s) : f[i] = i
  OBVIOUS
<1> HIDE DEF f
<1> QED
  BY <1>1 DEF LeftOf

LEMMA WithoutIsLeft ==
  ASSUME NEW S, NEW s \in Seq(S), NEW gone
  PROVE  /\ Without(s, gone) \in Seq(S)
         /\ LeftOf(Without(s, gone), s)
         /\ ToSet(Without(s, gone)) \subseteq ToSet(s) \ gone
<1>1. PICK h : Without(s, gone) = h[Len(s)] /\ Keeps(h, s, gone, Len(s))
  BY WithoutKept
<1>2. /\ h[0] = <<>> /\ Len(s) \in Nat
      /\ \A i \in 1..Len(s) : h[i] = IF s[i] \in gone THEN h[i - 1] ELSE Append(h[i - 1], s[i])
  <2>1. Len(s) \in Nat
    OBVIOUS
  <2>2. Keeps(h, s, gone, Len(s))
    BY <1>1
  <2>3. /\ h[0] = <<>>
        /\ \A i \in 1..Len(s) : h[i] = IF s[i] \in gone THEN h[i - 1] ELSE Append(h[i - 1], s[i])
    <3> DEFINE n == Len(s)
    <3> HIDE DEF n
    <3>1. n \in Nat /\ Keeps(h, s, gone, n)
      BY <2>1, <2>2 DEF n
    <3>2. \A i \in 0..n : h[i] = IF i = 0 THEN <<>>
                                 ELSE IF s[i] \in gone THEN h[i - 1] ELSE Append(h[i - 1], s[i])
      BY <3>1 DEF Keeps
    <3>3. /\ h[0] = <<>>
          /\ \A i \in 1..n : h[i] = IF s[i] \in gone THEN h[i - 1] ELSE Append(h[i - 1], s[i])
      BY <3>1, <3>2
    <3> QED
      BY <3>3 DEF n
  <2> QED
    BY <2>1, <2>3
<1> DEFINE Good(t, n) ==
             /\ t \in Seq(S)
             /\ \E f \in [1..Len(t) -> 1..n] :
                  /\ \A i \in 1..Len(t) : t[i] = s[f[i]] /\ i <= f[i] /\ t[i] \notin gone
                  /\ \A i, j \in 1..Len(t) : i < j => f[i] < f[j]
           I == {n \in Nat : n <= Len(s) => Good(h[n], n)}
<1>3. 0 \in I
  <2>1. <<>> \in Seq(S) /\ Len(<<>>) = 0
    OBVIOUS
  <2>2. PICK f \in [1..0 -> 1..0] : TRUE
    <3>1. [i \in 1..0 |-> i] \in [1..0 -> 1..0]
      OBVIOUS
    <3> QED
      BY <3>1
  <2>3. Good(<<>>, 0)
    <3>1. f \in [1..Len(<<>>) -> 1..0] /\ \A i \in 1..Len(<<>>) : FALSE
      BY <2>1, <2>2
    <3> QED
      BY <2>1, <3>1
  <2> HIDE DEF Good
  <2> QED
    BY <1>2, <2>3
<1>4. ASSUME NEW n \in Nat, n \in I PROVE n + 1 \in I
  <2> SUFFICES ASSUME n + 1 <= Len(s) PROVE Good(h[n + 1], n + 1)
    OBVIOUS
  <2>1. n + 1 \in 1..Len(s) /\ n + 1 - 1 = n /\ s[n + 1] \in S
    BY <1>2
  <2>2. PICK t \in Seq(S) : t = h[n]
    BY <1>4, <2>1
  <2>3. PICK f \in [1..Len(t) -> 1..n] :
          /\ \A i \in 1..Len(t) : t[i] = s[f[i]] /\ i <= f[i] /\ t[i] \notin gone
          /\ \A i, j \in 1..Len(t) : i < j => f[i] < f[j]
    BY <1>2, <1>4, <2>1, <2>2
  <2>4. CASE s[n + 1] \in gone
    <3>1. h[n + 1] = t
      BY <1>2, <2>1, <2>2, <2>4
    <3>2. f \in [1..Len(t) -> 1..(n + 1)]
      OBVIOUS
    <3> QED
      BY <2>3, <3>1, <3>2
  <2>5. CASE s[n + 1] \notin gone
    <3>1. PICK u \in Seq(S) : u = h[n + 1] /\ u = Append(t, s[n + 1])
      <4>1. h[n + 1] = IF s[n + 1] \in gone THEN h[n + 1 - 1] ELSE Append(h[n + 1 - 1], s[n + 1])
        BY <1>2, <2>1
      <4>2. h[n + 1 - 1] = t
        BY <2>1, <2>2
      <4>0. h[n + 1] = Append(t, s[n + 1])
        BY <2>5, <4>1, <4>2
      <4>3. Append(t, s[n + 1]) \in Seq(S)
        BY <2>1
      <4> QED
        BY <4>0, <4>3
    <3>2. PICK m \in Nat : m = Len(t)
      OBVIOUS
    <3>3. Len(u) = m + 1 /\ u[m + 1] = s[n + 1] /\ \A i \in 1..m : u[i] = t[i]
      BY <3>1, <3>2
    <3>4. m <= n
      <4>1. CASE m = 0
        BY <4>1
      <4>2. CASE m # 0
        <5>1. m \in 1..Len(t) /\ f[m] \in 1..n
          BY <3>2, <4>2, SMTT(40)
        <5> QED
          BY <2>3, <5>1
      <4> QED
        BY <4>1, <4>2
    <3> DEFINE g == [i \in 1..(m + 1) |-> IF i = m + 1 THEN n + 1 ELSE f[i]]
    <3>5. /\ g \in [1..(m + 1) -> 1..(n + 1)] /\ g[m + 1] = n + 1
          /\ \A i \in 1..m : g[i] = f[i] /\ g[i] \in 1..n
      <4>1. \A i \in 1..(m + 1) : i = m + 1 \/ i \in 1..m
        OBVIOUS
      <4>2. ASSUME NEW i \in 1..m PROVE i \in 1..(m + 1) /\ g[i] = f[i] /\ f[i] \in 1..n
        <5>1. i \in 1..(m + 1) /\ i # m + 1
          OBVIOUS
        <5>2. g[i] = f[i]
          BY <5>1
        <5>3. f[i] \in 1..n
          BY <3>2
        <5> QED
          BY <5>1, <5>2, <5>3
      <4>3. g[m + 1] = n + 1
        OBVIOUS
      <4>4. \A i \in 1..(m + 1) : g[i] \in 1..(n + 1)
        <5> HIDE DEF g
        <5> QED
          BY <4>1, <4>2, <4>3, SMTT(40)
      <4> QED
        BY <4>2, <4>3, <4>4
    <3> HIDE DEF g
    <3>6. \A i \in 1..(m + 1) : u[i] = s[g[i]] /\ i <= g[i] /\ u[i] \notin gone
      <4>1. ASSUME NEW i \in 1..m PROVE u[i] = s[g[i]] /\ i <= g[i] /\ u[i] \notin gone
        BY <2>3, <3>2, <3>3, <3>5
      <4>2. u[m + 1] = s[g[m + 1]] /\ m + 1 <= g[m + 1] /\ u[m + 1] \notin gone
        BY <2>5, <3>3, <3>4, <3>5
      <4>3. \A i \in 1..(m + 1) : i \in 1..m \/ i = m + 1
        OBVIOUS
      <4> QED
        BY <4>1, <4>2, <4>3
    <3>7. \A i, j \in 1..(m + 1) : i < j => g[i] < g[j]
      <4> SUFFICES ASSUME NEW i \in 1..(m + 1), NEW j \in 1..(m + 1), i < j PROVE g[i] < g[j]
        OBVIOUS
      <4>1. i \in 1..m
        OBVIOUS
      <4>2. CASE j = m + 1
        BY <3>5, <4>1, <4>2
      <4>3. CASE j # m + 1
        <5>1. j \in 1..m
          BY <4>3
        <5> QED
          BY <2>3, <3>2, <3>5, <4>1, <5>1
      <4> QED
        BY <4>2, <4>3
    <3>8. Good(u, n + 1)
      BY <3>3, <3>5, <3>6, <3>7
    <3> HIDE DEF Good
    <3> QED
      BY <3>1, <3>8
  <2> QED
    BY <2>4, <2>5
<1>5. Good(h[Len(s)], Len(s))
  <2>1. Nat \subseteq I
    <3> HIDE DEF I
    <3> QED
      BY <1>3, <1>4, NatInd
  <2>2. Len(s) \in I
    <3> HIDE DEF I
    <3> QED
      BY <1>2, <2>1
  <2>3. Len(s) <= Len(s)
    BY <1>2
  <2> HIDE DEF Good
  <2> QED
    BY <2>2, <2>3, Zenon
<1>6. PICK w \in Seq(S) : w = Without(s, gone)
  BY <1>1, <1>5
<1>7. PICK f \in [1..Len(w) -> 1..Len(s)] :
        /\ \A i \in 1..Len(w) : w[i] = s[f[i]] /\ i <= f[i] /\ w[i] \notin gone
        /\ \A i, j \in 1..Len(w) : i < j => f[i] < f[j]
  BY <1>1, <1>5, <1>6
<1>8. LeftOf(w, s)
  BY <1>7 DEF LeftOf
<1>9. ToSet(w) \subseteq ToSet(s) \ gone
  BY <1>7 DEF ToSet
<1> QED
  BY <1>6, <1>8, <1>9

-----------------------------------------------------------------------------
(* The operators of SessionHub.                                            *)

LEMMA LeftOfSet ==
  ASSUME NEW S, NEW s \in Seq(S), NEW t \in Seq(S), LeftOf(t, s)
  PROVE  ToSet(t) \subseteq ToSet(s) /\ (IsInjective(s) => IsInjective(t))
<1>1. PICK f \in [1..Len(t) -> 1..Len(s)] :
        /\ \A i \in 1..Len(t) : t[i] = s[f[i]] /\ i <= f[i]
        /\ \A i, j \in 1..Len(t) : i < j => f[i] < f[j]
  BY DEF LeftOf
<1>2. ToSet(t) \subseteq ToSet(s)
  BY <1>1, SMTT(40) DEF ToSet
<1>3. ASSUME IsInjective(s), NEW i \in 1..Len(t), NEW j \in 1..Len(t), t[i] = t[j] PROVE i = j
  <2>1. f[i] = f[j]
    BY <1>1, <1>3, SMTT(40) DEF IsInjective
  <2> QED
    BY <1>1, <2>1
<1> QED
  BY <1>2, <1>3 DEF IsInjective

LEMMA Unregistered ==
  ASSUME HubTypeOK, ListsApart, NEW gone, Unregister(gone)
  PROVE  /\ list' \in Seq(Seq(Sockets)) /\ Len(list') = Len(list)
         /\ \A l \in 1..Len(list) : LeftOf(list'[l], list[l]) /\ ToSet(list'[l]) \subseteq ToSet(list[l])
         /\ entry' = entry \/ entry' = 0
         /\ entry' # 0 => list'[entry'] # <<>>
         /\ Registered' \subseteq Registered \ gone
<1>1. list \in Seq(Seq(Sockets)) /\ Len(list) \in Nat /\ \A l \in 1..Len(list) : list[l] \in Seq(Sockets)
  BY DEF HubTypeOK
<1>2. \A l \in 1..Len(list) : LeftOf(list[l], list[l])
  BY <1>1, LeftOfItself
<1>3. CASE entry = 0
  <2>1. list' = list /\ entry' = entry
    BY <1>3 DEF Unregister
  <2> QED
    BY <1>1, <1>2, <1>3, <2>1 DEF Registered
<1>4. CASE entry # 0
  <2>1. entry \in 1..Len(list)
    BY <1>1, <1>4 DEF HubTypeOK
  <2>2. PICK e \in 1..Len(list), s \in Seq(Sockets) : e = entry /\ s = list[e]
    BY <1>1, <2>1
  <2>3. PICK rest : rest = Without(s, gone)
    OBVIOUS
  <2>4. rest \in Seq(Sockets) /\ LeftOf(rest, s) /\ ToSet(rest) \subseteq ToSet(s) \ gone
    BY <2>3, WithoutIsLeft
  <2>5. list' = [list EXCEPT ![e] = rest] /\ entry' = IF rest = <<>> THEN 0 ELSE e
    BY <1>4, <2>2, <2>3 DEF Unregister
  <2>6. /\ list' \in Seq(Seq(Sockets)) /\ Len(list') = Len(list)
        /\ list'[e] = rest /\ \A l \in 1..Len(list) : l # e => list'[l] = list[l]
    BY <1>1, <2>4, <2>5, ExceptSeq
  <2>7. ASSUME NEW l \in 1..Len(list)
        PROVE  LeftOf(list'[l], list[l]) /\ ToSet(list'[l]) \subseteq ToSet(list[l])
    BY <1>2, <2>2, <2>4, <2>6
  <2>8. e # 0
    OBVIOUS
  <2>9. Registered' \subseteq Registered \ gone
    BY <2>2, <2>4, <2>5, <2>6, <2>8 DEF Registered
  <2> QED
    BY <2>2, <2>5, <2>6, <2>7, <2>9
<1> QED
  BY <1>3, <1>4

\* What a broadcast missed is bounded still when fewer of the owed are registered.
LEMMA MissedStays ==
  ASSUME NEW O, IsFiniteSet(O), NEW R, NEW Q, NEW V, O \cap Q \subseteq R,
         Cardinality({s \in O \cap R : s \notin V}) <= Cardinality(O \ (O \cap R))
  PROVE  Cardinality({s \in O \cap Q : s \notin V}) <= Cardinality(O \ (O \cap Q))
<1> DEFINE A == {s \in O \cap R : s \notin V}
           B == {s \in O \cap Q : s \notin V}
           C == O \ (O \cap R)
           D == O \ (O \cap Q)
<1>1. B \subseteq A /\ A \subseteq O /\ C \subseteq D /\ D \subseteq O
  OBVIOUS
<1>2. IsFiniteSet(A) /\ IsFiniteSet(D)
  BY <1>1, FS_Subset
<1>3. Cardinality(B) <= Cardinality(A) /\ Cardinality(C) <= Cardinality(D)
  BY <1>1, <1>2, FS_Subset
<1>4. IsFiniteSet(B) /\ IsFiniteSet(C)
  BY <1>1, <1>2, FS_Subset
<1>5. Cardinality(A) \in Nat /\ Cardinality(B) \in Nat /\ Cardinality(C) \in Nat /\ Cardinality(D) \in Nat
  BY <1>2, <1>4, FS_CardinalityType
<1>6. Cardinality(A) <= Cardinality(C)
  OBVIOUS
<1> HIDE DEF A, B, C, D
<1>7. Cardinality(B) <= Cardinality(D)
  BY <1>3, <1>5, <1>6
<1> QED
  BY <1>7 DEF B, D

LEMMA FiniteImage ==
  ASSUME NEW S, IsFiniteSet(S), NEW f
  PROVE  IsFiniteSet({f[x] : x \in S}) /\ Cardinality({f[x] : x \in S}) <= Cardinality(S)
<1> DEFINE g == [x \in S |-> f[x]]
<1>1. g \in Surjection(S, {f[x] : x \in S})
  BY DEF Surjection
<1> HIDE DEF g
<1> QED
  BY <1>1, FS_Surjection

Overdue(b) == {s \in Sockets : b \in Received(s)}

LEMMA MissedIs ==
  ASSUME HubTypeOK
  PROVE  MissedAtMostRemoved <=>
           \A b \in Casts : cast[b] = "over" =>
             Cardinality({s \in owed[b] \cap Registered : s \notin Overdue(b)})
               <= Cardinality(owed[b] \ (owed[b] \cap Registered))
<1>1. \A b \in Casts : owed[b] \subseteq Sockets
  BY DEF HubTypeOK
<1>2. \A b \in Casts : {s \in owed[b] \cap Registered : b \notin Received(s)}
                        = {s \in owed[b] \cap Registered : s \notin Overdue(b)}
  BY <1>1 DEF Overdue
<1> QED
  BY <1>2 DEF MissedAtMostRemoved

LEMMA MissedIsNext ==
  ASSUME HubTypeOK'
  PROVE  MissedAtMostRemoved' <=>
           \A b \in Casts : cast'[b] = "over" =>
             Cardinality({s \in owed'[b] \cap Registered' : s \notin Overdue(b)'})
               <= Cardinality(owed'[b] \ (owed'[b] \cap Registered'))
<1>1. \A b \in Casts : owed'[b] \subseteq Sockets
  BY DEF HubTypeOK
<1>2. \A b \in Casts : {s \in owed'[b] \cap Registered' : b \notin Received(s)'}
                        = {s \in owed'[b] \cap Registered' : s \notin Overdue(b)'}
  BY <1>1 DEF Overdue
<1> QED
  BY <1>2 DEF MissedAtMostRemoved

LEMMA Appended ==
  ASSUME NEW S, NEW t \in Seq(S), NEW s \in S
  PROVE  /\ Append(t, s) \in Seq(S) /\ Append(t, s) # <<>>
         /\ Len(Append(t, s)) = Len(t) + 1 /\ Append(t, s)[Len(t) + 1] = s
         /\ \A i \in 1..Len(t) : Append(t, s)[i] = t[i]
         /\ ToSet(Append(t, s)) = ToSet(t) \cup {s}
         /\ IsInjective(t) /\ s \notin ToSet(t) => IsInjective(Append(t, s))
<1>1. /\ Append(t, s) \in Seq(S) /\ DOMAIN Append(t, s) = 1..(Len(t) + 1) /\ DOMAIN t = 1..Len(t)
      /\ Append(t, s)[Len(t) + 1] = s /\ \A k \in 1..Len(t) : Append(t, s)[k] = t[k]
      /\ Len(t) \in Nat
  OBVIOUS
<1>2. \A k \in 1..(Len(t) + 1) : k \in 1..Len(t) \/ k = Len(t) + 1
  BY <1>1
<1>3. Len(t) + 1 \in 1..(Len(t) + 1) /\ \A k \in 1..Len(t) : k \in 1..(Len(t) + 1)
  BY <1>1
<1>4. ToSet(Append(t, s)) = ToSet(t) \cup {s}
  BY <1>1, <1>2, <1>3 DEF ToSet
<1>5. s \notin ToSet(t) /\ IsInjective(t) => IsInjective(Append(t, s))
  BY <1>1, <1>2 DEF ToSet, IsInjective
<1>6. Append(t, s) # <<>> /\ Len(Append(t, s)) = Len(t) + 1
  BY <1>1
<1> QED
  BY <1>1, <1>4, <1>5, <1>6

LEMMA Sent ==
  ASSUME HubTypeOK, AtMostOnce, NEW b \in Casts, NEW l, NEW i \in Nat, NEW s \in Sockets,
         s = list[l][i + 1], Send(b, l, i), s \notin Visited(b)
  PROVE  /\ pos' \in [Casts -> Nat] /\ pos'[b] = i + 1 /\ \A c \in Casts \ {b} : pos'[c] = pos[c]
         /\ dead' \in [Casts -> SUBSET Sockets] /\ got' \in [Sockets -> Seq(Casts)]
         /\ AtMostOnce'
         /\ Visited(b)' = Visited(b) \cup {s}
         /\ \A c \in Casts \ {b} : Visited(c)' = Visited(c) /\ Overdue(c)' = Overdue(c)
<1>1. pos' = [pos EXCEPT ![b] = i + 1]
  BY DEF Send
<1>2. pos' \in [Casts -> Nat] /\ pos'[b] = i + 1 /\ \A c \in Casts \ {b} : pos'[c] = pos[c]
  BY <1>1 DEF HubTypeOK
<1>3. CASE alive[s]
  <2>1. got' = [got EXCEPT ![s] = Append(got[s], b)] /\ dead' = dead
    BY <1>3 DEF Send
  <2>2. PICK g \in Seq(Casts) : g = got[s]
    BY DEF HubTypeOK
  <2>3. /\ Append(g, b) \in Seq(Casts) /\ ToSet(Append(g, b)) = ToSet(g) \cup {b}
        /\ b \notin ToSet(g) /\ IsInjective(g) => IsInjective(Append(g, b))
    BY Appended
  <2>4. /\ got' \in [Sockets -> Seq(Casts)] /\ got'[s] = Append(g, b)
        /\ \A x \in Sockets \ {s} : got'[x] = got[x]
    BY <2>1, <2>2, <2>3 DEF HubTypeOK
  <2>5. b \notin ToSet(g)
    BY <2>2 DEF Visited, Received
  <2>6. AtMostOnce'
    BY <2>2, <2>3, <2>4, <2>5 DEF AtMostOnce
  <2>7. /\ Received(s)' = Received(s) \cup {b} /\ \A x \in Sockets \ {s} : Received(x)' = Received(x)
    BY <2>2, <2>3, <2>4 DEF Received
  <2>8. Visited(b)' = Visited(b) \cup {s}
    BY <2>1, <2>7 DEF Visited
  <2>9. \A c \in Casts \ {b} : Visited(c)' = Visited(c) /\ Overdue(c)' = Overdue(c)
    BY <2>1, <2>7 DEF Visited, Overdue
  <2> QED
    BY <1>2, <2>1, <2>4, <2>6, <2>8, <2>9 DEF HubTypeOK
<1>4. CASE ~alive[s]
  <2>1. dead' = [dead EXCEPT ![b] = dead[b] \cup {s}] /\ got' = got
    BY <1>4 DEF Send
  <2>2. /\ dead' \in [Casts -> SUBSET Sockets] /\ dead'[b] = dead[b] \cup {s}
        /\ \A c \in Casts \ {b} : dead'[c] = dead[c]
    BY <2>1 DEF HubTypeOK
  <2>3. \A x \in Sockets : Received(x)' = Received(x)
    BY <2>1 DEF Received
  <2>4. Visited(b)' = Visited(b) \cup {s}
    BY <2>2, <2>3 DEF Visited
  <2>5. \A c \in Casts \ {b} : Visited(c)' = Visited(c) /\ Overdue(c)' = Overdue(c)
    BY <2>2, <2>3 DEF Visited, Overdue
  <2> QED
    BY <1>2, <2>1, <2>2, <2>4, <2>5 DEF HubTypeOK, AtMostOnce
<1> QED
  BY <1>3, <1>4

-----------------------------------------------------------------------------
(* The invariant of the session sockets, one lemma for each kind of step.  *)

LEMMA HubInitInv == HubInit => HubInv
<1> SUFFICES ASSUME HubInit PROVE HubInv
  OBVIOUS
<1>1. <<>> \in Seq(Seq(Sockets)) /\ Len(<<>>) = 0 /\ <<>> \in Seq(Casts) /\ Lists \in Nat
  BY HubAssumption
<1>2. HubTypeOK
  BY <1>1 DEF HubInit, HubTypeOK
<1>3. ToSet(<<>>) = {} /\ IsInjective(<<>>) /\ DOMAIN <<>> = {}
  BY DEF ToSet, IsInjective
<1>4. \A b \in Casts : owed[b] = {} /\ dead[b] = {} /\ cast[b] = "new"
  BY DEF HubInit
<1>5. \A s \in Sockets : got[s] = <<>>
  BY DEF HubInit
<1>6. \A b \in Casts : IsFiniteSet(owed[b])
  BY <1>4, FS_EmptySet
<1>7. \A b \in Casts : Visited(b) = {}
  BY <1>3, <1>4, <1>5 DEF Visited, Received
<1>8. ListsApart
  BY <1>3 DEF ListsApart, HubInit
<1>9. Unheard
  BY <1>4, <1>7 DEF Unheard
<1>10. Ahead /\ OwedFirst /\ MissedAtMostRemoved
  BY <1>4 DEF Ahead, OwedFirst, MissedAtMostRemoved
<1>11. AtMostOnce
  BY <1>3, <1>5 DEF AtMostOnce
<1> QED
  BY <1>2, <1>6, <1>8, <1>9, <1>10, <1>11 DEF HubInv

\* Only the handlers and the peers move.
LEMMA HandlersKeep ==
  ASSUME HubInv, UNCHANGED <<list, entry, cast, walk, pos, dead, got, owed>>,
         handler' \in [Sockets -> {"none", "greeting", "serving", "gone"}],
         alive' \in [Sockets -> BOOLEAN],
         \A s \in Sockets : handler'[s] = "none" <=> handler[s] = "none"
  PROVE  HubInv'
<1>1. HubTypeOK'
  BY DEF HubInv, HubTypeOK
<1>2. Registered' = Registered
  BY DEF Registered
<1>3. \A b \in Casts : Visited(b)' = Visited(b) /\ Left(b)' = Left(b)
  BY DEF Visited, Left, Received
<1>4. \A l \in DOMAIN list : ToSet(list[l]) \subseteq Sockets
  BY DEF HubInv, HubTypeOK, ToSet
<1>5. ListsApart'
  BY <1>4 DEF HubInv, ListsApart
<1>6. Unheard'
  BY <1>3 DEF HubInv, Unheard
<1>7. Ahead' /\ OwedFirst'
  BY <1>2, <1>3 DEF HubInv, Ahead, OwedFirst
<1>8. AtMostOnce' /\ MissedAtMostRemoved'
  BY <1>2 DEF HubInv, AtMostOnce, MissedAtMostRemoved, Received
<1> QED
  BY <1>1, <1>5, <1>6, <1>7, <1>8 DEF HubInv

LEMMA ConnectAdds ==
  ASSUME HubTypeOK, NEW s \in Sockets, Connect(s)
  PROVE  /\ list' \in Seq(Seq(Sockets)) /\ Len(list') \in Len(list)..Lists
         /\ entry' \in 1..Len(list') /\ list'[entry'] # <<>>
         /\ Registered' = Registered \cup {s}
         /\ \A l \in 1..Len(list) : \/ list'[l] = list[l]
                                    \/ l = entry /\ list'[l] = Append(list[l], s)
         /\ \A l \in 1..Len(list') : l \in 1..Len(list) \/ list'[l] = <<s>>
         /\ \/ entry' = entry
            \/ entry = 0 /\ entry' \notin 0..Len(list)
<1>1. /\ list \in Seq(Seq(Sockets)) /\ Len(list) \in Nat /\ Len(list) <= Lists /\ Lists \in Nat
      /\ \A l \in 1..Len(list) : list[l] \in Seq(Sockets)
  BY HubAssumption DEF HubTypeOK
<1>2. CASE entry = 0
  <2>1. list' = Append(list, <<s>>) /\ entry' = Len(list) + 1 /\ Len(list) < Lists
    BY <1>2 DEF Connect
  <2>2. PICK m \in Nat : m = Len(list)
    BY <1>1
  <2>3. <<s>> \in Seq(Sockets) /\ <<s>> # <<>>
    OBVIOUS
  <2>4. /\ list' \in Seq(Seq(Sockets)) /\ Len(list') = m + 1 /\ list'[m + 1] = <<s>>
        /\ \A l \in 1..m : list'[l] = list[l]
    BY <1>1, <2>1, <2>2, <2>3, Appended
  <2>5. ToSet(<<s>>) = {s}
    BY DEF ToSet
  <2>6. Registered' = Registered \cup {s}
    BY <1>2, <2>1, <2>2, <2>4, <2>5 DEF Registered
  <2>7. \A l \in 1..(m + 1) : l \in 1..m \/ l = m + 1
    OBVIOUS
  <2>8. Len(list') \in Len(list)..Lists /\ entry' \in 1..Len(list') /\ entry' \notin 0..Len(list)
    BY <1>1, <2>1, <2>2, <2>4
  <2>9. list'[entry'] # <<>>
    BY <2>1, <2>2, <2>3, <2>4
  <2>10. \A l \in 1..Len(list') : l \in 1..Len(list) \/ list'[l] = <<s>>
    BY <2>2, <2>4, <2>7
  <2>11. \A l \in 1..Len(list) : list'[l] = list[l]
    BY <2>2, <2>4
  <2>12. list' \in Seq(Seq(Sockets))
    BY <2>4
  <2> QED
    BY <1>2, <2>6, <2>8, <2>9, <2>10, <2>11, <2>12
<1>3. CASE entry # 0
  <2>1. PICK e \in 1..Len(list) : e = entry
    BY <1>1, <1>3 DEF HubTypeOK
  <2>2. list' = [list EXCEPT ![e] = Append(list[e], s)] /\ entry' = e
    BY <1>3, <2>1 DEF Connect
  <2>3. PICK t \in Seq(Sockets) : t = list[e]
    BY <1>1
  <2>4. Append(t, s) \in Seq(Sockets) /\ Append(t, s) # <<>> /\ ToSet(Append(t, s)) = ToSet(t) \cup {s}
    BY Appended
  <2>5. /\ list' \in Seq(Seq(Sockets)) /\ Len(list') = Len(list)
        /\ list'[e] = Append(t, s) /\ \A l \in 1..Len(list) : l # e => list'[l] = list[l]
    BY <1>1, <2>2, <2>3, <2>4, ExceptSeq
  <2>6. Registered' = Registered \cup {s}
    <3>1. Registered = ToSet(t)
      BY <1>3, <2>1, <2>3 DEF Registered
    <3>2. Registered' = ToSet(list'[e])
      BY <2>2 DEF Registered
    <3> QED
      BY <2>4, <2>5, <3>1, <3>2
  <2>7. \A l \in 1..Len(list) : \/ list'[l] = list[l]
                                \/ l = entry /\ list'[l] = Append(list[l], s)
    <3>1. list'[e] = Append(list[e], s)
      BY <2>3, <2>5
    <3> QED
      BY <2>1, <2>5, <3>1
  <2>8. Len(list') \in Len(list)..Lists /\ entry' \in 1..Len(list') /\ entry' = entry
    BY <1>1, <2>1, <2>2, <2>5
  <2>9. list'[entry'] # <<>>
    BY <2>2, <2>4, <2>5
  <2> QED
    BY <2>5, <2>6, <2>7, <2>8, <2>9
<1> QED
  BY <1>2, <1>3

LEMMA ConnectKeeps ==
  ASSUME HubInv, NEW s \in Sockets, Connect(s)
  PROVE  HubInv'
<1>1. /\ HubTypeOK /\ ListsApart /\ Unheard /\ Ahead /\ OwedFirst /\ AtMostOnce /\ MissedAtMostRemoved
      /\ \A b \in Casts : IsFiniteSet(owed[b])
  BY DEF HubInv
<1>2. /\ list' \in Seq(Seq(Sockets)) /\ Len(list') \in Len(list)..Lists
      /\ entry' \in 1..Len(list') /\ list'[entry'] # <<>>
      /\ Registered' = Registered \cup {s}
      /\ \A l \in 1..Len(list) : \/ list'[l] = list[l]
                                 \/ l = entry /\ list'[l] = Append(list[l], s)
      /\ \A l \in 1..Len(list') : l \in 1..Len(list) \/ list'[l] = <<s>>
      /\ \/ entry' = entry
         \/ entry = 0 /\ entry' \notin 0..Len(list)
  BY <1>1, ConnectAdds
<1>3. /\ handler' \in [Sockets -> {"none", "greeting", "serving", "gone"}]
      /\ handler[s] = "none" /\ handler'[s] = "greeting"
      /\ \A x \in Sockets \ {s} : handler'[x] = handler[x]
      /\ alive' = alive /\ got' = got /\ cast' = cast /\ walk' = walk /\ pos' = pos
      /\ dead' = dead /\ owed' = owed
  BY <1>1 DEF Connect, castVars, HubTypeOK
<1>4. /\ list \in Seq(Seq(Sockets)) /\ Len(list) \in Nat /\ Len(list') \in Nat
      /\ DOMAIN list = 1..Len(list) /\ DOMAIN list' = 1..Len(list')
      /\ \A l \in 1..Len(list) : list[l] \in Seq(Sockets)
  BY <1>1, <1>2 DEF HubTypeOK
<1>5. /\ entry' \in 0..Len(list') /\ Len(list') <= Lists /\ walk' \in [Casts -> 0..Len(list')]
  BY <1>1, <1>2, <1>3, <1>4, HubAssumption DEF HubTypeOK
<1>6. HubTypeOK'
  BY <1>1, <1>2, <1>3, <1>5 DEF HubTypeOK
<1>7. \A l \in 1..Len(list) : s \notin ToSet(list[l]) /\ ToSet(list[l]) \subseteq Sockets
  BY <1>1, <1>3, <1>4 DEF ListsApart, ToSet
<1>8. \A l \in 1..Len(list) : \/ list'[l] = list[l]
                              \/ /\ l = entry /\ Len(list'[l]) = Len(list[l]) + 1
                                 /\ list'[l][Len(list[l]) + 1] = s
                                 /\ \A i \in 1..Len(list[l]) : list'[l][i] = list[l][i]
                                 /\ ToSet(list'[l]) = ToSet(list[l]) \cup {s}
                                 /\ IsInjective(list[l]) => IsInjective(list'[l])
  <2> SUFFICES ASSUME NEW l \in 1..Len(list), list'[l] # list[l]
               PROVE  /\ l = entry /\ Len(list'[l]) = Len(list[l]) + 1
                      /\ list'[l][Len(list[l]) + 1] = s
                      /\ \A i \in 1..Len(list[l]) : list'[l][i] = list[l][i]
                      /\ ToSet(list'[l]) = ToSet(list[l]) \cup {s}
                      /\ IsInjective(list[l]) => IsInjective(list'[l])
    OBVIOUS
  <2>1. PICK t \in Seq(Sockets) : t = list[l]
    BY <1>4
  <2>2. l = entry /\ list'[l] = Append(t, s) /\ s \notin ToSet(t)
    BY <1>2, <1>7, <2>1
  <2> QED
    BY <2>1, <2>2, Appended
<1>9. ToSet(<<s>>) = {s} /\ IsInjective(<<s>>)
  BY DEF ToSet, IsInjective
<1>10. ListsApart'
  <2>1. \A l \in 1..Len(list') : IsInjective(list'[l]) \/ list'[l] = <<s>>
    BY <1>1, <1>2, <1>4, <1>8 DEF ListsApart
  <2>2. \A l \in 1..Len(list') : \A x \in ToSet(list'[l]) : handler'[x] # "none"
    <3> SUFFICES ASSUME NEW l \in 1..Len(list'), NEW x \in ToSet(list'[l]) PROVE handler'[x] # "none"
      OBVIOUS
    <3>1. x = s \/ (l \in 1..Len(list) /\ x \in ToSet(list[l]))
      <4>1. CASE l \in 1..Len(list)
        <5>1. ToSet(list'[l]) = ToSet(list[l]) \/ ToSet(list'[l]) = ToSet(list[l]) \cup {s}
          BY <1>8, <4>1
        <5> QED
          BY <4>1, <5>1
      <4>2. CASE l \notin 1..Len(list)
        <5>1. list'[l] = <<s>>
          BY <1>2, <4>2
        <5>2. ToSet(list'[l]) = {s}
          BY <1>9, <5>1
        <5> QED
          BY <5>2
      <4> QED
        BY <4>1, <4>2
    <3> QED
      BY <1>1, <1>3, <1>4, <1>7, <3>1 DEF ListsApart
  <2>3. \A l \in 1..Len(list') : IsInjective(list'[l])
    BY <1>9, <2>1
  <2> QED
    BY <1>2, <1>4, <2>2, <2>3 DEF ListsApart
<1>11. \A b \in Casts : Visited(b)' = Visited(b) /\ s \notin Visited(b) /\ s \notin owed[b]
  <2>1. \A x \in Sockets : Received(x)' = Received(x)
    BY <1>3 DEF Received
  <2> QED
    BY <1>1, <1>3, <2>1 DEF Visited, Unheard
<1>12. Unheard'
  BY <1>1, <1>3, <1>11 DEF Unheard
<1>13. \A b \in Casts : cast[b] = "walking" => walk[b] \in 1..Len(list)
  BY <1>1, <1>4 DEF Ahead, HubTypeOK
<1>14. Ahead'
  <2> SUFFICES ASSUME NEW b \in Casts, cast[b] = "walking", NEW l \in 1..Len(list), l = walk[b],
                      NEW i \in DOMAIN list'[l], i > pos[b]
               PROVE  list'[l][i] \notin Visited(b)
    BY <1>3, <1>11, <1>13 DEF Ahead
  <2>1. l \in 1..Len(list') /\ DOMAIN list'[l] = 1..Len(list'[l]) /\ DOMAIN list[l] = 1..Len(list[l])
        /\ Len(list[l]) \in Nat
    BY <1>2, <1>4, SMTT(40)
  <2>2. (i \in DOMAIN list[l] /\ list'[l][i] = list[l][i]) \/ list'[l][i] = s
    BY <1>8, <2>1, SMTT(40)
  <2> QED
    BY <1>1, <1>11, <2>2 DEF Ahead
<1>15. OwedFirst'
  <2>1. ASSUME NEW b \in Casts, cast[b] = "walking", NEW l \in 1..Len(list), l = walk[b]
        PROVE  /\ \A i, j \in DOMAIN list'[l] : i < j /\ list'[l][j] \in owed[b] => list'[l][i] \in owed[b]
               /\ owed[b] \cap ToSet(list'[l]) = owed[b] \cap ToSet(list[l])
               /\ l # entry' => owed[b] \cap Registered' = {}
    <3>1. l \in 1..Len(list') /\ DOMAIN list'[l] = 1..Len(list'[l]) /\ DOMAIN list[l] = 1..Len(list[l])
          /\ Len(list[l]) \in Nat
      BY <1>2, <1>4
    <3>2. \A i \in DOMAIN list'[l] : \/ i \in DOMAIN list[l] /\ list'[l][i] = list[l][i]
                                     \/ i = Len(list[l]) + 1 /\ list'[l][i] = s
      <4>1. CASE list'[l] = list[l]
        BY <4>1
      <4>2. CASE list'[l] # list[l]
        <5>1. Len(list'[l]) = Len(list[l]) + 1 /\ list'[l][Len(list[l]) + 1] = s
              /\ \A i \in 1..Len(list[l]) : list'[l][i] = list[l][i]
          BY <1>8, <4>2
        <5> QED
          BY <3>1, <5>1
      <4> QED
        BY <4>1, <4>2
    <3>3. \A i, j \in DOMAIN list'[l] : i < j /\ list'[l][j] \in owed[b] => list'[l][i] \in owed[b]
      <4> SUFFICES ASSUME NEW i \in DOMAIN list'[l], NEW j \in DOMAIN list'[l], i < j,
                          list'[l][j] \in owed[b]
                   PROVE  list'[l][i] \in owed[b]
        OBVIOUS
      <4>1. j \in DOMAIN list[l] /\ list'[l][j] = list[l][j]
        BY <1>11, <3>2
      <4>2. i \in DOMAIN list[l] /\ list'[l][i] = list[l][i]
        BY <3>1, <3>2, <4>1
      <4> QED
        BY <1>1, <2>1, <4>1, <4>2 DEF OwedFirst
    <3>4. owed[b] \cap ToSet(list'[l]) = owed[b] \cap ToSet(list[l])
      BY <1>8, <1>11
    <3>5. l # entry' => l # entry
      BY <1>2
    <3>6. l # entry' => owed[b] \cap Registered' = {}
      BY <1>1, <1>2, <1>11, <2>1, <3>5 DEF OwedFirst
    <3> QED
      BY <3>3, <3>4, <3>6
  <2>2. ASSUME NEW b \in Casts, cast[b] = "walking"
        PROVE  Left(b)' = Left(b) /\ Visited(b)' = Visited(b)
    BY <1>3, <1>11, <1>13, <2>1, <2>2 DEF Left
  <2> QED
    BY <1>1, <1>3, <1>13, <2>1, <2>2 DEF OwedFirst
<1>16. AtMostOnce'
  BY <1>1, <1>3 DEF AtMostOnce
<1>17. MissedAtMostRemoved'
  <2>1. \A b \in Casts : owed[b] \cap Registered' = owed[b] \cap Registered
    BY <1>2, <1>11
  <2> QED
    BY <1>1, <1>3, <2>1 DEF MissedAtMostRemoved, Received
<1> QED
  BY <1>1, <1>3, <1>6, <1>10, <1>12, <1>14, <1>15, <1>16, <1>17 DEF HubInv

\* Sockets are unregistered, and at most the broadcasts that end by that are over.
LEMMA UnregisterKeeps ==
  ASSUME HubInv, NEW gone, Unregister(gone),
         handler' \in [Sockets -> {"none", "greeting", "serving", "gone"}],
         \A s \in Sockets : handler'[s] = "none" <=> handler[s] = "none",
         UNCHANGED <<alive, walk, pos, dead, got, owed>>,
         cast' \in [Casts -> {"new", "walking", "over"}],
         \A b \in Casts : \/ cast'[b] = cast[b]
                          \/ /\ cast'[b] = "over"
                             /\ Cardinality({s \in owed[b] \cap Registered' : s \notin Overdue(b)})
                                  <= Cardinality(owed[b] \ (owed[b] \cap Registered'))
  PROVE  HubInv'
<1>1. /\ HubTypeOK /\ ListsApart /\ Unheard /\ Ahead /\ OwedFirst /\ AtMostOnce /\ MissedAtMostRemoved
      /\ \A b \in Casts : IsFiniteSet(owed[b])
  BY DEF HubInv
<1>2. /\ list' \in Seq(Seq(Sockets)) /\ Len(list') = Len(list)
      /\ \A l \in 1..Len(list) : LeftOf(list'[l], list[l]) /\ ToSet(list'[l]) \subseteq ToSet(list[l])
      /\ entry' = entry \/ entry' = 0
      /\ entry' # 0 => list'[entry'] # <<>>
      /\ Registered' \subseteq Registered \ gone
  BY <1>1, Unregistered
<1>3. /\ Len(list) \in Nat /\ DOMAIN list = 1..Len(list) /\ DOMAIN list' = 1..Len(list)
      /\ \A l \in 1..Len(list) : list[l] \in Seq(Sockets) /\ list'[l] \in Seq(Sockets)
  BY <1>1, <1>2 DEF HubTypeOK
<1>4. HubTypeOK'
  <2>1. entry' \in 0..Len(list')
    BY <1>1, <1>2, <1>3 DEF HubTypeOK
  <2> QED
    BY <1>1, <1>2, <2>1 DEF HubTypeOK
<1>5. \A b \in Casts : Visited(b)' = Visited(b) /\ Overdue(b)' = Overdue(b)
  BY DEF Visited, Overdue, Received
<1>6. ListsApart'
  <2>1. \A l \in 1..Len(list) : IsInjective(list'[l])
    BY <1>1, <1>2, <1>3, LeftOfSet DEF ListsApart
  <2>2. \A l \in 1..Len(list) : \A s \in ToSet(list'[l]) : s \in Sockets /\ handler'[s] # "none"
    <3>1. \A l \in 1..Len(list) : ToSet(list[l]) \subseteq Sockets
      BY <1>3 DEF ToSet
    <3> QED
      BY <1>1, <1>2, <1>3, <3>1 DEF ListsApart
  <2> QED
    BY <1>2, <1>3, <2>1, <2>2 DEF ListsApart
<1>7. Unheard'
  <2>1. \A b \in Casts : cast'[b] = "new" => cast[b] = "new"
    OBVIOUS
  <2> QED
    BY <1>1, <1>5, <2>1 DEF Unheard
<1>8. \A b \in Casts : cast'[b] = "walking" => cast[b] = "walking" /\ walk[b] \in 1..Len(list)
  <2> SUFFICES ASSUME NEW b \in Casts, cast'[b] = "walking"
               PROVE  cast[b] = "walking" /\ walk[b] \in 1..Len(list)
    OBVIOUS
  <2>1. cast[b] = "walking"
    OBVIOUS
  <2>2. walk[b] \in 0..Len(list) /\ walk[b] # 0
    BY <1>1, <2>1 DEF Ahead, HubTypeOK
  <2> QED
    BY <1>3, <2>1, <2>2
<1>9. ASSUME NEW b \in Casts, cast[b] = "walking", NEW l \in 1..Len(list), l = walk[b]
      PROVE  /\ \A i \in DOMAIN list'[l] : i > pos[b] => list'[l][i] \notin Visited(b)
             /\ \A i, j \in DOMAIN list'[l] :
                  i < j /\ list'[l][j] \in owed[b] => list'[l][i] \in owed[b]
             /\ \/ Cardinality(Visited(b) \cap owed[b]) >= pos[b]
                \/ Cardinality(Visited(b) \cap owed[b]) >= Cardinality(owed[b] \cap ToSet(list'[l]))
             /\ l # entry' => owed[b] \cap Registered' = {}
  <2>1. PICK f \in [1..Len(list'[l]) -> 1..Len(list[l])] :
          /\ \A i \in 1..Len(list'[l]) : list'[l][i] = list[l][f[i]] /\ i <= f[i]
          /\ \A i, j \in 1..Len(list'[l]) : i < j => f[i] < f[j]
    BY <1>2 DEF LeftOf
  <2>2. /\ DOMAIN list'[l] = 1..Len(list'[l]) /\ DOMAIN list[l] = 1..Len(list[l])
        /\ Len(list[l]) \in Nat /\ Len(list'[l]) \in Nat /\ pos[b] \in Nat
    BY <1>1, <1>3 DEF HubTypeOK
  <2>3. /\ \A i \in DOMAIN list[l] : i > pos[b] => list[l][i] \notin Visited(b)
        /\ \A i, j \in DOMAIN list[l] : i < j /\ list[l][j] \in owed[b] => list[l][i] \in owed[b]
        /\ \/ Cardinality(Visited(b) \cap owed[b]) >= pos[b]
           \/ Cardinality(Visited(b) \cap owed[b]) >= Cardinality(owed[b] \cap ToSet(list[l]))
        /\ l # entry => owed[b] \cap Registered = {}
    BY <1>1, <1>9 DEF Ahead, OwedFirst, Left
  <2>4. \A i \in DOMAIN list'[l] : i > pos[b] => list'[l][i] \notin Visited(b)
    <3> SUFFICES ASSUME NEW i \in 1..Len(list'[l]), i > pos[b] PROVE list[l][f[i]] \notin Visited(b)
      BY <2>1, <2>2
    <3>1. f[i] \in 1..Len(list[l]) /\ f[i] > pos[b]
      BY <2>1, <2>2, SMTT(40)
    <3> QED
      BY <2>2, <2>3, <3>1
  <2>5. \A i, j \in DOMAIN list'[l] : i < j /\ list'[l][j] \in owed[b] => list'[l][i] \in owed[b]
    <3> SUFFICES ASSUME NEW i \in 1..Len(list'[l]), NEW j \in 1..Len(list'[l]), i < j,
                        list'[l][j] \in owed[b]
                 PROVE  list'[l][i] \in owed[b]
      BY <2>2
    <3>1. f[i] \in 1..Len(list[l]) /\ f[j] \in 1..Len(list[l]) /\ f[i] < f[j]
      BY <2>1
    <3>2. list[l][f[j]] \in owed[b]
      BY <2>1
    <3>3. list[l][f[i]] \in owed[b]
      BY <2>2, <2>3, <3>1, <3>2
    <3> QED
      BY <2>1, <3>3
  <2>6. \/ Cardinality(Visited(b) \cap owed[b]) >= pos[b]
        \/ Cardinality(Visited(b) \cap owed[b]) >= Cardinality(owed[b] \cap ToSet(list'[l]))
    <3>1. owed[b] \cap ToSet(list'[l]) \subseteq owed[b] \cap ToSet(list[l])
      BY <1>2
    <3>2. IsFiniteSet(owed[b] \cap ToSet(list[l])) /\ IsFiniteSet(Visited(b) \cap owed[b])
      BY <1>1, FS_Subset
    <3>3. Cardinality(owed[b] \cap ToSet(list'[l])) <= Cardinality(owed[b] \cap ToSet(list[l]))
      BY <3>1, <3>2, FS_Subset
    <3>4. IsFiniteSet(owed[b] \cap ToSet(list'[l]))
      BY <3>1, <3>2, FS_Subset
    <3>5. /\ Cardinality(owed[b] \cap ToSet(list'[l])) \in Nat
          /\ Cardinality(owed[b] \cap ToSet(list[l])) \in Nat
          /\ Cardinality(Visited(b) \cap owed[b]) \in Nat
      BY <3>2, <3>4, FS_CardinalityType
    <3> QED
      BY <2>2, <2>3, <3>3, <3>5
  <2>7. l # entry' => owed[b] \cap Registered' = {}
    <3>1. entry' # entry => Registered' = {}
      BY <1>2 DEF Registered
    <3> QED
      BY <1>2, <2>3, <3>1
  <2> QED
    BY <2>4, <2>5, <2>6, <2>7
<1>10. \A b \in Casts : cast'[b] = "walking" =>
         \E l \in 1..Len(list) : l = walk[b] /\ cast[b] = "walking"
  BY <1>8
<1>11. Ahead'
  <2> SUFFICES ASSUME NEW b \in Casts, cast'[b] = "walking", NEW l \in 1..Len(list), l = walk[b],
                      cast[b] = "walking"
               PROVE  \A i \in DOMAIN list'[l] : i > pos[b] => list'[l][i] \notin Visited(b)
    BY <1>5, <1>10 DEF Ahead
  <2> QED
    BY <1>9
<1>12. OwedFirst'
  <2> SUFFICES ASSUME NEW b \in Casts, cast'[b] = "walking", NEW l \in 1..Len(list), l = walk[b],
                      cast[b] = "walking"
               PROVE  /\ \A i, j \in DOMAIN list'[l] :
                           i < j /\ list'[l][j] \in owed[b] => list'[l][i] \in owed[b]
                      /\ \/ Cardinality(Visited(b) \cap owed[b]) >= pos[b]
                         \/ Cardinality(Visited(b) \cap owed[b]) >= Cardinality(owed[b] \cap ToSet(list'[l]))
                      /\ l # entry' => owed[b] \cap Registered' = {}
    BY <1>5, <1>10 DEF OwedFirst, Left
  <2> QED
    BY <1>9
<1>13. AtMostOnce'
  BY <1>1 DEF AtMostOnce
<1>14. MissedAtMostRemoved'
  <2>1. ASSUME NEW b \in Casts, cast'[b] = "over"
        PROVE  Cardinality({s \in owed[b] \cap Registered' : s \notin Overdue(b)})
                 <= Cardinality(owed[b] \ (owed[b] \cap Registered'))
    <3>1. CASE cast[b] = "over"
      <4>1. Cardinality({s \in owed[b] \cap Registered : s \notin Overdue(b)})
              <= Cardinality(owed[b] \ (owed[b] \cap Registered))
        BY <1>1, <3>1, MissedIs
      <4>2. owed[b] \cap Registered' \subseteq Registered
        BY <1>2
      <4>3. PICK O, R, Q, V : O = owed[b] /\ R = Registered /\ Q = Registered' /\ V = Overdue(b)
        OBVIOUS
      <4>4. Cardinality({s \in O \cap Q : s \notin V}) <= Cardinality(O \ (O \cap Q))
        <5>1. IsFiniteSet(O) /\ O \cap Q \subseteq R
          BY <1>1, <4>2, <4>3
        <5>2. Cardinality({s \in O \cap R : s \notin V}) <= Cardinality(O \ (O \cap R))
          BY <4>1, <4>3
        <5> QED
          BY <5>1, <5>2, MissedStays
      <4> QED
        BY <4>3, <4>4
    <3>2. CASE cast[b] # "over"
      BY <2>1, <3>2
    <3> QED
      BY <3>1, <3>2
  <2>2. MissedAtMostRemoved' <=>
           \A b \in Casts : cast'[b] = "over" =>
             Cardinality({s \in owed'[b] \cap Registered' : s \notin Overdue(b)'})
               <= Cardinality(owed'[b] \ (owed'[b] \cap Registered'))
    BY <1>4, MissedIsNext
  <2> QED
    BY <1>5, <2>1, <2>2
<1> QED
  BY <1>1, <1>4, <1>6, <1>7, <1>11, <1>12, <1>13, <1>14 DEF HubInv

\* One broadcast sends to the next socket of its list.
LEMMA SendKeeps ==
  ASSUME HubInv, NEW b \in Casts, NEW l \in 1..Len(list), NEW i \in Nat, i + 1 \in DOMAIN list[l],
         NEW s \in Sockets, s = list[l][i + 1], s \notin Visited(b), Send(b, l, i),
         UNCHANGED <<handler, alive, list, entry>>,
         NEW O \in SUBSET Sockets, IsFiniteSet(O), \A x \in O : handler[x] # "none",
         cast' \in [Casts -> {"new", "walking", "over"}], cast'[b] = "walking",
         walk' \in [Casts -> 0..Len(list)], walk'[b] = l,
         owed' \in [Casts -> SUBSET Sockets], owed'[b] = O,
         \A c \in Casts \ {b} : cast'[c] = cast[c] /\ walk'[c] = walk[c] /\ owed'[c] = owed[c],
         \A j \in DOMAIN list[l] : j > i => list[l][j] \notin Visited(b),
         \A j, k \in DOMAIN list[l] : j < k /\ list[l][k] \in O => list[l][j] \in O,
         \/ Cardinality((Visited(b) \cup {s}) \cap O) >= i + 1
         \/ Cardinality((Visited(b) \cup {s}) \cap O) >= Cardinality(O \cap ToSet(list[l])),
         l # entry => O \cap Registered = {}
  PROVE  HubInv'
<1>1. /\ HubTypeOK /\ ListsApart /\ Unheard /\ Ahead /\ OwedFirst /\ AtMostOnce /\ MissedAtMostRemoved
      /\ \A c \in Casts : IsFiniteSet(owed[c])
  BY DEF HubInv
<1>2. /\ pos' \in [Casts -> Nat] /\ pos'[b] = i + 1 /\ \A c \in Casts \ {b} : pos'[c] = pos[c]
      /\ dead' \in [Casts -> SUBSET Sockets] /\ got' \in [Sockets -> Seq(Casts)]
      /\ AtMostOnce'
      /\ Visited(b)' = Visited(b) \cup {s}
      /\ \A c \in Casts \ {b} : Visited(c)' = Visited(c) /\ Overdue(c)' = Overdue(c)
  BY <1>1, Sent
<1>3. HubTypeOK'
  BY <1>1, <1>2 DEF HubTypeOK
<1>4. \A c \in Casts : IsFiniteSet(owed'[c])
  BY <1>1
<1>5. Registered' = Registered /\ ListsApart'
  <2>1. \A k \in DOMAIN list : ToSet(list[k]) \subseteq Sockets
    BY <1>1 DEF HubTypeOK, ToSet
  <2> QED
    BY <1>1 DEF Registered, ListsApart
<1>6. l \in DOMAIN list /\ handler[s] # "none"
  <2>1. l \in DOMAIN list /\ s \in ToSet(list[l])
    BY DEF ToSet
  <2> QED
    BY <1>1, <2>1 DEF ListsApart
<1>7. Unheard'
  <2>1. \A c \in Casts : cast'[c] = "new" => Visited(c)' = {}
    BY <1>1, <1>2, ZenonT(60) DEF Unheard
  <2>2. ASSUME NEW x \in Sockets, handler[x] = "none", NEW c \in Casts
        PROVE  x \notin Visited(c)' \cup owed'[c]
    BY <1>1, <1>2, <1>6, <2>2, ZenonT(60) DEF Unheard
  <2> QED
    BY <2>1, <2>2 DEF Unheard
<1>8. \A j \in DOMAIN list[l] : j > i + 1 => list[l][j] \notin Visited(b) \cup {s}
  <2>1. DOMAIN list[l] = 1..Len(list[l]) /\ Len(list[l]) \in Nat
    BY <1>1 DEF HubTypeOK
  <2>2. IsInjective(list[l])
    BY <1>1, <1>6 DEF ListsApart
  <2> SUFFICES ASSUME NEW j \in DOMAIN list[l], j > i + 1 PROVE list[l][j] \notin Visited(b) \cup {s}
    OBVIOUS
  <2>3. j > i /\ j # i + 1
    BY <2>1
  <2>4. list[l][j] # s
    BY <2>2, <2>3 DEF IsInjective
  <2> QED
    BY <2>3, <2>4
<1>9. Ahead'
  <2>1. ASSUME NEW c \in Casts \ {b}, cast'[c] = "walking"
        PROVE  /\ walk'[c] # 0
               /\ \A j \in DOMAIN list[walk'[c]] : j > pos'[c] => list[walk'[c]][j] \notin Visited(c)'
    <3>1. cast[c] = "walking" /\ walk'[c] = walk[c] /\ pos'[c] = pos[c] /\ Visited(c)' = Visited(c)
      BY <1>2, <2>1
    <3>2. walk[c] # 0 /\ \A j \in DOMAIN list[walk[c]] : j > pos[c] => list[walk[c]][j] \notin Visited(c)
      BY <1>1, <3>1 DEF Ahead
    <3> QED
      BY <3>1, <3>2
  <2>2. l # 0
    OBVIOUS
  <2> QED
    BY <1>2, <1>8, <2>1, <2>2 DEF Ahead
<1>10. OwedFirst'
  <2>1. ASSUME NEW c \in Casts \ {b}, cast'[c] = "walking"
        PROVE  /\ \A j, k \in DOMAIN list[walk'[c]] :
                    j < k /\ list[walk'[c]][k] \in owed'[c] => list[walk'[c]][j] \in owed'[c]
               /\ \/ Cardinality(Visited(c)' \cap owed'[c]) >= pos'[c]
                  \/ Cardinality(Visited(c)' \cap owed'[c]) >= Cardinality(owed'[c] \cap ToSet(list[walk'[c]]))
               /\ walk'[c] # entry => owed'[c] \cap Registered = {}
    BY <1>1, <1>2, <2>1 DEF OwedFirst, Left
  <2>2. /\ \A j, k \in DOMAIN list[l] : j < k /\ list[l][k] \in owed'[b] => list[l][j] \in owed'[b]
        /\ \/ Cardinality(Visited(b)' \cap owed'[b]) >= pos'[b]
           \/ Cardinality(Visited(b)' \cap owed'[b]) >= Cardinality(owed'[b] \cap ToSet(list[l]))
        /\ l # entry => owed'[b] \cap Registered = {}
    BY <1>2
  <2> QED
    BY <1>5, <2>1, <2>2 DEF OwedFirst, Left
<1>11. MissedAtMostRemoved'
  <2>1. \A c \in Casts : cast'[c] = "over" =>
          /\ c # b /\ cast[c] = "over"
          /\ owed'[c] = owed[c] /\ Overdue(c)' = Overdue(c)
    BY <1>2
  <2>2. \A c \in Casts : cast'[c] = "over" =>
          Cardinality({x \in owed'[c] \cap Registered : x \notin Overdue(c)'})
            <= Cardinality(owed'[c] \ (owed'[c] \cap Registered))
    BY <1>1, <2>1, MissedIs
  <2> QED
    BY <1>3, <1>5, <2>2, MissedIsNext
<1> QED
  BY <1>2, <1>3, <1>4, <1>5, <1>7, <1>9, <1>10, <1>11 DEF HubInv

LEMMA BroadcastKeeps ==
  ASSUME HubInv, NEW b \in Casts, Broadcast(b)
  PROVE  HubInv'
<1>1. /\ HubTypeOK /\ ListsApart /\ Unheard /\ Ahead /\ OwedFirst /\ AtMostOnce /\ MissedAtMostRemoved
      /\ \A c \in Casts : IsFiniteSet(owed[c])
  BY DEF HubInv
<1>2. CASE entry = 0
  <2>1. /\ cast' = [cast EXCEPT ![b] = "over"]
        /\ UNCHANGED <<handler, alive, list, entry, walk, pos, dead, got, owed>>
    BY <1>2 DEF Broadcast
  <2>2. Unregister({})
    BY <1>2, <2>1 DEF Unregister
  <2>3. /\ cast' \in [Casts -> {"new", "walking", "over"}] /\ cast'[b] = "over"
        /\ \A c \in Casts \ {b} : cast'[c] = cast[c]
    BY <1>1, <2>1 DEF HubTypeOK
  <2>4. Registered' = {}
    BY <1>2, <2>1 DEF Registered
  <2>5. Cardinality({s \in owed[b] \cap Registered' : s \notin Overdue(b)}) = 0
    <3>1. {s \in owed[b] \cap Registered' : s \notin Overdue(b)} = {}
      BY <2>4
    <3> QED
      BY <3>1, FS_EmptySet
  <2>6. Cardinality({s \in owed[b] \cap Registered' : s \notin Overdue(b)})
          <= Cardinality(owed[b] \ (owed[b] \cap Registered'))
    <3>1. IsFiniteSet(owed[b] \ (owed[b] \cap Registered'))
      BY <1>1, FS_Subset
    <3>2. Cardinality(owed[b] \ (owed[b] \cap Registered')) \in Nat
      BY <3>1, FS_CardinalityType
    <3> QED
      BY <2>5, <3>2
  <2>7. handler' \in [Sockets -> {"none", "greeting", "serving", "gone"}]
    BY <1>1, <2>1 DEF HubTypeOK
  <2> QED
    BY <2>1, <2>2, <2>3, <2>6, <2>7, UnregisterKeeps
<1>3. CASE entry # 0
  <2>1. PICK l \in 1..Len(list) : l = entry
    BY <1>1, <1>3 DEF HubTypeOK
  <2>2. /\ cast[b] = "new"
        /\ cast' = [cast EXCEPT ![b] = "walking"] /\ walk' = [walk EXCEPT ![b] = l]
        /\ owed' = [owed EXCEPT ![b] = Registered] /\ Send(b, l, 0)
        /\ UNCHANGED <<handler, alive, list, entry>>
    BY <1>3, <2>1 DEF Broadcast
  <2>3. PICK t \in Seq(Sockets) : t = list[l]
    BY <1>1 DEF HubTypeOK
  <2>4. t # <<>>
    BY <1>1, <1>3, <2>1, <2>3 DEF ListsApart
  <2>5. 0 + 1 \in DOMAIN list[l] /\ DOMAIN t = 1..Len(t) /\ Len(t) \in Nat
    BY <2>3, <2>4
  <2>6. PICK s \in Sockets : s = list[l][0 + 1]
    BY <2>3, <2>5
  <2>7. PICK O \in SUBSET Sockets : O = Registered
    <3>1. Registered \subseteq Sockets
      BY <1>1, <1>3, <2>1, <2>3 DEF Registered, ToSet
    <3> QED
      BY <3>1
  <2>8. O = ToSet(list[l])
    BY <1>3, <2>1, <2>7 DEF Registered
  <2>9. IsFiniteSet(O)
    <3>1. IsFiniteSet(1..Len(t))
      BY <2>5, FS_Interval
    <3>2. O = {t[k] : k \in 1..Len(t)}
      BY <2>3, <2>5, <2>8 DEF ToSet
    <3> QED
      BY <3>1, <3>2, FiniteImage
  <2>10. \A x \in O : handler[x] # "none"
    BY <1>1, <2>8 DEF ListsApart
  <2>11. /\ cast' \in [Casts -> {"new", "walking", "over"}] /\ cast'[b] = "walking"
         /\ walk' \in [Casts -> 0..Len(list)] /\ walk'[b] = l
         /\ owed' \in [Casts -> SUBSET Sockets] /\ owed'[b] = O
         /\ \A c \in Casts \ {b} : cast'[c] = cast[c] /\ walk'[c] = walk[c] /\ owed'[c] = owed[c]
    BY <1>1, <2>2, <2>7 DEF HubTypeOK
  <2>12. Visited(b) = {} /\ \A j \in DOMAIN list[l] : list[l][j] \in O
    BY <1>1, <2>2, <2>8 DEF Unheard, ToSet
  <2>13. Cardinality((Visited(b) \cup {s}) \cap O) >= 0 + 1
    <3>1. (Visited(b) \cup {s}) \cap O = {s}
      BY <2>5, <2>6, <2>12
    <3>2. Cardinality({s}) = 1
      BY FS_Singleton
    <3>3. Cardinality((Visited(b) \cup {s}) \cap O) = 1
      BY <3>1, <3>2
    <3> QED
      BY <3>3
  <2>14. s \notin Visited(b) /\ 0 \in Nat
         /\ \A j \in DOMAIN list[l] : j > 0 => list[l][j] \notin Visited(b)
    BY <2>12
  <2>15. \A j, k \in DOMAIN list[l] : j < k /\ list[l][k] \in O => list[l][j] \in O
    BY <2>12
  <2> QED
    BY <2>1, <2>2, <2>5, <2>6, <2>9, <2>10, <2>11, <2>13, <2>14, <2>15, SendKeeps
<1> QED
  BY <1>2, <1>3

LEMMA NextSendKeeps ==
  ASSUME HubInv, NEW b \in Casts, NextSend(b)
  PROVE  HubInv'
<1>1. /\ HubTypeOK /\ ListsApart /\ Unheard /\ Ahead /\ OwedFirst
      /\ \A c \in Casts : IsFiniteSet(owed[c])
  BY DEF HubInv
<1>2. cast[b] = "walking" /\ pos[b] \in Nat
  BY <1>1 DEF NextSend, HubTypeOK
<1>3. PICK l \in 1..Len(list), i \in Nat, O \in SUBSET Sockets : l = walk[b] /\ i = pos[b] /\ O = owed[b]
  <2>1. walk[b] \in 0..Len(list) /\ walk[b] # 0 /\ owed[b] \in SUBSET Sockets /\ Len(list) \in Nat
    BY <1>1, <1>2 DEF HubTypeOK, Ahead
  <2> QED
    BY <1>2, <2>1
<1>4. /\ i < Len(list[l]) /\ Send(b, l, i)
      /\ UNCHANGED <<handler, alive, list, entry, cast, walk, owed>>
  BY <1>3 DEF NextSend
<1>5. PICK t \in Seq(Sockets) : t = list[l]
  BY <1>1 DEF HubTypeOK
<1>6. Len(t) \in Nat /\ DOMAIN t = 1..Len(t) /\ i + 1 \in DOMAIN t
  BY <1>4, <1>5
<1>7. PICK s \in Sockets : s = t[i + 1]
  BY <1>6
<1>8. PICK V : V = Visited(b)
  OBVIOUS
<1>9. /\ \A j \in DOMAIN t : j > i => t[j] \notin V
      /\ \A j, k \in DOMAIN t : j < k /\ t[k] \in O => t[j] \in O
      /\ \/ Cardinality(V \cap O) >= i
         \/ Cardinality(V \cap O) >= Cardinality(O \cap ToSet(t))
      /\ l # entry => O \cap Registered = {}
  BY <1>1, <1>2, <1>3, <1>5, <1>8 DEF Ahead, OwedFirst, Left
<1>10. s \notin V
  BY <1>6, <1>7, <1>9
<1>11. IsFiniteSet(O) /\ IsFiniteSet(V \cap O) /\ IsFiniteSet((V \cup {s}) \cap O) /\ IsFiniteSet(O \cap ToSet(t))
  BY <1>1, <1>3, FS_Subset
<1>12. /\ Cardinality(V \cap O) \in Nat /\ Cardinality((V \cup {s}) \cap O) \in Nat
       /\ Cardinality(O \cap ToSet(t)) \in Nat
  BY <1>11, FS_CardinalityType
<1>13. Cardinality((V \cup {s}) \cap O) >= Cardinality(V \cap O)
  <2>1. V \cap O \subseteq (V \cup {s}) \cap O
    OBVIOUS
  <2>2. Cardinality(V \cap O) <= Cardinality((V \cup {s}) \cap O)
    BY <1>11, <2>1, FS_Subset
  <2> QED
    BY <1>12, <2>2
<1>14. ASSUME Cardinality(V \cap O) >= i
       PROVE  \/ Cardinality((V \cup {s}) \cap O) >= i + 1
              \/ Cardinality((V \cup {s}) \cap O) >= Cardinality(O \cap ToSet(t))
  <2>1. CASE s \in O
    <3>1. (V \cup {s}) \cap O = (V \cap O) \cup {s} /\ s \notin V \cap O
      BY <1>10, <2>1
    <3>2. Cardinality((V \cap O) \cup {s}) = Cardinality(V \cap O) + 1
      BY <1>11, <3>1, FS_AddElement
    <3>3. Cardinality((V \cup {s}) \cap O) = Cardinality(V \cap O) + 1
      BY <3>1, <3>2
    <3> QED
      BY <1>12, <1>14, <3>3
  <2>2. CASE s \notin O
    <3>1. IsFiniteSet(1..i) /\ Cardinality(1..i) = i
      BY FS_Interval
    <3>2. IsFiniteSet({t[x] : x \in 1..i}) /\ Cardinality({t[x] : x \in 1..i}) <= Cardinality(1..i)
      BY <3>1, FiniteImage
    <3>3. O \cap ToSet(t) \subseteq {t[x] : x \in 1..i}
      <4> SUFFICES ASSUME NEW k \in DOMAIN t, t[k] \in O PROVE k \in 1..i
        BY DEF ToSet
      <4>1. k # i + 1 /\ ~(i + 1 < k)
        BY <1>6, <1>7, <1>9, <2>2
      <4> QED
        BY <1>6, <4>1
    <3>4. Cardinality(O \cap ToSet(t)) <= Cardinality({t[x] : x \in 1..i})
      BY <3>2, <3>3, FS_Subset
    <3>5. Cardinality({t[x] : x \in 1..i}) \in Nat
      BY <3>2, FS_CardinalityType
    <3>6. Cardinality(O \cap ToSet(t)) <= i
      BY <1>12, <3>1, <3>2, <3>4, <3>5
    <3> QED
      BY <1>12, <1>13, <1>14, <3>6
  <2> QED
    BY <2>1, <2>2
<1>15. \/ Cardinality((V \cup {s}) \cap O) >= i + 1
       \/ Cardinality((V \cup {s}) \cap O) >= Cardinality(O \cap ToSet(t))
  BY <1>9, <1>12, <1>13, <1>14
<1>16. \A x \in O : handler[x] # "none"
  BY <1>1, <1>3 DEF Unheard
<1>17. /\ cast' \in [Casts -> {"new", "walking", "over"}] /\ cast'[b] = "walking"
       /\ walk' \in [Casts -> 0..Len(list)] /\ walk'[b] = l
       /\ owed' \in [Casts -> SUBSET Sockets] /\ owed'[b] = O
       /\ \A c \in Casts \ {b} : cast'[c] = cast[c] /\ walk'[c] = walk[c] /\ owed'[c] = owed[c]
  BY <1>1, <1>2, <1>3, <1>4 DEF HubTypeOK
<1>18. i + 1 \in DOMAIN list[l] /\ s = list[l][i + 1] /\ s \notin Visited(b)
  BY <1>5, <1>6, <1>7, <1>8, <1>10
<1>19. /\ \A j \in DOMAIN list[l] : j > i => list[l][j] \notin Visited(b)
       /\ \A j, k \in DOMAIN list[l] : j < k /\ list[l][k] \in O => list[l][j] \in O
       /\ l # entry => O \cap Registered = {}
  BY <1>5, <1>8, <1>9
<1>20. \/ Cardinality((Visited(b) \cup {s}) \cap O) >= i + 1
       \/ Cardinality((Visited(b) \cup {s}) \cap O) >= Cardinality(O \cap ToSet(list[l]))
  BY <1>5, <1>8, <1>15
<1> QED
  BY <1>4, <1>11, <1>16, <1>17, <1>18, <1>19, <1>20, SendKeeps, ZenonT(60)

\* The sockets a broadcast missed, when it has visited as many of those it owes
\* as are left of them.
LEMMA EndBound ==
  ASSUME NEW O, IsFiniteSet(O), NEW V, NEW L, L \subseteq O, Cardinality(V \cap O) >= Cardinality(L),
         NEW R, O \cap R \subseteq L, NEW H, V \cap O \cap R \subseteq H
  PROVE  Cardinality({s \in O \cap R : s \notin H}) <= Cardinality(O \ (O \cap R))
<1> DEFINE A == {s \in O \cap R : s \notin H}
           C == O \ (O \cap R)
<1>1. A \subseteq L \ V /\ (V \cap O) \ L \subseteq C /\ C \subseteq O
  OBVIOUS
<1>2. IsFiniteSet(L) /\ IsFiniteSet(V \cap O) /\ IsFiniteSet(C) /\ IsFiniteSet(L \cap V)
  BY <1>1, FS_Subset
<1>3. IsFiniteSet(L \ V) /\ Cardinality(L \ V) = Cardinality(L) - Cardinality(L \cap V)
  BY <1>2, FS_Difference
<1>4. /\ IsFiniteSet((V \cap O) \ L)
      /\ Cardinality((V \cap O) \ L) = Cardinality(V \cap O) - Cardinality((V \cap O) \cap L)
  BY <1>2, FS_Difference
<1>5. (V \cap O) \cap L = L \cap V
  OBVIOUS
<1>6. IsFiniteSet(A) /\ Cardinality(A) <= Cardinality(L \ V)
  BY <1>1, <1>3, FS_Subset
<1>7. Cardinality((V \cap O) \ L) <= Cardinality(C)
  BY <1>1, <1>2, FS_Subset
<1>8. /\ Cardinality(A) \in Nat /\ Cardinality(C) \in Nat /\ Cardinality(L) \in Nat
      /\ Cardinality(V \cap O) \in Nat /\ Cardinality(L \cap V) \in Nat
      /\ Cardinality(L \ V) \in Nat /\ Cardinality((V \cap O) \ L) \in Nat
  BY <1>2, <1>3, <1>4, <1>6, FS_CardinalityType
<1> HIDE DEF A, C
<1>9. Cardinality((V \cap O) \ L) = Cardinality(V \cap O) - Cardinality(L \cap V)
  BY <1>4, <1>5
<1>10. Cardinality(A) <= Cardinality(C)
  BY <1>3, <1>6, <1>7, <1>8, <1>9
<1> QED
  BY <1>10 DEF A, C

LEMMA EndKeeps ==
  ASSUME HubInv, NEW b \in Casts, End(b)
  PROVE  HubInv'
<1>1. /\ HubTypeOK /\ ListsApart /\ Ahead /\ OwedFirst
      /\ \A c \in Casts : IsFiniteSet(owed[c])
  BY DEF HubInv
<1>2. /\ cast[b] = "walking" /\ pos[b] >= Len(list[walk[b]]) /\ pos[b] \in Nat
      /\ cast' = [cast EXCEPT ![b] = "over"] /\ Unregister(dead[b])
      /\ UNCHANGED <<handler, alive, walk, pos, dead, got, owed>>
  BY <1>1 DEF End, HubTypeOK
<1>3. PICK l \in 1..Len(list), O \in SUBSET Sockets : l = walk[b] /\ O = owed[b]
  <2>1. walk[b] \in 0..Len(list) /\ walk[b] # 0 /\ owed[b] \in SUBSET Sockets /\ Len(list) \in Nat
    BY <1>1, <1>2 DEF HubTypeOK, Ahead
  <2> QED
    BY <2>1
<1>4. PICK t \in Seq(Sockets) : t = list[l]
  BY <1>1 DEF HubTypeOK
<1>5. PICK V, R, H : V = Visited(b) /\ R = Registered' /\ H = Overdue(b)
  OBVIOUS
<1>6. /\ \/ Cardinality(V \cap O) >= pos[b]
         \/ Cardinality(V \cap O) >= Cardinality(O \cap ToSet(t))
      /\ l # entry => O \cap Registered = {}
  BY <1>1, <1>2, <1>3, <1>4, <1>5 DEF OwedFirst, Left
<1>7. IsFiniteSet(O) /\ IsFiniteSet(V \cap O) /\ IsFiniteSet(O \cap ToSet(t))
  BY <1>1, <1>3, FS_Subset
<1>8. Cardinality(V \cap O) \in Nat /\ Cardinality(O \cap ToSet(t)) \in Nat
  BY <1>7, FS_CardinalityType
<1>9. Cardinality(O \cap ToSet(t)) <= Len(t) /\ Len(t) \in Nat
  <2>1. IsFiniteSet(1..Len(t)) /\ Cardinality(1..Len(t)) = Len(t) /\ Len(t) \in Nat
    <3>1. PICK n \in Nat : n = Len(t)
      OBVIOUS
    <3>2. IsFiniteSet(1..n) /\ Cardinality(1..n) = n
      BY FS_Interval
    <3> QED
      BY <3>1, <3>2
  <2>2. ToSet(t) = {t[x] : x \in 1..Len(t)}
    BY DEF ToSet
  <2>3. IsFiniteSet(ToSet(t)) /\ Cardinality(ToSet(t)) <= Len(t)
    BY <2>1, <2>2, FiniteImage
  <2>4. Cardinality(O \cap ToSet(t)) <= Cardinality(ToSet(t)) /\ Cardinality(ToSet(t)) \in Nat
    BY <2>3, FS_Subset, FS_CardinalityType
  <2> QED
    BY <1>8, <2>1, <2>3, <2>4
<1>10. Cardinality(V \cap O) >= Cardinality(O \cap ToSet(t))
  BY <1>2, <1>3, <1>4, <1>6, <1>8, <1>9
<1>11. R \subseteq Registered \ dead[b]
  BY <1>1, <1>2, <1>5, Unregistered
<1>12. O \cap R \subseteq O \cap ToSet(t)
  BY <1>3, <1>4, <1>6, <1>11 DEF Registered
<1>13. V \cap O \cap R \subseteq H
  BY <1>5, <1>11 DEF Visited, Overdue
<1>14. Cardinality({s \in O \cap R : s \notin H}) <= Cardinality(O \ (O \cap R))
  <2>1. PICK L : L = O \cap ToSet(t)
    OBVIOUS
  <2>2. L \subseteq O /\ O \cap R \subseteq L /\ Cardinality(V \cap O) >= Cardinality(L)
    BY <1>10, <1>12, <2>1
  <2> QED
    BY <1>7, <1>13, <2>2, EndBound
<1>15. /\ cast' \in [Casts -> {"new", "walking", "over"}] /\ cast'[b] = "over"
       /\ \A c \in Casts \ {b} : cast'[c] = cast[c]
  BY <1>1, <1>2 DEF HubTypeOK
<1>16. \A c \in Casts : \/ cast'[c] = cast[c]
                        \/ /\ cast'[c] = "over"
                           /\ Cardinality({s \in owed[c] \cap Registered' : s \notin Overdue(c)})
                                <= Cardinality(owed[c] \ (owed[c] \cap Registered'))
  BY <1>3, <1>5, <1>14, <1>15
<1>17. /\ handler' \in [Sockets -> {"none", "greeting", "serving", "gone"}]
       /\ \A s \in Sockets : handler'[s] = "none" <=> handler[s] = "none"
  BY <1>1, <1>2 DEF HubTypeOK
<1> QED
  BY <1>2, <1>15, <1>16, <1>17, UnregisterKeeps

LEMMA DisconnectKeeps ==
  ASSUME HubInv, NEW s \in Sockets, Disconnect(s)
  PROVE  HubInv'
<1>1. HubTypeOK
  BY DEF HubInv
<1>2. /\ handler[s] = "serving" /\ handler' = [handler EXCEPT ![s] = "gone"] /\ Unregister({s})
      /\ UNCHANGED <<alive, cast, walk, pos, dead, got, owed>>
  BY DEF Disconnect, castVars
<1>3. /\ handler' \in [Sockets -> {"none", "greeting", "serving", "gone"}]
      /\ \A x \in Sockets : handler'[x] = "none" <=> handler[x] = "none"
      /\ cast' \in [Casts -> {"new", "walking", "over"}]
  BY <1>1, <1>2 DEF HubTypeOK
<1> QED
  BY <1>2, <1>3, UnregisterKeeps

LEMMA HubStep == HubInv /\ [HubNext]_hubVars => HubInv'
<1> SUFFICES ASSUME HubInv, [HubNext]_hubVars PROVE HubInv'
  OBVIOUS
<1>1. HubTypeOK
  BY DEF HubInv
<1>2. CASE UNCHANGED hubVars
  BY <1>1, <1>2, HandlersKeep DEF hubVars, HubTypeOK
<1>3. ASSUME NEW s \in Sockets, Greet(s) \/ PeerLeaves(s) \/ GreetFails(s) \/ HandlerRaises(s)
      PROVE  HubInv'
  <2>1. UNCHANGED <<list, entry, cast, walk, pos, dead, got, owed>>
    BY <1>3 DEF Greet, PeerLeaves, GreetFails, HandlerRaises, castVars
  <2>2. /\ handler' \in [Sockets -> {"none", "greeting", "serving", "gone"}]
        /\ alive' \in [Sockets -> BOOLEAN]
        /\ \A x \in Sockets : handler'[x] = "none" <=> handler[x] = "none"
    BY <1>1, <1>3 DEF Greet, PeerLeaves, GreetFails, HandlerRaises, HubTypeOK
  <2> QED
    BY <2>1, <2>2, HandlersKeep
<1> QED
  BY <1>2, <1>3, ConnectKeeps, DisconnectKeeps, BroadcastKeeps, NextSendKeeps, EndKeeps DEF HubNext

-----------------------------------------------------------------------------
(* What holds of the session sockets.                                      *)

LEMMA HubInvariant == HubSpec => []HubInv
<1> QED
  BY HubInitInv, HubStep, PTL DEF HubSpec

\* The variables of the connection manager keep their types.
THEOREM HubTypes == HubSpec => []HubTypeOK
<1>1. HubInv => HubTypeOK
  BY DEF HubInv
<1> QED
  BY <1>1, HubInvariant, PTL

\* broadcast_to_session sends to no socket twice, although disconnect takes
\* sockets out of the list its loop walks.
THEOREM NeverTwice == HubSpec => []AtMostOnce
<1>1. HubInv => AtMostOnce
  BY DEF HubInv
<1> QED
  BY <1>1, HubInvariant, PTL

\* A broadcast misses no more of the sockets that were registered when it began,
\* and are still, than have left the list since.
THEOREM MissedBounded == HubSpec => []MissedAtMostRemoved
<1>1. HubInv => MissedAtMostRemoved
  BY DEF HubInv
<1> QED
  BY <1>1, HubInvariant, PTL

-----------------------------------------------------------------------------
(***************************************************************************)
(* The inductive invariant of the swarm.  It says where each build stands: *)
(* what has been written is what the answers say up to the milestone and   *)
(* the file it has reached; a document that is complete is the last one;   *)
(* and the directory holds, under each path, the last version of some      *)
(* build.                                                                  *)
(***************************************************************************)
\* The concatenation of the first k of the sequences f.
Flat(f, k) == FlattenSeq([m \in 1..k |-> f[m]])

\* The files a build ends with.
Whole(b) == IF Flat(answer[b], Milestones) = <<>> THEN Scaffold ELSE Flat(answer[b], Milestones)

AllAnswered(b) == \A m \in Swarm : answer[b][m] # Pending

\* What has been written while the answers are gone through.
Written(b) ==
  IF at[b] <= Milestones
  THEN /\ nth[b] <= Len(answer[b][at[b]])
       /\ made[b] = Flat(answer[b], at[b] - 1) \o SubSeq(answer[b][at[b]], 1, nth[b])
  ELSE nth[b] = 0 /\ made[b] = Flat(answer[b], Milestones)

Stands(b) ==
  /\ pc[b] \in {"idle", "swarm"} => at[b] = 1 /\ nth[b] = 0 /\ made[b] = <<>>
  /\ pc[b] = "write" => AllAnswered(b) /\ Written(b)
  /\ pc[b] = "scaffold" =>
       /\ AllAnswered(b) /\ Flat(answer[b], Milestones) = <<>>
       /\ nth[b] <= Len(Scaffold) /\ made[b] = SubSeq(Scaffold, 1, nth[b])
  /\ pc[b] \in {"close", "final"} => AllAnswered(b) /\ made[b] = Whole(b)

\* A document's progress is covered by its files.
Covered(b, d) ==
  d.status = "running" /\ d.progress > 0 /\ Milestones > 0 =>
    \E k \in Swarm : d.progress <= Percent(k) /\ IsPrefix(Flat(answer[b], k), d.files)

Documents(b) ==
  /\ store[b].files = made[b]
  /\ pc[b] \in {"idle", "swarm"} => store[b].progress = 0 /\ rec[b].progress = 0
  /\ store[b].status = "complete" =>
       /\ pc[b] = "over" /\ AllAnswered(b)
       /\ made[b] = Whole(b) /\ store[b].generated = made[b]
  /\ rec[b].status = "complete" => rec[b] = store[b]
  /\ Covered(b, store[b]) /\ Covered(b, rec[b])

\* The version of a path that is on the disk is the last one some build made of it.
LastOf(path, b, n) ==
  /\ n \in DOMAIN made[b] /\ made[b][n] = path
  /\ \A k \in DOMAIN made[b] : made[b][k] = path => k <= n

\* Or what a failing write of a build that is over left of it.
CutBy(b, n) == n = 0 /\ pc[b] = "over" /\ store[b].status = "error"

DiskHolds ==
  /\ \A path \in Paths : disk[path] # NoFile =>
       LastOf(path, disk[path][1], disk[path][2]) \/ CutBy(disk[path][1], disk[path][2])
  /\ \A b \in Builds : \A n \in DOMAIN made[b] : disk[made[b][n]] # NoFile

SwarmInv == SwarmTypeOK /\ (\A b \in Builds : Stands(b) /\ Documents(b)) /\ DiskHolds


-----------------------------------------------------------------------------
(* The steps of FlattenSeq.                                                *)

\* h flattens the first n of the sequences f, step by step, as FlattenSeq does.
Flows(h, f, n) == h = [i \in 1..n |-> IF i = 1 THEN f[i] ELSE h[i - 1] \o f[i]]

LEMMA FlowSteps ==
  ASSUME NEW f, NEW n \in Nat, NEW h, Flows(h, f, n)
  PROVE  \A i \in 1..n : h[i] = IF i = 1 THEN f[i] ELSE h[i - 1] \o f[i]
  BY DEF Flows

LEMMA FlowExists ==
  ASSUME NEW f, NEW n \in Nat
  PROVE  \E h : Flows(h, f, n)
<1> DEFINE I == {k \in Nat : \E h : Flows(h, f, k)}
<1>1. 0 \in I
  <2>1. Flows([i \in 1..0 |-> 0], f, 0)
    BY DEF Flows
  <2> QED
    BY <2>1
<1>2. ASSUME NEW k \in Nat, k \in I PROVE k + 1 \in I
  <2>1. PICK h : Flows(h, f, k)
    BY <1>2
  <2> DEFINE g == [i \in 1..(k + 1) |->
                     IF i = 1 THEN f[i] ELSE h[i - 1] \o f[i]]
  <2>2. \A i \in 1..k : h[i] = g[i]
    <3>1. \A i \in 1..k : g[i] = IF i = 1 THEN f[i] ELSE h[i - 1] \o f[i]
      OBVIOUS
    <3> HIDE DEF g
    <3> QED
      BY <2>1, <3>1, FlowSteps
  <2>3. \A i \in 1..(k + 1) : i # 1 => i - 1 \in 1..k
    OBVIOUS
  <2>4. g = [i \in 1..(k + 1) |-> IF i = 1 THEN f[i] ELSE g[i - 1] \o f[i]]
    <3>1. \A i \in 1..(k + 1) : i # 1 => g[i - 1] = h[i - 1]
      BY <2>2, <2>3
    <3> QED
      BY <3>1
  <2>5. Flows(g, f, k + 1)
    <3> HIDE DEF g
    <3> QED
      BY <2>4 DEF Flows
  <2> QED
    BY <2>5
<1>3. Nat \subseteq I
  <2> HIDE DEF I
  <2> QED
    BY <1>1, <1>2, NatInd
<1> QED
  BY <1>3

\* The steps of two flattenings of the same sequences agree.
LEMMA FlowsAgree ==
  ASSUME NEW f, NEW n \in Nat, NEW k \in Nat, n <= k, NEW g, Flows(g, f, n), NEW h, Flows(h, f, k)
  PROVE  \A i \in 1..n : g[i] = h[i]
<1> DEFINE I == {i \in Nat : i \in 1..n => g[i] = h[i]}
<1>1. 0 \in I
  OBVIOUS
<1>2. ASSUME NEW i \in Nat, i \in I PROVE i + 1 \in I
  <2> SUFFICES ASSUME i + 1 \in 1..n PROVE g[i + 1] = h[i + 1]
    OBVIOUS
  <2>1. /\ g[i + 1] = IF i + 1 = 1 THEN f[i + 1] ELSE g[i + 1 - 1] \o f[i + 1]
        /\ h[i + 1] = IF i + 1 = 1 THEN f[i + 1] ELSE h[i + 1 - 1] \o f[i + 1]
    <3>1. i + 1 \in 1..n /\ i + 1 \in 1..k
      OBVIOUS
    <3> QED
      BY <3>1, FlowSteps
  <2>2. i # 0 => g[i] = h[i]
    BY <1>2
  <2> QED
    BY <2>1, <2>2
<1>3. Nat \subseteq I
  <2> HIDE DEF I
  <2> QED
    BY <1>1, <1>2, NatInd
<1> QED
  BY <1>3

Flow(f, n) == CHOOSE h : Flows(h, f, n)

LEMMA FlowFlows ==
  ASSUME NEW f, NEW n \in Nat
  PROVE  Flows(Flow(f, n), f, n)
  BY FlowExists DEF Flow

LEMMA FlattenIsFlow ==
  ASSUME NEW S, NEW n \in Nat \ {0}, NEW s \in [1..n -> Seq(S)]
  PROVE  FlattenSeq(s) = Flow(s, n)[n]
<1>1. s \in Seq(Seq(S)) /\ Len(s) = n
  OBVIOUS
<1> QED
  BY <1>1 DEF FlattenSeq, Flow, Flows

LEMMA FlatSteps ==
  ASSUME NEW S, NEW n \in Nat, NEW f \in [1..n -> Seq(S)]
  PROVE  /\ Flat(f, 0) = <<>>
         /\ \A k \in 1..n : Flat(f, k) = Flat(f, k - 1) \o f[k]
         /\ \A k \in 0..n : Flat(f, k) \in Seq(S)
<1>1. Flat(f, 0) = <<>>
  <2>1. [m \in 1..0 |-> f[m]] = <<>>
    OBVIOUS
  <2> QED
    BY <2>1 DEF Flat, FlattenSeq
<1>2. ASSUME NEW k \in 1..n PROVE Flat(f, k) = Flat(f, k - 1) \o f[k]
  <2>0. k \in Nat \ {0} /\ k - 1 \in Nat
    OBVIOUS
  <2>1. PICK fk : fk = [m \in 1..k |-> f[m]]
    OBVIOUS
  <2>2. PICK fl : fl = [m \in 1..(k - 1) |-> f[m]]
    OBVIOUS
  <2>3. /\ fk \in [1..k -> Seq(S)] /\ fl \in [1..(k - 1) -> Seq(S)]
        /\ \A i \in 1..(k - 1) : fk[i] = fl[i]
        /\ fk[k] = f[k] /\ f[k] \in Seq(S)
    BY <2>1, <2>2
  <2>4. Flat(f, k) = Flow(fk, k)[k]
    BY <2>0, <2>1, <2>3, FlattenIsFlow DEF Flat
  <2>5. Flow(fk, k)[k] = IF k = 1 THEN fk[k] ELSE Flow(fk, k)[k - 1] \o fk[k]
    <3>1. Flows(Flow(fk, k), fk, k) /\ k \in 1..k
      BY <2>0, FlowFlows
    <3> QED
      BY <2>0, <3>1, FlowSteps
  <2>6. CASE k = 1
    <3>1. Flat(f, k) = f[k]
      BY <2>3, <2>4, <2>5, <2>6
    <3> QED
      BY <1>1, <2>3, <2>6, <3>1, ConcatEmptySeq
  <2>7. CASE k # 1
    <3>1. k - 1 \in Nat \ {0} /\ k - 1 <= k
      BY <2>0, <2>7
    <3>2. Flat(f, k - 1) = Flow(fl, k - 1)[k - 1]
      BY <2>2, <2>3, <3>1, FlattenIsFlow DEF Flat
    <3>3. Flows(Flow(fl, k - 1), fk, k - 1)
      <4>1. Flows(Flow(fl, k - 1), fl, k - 1)
        BY <3>1, FlowFlows
      <4> QED
        BY <2>3, <4>1 DEF Flows
    <3>4. Flows(Flow(fk, k), fk, k)
      BY <2>0, FlowFlows
    <3>5. Flow(fl, k - 1)[k - 1] = Flow(fk, k)[k - 1]
      <4>1. \A i \in 1..(k - 1) : Flow(fl, k - 1)[i] = Flow(fk, k)[i]
        BY <2>0, <3>1, <3>3, <3>4, FlowsAgree
      <4> QED
        BY <3>1, <4>1
    <3> QED
      BY <2>3, <2>4, <2>5, <2>7, <3>2, <3>5
  <2> QED
    BY <2>6, <2>7
<1>3. \A k \in 0..n : Flat(f, k) \in Seq(S)
  <2> DEFINE I == {k \in Nat : k <= n => Flat(f, k) \in Seq(S)}
  <2>1. 0 \in I
    <3>1. <<>> \in Seq(S)
      OBVIOUS
    <3> QED
      BY <1>1, <3>1
  <2>2. ASSUME NEW k \in Nat, k \in I PROVE k + 1 \in I
    <3> SUFFICES ASSUME k + 1 <= n PROVE Flat(f, k + 1) \in Seq(S)
      OBVIOUS
    <3>1. Flat(f, k) \in Seq(S)
      BY <2>2
    <3>2. k + 1 \in 1..n /\ f[k + 1] \in Seq(S) /\ k + 1 - 1 = k
      OBVIOUS
    <3>3. Flat(f, k + 1) = Flat(f, k) \o f[k + 1]
      BY <1>2, <3>2
    <3> QED
      BY <3>1, <3>2, <3>3, ConcatProperties
  <2>3. Nat \subseteq I
    <3> HIDE DEF I
    <3> QED
      BY <2>1, <2>2, NatInd
  <2> QED
    BY <2>3
<1> QED
  BY <1>1, <1>2, <1>3

-----------------------------------------------------------------------------
(* ParallelBuild: the operators.                                           *)

\* The elements of an answer, or of the mark of one that is pending.
Names == Paths \cup {"pending"}

LEMMA AnswersFlat ==
  ASSUME SwarmTypeOK, NEW b \in Builds
  PROVE  /\ Milestones \in Nat /\ answer[b] \in [1..Milestones -> Seq(Names)]
         /\ \A k \in 1..Milestones : answer[b][k] \in Seq(Names)
         /\ Flat(answer[b], 0) = <<>>
         /\ \A k \in 1..Milestones : Flat(answer[b], k) = Flat(answer[b], k - 1) \o answer[b][k]
         /\ \A k \in 0..Milestones : Flat(answer[b], k) \in Seq(Names)
<1>1. Answers \cup {Pending} \subseteq Seq(Names)
  <2>1. Pending \in Seq(Names)
    BY DEF Pending, Names
  <2>2. ASSUME NEW s \in Answers PROVE s \in Seq(Names)
    <3>1. s \in Seq(Paths) /\ Paths \subseteq Names
      BY SwarmAssumption DEF Names
    <3> QED
      BY <3>1, SeqMonotonic
  <2> QED
    BY <2>1, <2>2
<1>2. Milestones \in Nat /\ answer[b] \in [1..Milestones -> Seq(Names)]
  BY <1>1, SwarmAssumption DEF SwarmTypeOK, Swarm
<1> QED
  BY <1>2, FlatSteps

LEMMA FlatAt ==
  ASSUME SwarmTypeOK, NEW b \in Builds, NEW k \in 1..Milestones
  PROVE  /\ answer[b][k] \in Seq(Names)
         /\ Flat(answer[b], k) \in Seq(Names) /\ Flat(answer[b], k - 1) \in Seq(Names)
         /\ Flat(answer[b], k) = Flat(answer[b], k - 1) \o answer[b][k]
<1>1. k \in 0..Milestones /\ k - 1 \in 0..Milestones
  BY SwarmAssumption
<1> QED
  BY <1>1, AnswersFlat

LEMMA PercentBounds ==
  ASSUME NEW k \in Swarm
  PROVE  Percent(k) \in 0..100 /\ Percent(Milestones) = 100
<1> DEFINE m == Milestones
           n == 100 * k
<1>1. m \in Nat \ {0} /\ k \in 1..m
  BY SwarmAssumption DEF Swarm
<1>2. n \in Nat /\ n <= 100 * m
  BY <1>1
<1>3. n \div m \in Int /\ n \div m >= 0 /\ n \div m <= 100
  <2> HIDE DEF m, n
  <2> QED
    BY <1>1, <1>2
<1>4. Percent(k) \in 0..100
  BY <1>3 DEF Percent
<1>5. Percent(Milestones) = 100
  BY <1>1 DEF Percent
<1> QED
  BY <1>4, <1>5

\* Edits of a document, field by field.
LEMMA FilesEdit ==
  ASSUME NEW d \in Document, NEW path \in Paths, NEW e, e = [d EXCEPT !.files = Append(@, path)]
  PROVE  /\ e \in Document /\ e.files = Append(d.files, path)
         /\ e.status = d.status /\ e.progress = d.progress /\ e.generated = d.generated
  BY AppendProperties DEF Document

LEMMA ProgressEdit ==
  ASSUME NEW d \in Document, NEW n \in 0..100, NEW e, e = [d EXCEPT !.progress = n]
  PROVE  /\ e \in Document /\ e.progress = n
         /\ e.status = d.status /\ e.files = d.files /\ e.generated = d.generated
  BY DEF Document

LEMMA StatusEdit ==
  ASSUME NEW d \in Document, NEW s \in {"running", "error"}, NEW e, e = [d EXCEPT !.status = s]
  PROVE  /\ e \in Document /\ e.status = s
         /\ e.progress = d.progress /\ e.files = d.files /\ e.generated = d.generated
  BY DEF Document

LEMMA Recorded ==
  ASSUME SwarmTypeOK, NEW b \in Builds, NEW doc \in Document, Record(b, doc)
  PROVE  /\ store' \in [Builds -> Document] /\ due' \in [Builds -> BOOLEAN]
         /\ rec' \in [Builds -> Document] /\ lost' \in 0..MaxLost
         /\ store'[b] = doc /\ \A c \in Builds \ {b} : store'[c] = store[c]
         /\ rec' = rec
  BY DEF Record, SwarmTypeOK

\* What is covered stays so when the files grow.
LEMMA PrefixKept ==
  ASSUME NEW S, NEW T, NEW s \in Seq(S), NEW t \in Seq(T), NEW x \in T, IsPrefix(s, t)
  PROVE  IsPrefix(s, Append(t, x))
<1>1. Len(s) \in Nat /\ Len(t) \in Nat /\ Len(s) <= Len(t)
  BY DEF IsPrefix
<1>2. Append(t, x) \in Seq(T) /\ Len(Append(t, x)) = Len(t) + 1
  OBVIOUS
<1>3. SubSeq(Append(t, x), 1, Len(s)) = SubSeq(t, 1, Len(s))
  <2>1. \A i \in 1..Len(s) : Append(t, x)[i] = t[i]
    BY <1>1
  <2> QED
    BY <1>1, <1>2, <2>1
<1> QED
  BY <1>1, <1>2, <1>3 DEF IsPrefix

LEMMA PrefixOfItself ==
  ASSUME NEW S, NEW s \in Seq(S), NEW T, NEW t \in Seq(T)
  PROVE  IsPrefix(s, s) /\ (s = <<>> => IsPrefix(s, t))
  BY DEF IsPrefix

\* What a step that leaves build c alone keeps.
LEMMA LeftAlone ==
  ASSUME NEW c \in Builds, Stands(c), Documents(c),
         pc'[c] = pc[c], answer'[c] = answer[c], at'[c] = at[c], nth'[c] = nth[c],
         made'[c] = made[c], store'[c] = store[c], rec'[c] = rec[c]
  PROVE  Stands(c)' /\ Documents(c)'
<1>1. Stands(c)'
  BY DEF Stands, AllAnswered, Written, Whole, Flat
<1>2. Documents(c)'
  BY DEF Documents, Covered, AllAnswered, Whole, Flat
<1> QED
  BY <1>1, <1>2

LEMMA SwarmInitInv == SwarmInit => SwarmInv
<1> SUFFICES ASSUME SwarmInit PROVE SwarmInv
  OBVIOUS
<1>1. NoStore \in Document /\ NoStore.status = "none" /\ NoStore.progress = 0 /\ NoStore.files = <<>>
  BY DEF NoStore, Document
<1>2. SwarmTypeOK
  BY <1>1, SwarmAssumption DEF SwarmInit, SwarmTypeOK
<1>3. \A b \in Builds : Stands(b) /\ Documents(b)
  BY <1>1 DEF SwarmInit, Stands, Documents, Covered
<1>4. DiskHolds
  BY DEF SwarmInit, DiskHolds
<1> QED
  BY <1>2, <1>3, <1>4 DEF SwarmInv

\* A step of build b that saves no file.
LEMMA Unsaved ==
  ASSUME SwarmInv, NEW b \in Builds, SwarmTypeOK', UNCHANGED <<made, disk>>,
         pc[b] # "over" \/ (pc'[b] = pc[b] /\ store'[b] = store[b]),
         \A c \in Builds \ {b} :
           /\ pc'[c] = pc[c] /\ answer'[c] = answer[c] /\ at'[c] = at[c] /\ nth'[c] = nth[c]
           /\ store'[c] = store[c] /\ rec'[c] = rec[c],
         Stands(b)', Documents(b)'
  PROVE  SwarmInv'
<1>1. \A c \in Builds : Stands(c)' /\ Documents(c)'
  BY LeftAlone DEF SwarmInv
<1>2. \A path \in Paths, c \in Builds, n \in Nat :
        (LastOf(path, c, n) => LastOf(path, c, n)') /\ (CutBy(c, n) => CutBy(c, n)')
  BY DEF LastOf, CutBy
<1>3. DiskHolds /\ \A path \in Paths : disk[path] # NoFile => disk[path] \in Builds \X Nat
  BY DEF SwarmInv, SwarmTypeOK
<1>4. ASSUME NEW path \in Paths, disk'[path] # NoFile
      PROVE  (LastOf(path, disk[path][1], disk[path][2]) \/ CutBy(disk[path][1], disk[path][2]))'
  <2>1. PICK c \in Builds, n \in Nat : disk[path] = <<c, n>> /\ disk'[path] = <<c, n>>
    <3>1. disk'[path] = disk[path] /\ disk[path] \in Builds \X Nat
      BY <1>3, <1>4
    <3> QED
      BY <3>1
  <2>2. LastOf(path, c, n) \/ CutBy(c, n)
    <3>1. disk[path] # NoFile
      BY <1>4
    <3>2. LastOf(path, disk[path][1], disk[path][2]) \/ CutBy(disk[path][1], disk[path][2])
      BY <1>3, <3>1 DEF DiskHolds
    <3> QED
      BY <2>1, <3>2
  <2> QED
    BY <1>2, <2>1, <2>2
<1>5. DiskHolds'
  BY <1>3, <1>4 DEF DiskHolds
<1> QED
  BY <1>1, <1>5 DEF SwarmInv

-----------------------------------------------------------------------------
(* ParallelBuild: the steps that save no file.                             *)

LEMMA BeginKeeps ==
  ASSUME SwarmInv, NEW b \in Builds, Begin(b)
  PROVE  SwarmInv'
<1>1. SwarmTypeOK /\ Stands(b) /\ Documents(b) /\ pc[b] = "idle"
  BY DEF SwarmInv, Begin, Ready
<1>2. PICK doc : doc = [NoStore EXCEPT !.status = "running"]
  OBVIOUS
<1>3. /\ doc \in Document /\ doc.status = "running" /\ doc.progress = 0 /\ doc.files = <<>>
  <2>1. NoStore \in Document /\ NoStore.progress = 0 /\ NoStore.files = <<>>
    BY DEF NoStore, Document
  <2> QED
    BY <1>2, <2>1, StatusEdit
<1>4. /\ store' \in [Builds -> Document] /\ due' \in [Builds -> BOOLEAN]
      /\ rec' \in [Builds -> Document] /\ lost' \in 0..MaxLost
      /\ store'[b] = doc /\ (\A c \in Builds \ {b} : store'[c] = store[c]) /\ rec' = rec
  BY <1>1, <1>2, <1>3, Recorded DEF Begin
<1>5. /\ pc' = [pc EXCEPT ![b] = "swarm"] /\ UNCHANGED <<answer, at, nth, made, disk>>
  BY DEF Begin
<1>6. SwarmTypeOK' /\ pc'[b] = "swarm" /\ \A c \in Builds \ {b} : pc'[c] = pc[c]
  BY <1>1, <1>4, <1>5 DEF SwarmTypeOK
<1>7. Stands(b)'
  BY <1>1, <1>5, <1>6 DEF Stands
<1>8. Documents(b)'
  <2>1. made[b] = <<>> /\ rec[b].progress = 0 /\ rec[b].status # "complete"
    BY <1>1, <1>3 DEF Stands, Documents
  <2> QED
    BY <1>3, <1>4, <1>5, <1>6, <2>1 DEF Documents, Covered
<1> QED
  BY <1>1, <1>4, <1>5, <1>6, <1>7, <1>8, Unsaved

LEMMA AnswerKeeps ==
  ASSUME SwarmInv, NEW b \in Builds, NEW m \in Swarm, Answer(b, m)
  PROVE  SwarmInv'
<1>1. SwarmTypeOK /\ Stands(b) /\ Documents(b) /\ pc[b] = "swarm"
  BY DEF SwarmInv, Answer, Ready
<1>2. PICK files \in Answers : answer' = [answer EXCEPT ![b][m] = files]
  BY DEF Answer
<1>3. UNCHANGED <<pc, at, nth, made, store, due, rec, disk, lost>>
  BY DEF Answer
<1>4. answer[b] \in [Swarm -> Answers \cup {Pending}]
  BY <1>1 DEF SwarmTypeOK
<1>5. /\ answer' \in [Builds -> [Swarm -> Answers \cup {Pending}]]
      /\ \A c \in Builds \ {b} : answer'[c] = answer[c]
  BY <1>1, <1>2, <1>4 DEF SwarmTypeOK
<1>6. SwarmTypeOK'
  BY <1>1, <1>3, <1>5 DEF SwarmTypeOK
<1>7. Stands(b)'
  BY <1>1, <1>3 DEF Stands
<1>8. Documents(b)'
  BY <1>1, <1>3 DEF Documents, Covered
<1> QED
  BY <1>1, <1>3, <1>5, <1>6, <1>7, <1>8, Unsaved

LEMMA GatherKeeps ==
  ASSUME SwarmInv, NEW b \in Builds, Gather(b)
  PROVE  SwarmInv'
<1>1. SwarmTypeOK /\ Stands(b) /\ Documents(b) /\ pc[b] = "swarm" /\ AllAnswered(b)
  BY DEF SwarmInv, Gather, Ready, AllAnswered
<1>2. pc' = [pc EXCEPT ![b] = "write"] /\ UNCHANGED <<answer, at, nth, made, store, due, rec, disk, lost>>
  BY DEF Gather
<1>3. SwarmTypeOK' /\ pc'[b] = "write" /\ \A c \in Builds \ {b} : pc'[c] = pc[c]
  BY <1>1, <1>2 DEF SwarmTypeOK
<1>4. at[b] = 1 /\ nth[b] = 0 /\ made[b] = <<>>
  BY <1>1 DEF Stands
<1>5. Written(b)
  <2>1. Flat(answer[b], 0) = <<>>
    BY <1>1, AnswersFlat
  <2>2. CASE 1 <= Milestones
    <3>1. answer[b][1] \in Seq(Names)
      <4>1. 1 \in 1..Milestones
        BY <2>2, SwarmAssumption
      <4> QED
        BY <1>1, <4>1, AnswersFlat
    <3>2. SubSeq(answer[b][1], 1, 0) = <<>> /\ <<>> \o <<>> = <<>> /\ 0 <= Len(answer[b][1])
      BY <3>1
    <3> QED
      BY <1>4, <2>1, <2>2, <3>2 DEF Written
  <2>3. CASE ~(1 <= Milestones)
    <3>1. Milestones = 0
      BY <2>3, SwarmAssumption
    <3> QED
      BY <1>4, <2>1, <2>3, <3>1 DEF Written
  <2> QED
    BY <2>2, <2>3
<1>6. Stands(b)'
  BY <1>1, <1>2, <1>3, <1>5 DEF Stands, AllAnswered, Written, Flat
<1>7. Documents(b)'
  BY <1>1, <1>2, <1>3 DEF Documents, Covered, AllAnswered, Whole, Flat
<1> QED
  BY <1>1, <1>2, <1>3, <1>6, <1>7, Unsaved

\* The files of all answers up to the milestone that is completed are written.
LEMMA MilestoneWritten ==
  ASSUME SwarmTypeOK, NEW b \in Builds, Written(b), at[b] <= Milestones, nth[b] = Len(answer[b][at[b]])
  PROVE  made[b] = Flat(answer[b], at[b]) /\ at[b] \in Swarm /\ made[b] \in Seq(Names)
<1>1. PICK k \in 1..Milestones : k = at[b]
  BY SwarmAssumption DEF SwarmTypeOK
<1>2. /\ answer[b][k] \in Seq(Names) /\ Flat(answer[b], k) \in Seq(Names)
      /\ Flat(answer[b], k) = Flat(answer[b], k - 1) \o answer[b][k]
  BY FlatAt
<1>3. SubSeq(answer[b][k], 1, Len(answer[b][k])) = answer[b][k]
  BY <1>2
<1>4. made[b] = Flat(answer[b], k)
  BY <1>1, <1>2, <1>3 DEF Written
<1> QED
  BY <1>1, <1>2, <1>4 DEF Swarm

LEMMA CompletedKeeps ==
  ASSUME SwarmInv, NEW b \in Builds, MilestoneCompleted(b)
  PROVE  SwarmInv'
<1>1. SwarmTypeOK /\ Stands(b) /\ Documents(b) /\ pc[b] = "write"
  BY DEF SwarmInv, MilestoneCompleted, Ready
<1>2. AllAnswered(b) /\ Written(b) /\ at[b] <= Milestones /\ nth[b] = Len(answer[b][at[b]])
  BY <1>1 DEF Stands, MilestoneCompleted
<1>3. made[b] = Flat(answer[b], at[b]) /\ at[b] \in Swarm /\ made[b] \in Seq(Names)
  BY <1>1, <1>2, MilestoneWritten
<1>4. PICK n \in 0..100 : n = Percent(at[b])
  BY <1>3, PercentBounds
<1>5. PICK doc : doc = [store[b] EXCEPT !.progress = n]
  OBVIOUS
<1>6. /\ doc \in Document /\ doc.status = store[b].status /\ doc.progress = n
      /\ doc.files = store[b].files /\ store[b] \in Document
  <2>1. store[b] \in Document
    BY <1>1 DEF SwarmTypeOK
  <2> QED
    BY <1>5, <2>1, ProgressEdit
<1>7. /\ store' \in [Builds -> Document] /\ due' \in [Builds -> BOOLEAN]
      /\ rec' \in [Builds -> Document] /\ lost' \in 0..MaxLost
      /\ store'[b] = doc /\ (\A c \in Builds \ {b} : store'[c] = store[c]) /\ rec' = rec
  BY <1>1, <1>4, <1>5, <1>6, Recorded DEF MilestoneCompleted
<1>8. /\ at' = [at EXCEPT ![b] = at[b] + 1] /\ nth' = [nth EXCEPT ![b] = 0]
      /\ UNCHANGED <<pc, answer, made, disk>>
  BY DEF MilestoneCompleted
<1>9. /\ at'[b] = at[b] + 1 /\ nth'[b] = 0
      /\ \A c \in Builds \ {b} : at'[c] = at[c] /\ nth'[c] = nth[c]
  BY <1>1, <1>8 DEF SwarmTypeOK
<1>10. SwarmTypeOK'
  <2>1. at[b] + 1 \in 1..(Milestones + 1)
    BY <1>3, SwarmAssumption DEF Swarm
  <2> QED
    BY <1>1, <1>7, <1>8, <2>1 DEF SwarmTypeOK
<1>11. Written(b)'
  <2>1. CASE at[b] + 1 <= Milestones
    <3>1. at[b] + 1 \in 1..Milestones /\ at[b] + 1 - 1 = at[b]
      BY <1>3, <2>1, SwarmAssumption DEF Swarm
    <3>2. answer[b][at[b] + 1] \in Seq(Names)
      BY <1>1, <3>1, FlatAt
    <3>3. SubSeq(answer[b][at[b] + 1], 1, 0) = <<>> /\ 0 <= Len(answer[b][at[b] + 1])
      BY <3>2
    <3>4. made[b] = made[b] \o <<>>
      BY <1>3, ConcatEmptySeq
    <3>5. made[b] = Flat(answer[b], at[b]) \o SubSeq(answer[b][at[b] + 1], 1, 0)
      BY <1>3, <3>3, <3>4
    <3>6. /\ at'[b] = at[b] + 1 /\ nth'[b] = 0 /\ answer' = answer /\ made' = made
          /\ at'[b] - 1 = at[b]
      <4>1. answer' = answer /\ made' = made
        BY <1>8
      <4>2. at[b] \in Int
        BY <1>3, SwarmAssumption DEF Swarm
      <4>3. at'[b] = at[b] + 1 /\ nth'[b] = 0
        BY <1>9
      <4>4. at'[b] - 1 = at[b]
        BY <4>2, <4>3
      <4> QED
        BY <4>1, <4>3, <4>4
    <3>7. Flat(answer[b], at[b] - 1)' = Flat(answer[b], at[b])
      BY <3>6
    <3> QED
      BY <2>1, <3>3, <3>5, <3>6, <3>7 DEF Written
  <2>2. CASE ~(at[b] + 1 <= Milestones)
    <3>1. at[b] = Milestones
      BY <1>3, <2>2, SwarmAssumption DEF Swarm
    <3> QED
      BY <1>3, <1>8, <1>9, <2>2, <3>1 DEF Written, Flat
  <2> QED
    BY <2>1, <2>2
<1>12. Stands(b)'
  BY <1>1, <1>2, <1>8, <1>11 DEF Stands, AllAnswered
<1>13. Covered(b, store[b])'
  <2>1. IsPrefix(Flat(answer[b], at[b]), doc.files)
    BY <1>1, <1>3, <1>6, PrefixOfItself DEF Documents
  <2>2. doc.progress <= Percent(at[b])
    BY <1>4, <1>6
  <2> QED
    BY <1>3, <1>7, <1>8, <2>1, <2>2 DEF Covered, Flat
<1>14. Documents(b)'
  <2>1. store[b].status # "complete" /\ rec[b].status # "complete"
    BY <1>1 DEF Documents
  <2>2. Covered(b, rec[b])'
    BY <1>1, <1>7, <1>8 DEF Documents, Covered, Flat
  <2> QED
    BY <1>1, <1>6, <1>7, <1>8, <1>13, <2>1, <2>2 DEF Documents
<1> QED
  BY <1>1, <1>7, <1>8, <1>9, <1>10, <1>12, <1>14, Unsaved

LEMMA SwarmDoneKeeps ==
  ASSUME SwarmInv, NEW b \in Builds, SwarmDone(b)
  PROVE  SwarmInv'
<1>1. SwarmTypeOK /\ Stands(b) /\ Documents(b) /\ pc[b] = "write" /\ at[b] = Milestones + 1
  BY DEF SwarmInv, SwarmDone, Ready
<1>2. AllAnswered(b) /\ nth[b] = 0 /\ made[b] = Flat(answer[b], Milestones)
  BY <1>1, SwarmAssumption DEF Stands, Written
<1>3. PICK where \in {"scaffold", "close"} :
        /\ pc' = [pc EXCEPT ![b] = where]
        /\ where = IF made[b] = <<>> THEN "scaffold" ELSE "close"
  BY DEF SwarmDone
<1>4. UNCHANGED <<answer, at, nth, made, store, due, rec, disk, lost>>
  BY DEF SwarmDone
<1>5. SwarmTypeOK' /\ pc'[b] = where /\ \A c \in Builds \ {b} : pc'[c] = pc[c]
  BY <1>1, <1>3, <1>4 DEF SwarmTypeOK
<1>6. Stands(b)'
  <2>1. SubSeq(Scaffold, 1, 0) = <<>> /\ 0 <= Len(Scaffold)
    BY SwarmAssumption
  <2>2. where = "close" => made[b] = Whole(b)
    BY <1>2, <1>3 DEF Whole
  <2> QED
    BY <1>2, <1>3, <1>4, <1>5, <2>1, <2>2 DEF Stands, AllAnswered, Whole, Flat
<1>7. Documents(b)'
  BY <1>1, <1>4, <1>5 DEF Documents, Covered, AllAnswered, Whole, Flat
<1> QED
  BY <1>1, <1>3, <1>4, <1>5, <1>6, <1>7, Unsaved

LEMMA ScaffoldDoneKeeps ==
  ASSUME SwarmInv, NEW b \in Builds, ScaffoldDone(b)
  PROVE  SwarmInv'
<1>1. SwarmTypeOK /\ Stands(b) /\ Documents(b) /\ pc[b] = "scaffold" /\ nth[b] = Len(Scaffold)
  BY DEF SwarmInv, ScaffoldDone, Ready
<1>2. AllAnswered(b) /\ made[b] = Whole(b)
  <2>1. SubSeq(Scaffold, 1, Len(Scaffold)) = Scaffold
    BY SwarmAssumption
  <2> QED
    BY <1>1, <2>1 DEF Stands, Whole
<1>3. pc' = [pc EXCEPT ![b] = "close"] /\ UNCHANGED <<answer, at, nth, made, store, due, rec, disk, lost>>
  BY DEF ScaffoldDone
<1>4. SwarmTypeOK' /\ pc'[b] = "close" /\ \A c \in Builds \ {b} : pc'[c] = pc[c]
  BY <1>1, <1>3 DEF SwarmTypeOK
<1>5. Stands(b)'
  BY <1>2, <1>3, <1>4 DEF Stands, AllAnswered, Whole, Flat
<1>6. Documents(b)'
  BY <1>1, <1>3, <1>4 DEF Documents, Covered, AllAnswered, Whole, Flat
<1> QED
  BY <1>1, <1>3, <1>4, <1>5, <1>6, Unsaved

LEMMA CloseKeeps ==
  ASSUME SwarmInv, NEW b \in Builds, Close(b)
  PROVE  SwarmInv'
<1>1. SwarmTypeOK /\ Stands(b) /\ Documents(b) /\ pc[b] = "close"
  BY DEF SwarmInv, Close, Ready
<1>2. AllAnswered(b) /\ made[b] = Whole(b)
  BY <1>1 DEF Stands
<1>3. PICK doc : doc = [store[b] EXCEPT !.progress = 100]
  OBVIOUS
<1>4. /\ doc \in Document /\ doc.status = store[b].status /\ doc.progress = 100
      /\ doc.files = store[b].files
  <2>1. store[b] \in Document /\ 100 \in 0..100
    BY <1>1 DEF SwarmTypeOK
  <2> QED
    BY <1>3, <2>1, ProgressEdit
<1>5. /\ store' \in [Builds -> Document] /\ due' \in [Builds -> BOOLEAN]
      /\ rec' \in [Builds -> Document] /\ lost' \in 0..MaxLost
      /\ store'[b] = doc /\ (\A c \in Builds \ {b} : store'[c] = store[c]) /\ rec' = rec
  BY <1>1, <1>3, <1>4, Recorded DEF Close
<1>6. pc' = [pc EXCEPT ![b] = "final"] /\ UNCHANGED <<answer, at, nth, made, disk>>
  BY DEF Close
<1>7. SwarmTypeOK' /\ pc'[b] = "final" /\ \A c \in Builds \ {b} : pc'[c] = pc[c]
  BY <1>1, <1>5, <1>6 DEF SwarmTypeOK
<1>8. Stands(b)'
  BY <1>2, <1>6, <1>7 DEF Stands, AllAnswered, Whole, Flat
<1>9. Covered(b, store[b])'
  <2> SUFFICES ASSUME Milestones > 0
               PROVE  \E k \in Swarm : 100 <= Percent(k) /\ IsPrefix(Flat(answer[b], k), made[b])
    BY <1>1, <1>4, <1>5, <1>6 DEF Covered, Flat, Documents
  <2>1. Milestones \in Swarm /\ Milestones \in 1..Milestones
    BY SwarmAssumption DEF Swarm
  <2>2. 100 <= Percent(Milestones)
    BY <2>1, PercentBounds
  <2>3. Flat(answer[b], Milestones) \in Seq(Names) /\ Scaffold \in Seq(Paths)
    BY <1>1, <2>1, FlatAt, SwarmAssumption
  <2>4. IsPrefix(Flat(answer[b], Milestones), made[b])
    BY <1>2, <2>3, PrefixOfItself DEF Whole
  <2> QED
    BY <2>1, <2>2, <2>4
<1>10. Documents(b)'
  <2>1. store[b].status # "complete" /\ rec[b].status # "complete"
    BY <1>1 DEF Documents
  <2>2. Covered(b, rec[b])'
    BY <1>1, <1>5, <1>6 DEF Documents, Covered, Flat
  <2> QED
    BY <1>1, <1>4, <1>5, <1>6, <1>7, <1>9, <2>1, <2>2 DEF Documents
<1> QED
  BY <1>1, <1>5, <1>6, <1>7, <1>8, <1>10, Unsaved

LEMMA FinishKeeps ==
  ASSUME SwarmInv, NEW b \in Builds, Finish(b)
  PROVE  SwarmInv'
<1>1. SwarmTypeOK /\ Stands(b) /\ Documents(b) /\ pc[b] = "final"
  BY DEF SwarmInv, Finish, Ready
<1>2. AllAnswered(b) /\ made[b] = Whole(b)
  BY <1>1 DEF Stands
<1>g. PICK g \in Seq(Paths) : g = made[b]
  BY <1>1 DEF SwarmTypeOK
<1>3. PICK doc : doc = [store[b] EXCEPT !.status = "complete", !.generated = g]
  OBVIOUS
<1>4. /\ doc \in Document /\ doc.status = "complete" /\ doc.generated = made[b]
      /\ doc.files = store[b].files
  <2>1. store[b] \in Document
    BY <1>1 DEF SwarmTypeOK
  <2> QED
    BY <1>g, <1>3, <2>1 DEF Document
<1>5. /\ store' \in [Builds -> Document] /\ due' \in [Builds -> BOOLEAN]
      /\ rec' \in [Builds -> Document] /\ lost' \in 0..MaxLost
      /\ store'[b] = doc /\ (\A c \in Builds \ {b} : store'[c] = store[c]) /\ rec' = rec
  BY <1>1, <1>g, <1>3, <1>4, Recorded DEF Finish
<1>6. pc' = [pc EXCEPT ![b] = "over"] /\ UNCHANGED <<answer, at, nth, made, disk>>
  BY DEF Finish
<1>7. SwarmTypeOK' /\ pc'[b] = "over" /\ \A c \in Builds \ {b} : pc'[c] = pc[c]
  BY <1>1, <1>5, <1>6 DEF SwarmTypeOK
<1>8. Stands(b)'
  BY <1>7 DEF Stands
<1>9. Covered(b, store[b])' /\ Covered(b, rec[b])'
  BY <1>1, <1>4, <1>5, <1>6 DEF Documents, Covered, Flat
<1>10. rec[b].status # "complete"
  BY <1>1 DEF Documents
<1>11. AllAnswered(b)' /\ (made[b] = Whole(b))'
  BY <1>2, <1>6 DEF AllAnswered, Whole, Flat
<1>12. Documents(b)'
  BY <1>1, <1>4, <1>5, <1>6, <1>7, <1>9, <1>10, <1>11 DEF Documents
<1> QED
  BY <1>1, <1>5, <1>6, <1>7, <1>8, <1>12, Unsaved

LEMMA FailKeeps ==
  ASSUME SwarmInv, NEW b \in Builds, Fail(b)
  PROVE  SwarmInv'
<1>1. SwarmTypeOK /\ Stands(b) /\ Documents(b) /\ pc[b] # "over"
  BY DEF SwarmInv, Fail, Ready
<1>2. PICK doc : doc = [store[b] EXCEPT !.status = "error"]
  OBVIOUS
<1>3. doc \in Document /\ doc.status = "error" /\ doc.files = store[b].files
  <2>1. store[b] \in Document
    BY <1>1 DEF SwarmTypeOK
  <2> QED
    BY <1>2, <2>1, StatusEdit
<1>4. /\ store' \in [Builds -> Document] /\ due' \in [Builds -> BOOLEAN]
      /\ rec' \in [Builds -> Document] /\ lost' \in 0..MaxLost
      /\ store'[b] = doc /\ (\A c \in Builds \ {b} : store'[c] = store[c]) /\ rec' = rec
  BY <1>1, <1>2, <1>3, Recorded DEF Fail
<1>5. pc' = [pc EXCEPT ![b] = "over"] /\ UNCHANGED <<answer, at, nth, made>>
  BY DEF Fail
<1>6. disk' = disk \/ \E path : disk' = [disk EXCEPT ![path] = <<b, 0>>]
  BY DEF Fail, Cut
<1>7. disk' \in [Paths -> (Builds \X Nat) \cup {NoFile}]
  <2>1. <<b, 0>> \in Builds \X Nat
    OBVIOUS
  <2> QED
    BY <1>1, <1>6, <2>1 DEF SwarmTypeOK
<1>8. SwarmTypeOK' /\ pc'[b] = "over" /\ \A c \in Builds \ {b} : pc'[c] = pc[c]
  BY <1>1, <1>4, <1>5, <1>7 DEF SwarmTypeOK
<1>9. Stands(b)'
  BY <1>8 DEF Stands
<1>10. Covered(b, store[b])' /\ Covered(b, rec[b])'
  BY <1>1, <1>3, <1>4, <1>5 DEF Documents, Covered, Flat
<1>11. rec[b].status # "complete"
  BY <1>1 DEF Documents
<1>12. Documents(b)'
  BY <1>1, <1>3, <1>4, <1>5, <1>8, <1>10, <1>11 DEF Documents
<1>13. \A c \in Builds : Stands(c)' /\ Documents(c)'
  BY <1>4, <1>5, <1>8, <1>9, <1>12, LeftAlone DEF SwarmInv
<1>14. ASSUME NEW q \in Paths
       PROVE  /\ disk[q] # NoFile => disk'[q] # NoFile
              /\ disk'[q] # NoFile =>
                   (LastOf(q, disk[q][1], disk[q][2]) \/ CutBy(disk[q][1], disk[q][2]))'
  <2>1. CASE disk'[q] = disk[q]
    <3>1. /\ LastOf(q, disk[q][1], disk[q][2]) => LastOf(q, disk[q][1], disk[q][2])'
          /\ disk[q] # NoFile /\ CutBy(disk[q][1], disk[q][2]) => CutBy(disk[q][1], disk[q][2])'
      BY <1>1, <1>4, <1>5, <1>8, <2>1 DEF LastOf, CutBy, SwarmTypeOK
    <3> QED
      BY <2>1, <3>1 DEF SwarmInv, DiskHolds
  <2>2. CASE disk'[q] # disk[q]
    <3>1. disk'[q] = <<b, 0>> /\ <<b, 0>> # <<>>
      BY <1>1, <1>6, <2>2 DEF SwarmTypeOK
    <3> QED
      BY <1>3, <1>4, <1>8, <3>1 DEF CutBy, NoFile
  <2> QED
    BY <2>1, <2>2
<1>15. DiskHolds'
  BY <1>1, <1>5, <1>14 DEF SwarmInv, DiskHolds, SwarmTypeOK
<1> QED
  BY <1>8, <1>13, <1>15 DEF SwarmInv

LEMMA WriteThroughKeeps ==
  ASSUME SwarmInv, NEW b \in Builds, WriteThrough(b)
  PROVE  SwarmInv'
<1>1. SwarmTypeOK /\ Stands(b) /\ Documents(b)
  BY DEF SwarmInv
<1>2. \/ rec' = [rec EXCEPT ![b] = store[b]] /\ lost' = lost
      \/ rec' = rec /\ lost < MaxLost /\ lost' = lost + 1
  BY DEF WriteThrough
<1>3. due' = [due EXCEPT ![b] = FALSE] /\ UNCHANGED <<pc, answer, at, nth, made, store, disk>>
  BY DEF WriteThrough
<1>4. /\ rec' \in [Builds -> Document] /\ rec'[b] \in {store[b], rec[b]}
      /\ \A c \in Builds \ {b} : rec'[c] = rec[c]
  BY <1>1, <1>2 DEF SwarmTypeOK
<1>5. lost' \in 0..MaxLost
  BY <1>1, <1>2, SwarmAssumption DEF SwarmTypeOK
<1>6. SwarmTypeOK'
  BY <1>1, <1>3, <1>4, <1>5 DEF SwarmTypeOK
<1>7. Stands(b)'
  BY <1>1, <1>3 DEF Stands, AllAnswered, Written, Whole, Flat
<1>8. Documents(b)'
  BY <1>1, <1>3, <1>4 DEF Documents, Covered, AllAnswered, Whole, Flat
<1> QED
  BY <1>1, <1>3, <1>4, <1>6, <1>7, <1>8, Unsaved

-----------------------------------------------------------------------------
(* ParallelBuild: the steps that save a file.                              *)

LEMMA SavedDisk ==
  ASSUME SwarmTypeOK, DiskHolds, NEW b \in Builds, NEW path \in Paths, Save(b, path),
         pc[b] # "over", pc' = pc, \A c \in Builds \ {b} : store'[c] = store[c]
  PROVE  /\ DiskHolds' /\ disk' \in [Paths -> (Builds \X Nat) \cup {NoFile}]
         /\ made' \in [Builds -> Seq(Paths)] /\ made'[b] = Append(made[b], path)
         /\ \A c \in Builds \ {b} : made'[c] = made[c]
<1>1. PICK n \in Nat : n = Len(made[b]) + 1 /\ made[b] \in Seq(Paths)
  BY DEF SwarmTypeOK
<1>2. disk' = [disk EXCEPT ![path] = <<b, n>>] /\ made' = [made EXCEPT ![b] = Append(made[b], path)]
  BY <1>1 DEF Save
<1>3. /\ disk' \in [Paths -> (Builds \X Nat) \cup {NoFile}]
      /\ disk'[path] = <<b, n>> /\ \A q \in Paths \ {path} : disk'[q] = disk[q]
  BY <1>2 DEF SwarmTypeOK
<1>4. /\ made' \in [Builds -> Seq(Paths)] /\ made'[b] = Append(made[b], path)
      /\ \A c \in Builds \ {b} : made'[c] = made[c]
  BY <1>1, <1>2, AppendProperties DEF SwarmTypeOK
<1>5. /\ DOMAIN made[b] = 1..(n - 1) /\ DOMAIN made'[b] = 1..n
      /\ made'[b][n] = path /\ \A i \in 1..(n - 1) : made'[b][i] = made[b][i]
  BY <1>1, <1>4
<1>6. ASSUME NEW q \in Paths, disk'[q] # NoFile
      PROVE  (LastOf(q, disk[q][1], disk[q][2]) \/ CutBy(disk[q][1], disk[q][2]))'
  <2>1. CASE q = path
    <3>1. disk'[q][1] = b /\ disk'[q][2] = n
      BY <1>3, <2>1
    <3> QED
      BY <1>1, <1>5, <2>1, <3>1 DEF LastOf
  <2>2. CASE q # path
    <3>1. PICK c \in Builds, k \in Nat : disk[q] = <<c, k>> /\ disk'[q] = <<c, k>>
      <4>1. disk'[q] = disk[q] /\ disk[q] \in Builds \X Nat
        BY <1>3, <1>6, <2>2 DEF SwarmTypeOK
      <4> QED
        BY <4>1
    <3>2. LastOf(q, c, k) \/ CutBy(c, k)
      BY <1>3, <1>6, <2>2, <3>1 DEF DiskHolds
    <3>5. CASE CutBy(c, k)
      BY <3>1, <3>5 DEF CutBy
    <3>3. CASE c = b /\ LastOf(q, c, k)
      <4>1. /\ k \in 1..(n - 1) /\ made[b][k] = q
            /\ \A i \in 1..(n - 1) : made[b][i] = q => i <= k
        BY <1>5, <3>3 DEF LastOf
      <4>2. k \in 1..n /\ made'[b][k] = q
        BY <1>1, <1>5, <4>1
      <4>3. \A i \in 1..n : made'[b][i] = q => i <= k
        <5>1. \A i \in 1..n : i = n \/ i \in 1..(n - 1)
          BY <1>1
        <5> QED
          BY <1>5, <2>2, <4>1, <5>1
      <4> QED
        BY <1>5, <3>1, <3>3, <4>2, <4>3 DEF LastOf
    <3>4. CASE c # b /\ LastOf(q, c, k)
      BY <1>4, <3>1, <3>4 DEF LastOf
    <3> QED
      BY <3>2, <3>3, <3>4, <3>5
  <2> QED
    BY <2>1, <2>2
<1>7. ASSUME NEW c \in Builds, NEW i \in DOMAIN made'[c] PROVE disk'[made'[c][i]] # NoFile
  <2>1. ASSUME NEW q \in Paths, disk[q] # NoFile \/ q = path PROVE disk'[q] # NoFile
    <3>1. disk'[path] # NoFile
      <4>1. <<b, n>> # <<>>
        OBVIOUS
      <4> QED
        BY <1>3, <4>1 DEF NoFile
    <3> QED
      BY <1>3, <2>1, <3>1
  <2>2. made'[c][i] \in Paths
    BY <1>4
  <2>3. CASE c = b
    <3>1. CASE i = n
      BY <1>5, <2>1, <2>2, <2>3, <3>1
    <3>2. CASE i # n
      <4>1. i \in DOMAIN made[b] /\ made'[c][i] = made[b][i]
        BY <1>1, <1>5, <2>3, <3>2
      <4> QED
        BY <2>1, <2>2, <4>1 DEF DiskHolds
    <3> QED
      BY <3>1, <3>2
  <2>4. CASE c # b
    BY <1>4, <2>1, <2>2, <2>4 DEF DiskHolds
  <2> QED
    BY <2>3, <2>4
<1> QED
  BY <1>3, <1>4, <1>6, <1>7 DEF DiskHolds

LEMMA Saved ==
  ASSUME SwarmInv, NEW b \in Builds, NEW path \in Paths, Save(b, path), UNCHANGED <<pc, answer, at>>,
         pc[b] \in {"write", "scaffold"}, Stands(b)'
  PROVE  SwarmInv'
<1>1. SwarmTypeOK /\ Documents(b) /\ DiskHolds
  BY DEF SwarmInv
<1>2. /\ DiskHolds' /\ disk' \in [Paths -> (Builds \X Nat) \cup {NoFile}]
      /\ made' \in [Builds -> Seq(Paths)] /\ made'[b] = Append(made[b], path)
      /\ \A c \in Builds \ {b} : made'[c] = made[c]
  <2>1. \A c \in Builds \ {b} : store'[c] = store[c]
    BY <1>1 DEF Save, Record, SwarmTypeOK
  <2> QED
    BY <1>1, <2>1, SavedDisk
<1>3. PICK doc : doc = [store[b] EXCEPT !.files = Append(@, path)]
  OBVIOUS
<1>4. /\ store[b] \in Document /\ doc \in Document /\ doc.status = store[b].status
      /\ doc.progress = store[b].progress /\ doc.files = Append(store[b].files, path)
  <2>1. store[b] \in Document
    BY <1>1 DEF SwarmTypeOK
  <2> QED
    BY <1>3, <2>1, FilesEdit
<1>5. /\ store' \in [Builds -> Document] /\ due' \in [Builds -> BOOLEAN]
      /\ rec' \in [Builds -> Document] /\ lost' \in 0..MaxLost
      /\ store'[b] = doc /\ (\A c \in Builds \ {b} : store'[c] = store[c]) /\ rec' = rec
  BY <1>1, <1>3, <1>4, Recorded DEF Save
<1>6. nth' \in [Builds -> Nat] /\ \A c \in Builds \ {b} : nth'[c] = nth[c]
  BY <1>1 DEF Save, SwarmTypeOK
<1>7. SwarmTypeOK'
  BY <1>1, <1>2, <1>5, <1>6 DEF SwarmTypeOK
<1>8. Covered(b, store[b])'
  <2> SUFFICES ASSUME doc.status = "running", doc.progress > 0, Milestones > 0
               PROVE  \E k \in Swarm : doc.progress <= Percent(k) /\ IsPrefix(Flat(answer[b], k), doc.files)
    BY <1>5 DEF Covered, Flat
  <2>1. PICK k \in Swarm : doc.progress <= Percent(k) /\ IsPrefix(Flat(answer[b], k), store[b].files)
    BY <1>1, <1>4 DEF Documents, Covered
  <2>2. Flat(answer[b], k) \in Seq(Names) /\ store[b].files \in Seq(Paths)
    BY <1>1, <1>4, FlatAt DEF Swarm, Document
  <2>3. IsPrefix(Flat(answer[b], k), doc.files)
    BY <1>4, <2>1, <2>2, PrefixKept
  <2> QED
    BY <2>1, <2>3
<1>9. Documents(b)'
  <2>1. store[b].status # "complete" /\ rec[b].status # "complete" /\ store[b].files = made[b]
    BY <1>1 DEF Documents
  <2>2. Covered(b, rec[b])'
    BY <1>1, <1>5 DEF Documents, Covered, Flat
  <2> QED
    BY <1>2, <1>4, <1>5, <1>8, <2>1, <2>2 DEF Documents
<1>10. \A c \in Builds : Stands(c)' /\ Documents(c)'
  BY <1>2, <1>5, <1>6, <1>9, LeftAlone DEF SwarmInv
<1> QED
  BY <1>2, <1>7, <1>10 DEF SwarmInv

LEMMA SubSeqGrows ==
  ASSUME NEW S, NEW s \in Seq(S), NEW n \in Nat, n < Len(s)
  PROVE  /\ SubSeq(s, 1, n + 1) = Append(SubSeq(s, 1, n), s[n + 1])
         /\ SubSeq(s, 1, n) \in Seq(S) /\ s[n + 1] \in S
  OBVIOUS

LEMMA WriteFileKeeps ==
  ASSUME SwarmInv, NEW b \in Builds, WriteFile(b)
  PROVE  SwarmInv'
<1>1. SwarmTypeOK /\ Stands(b) /\ pc[b] = "write" /\ at[b] <= Milestones
  BY DEF SwarmInv, WriteFile, Ready
<1>2. AllAnswered(b) /\ Written(b)
  BY <1>1 DEF Stands
<1>3. PICK k \in 1..Milestones, n \in Nat : k = at[b] /\ n = nth[b]
  BY <1>1, SwarmAssumption DEF SwarmTypeOK
<1>4. answer[b][k] \in Seq(Paths)
  <2>1. answer[b] \in [Swarm -> Answers \cup {Pending}] /\ k \in Swarm
    BY <1>1 DEF SwarmTypeOK, Swarm
  <2>2. answer[b][k] \in Answers
    BY <1>2, <2>1 DEF AllAnswered
  <2> QED
    BY <2>2, SwarmAssumption
<1>5. n < Len(answer[b][k]) /\ Save(b, answer[b][k][n + 1]) /\ UNCHANGED <<pc, answer, at>>
  BY <1>3 DEF WriteFile
<1>6. answer[b][k][n + 1] \in Paths
  BY <1>4, <1>5
<1>7. PICK path \in Paths : path = answer[b][k][n + 1]
  BY <1>6
<1>8. Save(b, path)
  BY <1>5, <1>7 DEF Save, Record
<1>9. /\ nth'[b] = n + 1 /\ made'[b] = Append(made[b], path)
  BY <1>1, <1>3, <1>8 DEF Save, SwarmTypeOK
<1>10. Written(b)'
  <2>1. /\ answer[b][k] \in Seq(Names) /\ Flat(answer[b], k - 1) \in Seq(Names)
    BY <1>1, FlatAt
  <2>2. /\ SubSeq(answer[b][k], 1, n + 1) = Append(SubSeq(answer[b][k], 1, n), path)
        /\ SubSeq(answer[b][k], 1, n) \in Seq(Names) /\ path \in Names
    BY <1>5, <1>7, <2>1, SubSeqGrows
  <2>3. made[b] = Flat(answer[b], k - 1) \o SubSeq(answer[b][k], 1, n)
    BY <1>1, <1>2, <1>3 DEF Written
  <2>4. made'[b] = Flat(answer[b], k - 1) \o SubSeq(answer[b][k], 1, n + 1)
    <3>1. Append(Flat(answer[b], k - 1) \o SubSeq(answer[b][k], 1, n), path)
            = Flat(answer[b], k - 1) \o Append(SubSeq(answer[b][k], 1, n), path)
      <4>1. PICK u \in Seq(Names), v \in Seq(Names) :
              u = Flat(answer[b], k - 1) /\ v = SubSeq(answer[b][k], 1, n)
        BY <2>1, <2>2
      <4>2. Append(u \o v, path) = u \o Append(v, path)
        <5>1. path \in Names
          BY <2>2
        <5> QED
          BY <5>1
      <4> QED
        BY <4>1, <4>2
    <3> QED
      BY <1>9, <2>2, <2>3, <3>1
  <2>5. n + 1 <= Len(answer[b][k])
    BY <1>4, <1>5
  <2> QED
    BY <1>1, <1>3, <1>5, <1>9, <2>4, <2>5 DEF Written, Flat
<1>11. Stands(b)'
  BY <1>1, <1>2, <1>5, <1>10 DEF Stands, AllAnswered
<1> QED
  BY <1>1, <1>5, <1>8, <1>11, Saved

LEMMA WriteScaffoldKeeps ==
  ASSUME SwarmInv, NEW b \in Builds, WriteScaffold(b)
  PROVE  SwarmInv'
<1>1. SwarmTypeOK /\ Stands(b) /\ pc[b] = "scaffold"
  BY DEF SwarmInv, WriteScaffold, Ready
<1>2. PICK n \in Nat : n = nth[b] /\ n < Len(Scaffold) /\ Save(b, Scaffold[n + 1])
  BY <1>1 DEF SwarmTypeOK, WriteScaffold
<1>3. UNCHANGED <<pc, answer, at>>
  BY DEF WriteScaffold
<1>4. PICK path \in Paths : path = Scaffold[n + 1]
  BY <1>2, SwarmAssumption
<1>5. Save(b, path)
  BY <1>2, <1>4 DEF Save, Record
<1>6. nth'[b] = n + 1 /\ made'[b] = Append(made[b], path)
  BY <1>1, <1>2, <1>5 DEF Save, SwarmTypeOK
<1>7. SubSeq(Scaffold, 1, n + 1) = Append(SubSeq(Scaffold, 1, n), path) /\ n + 1 <= Len(Scaffold)
  <2>1. Scaffold \in Seq(Paths) /\ n + 1 <= Len(Scaffold)
    BY <1>2, SwarmAssumption
  <2>2. SubSeq(Scaffold, 1, n + 1) = Append(SubSeq(Scaffold, 1, n), Scaffold[n + 1])
    BY <1>2, <2>1, SubSeqGrows
  <2> QED
    BY <1>4, <2>1, <2>2
<1>8. Stands(b)'
  BY <1>1, <1>2, <1>3, <1>6, <1>7 DEF Stands, AllAnswered, Flat
<1> QED
  BY <1>1, <1>3, <1>5, <1>8, Saved

-----------------------------------------------------------------------------
(* ParallelBuild: the theorems.                                            *)

LEMMA SwarmNextInv == SwarmInv /\ [SwarmNext]_swarmVars => SwarmInv'
<1> SUFFICES ASSUME SwarmInv, [SwarmNext]_swarmVars PROVE SwarmInv'
  OBVIOUS
<1>1. CASE UNCHANGED swarmVars
  <2>1. UNCHANGED <<pc, answer, at, nth, made, store, due, rec, disk, lost>>
    BY <1>1 DEF swarmVars
  <2>2. SwarmTypeOK'
    BY <2>1 DEF SwarmInv, SwarmTypeOK
  <2>3. \A c \in Builds : Stands(c)' /\ Documents(c)'
    BY <2>1, LeftAlone DEF SwarmInv
  <2>4. DiskHolds'
    BY <2>1 DEF SwarmInv, DiskHolds, LastOf, CutBy
  <2> QED
    BY <2>2, <2>3, <2>4 DEF SwarmInv
<1>2. ASSUME NEW b \in Builds, Step(b) PROVE SwarmInv'
  BY <1>2, BeginKeeps, AnswerKeeps, GatherKeeps, WriteFileKeeps, CompletedKeeps, SwarmDoneKeeps,
     WriteScaffoldKeeps, ScaffoldDoneKeeps, CloseKeeps, FinishKeeps, FailKeeps, WriteThroughKeeps DEF Step
<1> QED
  BY <1>1, <1>2 DEF SwarmNext

LEMMA SwarmAlways == SwarmSpec => []SwarmInv
  BY SwarmInitInv, SwarmNextInv, PTL DEF SwarmSpec

(***************************************************************************)
(* Type correctness of the swarm.                                          *)
(***************************************************************************)
THEOREM SwarmTypes == SwarmSpec => []SwarmTypeOK
<1>1. SwarmInv => SwarmTypeOK
  BY DEF SwarmInv
<1> QED
  BY <1>1, SwarmAlways, PTL

(***************************************************************************)
(* A complete record has every file of every call that answered, in the    *)
(* order of the milestones, or the scaffold if there is none; whatever     *)
(* calls failed, in whatever order they ended and however many writes of   *)
(* it were lost.                                                           *)
(***************************************************************************)
THEOREM EveryAnswerDelivered == SwarmSpec => []SwarmDelivers
<1>1. SwarmInv => SwarmDelivers
  <2> SUFFICES ASSUME SwarmInv, NEW b \in Builds, rec[b].status = "complete"
               PROVE  /\ \A m \in Swarm : answer[b][m] # Pending
                      /\ rec[b].generated = IF Answered(b) = <<>> THEN Scaffold ELSE Answered(b)
                      /\ rec[b].files = rec[b].generated
    BY DEF SwarmDelivers
  <2>1. /\ rec[b] = store[b] /\ store[b].status = "complete" /\ AllAnswered(b)
        /\ store[b].files = made[b] /\ made[b] = Whole(b) /\ store[b].generated = made[b]
    BY DEF SwarmInv, Documents
  <2>2. Answered(b) = Flat(answer[b], Milestones)
    BY DEF Answered, Flat, Swarm
  <2> QED
    BY <2>1, <2>2 DEF AllAnswered, Whole
<1> QED
  BY <1>1, SwarmAlways, PTL

(***************************************************************************)
(* The progress a watcher sees is covered by the files next to it.         *)
(***************************************************************************)
THEOREM ProgressCovered == SwarmSpec => []ProgressHonest
<1>1. SwarmInv => ProgressHonest
  BY DEF SwarmInv, Documents, Covered, ProgressHonest, Flat
<1> QED
  BY <1>1, SwarmAlways, PTL

LEMMA LastIsSelected ==
  ASSUME NEW s, NEW path, NEW n \in Nat, Len(s) \in Nat, n \in 1..Len(s), s[n] = path,
         \A k \in 1..Len(s) : s[k] = path => k <= n
  PROVE  n = SelectLastInSeq(s, LAMBDA e : e = path)
<1> DEFINE I == {i \in 1..Len(s) : s[i] = path}
<1>1. n \in I /\ (\A k \in I : n >= k) /\ I \subseteq Int
  OBVIOUS
<1>2. \A m \in I : (\A k \in I : m >= k) => m = n
  BY <1>1
<1>3. n = Max(I)
  <2> HIDE DEF I
  <2> QED
    BY <1>1, <1>2 DEF Max
<1>4. I # {}
  BY <1>1
<1> QED
  BY <1>3, <1>4 DEF SelectLastInSeq

(***************************************************************************)
(* The directory of a complete build has all its files, each in the last   *)
(* version the build made; what is not there was overwritten, or cut by a  *)
(* failing write, of a build of the same name.                             *)
(***************************************************************************)
THEOREM DirectoryHoldsBuild == SwarmSpec => []WorkspaceHoldsBuild
<1>1. SwarmInv => WorkspaceHoldsBuild
  <2> SUFFICES ASSUME SwarmInv, NEW b \in Builds, rec[b].status = "complete",
                      NEW n \in DOMAIN rec[b].generated, NEW path, path = rec[b].generated[n]
               PROVE  /\ disk[path] # NoFile
                      /\ disk[path][1] = b =>
                           disk[path][2] = SelectLastInSeq(rec[b].generated, LAMBDA e : e = path)
                      /\ disk[path][1] # b => Touched(disk[path][1], path)
    BY DEF WorkspaceHoldsBuild
  <2>1. rec[b].generated = made[b] /\ made[b] \in Seq(Paths)
    BY DEF SwarmInv, Documents, SwarmTypeOK
  <2>2. path \in Paths /\ disk[path] # NoFile
    BY <2>1 DEF SwarmInv, DiskHolds
  <2>3. LastOf(path, disk[path][1], disk[path][2]) \/ CutBy(disk[path][1], disk[path][2])
    BY <2>2 DEF SwarmInv, DiskHolds
  <2>4. disk[path] \in Builds \X Nat
    BY <2>2 DEF SwarmInv, SwarmTypeOK
  <2>5. ASSUME disk[path][1] = b
        PROVE  disk[path][2] = SelectLastInSeq(rec[b].generated, LAMBDA e : e = path)
    <3>1. PICK k \in Nat : k = disk[path][2]
      BY <2>4
    <3>2. /\ k \in 1..Len(made[b]) /\ made[b][k] = path /\ Len(made[b]) \in Nat
          /\ \A i \in 1..Len(made[b]) : made[b][i] = path => i <= k
      <4>1. DOMAIN made[b] = 1..Len(made[b]) /\ Len(made[b]) \in Nat
        BY <2>1
      <4>2. LastOf(path, b, k)
        <5>1. store[b].status # "error"
          BY DEF SwarmInv, Documents
        <5> QED
          BY <2>3, <2>5, <3>1, <5>1 DEF CutBy
      <4> QED
        BY <4>1, <4>2 DEF LastOf
    <3>3. k = SelectLastInSeq(made[b], LAMBDA e : e = path)
      BY <3>2, LastIsSelected
    <3> QED
      BY <2>1, <3>1, <3>3
  <2>6. Touched(disk[path][1], path)
    <3>1. CASE LastOf(path, disk[path][1], disk[path][2])
      BY <3>1 DEF LastOf, ToSet, Touched
    <3>2. CASE CutBy(disk[path][1], disk[path][2])
      <4>1. disk[path] = <<disk[path][1], 0>>
        BY <2>4, <3>2 DEF CutBy
      <4> QED
        BY <3>2, <4>1 DEF CutBy, Touched
    <3> QED
      BY <2>3, <3>1, <3>2
  <2> QED
    BY <2>2, <2>5, <2>6
<1> QED
  BY <1>1, SwarmAlways, PTL

-----------------------------------------------------------------------------
(* Subscriptions.                                                          *)

CheckoutCalls == [at : {"found", "flushed", "open", "paid", "failed"}, plan : Plans,
                  new : BOOLEAN, row : Subs \cup {Nothing}]
HookCalls == [event : Events, copy : Copies]

\* The events on their way, those that a webhook holds with them.
HooksInFlight == {h \in Hooks : hook[h] # NoHook}
Known == event \cup {hook[h].event : h \in HooksInFlight}

(***************************************************************************)
(* Stripe numbers the events of a subscription: no number is given twice,  *)
(* the last one carries the present status, and the first is its           *)
(* checkout's.  A checkout that is not paid has none, one that is has its  *)
(* first.                                                                  *)
(***************************************************************************)
EventsNumbered ==
  /\ \A e \in Known :
       /\ e.n <= stripe[e.of].sent /\ checkout[e.of].at = "paid"
       /\ e.n = stripe[e.of].sent => e.status = stripe[e.of].status
       /\ e.n = 1 <=> e.type = "completed"
       /\ e.type = "completed" => e.status = "active"
       /\ e.type = "deleted" => e.status = "canceled"
  /\ \A e, f \in Known : e.of = f.of /\ e.n = f.n => e = f
  /\ \A c \in Checkouts :
       /\ told[c] <= stripe[c].sent
       /\ checkout[c].at = "paid" => stripe[c].sent > 0
       /\ checkout[c].at # "paid" => stripe[c] = Unpaid

\* A row named after a subscription has the status that its last handled event
\* gave it, as long as they come in order and from copies that are true.
RowsFollow ==
  \A r \in Held \ torn : LET c == sub[r].of IN
    c # Nothing /\ c \notin disorder =>
      /\ told[c] > 0
      /\ \A e \in Known : e.of = c /\ e.n = told[c] => e.status = sub[r].status
      /\ told[c] = stripe[c].sent => sub[r].status = stripe[c].status

\* A checkout's row: one it found is there, one it will make is nobody else's,
\* and the one it committed is there while the organization is.
RowsReserved ==
  /\ org = "here" => \A c \in Checkouts :
       \/ checkout[c].at \in {"open", "paid"}
       \/ checkout[c].at \in {"found", "flushed"} /\ ~checkout[c].new
       => checkout[c].row \in Held
  /\ \A c \in Checkouts : checkout[c].at = "flushed" /\ checkout[c].new =>
       /\ checkout[c].row \in Subs \ Held
       /\ \A d \in Checkouts \ {c} : checkout[d] # NoCheckout => checkout[d].row # checkout[c].row

\* A row is named after a payment for it, and there is none without the
\* organization.
RowsOwned ==
  /\ org = "gone" => Held = {}
  /\ \A r \in Held : sub[r].of # Nothing =>
       checkout[sub[r].of].at = "paid" /\ checkout[sub[r].of].row = r

\* What a webhook's copy, true or not, still says: the row of a completed checkout
\* is the checkout's, and a row that was named is.
HooksKnow ==
  \A h \in HooksInFlight : LET k == hook[h] IN
    /\ org = "here" => DOMAIN k.copy \subseteq Held
    /\ k.event.type = "completed" => DOMAIN k.copy \subseteq {checkout[k.event.of].row}
    /\ k.event.type = "completed" /\ org = "here" => checkout[k.event.of].row \in DOMAIN k.copy
    /\ \A r \in DOMAIN k.copy : r \in Held /\ k.copy[r].of # Nothing => sub[r].of # Nothing

\* The row of a payment that was told of is named.
PaidRowTaken ==
  org = "here" => \A c \in Checkouts : told[c] > 0 /\ c \notin disorder =>
    checkout[c].at = "paid" /\ sub[checkout[c].row].of # Nothing

BillingInv ==
  /\ BillingTypeOK /\ EventsNumbered /\ RowsFollow /\ RowsReserved /\ RowsOwned
  /\ HooksKnow /\ PaidRowTaken

LEMMA BillingShapes ==
  ASSUME BillingTypeOK
  PROVE  /\ sub \in [Subs -> {NoSub} \cup SubRows]
         /\ checkout \in [Checkouts -> {NoCheckout} \cup CheckoutCalls]
         /\ event \subseteq Events /\ Known \subseteq Events
         /\ hook \in [Hooks -> {NoHook} \cup HookCalls]
         /\ \A h \in HooksInFlight : h \in Hooks /\ hook[h] \in HookCalls
         /\ \A r \in Held : r \in Subs /\ sub[r] \in SubRows
         /\ \A r \in Subs : sub[r] \in SubRows => r \in Held
         /\ \A c \in Checkouts : checkout[c].at # "idle" => checkout[c] \in CheckoutCalls
         /\ \A c \in Checkouts : checkout[c] # NoCheckout => checkout[c] \in CheckoutCalls
         /\ \A c \in Checkouts : /\ stripe[c].sent \in 0..MaxEvents /\ told[c] \in 0..MaxEvents
                                 /\ stripe[c].sent \in Nat /\ told[c] \in Nat
                                 /\ stripe[c] = [status |-> stripe[c].status, sent |-> stripe[c].sent]
<1>1. sub \in [Subs -> {NoSub} \cup SubRows] BY DEF BillingTypeOK
<1>2. checkout \in [Checkouts -> {NoCheckout} \cup CheckoutCalls]
  BY DEF BillingTypeOK, CheckoutCalls
<1>3. event \subseteq Events BY DEF BillingTypeOK
<1>4. \A r \in Held : r \in Subs /\ sub[r] \in SubRows BY <1>1 DEF Held
<1>5. \A r \in Subs : sub[r] \in SubRows => r \in Held BY DEF Held, SubRows, NoSub
<1>6. \A c \in Checkouts : checkout[c].at # "idle" => checkout[c] \in CheckoutCalls
  BY <1>2 DEF NoCheckout
<1>7. \A c \in Checkouts : checkout[c] # NoCheckout => checkout[c] \in CheckoutCalls BY <1>2
<1>8. \A c \in Checkouts : /\ stripe[c].sent \in 0..MaxEvents /\ told[c] \in 0..MaxEvents
                           /\ stripe[c].sent \in Nat /\ told[c] \in Nat
                           /\ stripe[c] = [status |-> stripe[c].status, sent |-> stripe[c].sent]
  <2>1. \A c \in Checkouts : /\ stripe[c].sent \in 0..MaxEvents /\ told[c] \in 0..MaxEvents
                             /\ stripe[c] = [status |-> stripe[c].status, sent |-> stripe[c].sent]
    BY DEF BillingTypeOK
  <2>2. 0..MaxEvents \subseteq Nat BY BillingAssumption
  <2> QED BY <2>1, <2>2
<1>9. hook \in [Hooks -> {NoHook} \cup HookCalls] BY DEF BillingTypeOK, HookCalls
<1>10. \A h \in HooksInFlight : h \in Hooks /\ hook[h] \in HookCalls BY <1>9 DEF HooksInFlight
<1>11. Known \subseteq Events
  <2>1. \A h \in HooksInFlight : hook[h].event \in Events BY <1>10 DEF HookCalls
  <2> QED BY <1>3, <2>1 DEF Known
<1> QED BY <1>1, <1>2, <1>3, <1>4, <1>5, <1>6, <1>7, <1>8, <1>9, <1>10, <1>11

\* A step that takes no row and no paid checkout away, and names no row.
LEMMA OwnersKeep ==
  ASSUME BillingInv, UNCHANGED <<org, hook, told, disorder>>, Held \subseteq Held',
         Held' = Held \/ org = "here",
         \A d \in Checkouts : checkout[d].at = "paid" =>
            checkout'[d].at = "paid" /\ checkout'[d].row = checkout[d].row,
         \A r \in Held : sub'[r].of = sub[r].of,
         \A r \in Held' \ Held : sub'[r].of = Nothing
  PROVE  RowsOwned' /\ HooksKnow' /\ PaidRowTaken'
<1> USE DEF BillingInv
<1>1. RowsOwned'
  <2>1. org' = "gone" => Held' = {} BY DEF RowsOwned
  <2>2. ASSUME NEW r \in Held', sub'[r].of # Nothing
        PROVE  checkout'[sub'[r].of].at = "paid" /\ checkout'[sub'[r].of].row = r
    <3>1. r \in Held /\ sub'[r].of = sub[r].of BY <2>2
    <3>2. sub[r].of \in Checkouts BY <2>2, <3>1, BillingShapes DEF SubRows
    <3>3. checkout[sub[r].of].at = "paid" /\ checkout[sub[r].of].row = r
      BY <2>2, <3>1 DEF RowsOwned
    <3> QED BY <3>1, <3>2, <3>3
  <2> QED BY <2>1, <2>2 DEF RowsOwned
<1>2. HooksKnow'
  <2>1. HooksInFlight' = HooksInFlight BY DEF HooksInFlight
  <2> SUFFICES ASSUME NEW h \in HooksInFlight
               PROVE  /\ org = "here" => DOMAIN hook[h].copy \subseteq Held'
                      /\ hook[h].event.type = "completed" =>
                           /\ DOMAIN hook[h].copy \subseteq {checkout'[hook[h].event.of].row}
                           /\ org = "here" => checkout'[hook[h].event.of].row \in DOMAIN hook[h].copy
                      /\ \A r \in DOMAIN hook[h].copy :
                           r \in Held' /\ hook[h].copy[r].of # Nothing => sub'[r].of # Nothing
    BY <2>1 DEF HooksKnow
  <2>2. hook[h].event \in Known BY DEF Known
  <2>3. hook[h].event.of \in Checkouts BY <2>2, BillingShapes DEF Events
  <2>4. checkout'[hook[h].event.of].row = checkout[hook[h].event.of].row
    BY <2>2, <2>3 DEF EventsNumbered
  <2> QED BY <2>4 DEF HooksKnow
<1>3. PaidRowTaken'
  <2> SUFFICES ASSUME org = "here", NEW d \in Checkouts, told[d] > 0, d \notin disorder
               PROVE  checkout'[d].at = "paid" /\ sub'[checkout'[d].row].of # Nothing
    BY DEF PaidRowTaken
  <2>1. checkout[d].at = "paid" /\ sub[checkout[d].row].of # Nothing BY DEF PaidRowTaken
  <2>2. checkout[d].row \in Held BY <2>1 DEF RowsReserved
  <2> QED BY <2>1, <2>2
<1> QED BY <1>1, <1>2, <1>3

LEMMA RowFindKeeps ==
  ASSUME BillingInv, NEW c \in Checkouts, NEW plan \in Plans, FindSubscription(c, plan)
  PROVE  BillingInv'
<1> USE DEF BillingInv
<1> DEFINE new == [at |-> "found", plan |-> plan, new |-> Held = {},
                   row |-> IF Held = {} THEN Nothing ELSE CHOOSE r \in Held : TRUE]
<1>1. /\ checkout[c] = NoCheckout /\ checkout' = [checkout EXCEPT ![c] = new]
      /\ UNCHANGED <<org, sub, stripe, event, hook, told, disorder, torn>>
  BY DEF FindSubscription, hookVars
<1>2. IF Held = {} THEN new.row = Nothing ELSE new.row \in Held BY Zenon
<1>3. new.new = (Held = {}) /\ new.at = "found" OBVIOUS
<1>4. Held \subseteq Subs BY DEF Held
<1>5. new \in CheckoutCalls
  <2>1. (Held = {}) \in BOOLEAN OBVIOUS
  <2>2. new.row \in Subs \cup {Nothing} BY <1>2, <1>4
  <2> QED BY <2>1, <2>2 DEF CheckoutCalls
<1> HIDE DEF new
<1>6. checkout'[c] = new /\ \A d \in Checkouts \ {c} : checkout'[d] = checkout[d]
  BY <1>1 DEF BillingTypeOK
<1>7. checkout' \in [Checkouts -> {NoCheckout} \cup CheckoutCalls] BY <1>1, <1>5, BillingShapes
<1>8. BillingTypeOK' BY <1>1, <1>7 DEF BillingTypeOK, CheckoutCalls
<1>9. checkout[c].at = "idle" BY <1>1 DEF NoCheckout
<1>10. EventsNumbered'
  <2>1. Known' = Known BY <1>1 DEF Known, HooksInFlight
  <2> QED BY <1>1, <1>3, <1>6, <1>9, <2>1 DEF EventsNumbered
<1>11. RowsFollow' BY <1>1 DEF RowsFollow, Held, Known, HooksInFlight
<1>12. Held' = Held BY <1>1 DEF Held
<1>13. RowsReserved'
  <2>1. \A d \in Checkouts : checkout'[d].at = "flushed" => d # c /\ checkout'[d] = checkout[d]
    BY <1>3, <1>6
  <2>2. \A d \in Checkouts : checkout'[d].at = "flushed" /\ checkout'[d].new =>
          /\ checkout'[d].row \in Subs \ Held
          /\ \A b \in Checkouts \ {d} :
               checkout'[b] # NoCheckout => checkout'[b].row # checkout'[d].row
    <3> SUFFICES ASSUME NEW d \in Checkouts, checkout'[d].at = "flushed", checkout'[d].new
                 PROVE  /\ checkout'[d].row \in Subs \ Held
                        /\ \A b \in Checkouts \ {d} :
                             checkout'[b] # NoCheckout => checkout'[b].row # checkout'[d].row
      OBVIOUS
    <3>1. d # c /\ checkout[d].row \in Subs \ Held /\ checkout'[d] = checkout[d]
      BY <2>1 DEF RowsReserved
    <3>2. new.row # checkout[d].row BY <1>2, <3>1, BillingAssumption
    <3>3. \A b \in Checkouts \ {d} : checkout[b] # NoCheckout => checkout[b].row # checkout[d].row
      BY <2>1 DEF RowsReserved
    <3> QED BY <1>6, <3>1, <3>2, <3>3
  <2>3. org' = "here" => \A d \in Checkouts :
          \/ checkout'[d].at \in {"open", "paid"}
          \/ checkout'[d].at \in {"found", "flushed"} /\ ~checkout'[d].new
          => checkout'[d].row \in Held
    BY <1>1, <1>2, <1>3, <1>6 DEF RowsReserved
  <2> QED BY <1>12, <2>2, <2>3 DEF RowsReserved
<1>14. RowsOwned' /\ HooksKnow' /\ PaidRowTaken' BY <1>1, <1>6, <1>9, <1>12, OwnersKeep
<1> QED BY <1>8, <1>10, <1>11, <1>13, <1>14

\* Steps of a checkout that is not paid, before or after, leave Stripe's numbering.
LEMMA CheckoutStep ==
  ASSUME BillingInv, NEW c \in Checkouts, checkout[c].at \in {"found", "flushed"},
         checkout' \in [Checkouts -> {NoCheckout} \cup CheckoutCalls],
         checkout'[c].at # "paid", \A d \in Checkouts \ {c} : checkout'[d] = checkout[d],
         UNCHANGED <<org, stripe, event, hook, told, disorder, torn>>
  PROVE  /\ EventsNumbered'
         /\ UNCHANGED sub => /\ RowsFollow' /\ BillingTypeOK'
                             /\ RowsOwned' /\ HooksKnow' /\ PaidRowTaken'
<1> USE DEF BillingInv
<1>0. Known' = Known BY DEF Known, HooksInFlight
<1>1. EventsNumbered'
  <2>1. \A e \in Known : e.of # c /\ e.of \in Checkouts BY BillingShapes DEF EventsNumbered, Events
  <2> QED BY <1>0, <2>1 DEF EventsNumbered
<1>2. ASSUME UNCHANGED sub PROVE RowsFollow' BY <1>0, <1>2 DEF RowsFollow, Held
<1>3. ASSUME UNCHANGED sub PROVE RowsOwned' /\ HooksKnow' /\ PaidRowTaken'
  <2>1. Held' = Held BY <1>3 DEF Held
  <2>2. \A d \in Checkouts : checkout[d].at = "paid" => checkout'[d] = checkout[d] OBVIOUS
  <2> QED BY <1>3, <2>1, <2>2, OwnersKeep
<1>4. ASSUME UNCHANGED sub PROVE BillingTypeOK' BY <1>4 DEF BillingTypeOK, CheckoutCalls
<1> QED BY <1>1, <1>2, <1>3, <1>4

LEMMA RowFlushKeeps ==
  ASSUME BillingInv, NEW c \in Checkouts, FlushSubscription(c)
  PROVE  BillingInv'
<1> USE DEF BillingInv
<1>1. checkout[c].at = "found" /\ UNCHANGED <<org, sub, stripe, event, hook, told, disorder, torn>>
  BY DEF FlushSubscription, hookVars
<1>2. checkout[c] \in CheckoutCalls /\ checkout[c] # NoCheckout BY <1>1, BillingShapes DEF NoCheckout
<1>3. Held' = Held BY <1>1 DEF Held
<1>4. PICK row \in Subs \cup {Nothing} :
        /\ checkout' = [checkout EXCEPT ![c].at = "flushed", ![c].row = row]
        /\ \/ checkout[c].new /\ row \in Subs \ (Held \cup Reserved)
           \/ ~checkout[c].new /\ row = checkout[c].row
  <2>1. CASE checkout[c].new BY <2>1 DEF FlushSubscription
  <2>2. CASE ~checkout[c].new
    <3>1. checkout' = [checkout EXCEPT ![c].at = "flushed", ![c].row = checkout[c].row]
      BY <1>2, <2>2 DEF FlushSubscription, CheckoutCalls, BillingTypeOK
    <3> QED BY <1>2, <2>2, <3>1 DEF CheckoutCalls
  <2> QED BY <2>1, <2>2
<1>5. /\ checkout'[c].at = "flushed" /\ checkout'[c].row = row
      /\ checkout'[c].new = checkout[c].new /\ checkout'[c] \in CheckoutCalls
      /\ \A d \in Checkouts \ {c} : checkout'[d] = checkout[d]
  BY <1>2, <1>4 DEF BillingTypeOK, CheckoutCalls
<1>6. checkout' \in [Checkouts -> {NoCheckout} \cup CheckoutCalls]
  <2>1. DOMAIN checkout' = Checkouts BY <1>4 DEF BillingTypeOK
  <2> QED BY <1>4, <1>5, <2>1, BillingShapes
<1>7. /\ EventsNumbered' /\ RowsFollow' /\ BillingTypeOK'
      /\ RowsOwned' /\ HooksKnow' /\ PaidRowTaken'
  BY <1>1, <1>5, <1>6, CheckoutStep
<1>8. RowsReserved'
  <2>1. \A d \in Checkouts : checkout'[d].at = "flushed" /\ checkout'[d].new =>
          /\ checkout'[d].row \in Subs \ Held
          /\ \A b \in Checkouts \ {d} :
               checkout'[b] # NoCheckout => checkout'[b].row # checkout'[d].row
    <3> SUFFICES ASSUME NEW d \in Checkouts, checkout'[d].at = "flushed", checkout'[d].new
                 PROVE  /\ checkout'[d].row \in Subs \ Held
                        /\ \A b \in Checkouts \ {d} :
                             checkout'[b] # NoCheckout => checkout'[b].row # checkout'[d].row
      OBVIOUS
    <3>1. CASE d = c
      <4>1. row \in Subs \ (Held \cup Reserved) BY <1>4, <1>5, <3>1
      <4>2. \A b \in Checkouts \ {c} : checkout[b] # NoCheckout => checkout[b].row # row
        BY <4>1 DEF Reserved
      <4> QED BY <1>5, <3>1, <4>1, <4>2
    <3>2. CASE d # c
      <4>1. checkout'[d] = checkout[d] /\ checkout[d] # NoCheckout BY <1>5, <3>2 DEF NoCheckout
      <4>2. /\ checkout[d].row \in Subs \ Held
            /\ \A b \in Checkouts \ {d} : checkout[b] # NoCheckout => checkout[b].row # checkout[d].row
        BY <4>1 DEF RowsReserved
      <4>3. checkout[d].row # row
        <5>1. checkout[d].row \in Reserved BY <4>1 DEF Reserved
        <5>2. checkout[c].row # checkout[d].row BY <1>2, <3>2, <4>2
        <5> QED BY <1>4, <5>1, <5>2
      <4> QED BY <1>5, <4>1, <4>2, <4>3
    <3> QED BY <3>1, <3>2
  <2>2. org' = "here" => \A d \in Checkouts :
          \/ checkout'[d].at \in {"open", "paid"}
          \/ checkout'[d].at \in {"found", "flushed"} /\ ~checkout'[d].new
          => checkout'[d].row \in Held
    <3> SUFFICES ASSUME org = "here", NEW d \in Checkouts,
                        \/ checkout'[d].at \in {"open", "paid"}
                        \/ checkout'[d].at \in {"found", "flushed"} /\ ~checkout'[d].new
                 PROVE  checkout'[d].row \in Held
      BY <1>1
    <3>1. CASE d = c BY <1>1, <1>4, <1>5, <3>1 DEF RowsReserved
    <3>2. CASE d # c BY <1>5, <3>2 DEF RowsReserved
    <3> QED BY <3>1, <3>2
  <2> QED BY <1>3, <2>1, <2>2 DEF RowsReserved
<1> QED BY <1>7, <1>8

LEMMA CheckoutFailKeeps ==
  ASSUME BillingInv, NEW c \in Checkouts, FailCheckout(c)
  PROVE  BillingInv'
<1> USE DEF BillingInv
<1>1. /\ checkout[c].at \in {"found", "flushed"} /\ checkout' = [checkout EXCEPT ![c].at = "failed"]
      /\ UNCHANGED <<org, sub, stripe, event, hook, told, disorder, torn>>
  BY DEF FailCheckout, hookVars
<1>2. checkout[c] \in CheckoutCalls /\ checkout[c] # NoCheckout BY <1>1, BillingShapes DEF NoCheckout
<1>3. /\ checkout'[c].at = "failed" /\ checkout'[c].row = checkout[c].row
      /\ checkout'[c] \in CheckoutCalls
      /\ \A d \in Checkouts \ {c} : checkout'[d] = checkout[d]
  BY <1>1, <1>2 DEF BillingTypeOK, CheckoutCalls
<1>4. checkout' \in [Checkouts -> {NoCheckout} \cup CheckoutCalls]
  <2>1. DOMAIN checkout' = Checkouts BY <1>1 DEF BillingTypeOK
  <2> QED BY <1>1, <1>3, <2>1, BillingShapes
<1>5. /\ EventsNumbered' /\ RowsFollow' /\ BillingTypeOK'
      /\ RowsOwned' /\ HooksKnow' /\ PaidRowTaken'
  BY <1>1, <1>3, <1>4, CheckoutStep
<1>6. Held' = Held BY <1>1 DEF Held
<1>7. RowsReserved'
  <2>1. \A d \in Checkouts : checkout'[d].at # "failed" => d # c BY <1>3
  <2>2. \A d \in Checkouts : checkout'[d].at = "flushed" /\ checkout'[d].new =>
          /\ checkout'[d].row \in Subs \ Held
          /\ \A b \in Checkouts \ {d} :
               checkout'[b] # NoCheckout => checkout'[b].row # checkout'[d].row
    BY <1>2, <1>3, <2>1 DEF RowsReserved
  <2>3. org' = "here" => \A d \in Checkouts :
          \/ checkout'[d].at \in {"open", "paid"}
          \/ checkout'[d].at \in {"found", "flushed"} /\ ~checkout'[d].new
          => checkout'[d].row \in Held
    BY <1>1, <1>3, <2>1 DEF RowsReserved
  <2> QED BY <1>6, <2>2, <2>3 DEF RowsReserved
<1> QED BY <1>5, <1>7

LEMMA GoneKeeps ==
  ASSUME BillingInv, DropOrganization
  PROVE  BillingInv'
<1> USE DEF BillingInv, DropOrganization, hookVars
<1>1. Held' = {} BY DEF Held
<1>2. BillingTypeOK' BY DEF BillingTypeOK
<1>3. EventsNumbered' BY DEF EventsNumbered, Known, HooksInFlight
<1>4. RowsFollow' BY <1>1 DEF RowsFollow
<1>5. RowsReserved' BY <1>1 DEF RowsReserved
<1>6. RowsOwned' /\ PaidRowTaken' BY <1>1 DEF RowsOwned, PaidRowTaken
<1>7. HooksKnow' BY <1>1 DEF HooksKnow, HooksInFlight
<1> QED BY <1>2, <1>3, <1>4, <1>5, <1>6, <1>7

LEMMA OpenKeeps ==
  ASSUME BillingInv, NEW c \in Checkouts, OpenSession(c)
  PROVE  BillingInv'
<1> USE DEF BillingInv
<1> DEFINE row == checkout[c].row
<1>1. /\ checkout[c].at = "flushed" /\ checkout' = [checkout EXCEPT ![c].at = "open"]
      /\ UNCHANGED <<org, stripe, event, hook, told, disorder, torn>>
  BY DEF OpenSession, hookVars
<1>2. checkout[c] \in CheckoutCalls /\ checkout[c] # NoCheckout BY <1>1, BillingShapes DEF NoCheckout
<1>3. /\ checkout'[c].at = "open" /\ checkout'[c].row = row
      /\ checkout'[c] \in CheckoutCalls
      /\ \A d \in Checkouts \ {c} : checkout'[d] = checkout[d]
  BY <1>1, <1>2 DEF BillingTypeOK, CheckoutCalls
<1>4. checkout' \in [Checkouts -> {NoCheckout} \cup CheckoutCalls]
  <2>1. DOMAIN checkout' = Checkouts BY <1>1 DEF BillingTypeOK
  <2> QED BY <1>1, <1>3, <2>1, BillingShapes
<1>5. /\ EventsNumbered'
      /\ UNCHANGED sub => /\ RowsFollow' /\ BillingTypeOK'
                          /\ RowsOwned' /\ HooksKnow' /\ PaidRowTaken'
  BY <1>1, <1>3, <1>4, CheckoutStep
<1>6. CASE ~checkout[c].new
  <2>1. UNCHANGED sub BY <1>6 DEF OpenSession
  <2>2. Held' = Held BY <2>1 DEF Held
  <2>3. \A d \in Checkouts : checkout'[d].at # "open" => d # c BY <1>3
  <2>4. \A d \in Checkouts : checkout'[d].at = "flushed" /\ checkout'[d].new =>
          /\ checkout'[d].row \in Subs \ Held
          /\ \A b \in Checkouts \ {d} :
               checkout'[b] # NoCheckout => checkout'[b].row # checkout'[d].row
    BY <1>2, <1>3, <2>3 DEF RowsReserved
  <2>5. org' = "here" => \A d \in Checkouts :
          \/ checkout'[d].at \in {"open", "paid"}
          \/ checkout'[d].at \in {"found", "flushed"} /\ ~checkout'[d].new
          => checkout'[d].row \in Held
    <3>1. org = "here" => row \in Held BY <1>1, <1>6 DEF RowsReserved
    <3> QED BY <1>1, <1>3, <3>1 DEF RowsReserved
  <2>6. RowsReserved' BY <2>2, <2>4, <2>5 DEF RowsReserved
  <2> QED BY <1>5, <2>1, <2>6
<1>7. CASE checkout[c].new
  <2>1. /\ row \in Subs \ Held /\ sub' = [sub EXCEPT ![row] = FirstRow]
        /\ \A d \in Checkouts \ {c} : checkout[d] # NoCheckout => checkout[d].row # row
    BY <1>1, <1>7 DEF OpenSession, RowsReserved
  <2> HIDE DEF row
  <2>2. sub'[row] = FirstRow /\ \A r \in Subs \ {row} : sub'[r] = sub[r] BY <2>1 DEF BillingTypeOK
  <2>3. FirstRow # NoSub /\ FirstRow.of = Nothing BY DEF FirstRow, NoSub
  <2>4. Held' = Held \cup {row} BY <2>1, <2>2, <2>3 DEF Held
  <2>5. BillingTypeOK'
    <3>1. FirstRow \in SubRows BY DEF FirstRow, SubRows
    <3>2. sub' \in [Subs -> {NoSub} \cup SubRows] BY <2>1, <3>1, BillingShapes
    <3> QED BY <1>1, <1>4, <3>2 DEF BillingTypeOK, CheckoutCalls, SubRows
  <2>6. RowsFollow'
    <3>1. \A r \in Held : r \in Subs /\ r # row BY <2>1 DEF Held
    <3>2. Known' = Known BY <1>1 DEF Known, HooksInFlight
    <3> QED BY <1>1, <2>2, <2>3, <2>4, <3>1, <3>2 DEF RowsFollow
  <2>7. RowsReserved'
    <3>1. \A d \in Checkouts : checkout'[d].at # "open" => d # c BY <1>3
    <3>2. \A d \in Checkouts : checkout'[d].at = "flushed" /\ checkout'[d].new =>
            /\ checkout'[d].row \in Subs \ Held'
            /\ \A b \in Checkouts \ {d} :
                 checkout'[b] # NoCheckout => checkout'[b].row # checkout'[d].row
      <4> SUFFICES ASSUME NEW d \in Checkouts, checkout'[d].at = "flushed", checkout'[d].new
                   PROVE  /\ checkout'[d].row \in Subs \ Held'
                          /\ \A b \in Checkouts \ {d} :
                               checkout'[b] # NoCheckout => checkout'[b].row # checkout'[d].row
        OBVIOUS
      <4>1. d # c /\ checkout'[d] = checkout[d] /\ checkout[d] # NoCheckout
        BY <1>3, <3>1 DEF NoCheckout
      <4>2. /\ checkout[d].row \in Subs \ Held
            /\ \A b \in Checkouts \ {d} : checkout[b] # NoCheckout => checkout[b].row # checkout[d].row
        BY <4>1 DEF RowsReserved
      <4>3. checkout[d].row # row BY <2>1, <4>1
      <4> QED BY <1>2, <1>3, <2>4, <4>1, <4>2, <4>3 DEF row
    <3>3. org' = "here" => \A d \in Checkouts :
            \/ checkout'[d].at \in {"open", "paid"}
            \/ checkout'[d].at \in {"found", "flushed"} /\ ~checkout'[d].new
            => checkout'[d].row \in Held'
      BY <1>1, <1>3, <2>4 DEF RowsReserved
    <3> QED BY <3>2, <3>3 DEF RowsReserved
  <2>8. RowsOwned' /\ HooksKnow' /\ PaidRowTaken'
    <3>1. org = "here" BY <1>7 DEF OpenSession
    <3>2. \A r \in Held : r \in Subs /\ r # row BY <2>1 DEF Held
    <3>3. \A d \in Checkouts : checkout[d].at = "paid" => checkout'[d] = checkout[d] BY <1>1, <1>3
    <3>4. \A r \in Held' \ Held : sub'[r].of = Nothing BY <2>2, <2>3, <2>4
    <3>5. \A r \in Held : sub'[r] = sub[r] BY <2>2, <3>2
    <3> QED BY <1>1, <2>4, <3>1, <3>3, <3>4, <3>5, OwnersKeep
  <2> QED BY <1>5, <2>5, <2>6, <2>7, <2>8
<1> QED BY <1>2, <1>6, <1>7 DEF CheckoutCalls

\* Stripe's side of an event: it takes the next number and gives the new status.
LEMMA EmitNumbers ==
  ASSUME BillingInv, NEW c \in Checkouts, NEW type \in {"completed", "updated", "deleted"},
         NEW status \in {"active", "past_due", "canceled"}, Emit(c, type, status)
  PROVE  /\ stripe'[c].sent = stripe[c].sent + 1 /\ stripe'[c].status = status
         /\ \A d \in Checkouts \ {c} : stripe'[d] = stripe[d]
         /\ Known' = Known \cup {[type |-> type, of |-> c, n |-> stripe[c].sent + 1,
                                  status |-> status]}
         /\ stripe' \in [Checkouts -> [status : {"none", "active", "past_due", "canceled"},
                                       sent : 0..MaxEvents]]
         /\ event' \subseteq Events
         /\ UNCHANGED <<org, sub, hook, told, disorder, torn>>
<1>1. stripe[c].sent \in 0..MaxEvents /\ stripe[c].sent + 1 \in 1..MaxEvents
  <2>1. stripe[c].sent \in 0..MaxEvents BY BillingShapes DEF BillingInv
  <2>2. stripe[c].sent < MaxEvents BY DEF Emit
  <2> QED BY <2>1, <2>2, BillingAssumption
<1>2. [status |-> status, sent |-> stripe[c].sent + 1]
        \in [status : {"none", "active", "past_due", "canceled"}, sent : 0..MaxEvents]
  BY <1>1, BillingAssumption
<1>3. [type |-> type, of |-> c, n |-> stripe[c].sent + 1, status |-> status] \in Events
  BY <1>1 DEF Events
<1>4. stripe' = [stripe EXCEPT ![c] = [status |-> status, sent |-> stripe[c].sent + 1]]
  BY DEF Emit
<1>5. event' \subseteq Events BY <1>3, BillingShapes DEF BillingInv, Emit
<1>6. Known' = Known \cup {[type |-> type, of |-> c, n |-> stripe[c].sent + 1, status |-> status]}
  BY DEF Emit, hookVars, Known, HooksInFlight
<1> QED BY <1>2, <1>4, <1>5, <1>6 DEF BillingInv, BillingTypeOK, Emit, hookVars

\* What the rows say does not change with a new event: it is ahead of those told.
LEMMA EmitFollows ==
  ASSUME BillingInv, NEW c \in Checkouts, NEW type \in {"completed", "updated", "deleted"},
         NEW status \in {"active", "past_due", "canceled"}, Emit(c, type, status)
  PROVE  RowsFollow'
<1> DEFINE sent == stripe[c].sent
<1>1. /\ stripe'[c].sent = sent + 1 /\ stripe'[c].status = status
      /\ \A d \in Checkouts \ {c} : stripe'[d] = stripe[d]
      /\ Known' = Known \cup {[type |-> type, of |-> c, n |-> sent + 1, status |-> status]}
      /\ UNCHANGED <<org, sub, hook, told, disorder, torn>>
  BY EmitNumbers
<1>2. sent \in Nat /\ told[c] \in Nat /\ told[c] <= sent
  BY BillingShapes, BillingAssumption DEF BillingInv, EventsNumbered
<1> HIDE DEF sent
<1>3. Held' = Held BY <1>1 DEF Held
<1> SUFFICES ASSUME NEW r \in Held \ torn, sub[r].of # Nothing, sub[r].of \notin disorder
             PROVE  /\ told[sub[r].of] > 0
                    /\ \A e \in Known' : e.of = sub[r].of /\ e.n = told[sub[r].of]
                                           => e.status = sub[r].status
                    /\ told[sub[r].of] = stripe'[sub[r].of].sent
                         => sub[r].status = stripe'[sub[r].of].status
  BY <1>1, <1>3 DEF RowsFollow
<1>4. sub[r].of \in Checkouts BY BillingShapes DEF BillingInv, SubRows
<1>5. /\ told[sub[r].of] > 0
      /\ \A e \in Known : e.of = sub[r].of /\ e.n = told[sub[r].of] => e.status = sub[r].status
      /\ told[sub[r].of] = stripe[sub[r].of].sent => sub[r].status = stripe[sub[r].of].status
  BY DEF BillingInv, RowsFollow
<1>6. CASE sub[r].of = c
  <2>1. told[c] # sent + 1 BY <1>2
  <2> QED BY <1>1, <1>5, <1>6, <2>1
<1>7. CASE sub[r].of # c
  <2>1. \A e \in Known' : e.of = sub[r].of => e \in Known BY <1>1, <1>7
  <2> QED BY <1>1, <1>4, <1>5, <1>7, <2>1
<1> QED BY <1>6, <1>7

LEMMA PayKeeps ==
  ASSUME BillingInv, NEW c \in Checkouts, Pay(c)
  PROVE  BillingInv'
<1>1. /\ checkout[c].at = "open" /\ checkout' = [checkout EXCEPT ![c].at = "paid"]
      /\ Emit(c, "completed", "active")
  BY DEF Pay
<1>2. /\ stripe[c] = Unpaid /\ stripe[c].sent = 0 /\ told[c] = 0
  <2>1. stripe[c] = Unpaid /\ told[c] <= stripe[c].sent BY <1>1 DEF BillingInv, EventsNumbered
  <2>2. stripe[c].sent = 0 BY <2>1 DEF Unpaid
  <2>3. told[c] \in Nat BY BillingShapes, BillingAssumption DEF BillingInv
  <2> QED BY <2>1, <2>2, <2>3
<1> DEFINE e0 == [type |-> "completed", of |-> c, n |-> 1, status |-> "active"]
<1>3. /\ stripe'[c].sent = 1 /\ stripe'[c].status = "active"
      /\ \A d \in Checkouts \ {c} : stripe'[d] = stripe[d]
      /\ Known' = Known \cup {e0}
      /\ stripe' \in [Checkouts -> [status : {"none", "active", "past_due", "canceled"},
                                    sent : 0..MaxEvents]]
      /\ event' \subseteq Events
      /\ UNCHANGED <<org, sub, hook, told, disorder, torn>>
  BY <1>1, <1>2, EmitNumbers
<1>4. e0.type = "completed" /\ e0.of = c /\ e0.n = 1 /\ e0.status = "active" OBVIOUS
<1> HIDE DEF e0
<1>5. checkout[c] \in CheckoutCalls BY <1>1, BillingShapes DEF BillingInv
<1>6. /\ checkout'[c].at = "paid" /\ checkout'[c].row = checkout[c].row
      /\ checkout'[c] \in CheckoutCalls
      /\ \A d \in Checkouts \ {c} : checkout'[d] = checkout[d]
  BY <1>1, <1>5 DEF BillingInv, BillingTypeOK, CheckoutCalls
<1>7. checkout' \in [Checkouts -> {NoCheckout} \cup CheckoutCalls]
  <2>1. DOMAIN checkout' = Checkouts BY <1>1 DEF BillingInv, BillingTypeOK
  <2> QED BY <1>1, <1>6, <2>1, BillingShapes DEF BillingInv
<1>8. BillingTypeOK' BY <1>3, <1>7 DEF BillingInv, BillingTypeOK, CheckoutCalls
<1>9. EventsNumbered'
  <2>1. \A e \in Known : e.of \in Checkouts \ {c}
    BY <1>1, BillingShapes DEF BillingInv, EventsNumbered, Events
  <2>2. \A e \in Known' :
          /\ e.n <= stripe'[e.of].sent /\ checkout'[e.of].at = "paid"
          /\ e.n = stripe'[e.of].sent => e.status = stripe'[e.of].status
          /\ e.n = 1 <=> e.type = "completed"
          /\ e.type = "completed" => e.status = "active"
          /\ e.type = "deleted" => e.status = "canceled"
    <3>1. \A e \in Known : e.n = 1 <=> e.type = "completed" BY DEF BillingInv, EventsNumbered
    <3>2. \A e \in Known :
            /\ e.n <= stripe'[e.of].sent /\ checkout'[e.of].at = "paid"
            /\ e.n = stripe'[e.of].sent => e.status = stripe'[e.of].status
            /\ e.type = "completed" => e.status = "active"
            /\ e.type = "deleted" => e.status = "canceled"
      BY <1>3, <1>6, <2>1 DEF BillingInv, EventsNumbered
    <3> QED BY <1>3, <1>4, <1>6, <3>1, <3>2
  <2>3. \A e, f \in Known' : e.of = f.of /\ e.n = f.n => e = f
    BY <1>3, <1>4, <2>1 DEF BillingInv, EventsNumbered
  <2>4. \A d \in Checkouts :
          /\ told'[d] <= stripe'[d].sent
          /\ checkout'[d].at = "paid" => stripe'[d].sent > 0
          /\ checkout'[d].at # "paid" => stripe'[d] = Unpaid
    BY <1>2, <1>3, <1>6 DEF BillingInv, EventsNumbered
  <2> QED BY <2>2, <2>3, <2>4 DEF EventsNumbered
<1>10. RowsFollow' BY <1>1, EmitFollows
<1>11. Held' = Held BY <1>3 DEF Held
<1>12. RowsReserved'
  <2>1. checkout[c] # NoCheckout /\ checkout'[c] # NoCheckout BY <1>1, <1>6 DEF NoCheckout
  <2>2. \A d \in Checkouts : checkout'[d].at # "paid" => d # c BY <1>6
  <2>3. \A d \in Checkouts : checkout'[d].at = "flushed" /\ checkout'[d].new =>
          /\ checkout'[d].row \in Subs \ Held
          /\ \A b \in Checkouts \ {d} :
               checkout'[b] # NoCheckout => checkout'[b].row # checkout'[d].row
    BY <1>6, <2>1, <2>2 DEF BillingInv, RowsReserved
  <2>4. org' = "here" => \A d \in Checkouts :
          \/ checkout'[d].at \in {"open", "paid"}
          \/ checkout'[d].at \in {"found", "flushed"} /\ ~checkout'[d].new
          => checkout'[d].row \in Held
    BY <1>1, <1>3, <1>6 DEF BillingInv, RowsReserved
  <2> QED BY <1>11, <2>3, <2>4 DEF RowsReserved
<1>13. RowsOwned' /\ HooksKnow' /\ PaidRowTaken'
  <2>1. \A d \in Checkouts : checkout[d].at = "paid" => checkout'[d] = checkout[d] BY <1>1, <1>6
  <2> QED BY <1>3, <1>11, <2>1, OwnersKeep
<1> QED BY <1>8, <1>9, <1>10, <1>12, <1>13 DEF BillingInv

\* A renewal and a cancellation, of a subscription that was paid.
LEMMA LaterEventKeeps ==
  ASSUME BillingInv, NEW c \in Checkouts, NEW type \in {"updated", "deleted"},
         NEW status \in {"active", "past_due", "canceled"}, Emit(c, type, status),
         type = "deleted" => status = "canceled", stripe[c].status # "none",
         UNCHANGED checkout
  PROVE  BillingInv'
<1> DEFINE sent == stripe[c].sent
           e0 == [type |-> type, of |-> c, n |-> sent + 1, status |-> status]
<1>1. /\ stripe'[c].sent = sent + 1 /\ stripe'[c].status = status
      /\ \A d \in Checkouts \ {c} : stripe'[d] = stripe[d]
      /\ Known' = Known \cup {e0}
      /\ stripe' \in [Checkouts -> [status : {"none", "active", "past_due", "canceled"},
                                    sent : 0..MaxEvents]]
      /\ event' \subseteq Events
      /\ UNCHANGED <<org, sub, hook, told, disorder, torn>>
  BY EmitNumbers
<1>2. e0.type = type /\ e0.of = c /\ e0.n = sent + 1 /\ e0.status = status OBVIOUS
<1>3. checkout[c].at = "paid" /\ sent > 0 /\ told[c] <= sent
  <2>1. stripe[c] # Unpaid BY DEF Unpaid
  <2> QED BY <2>1 DEF BillingInv, EventsNumbered
<1>4. sent \in Nat /\ told[c] \in Nat BY BillingShapes, BillingAssumption DEF BillingInv
<1>5. \A e \in Known : e.n \in Nat /\ e.of \in Checkouts /\ (e.of = c => e.n <= sent)
  BY BillingShapes, BillingAssumption DEF BillingInv, Events, EventsNumbered
<1> HIDE DEF sent, e0
<1>6. BillingTypeOK' BY <1>1 DEF BillingInv, BillingTypeOK
<1>7. EventsNumbered'
  <2>1. \A e \in Known :
          /\ e.n <= stripe'[e.of].sent /\ checkout'[e.of].at = "paid"
          /\ e.n = stripe'[e.of].sent => e.status = stripe'[e.of].status
          /\ e.n = 1 <=> e.type = "completed"
          /\ e.type = "completed" => e.status = "active"
          /\ e.type = "deleted" => e.status = "canceled"
    <3> SUFFICES ASSUME NEW e \in Known
                 PROVE  /\ e.n <= stripe'[e.of].sent /\ checkout'[e.of].at = "paid"
                        /\ e.n = stripe'[e.of].sent => e.status = stripe'[e.of].status
      BY DEF BillingInv, EventsNumbered
    <3>1. /\ e.n <= stripe[e.of].sent /\ checkout[e.of].at = "paid"
          /\ e.n = stripe[e.of].sent => e.status = stripe[e.of].status
      BY DEF BillingInv, EventsNumbered
    <3>2. CASE e.of = c
      <4>1. e.n <= sent + 1 /\ e.n # sent + 1 BY <1>4, <1>5, <3>2
      <4> QED BY <1>1, <3>1, <3>2, <4>1
    <3>3. CASE e.of # c BY <1>1, <1>5, <3>1, <3>3
    <3> QED BY <3>2, <3>3
  <2>2. /\ e0.n <= stripe'[e0.of].sent /\ checkout'[e0.of].at = "paid"
        /\ e0.n = stripe'[e0.of].sent => e0.status = stripe'[e0.of].status
        /\ e0.n = 1 <=> e0.type = "completed"
        /\ e0.type = "completed" => e0.status = "active"
        /\ e0.type = "deleted" => e0.status = "canceled"
    BY <1>1, <1>2, <1>3, <1>4
  <2>3. \A e \in Known : ~(e.of = e0.of /\ e.n = e0.n)
    <3>1. \A e \in Known : e.of = c => e.n # sent + 1 BY <1>4, <1>5
    <3> QED BY <1>2, <3>1
  <2>4. \A e, f \in Known' : e.of = f.of /\ e.n = f.n => e = f
    BY <1>1, <2>3 DEF BillingInv, EventsNumbered
  <2>5. \A d \in Checkouts :
          /\ told'[d] <= stripe'[d].sent
          /\ checkout'[d].at = "paid" => stripe'[d].sent > 0
          /\ checkout'[d].at # "paid" => stripe'[d] = Unpaid
    <3>1. told[c] <= sent + 1 /\ sent + 1 > 0 BY <1>3, <1>4
    <3> QED BY <1>1, <1>3, <3>1 DEF BillingInv, EventsNumbered
  <2>6. \A e \in Known' :
          /\ e.n <= stripe'[e.of].sent /\ checkout'[e.of].at = "paid"
          /\ e.n = stripe'[e.of].sent => e.status = stripe'[e.of].status
          /\ e.n = 1 <=> e.type = "completed"
          /\ e.type = "completed" => e.status = "active"
          /\ e.type = "deleted" => e.status = "canceled"
    BY <1>1, <2>1, <2>2
  <2> QED BY <2>4, <2>5, <2>6 DEF EventsNumbered
<1>8. RowsFollow' BY EmitFollows
<1>9. Held' = Held BY <1>1 DEF Held
<1>10. RowsReserved' BY <1>1, <1>9 DEF BillingInv, RowsReserved
<1>11. RowsOwned' /\ HooksKnow' /\ PaidRowTaken' BY <1>1, <1>9, OwnersKeep
<1> QED BY <1>6, <1>7, <1>8, <1>10, <1>11 DEF BillingInv

\* Fewer events are known, and nothing else is new.
LEMMA KnownShrinks ==
  ASSUME BillingInv, Known' \subseteq Known, UNCHANGED <<sub, checkout, stripe, told, disorder, torn>>
  PROVE  EventsNumbered' /\ RowsFollow'
<1>1. EventsNumbered' BY DEF BillingInv, EventsNumbered
<1>2. RowsFollow' BY DEF BillingInv, RowsFollow, Held
<1> QED BY <1>1, <1>2

\* A webhook that ends, by its commit or its failure: the others stay.
LEMMA HookEnds ==
  ASSUME BillingInv, NEW h \in HooksInFlight, hook' = [hook EXCEPT ![h] = NoHook], event' \subseteq event
  PROVE  /\ HooksInFlight' = HooksInFlight \ {h} /\ \A g \in HooksInFlight' : hook'[g] = hook[g]
         /\ Known' \subseteq Known /\ event' \subseteq Events
         /\ hook' \in [Hooks -> {NoHook} \cup HookCalls]
<1>1. h \in Hooks /\ hook \in [Hooks -> {NoHook} \cup HookCalls] /\ event \subseteq Events
  BY BillingShapes DEF BillingInv
<1>2. hook'[h] = NoHook /\ \A g \in Hooks \ {h} : hook'[g] = hook[g] BY <1>1
<1>3. HooksInFlight' = HooksInFlight \ {h} BY <1>2 DEF HooksInFlight
<1>4. \A g \in HooksInFlight' : g \in HooksInFlight /\ hook'[g] = hook[g] BY <1>2, <1>3 DEF HooksInFlight
<1>5. Known' \subseteq Known BY <1>4 DEF Known
<1> QED BY <1>1, <1>3, <1>4, <1>5

LEMMA HookFails ==
  ASSUME BillingInv, NEW h \in Hooks, WebhookFails(h)
  PROVE  BillingInv'
<1>1. /\ h \in HooksInFlight /\ hook' = [hook EXCEPT ![h] = NoHook]
      /\ UNCHANGED <<org, sub, checkout, stripe, event, told, disorder, torn>>
  BY DEF WebhookFails, HooksInFlight
<1>2. /\ HooksInFlight' \subseteq HooksInFlight /\ \A g \in HooksInFlight' : hook'[g] = hook[g]
      /\ Known' \subseteq Known /\ hook' \in [Hooks -> {NoHook} \cup HookCalls]
  BY <1>1, HookEnds
<1>3. Held' = Held BY <1>1 DEF Held
<1>4. EventsNumbered' /\ RowsFollow' BY <1>1, <1>2, KnownShrinks
<1>5. BillingTypeOK' BY <1>1, <1>2 DEF BillingInv, BillingTypeOK, HookCalls
<1>6. RowsReserved' /\ RowsOwned' /\ PaidRowTaken'
  BY <1>1, <1>3 DEF BillingInv, RowsReserved, RowsOwned, PaidRowTaken
<1>7. HooksKnow' BY <1>1, <1>2, <1>3 DEF BillingInv, HooksKnow
<1> QED BY <1>4, <1>5, <1>6, <1>7 DEF BillingInv

\* stripe_webhook up to the commit: what it finds is true now.
LEMMA HookReads ==
  ASSUME BillingInv, NEW h \in Hooks, NEW e \in event, WebhookRead(h, e)
  PROVE  BillingInv'
<1> DEFINE k == [event |-> e, copy |-> Found(e)]
<1>1. /\ h \notin HooksInFlight /\ hook' = [hook EXCEPT ![h] = k]
      /\ UNCHANGED <<org, sub, checkout, stripe, event, told, disorder, torn>>
  BY DEF WebhookRead, HooksInFlight
<1>2. e \in Events /\ e.of \in Checkouts /\ e \in Known /\ checkout[e.of].at = "paid"
  BY BillingShapes DEF BillingInv, Events, Known, EventsNumbered
<1>3. Targets(e) \subseteq Held BY DEF Targets, OfStripe
<1>4. DOMAIN Found(e) = Targets(e) /\ \A r \in Targets(e) : Found(e)[r] = sub[r] BY DEF Found
<1>5. k \in HookCalls
  <2>1. Found(e) \in [Targets(e) -> SubRows] /\ Targets(e) \subseteq Subs
    BY <1>3, BillingShapes DEF Found, BillingInv
  <2>2. Found(e) \in Copies BY <2>1 DEF Copies
  <2> QED BY <1>2, <2>2 DEF HookCalls
<1>6. k.event = e /\ k.copy = Found(e) OBVIOUS
<1> HIDE DEF k
<1>7. hook'[h] = k /\ \A g \in Hooks \ {h} : hook'[g] = hook[g]
  BY <1>1, BillingShapes DEF BillingInv
<1>8. \A g \in HooksInFlight' : hook'[g] = k \/ (g \in HooksInFlight /\ hook'[g] = hook[g])
  BY <1>7 DEF HooksInFlight
<1>9. Known' \subseteq Known
  <2>1. \A g \in HooksInFlight' : hook'[g].event \in Known BY <1>2, <1>6, <1>8 DEF Known
  <2> QED BY <1>1, <2>1 DEF Known
<1>10. Held' = Held BY <1>1 DEF Held
<1>11. EventsNumbered' /\ RowsFollow' BY <1>1, <1>9, KnownShrinks
<1>12. BillingTypeOK'
  <2>1. hook' \in [Hooks -> {NoHook} \cup HookCalls] BY <1>1, <1>5, BillingShapes DEF BillingInv
  <2> QED BY <1>1, <2>1 DEF BillingInv, BillingTypeOK, HookCalls
<1>13. RowsReserved' /\ RowsOwned' /\ PaidRowTaken'
  BY <1>1, <1>10 DEF BillingInv, RowsReserved, RowsOwned, PaidRowTaken
<1>14. e.type = "completed" =>
         /\ Targets(e) \subseteq {checkout[e.of].row}
         /\ org = "here" => checkout[e.of].row \in Targets(e)
  <2> SUFFICES ASSUME e.type = "completed"
               PROVE  /\ Targets(e) \subseteq {checkout[e.of].row}
                      /\ org = "here" => checkout[e.of].row \in Targets(e)
    OBVIOUS
  <2>1. CASE org = "here"
    <3>1. checkout[e.of].row \in Held BY <1>2, <2>1 DEF BillingInv, RowsReserved
    <3> QED BY <3>1 DEF Targets
  <2>2. CASE org # "here"
    <3>1. Held = {} BY <2>2 DEF BillingInv, BillingTypeOK, RowsOwned
    <3> QED BY <1>3, <2>2, <3>1
  <2> QED BY <2>1, <2>2
<1>15. HooksKnow'
  <2> SUFFICES ASSUME NEW g \in HooksInFlight'
               PROVE  /\ org = "here" => DOMAIN hook'[g].copy \subseteq Held
                      /\ hook'[g].event.type = "completed" =>
                           /\ DOMAIN hook'[g].copy \subseteq {checkout[hook'[g].event.of].row}
                           /\ org = "here" => checkout[hook'[g].event.of].row \in DOMAIN hook'[g].copy
                      /\ \A r \in DOMAIN hook'[g].copy :
                           r \in Held /\ hook'[g].copy[r].of # Nothing => sub[r].of # Nothing
    BY <1>1, <1>10 DEF HooksKnow
  <2>1. CASE hook'[g] = k BY <1>3, <1>4, <1>6, <1>14, <2>1
  <2>2. CASE g \in HooksInFlight /\ hook'[g] = hook[g] BY <2>2 DEF BillingInv, HooksKnow
  <2> QED BY <1>8, <2>1, <2>2
<1> QED BY <1>11, <1>12, <1>13, <1>15 DEF BillingInv

\* What every commit does: its event's subscription has been told, in order or not.
LEMMA HookTells ==
  ASSUME BillingInv, NEW h \in Hooks, WebhookCommit(h), NEW e, e = hook[h].event
  PROVE  /\ h \in HooksInFlight /\ e \in Known /\ e \in Events /\ e.of \in Checkouts
         /\ e.n \in Nat /\ e.n > 0 /\ checkout[e.of].at = "paid"
         /\ UNCHANGED <<org, checkout, stripe>> /\ event' \subseteq event
         /\ hook' = [hook EXCEPT ![h] = NoHook] /\ Known' \subseteq Known
         /\ told' \in [Checkouts -> 0..MaxEvents] /\ disorder' \subseteq Checkouts
         /\ \A d \in Checkouts \ {e.of} : told'[d] = told[d] /\ (d \in disorder' <=> d \in disorder)
         /\ told'[e.of] <= stripe[e.of].sent
         /\ e.of \notin disorder' => /\ e.of \notin disorder /\ told'[e.of] = e.n
                                     /\ told[e.of] = e.n \/ told[e.of] + 1 = e.n
         /\ EventsNumbered'
<1> DEFINE c == e.of
           t == IF e.n > told[c] THEN e.n ELSE told[c]
<1>1. /\ UNCHANGED <<org, checkout, stripe>> /\ event' \subseteq event
      /\ told' = [told EXCEPT ![c] = t]
      /\ disorder' = IF e.n \in {told[c], told[c] + 1} THEN disorder ELSE disorder \cup {c}
      /\ h \in HooksInFlight /\ hook' = [hook EXCEPT ![h] = NoHook]
  BY DEF WebhookCommit, HooksInFlight
<1>2. e \in Known /\ e \in Events /\ c \in Checkouts /\ e.n \in 1..MaxEvents
  <2>1. e \in Known BY <1>1 DEF Known
  <2> QED BY <2>1, BillingShapes DEF BillingInv, Events
<1>3. /\ e.n \in Nat /\ e.n > 0 /\ told[c] \in Nat /\ stripe[c].sent \in Nat
      /\ t \in 0..MaxEvents
  <2>1. told[c] \in 0..MaxEvents /\ stripe[c].sent \in Nat
    BY <1>2, BillingShapes DEF BillingInv
  <2> QED BY <1>2, <2>1, BillingAssumption
<1>4. told[c] <= stripe[c].sent /\ e.n <= stripe[c].sent /\ t <= stripe[c].sent
      /\ checkout[c].at = "paid"
  BY <1>2 DEF BillingInv, EventsNumbered
<1>5. e.n \in {told[c], told[c] + 1} => t = e.n BY <1>3
<1> HIDE DEF c, t
<1>6. told' \in [Checkouts -> 0..MaxEvents] /\ disorder' \subseteq Checkouts
  BY <1>1, <1>2, <1>3 DEF BillingInv, BillingTypeOK
<1>7. told'[c] = t /\ \A d \in Checkouts \ {c} : told'[d] = told[d]
  BY <1>1, <1>2 DEF BillingInv, BillingTypeOK
<1>8. /\ c \notin disorder' => /\ c \notin disorder /\ told'[c] = e.n
                               /\ told[c] = e.n \/ told[c] + 1 = e.n
      /\ \A d \in Checkouts \ {c} : d \in disorder' <=> d \in disorder
  BY <1>1, <1>5, <1>7
<1>9. Known' \subseteq Known BY <1>1, HookEnds
<1>10. EventsNumbered'
  <2>1. \A d \in Checkouts : told'[d] <= stripe[d].sent
    BY <1>4, <1>7 DEF BillingInv, EventsNumbered
  <2> QED BY <1>1, <1>9, <2>1 DEF BillingInv, EventsNumbered
<1> QED BY <1>1, <1>2, <1>3, <1>4, <1>6, <1>7, <1>8, <1>9, <1>10 DEF c

\* What a handler makes of a row, from whatever copy.
LEMMA HandledRow ==
  ASSUME BillingInv, NEW e \in Known, NEW row \in SubRows
  PROVE  /\ Handled(e, row) \in SubRows /\ Handled(e, row).status = e.status
         /\ Handled(e, row).of = IF e.type = "completed" THEN e.of ELSE row.of
<1>1. /\ e \in Events /\ e.of \in Checkouts /\ checkout[e.of].at = "paid"
      /\ e.type = "completed" => e.status = "active"
      /\ e.type = "deleted" => e.status = "canceled"
  BY BillingShapes DEF BillingInv, EventsNumbered, Events
<1>2. CASE e.type = "completed"
  <2>1. Handled(e, row) = HandleCompleted(e) BY <1>2 DEF Handled
  <2>2. checkout[e.of] \in CheckoutCalls BY <1>1, BillingShapes DEF BillingInv
  <2> QED BY <1>1, <1>2, <2>1, <2>2 DEF HandleCompleted, SubRows, CheckoutCalls
<1>3. CASE e.type = "updated"
  <2>1. Handled(e, row) = HandleUpdated(e, row) BY <1>3 DEF Handled
  <2> QED BY <1>1, <1>3, <2>1 DEF HandleUpdated, SubRows, Events
<1>4. CASE e.type = "deleted"
  <2>1. Handled(e, row) = HandleDeleted(row) BY <1>4 DEF Handled
  <2> QED BY <1>1, <1>4, <2>1 DEF HandleDeleted, SubRows
<1> QED BY <1>1, <1>2, <1>3, <1>4 DEF Events

\* What a commit makes of the rows, its copy true or not.
LEMMA HookWrites ==
  ASSUME BillingInv, NEW h \in Hooks, WebhookCommit(h),
         NEW e, e = hook[h].event, NEW copy, copy = hook[h].copy
  PROVE  /\ Held' = Held /\ sub' \in [Subs -> {NoSub} \cup SubRows]
         /\ \A r \in Held : r \notin DOMAIN copy => sub'[r] = sub[r]
         /\ \A r \in Held : \/ sub'[r].of = sub[r].of
                            \/ /\ sub'[r].of = e.of
                               /\ r \in DOMAIN copy /\ e.type = "completed"
         /\ \A r \in Held : r \in DOMAIN copy /\ copy[r] = sub[r] => sub'[r] = Handled(e, sub[r])
         /\ e.type = "completed" => \A r \in Held : r \in DOMAIN copy => sub'[r].of # Nothing
<1>1. h \in HooksInFlight /\ e \in Known /\ e.of \in Checkouts /\ e.of # Nothing
  BY HookTells, BillingAssumption
<1>2. copy \in Copies BY <1>1, BillingShapes DEF BillingInv, HookCalls
<1>3. \A r \in DOMAIN copy : r \in Subs /\ copy[r] \in SubRows BY <1>2 DEF Copies
<1>4. \A r \in DOMAIN copy : /\ Handled(e, copy[r]) \in SubRows
                             /\ Handled(e, copy[r]).of = IF e.type = "completed" THEN e.of ELSE copy[r].of
  BY <1>1, <1>3, HandledRow
<1> DEFINE dirty == Dirty(hook[h])
<1>5. /\ dirty = {r \in DOMAIN copy : Handled(e, copy[r]) # copy[r]} /\ dirty \subseteq Held
      /\ sub' = [r \in Subs |-> IF r \in dirty THEN Merged(copy[r], Handled(e, copy[r]), sub[r])
                                ELSE sub[r]]
  BY DEF WebhookCommit, Dirty
<1> HIDE DEF dirty
<1>6. \A r \in Held : r \in Subs /\ sub[r] \in SubRows BY BillingShapes DEF BillingInv
<1>7. ASSUME NEW r \in Held, r \in dirty
      PROVE  LET w == Merged(copy[r], Handled(e, copy[r]), sub[r])
                 new == Handled(e, copy[r])
             IN  /\ sub'[r] = w /\ w \in SubRows
                 /\ w.of = IF new.of # copy[r].of THEN new.of ELSE sub[r].of
                 /\ copy[r] = sub[r] => w = new
  <2> DEFINE new == Handled(e, copy[r])
             w == Merged(copy[r], new, sub[r])
  <2>1. sub'[r] = w /\ r \in DOMAIN copy BY <1>5, <1>6, <1>7
  <2>2. new \in SubRows /\ copy[r] \in SubRows /\ sub[r] \in SubRows BY <1>3, <1>4, <1>6, <2>1
  <2> HIDE DEF new
  <2>3. w \in SubRows /\ w.of = IF new.of # copy[r].of THEN new.of ELSE sub[r].of
    BY <2>2 DEF Merged, SubRows
  <2>4. copy[r] = sub[r] => w = new BY <2>2 DEF Merged, SubRows
  <2> QED BY <2>1, <2>3, <2>4 DEF new
<1>8. \A r \in Held : r \notin dirty => sub'[r] = sub[r] BY <1>5, <1>6
<1>9. \A r \in Held : sub'[r] \in SubRows BY <1>6, <1>7, <1>8
<1>10. \A r \in Subs \ Held : sub'[r] = NoSub BY <1>5 DEF Held
<1>11. Held' = Held
  <2>1. NoSub \notin SubRows BY DEF NoSub, SubRows
  <2>2. \A r \in Subs : sub'[r] # NoSub <=> r \in Held BY <1>9, <1>10, <2>1
  <2> QED BY <2>2 DEF Held
<1>12. sub' \in [Subs -> {NoSub} \cup SubRows]
  <2>1. \A r \in Subs : sub'[r] \in {NoSub} \cup SubRows BY <1>9, <1>10
  <2> QED BY <1>5, <2>1
<1>13. \A r \in Held : r \notin DOMAIN copy => sub'[r] = sub[r] BY <1>5, <1>8
<1>14. ASSUME NEW r \in Held
       PROVE  \/ sub'[r].of = sub[r].of
              \/ sub'[r].of = e.of /\ r \in DOMAIN copy /\ e.type = "completed"
  <2>1. CASE r \in dirty
    <3>1. r \in DOMAIN copy BY <1>5, <2>1
    <3> QED BY <1>4, <1>7, <2>1, <3>1
  <2>2. CASE r \notin dirty BY <1>8, <2>2
  <2> QED BY <2>1, <2>2
<1>15. ASSUME NEW r \in Held, r \in DOMAIN copy, copy[r] = sub[r] PROVE sub'[r] = Handled(e, sub[r])
  <2>1. CASE r \in dirty BY <1>7, <1>15, <2>1
  <2>2. CASE r \notin dirty BY <1>5, <1>8, <1>15, <2>2
  <2> QED BY <2>1, <2>2
<1>16. ASSUME e.type = "completed", NEW r \in Held, r \in DOMAIN copy PROVE sub'[r].of # Nothing
  <2>1. Handled(e, copy[r]).of = e.of BY <1>4, <1>16
  <2>2. copy[r].of # Nothing => sub[r].of # Nothing
    BY <1>1, <1>16 DEF BillingInv, HooksKnow
  <2>3. CASE r \in dirty
    <3>1. sub'[r].of = IF e.of # copy[r].of THEN e.of ELSE sub[r].of BY <1>7, <2>1, <2>3
    <3> QED BY <1>1, <2>2, <3>1
  <2>4. CASE r \notin dirty
    <3>1. sub'[r] = sub[r] /\ copy[r].of = e.of BY <1>5, <1>8, <1>16, <2>1, <2>4
    <3> QED BY <1>1, <2>2, <3>1
  <2> QED BY <2>3, <2>4
<1> QED BY <1>11, <1>12, <1>13, <1>14, <1>15, <1>16

\* A row that is not torn follows the event, if it is its subscription's, or does
\* not move.
LEMMA HookFollows ==
  ASSUME BillingInv, NEW h \in Hooks, WebhookCommit(h), NEW e, e = hook[h].event
  PROVE  RowsFollow'
<1> DEFINE copy == hook[h].copy
<1>1. /\ Held' = Held
      /\ \A r \in Held : r \notin DOMAIN copy => sub'[r] = sub[r]
      /\ \A r \in Held : r \in DOMAIN copy /\ copy[r] = sub[r] => sub'[r] = Handled(e, sub[r])
  BY HookWrites
<1>2. /\ e \in Known /\ e.of \in Checkouts /\ e.of # Nothing /\ Known' \subseteq Known
  BY HookTells, BillingAssumption
<1>3. torn' = IF copy = Found(e) THEN torn ELSE torn \cup DOMAIN copy \cup Targets(e)
  BY DEF WebhookCommit
<1>4. DOMAIN Found(e) = Targets(e) /\ \A r \in Targets(e) : Found(e)[r] = sub[r] BY DEF Found
<1> HIDE DEF copy
<1>5. ASSUME NEW r \in Held, r \notin Targets(e) PROVE sub[r].of # e.of
  <2>1. CASE e.type # "completed" BY <1>5, <2>1 DEF Targets, OfStripe
  <2>2. CASE e.type = "completed"
    <3>1. sub[r].of = e.of => checkout[e.of].row = r BY <1>2 DEF BillingInv, RowsOwned
    <3>2. checkout[e.of].row # r BY <1>5, <2>2 DEF Targets
    <3> QED BY <3>1, <3>2
  <2> QED BY <2>1, <2>2
<1>6. ASSUME NEW r \in Held \ torn'
      PROVE  /\ r \notin torn
             /\ \/ sub'[r].of = e.of /\ sub'[r].status = e.status
                \/ sub'[r] = sub[r] /\ sub[r].of # e.of
  <2>1. r \notin torn BY <1>3
  <2>2. CASE r \notin Targets(e)
    <3>1. r \notin DOMAIN copy BY <1>3, <1>4, <1>6, <2>2
    <3> QED BY <1>1, <1>5, <2>1, <2>2, <3>1
  <2>3. CASE r \in Targets(e)
    <3>1. copy = Found(e) BY <1>3, <1>6, <2>3
    <3>2. sub'[r] = Handled(e, sub[r]) BY <1>1, <1>4, <2>3, <3>1
    <3>3. sub[r] \in SubRows BY BillingShapes DEF BillingInv
    <3>4. /\ sub'[r].status = e.status
          /\ sub'[r].of = IF e.type = "completed" THEN e.of ELSE sub[r].of
      BY <1>2, <3>2, <3>3, HandledRow
    <3>5. e.type # "completed" => sub[r].of = e.of BY <2>3 DEF Targets, OfStripe
    <3> QED BY <2>1, <3>4, <3>5
  <2> QED BY <2>2, <2>3
<1> SUFFICES ASSUME NEW r \in Held \ torn', sub'[r].of # Nothing, sub'[r].of \notin disorder'
             PROVE  /\ told'[sub'[r].of] > 0
                    /\ \A f \in Known' : f.of = sub'[r].of /\ f.n = told'[sub'[r].of]
                                           => f.status = sub'[r].status
                    /\ told'[sub'[r].of] = stripe[sub'[r].of].sent
                         => sub'[r].status = stripe[sub'[r].of].status
  BY <1>1, HookTells DEF RowsFollow
<1>7. \A f \in Known : f.of = e.of /\ f.n = e.n => f = e
  BY <1>2 DEF BillingInv, EventsNumbered
<1>8. e.n = stripe[e.of].sent => e.status = stripe[e.of].status
  BY <1>2 DEF BillingInv, EventsNumbered
<1>9. CASE sub'[r].of = e.of /\ sub'[r].status = e.status
  <2>1. told'[e.of] = e.n /\ e.n > 0 BY <1>9, HookTells
  <2> QED BY <1>2, <1>7, <1>8, <1>9, <2>1
<1>10. CASE sub'[r] = sub[r] /\ sub[r].of # e.of
  <2>1. sub[r].of \in Checkouts \ {e.of} BY <1>10, BillingShapes DEF BillingInv, SubRows
  <2>2. sub[r].of \notin disorder /\ told'[sub[r].of] = told[sub[r].of] BY <1>10, <2>1, HookTells
  <2> QED BY <1>2, <1>6, <1>10, <2>1, <2>2 DEF BillingInv, RowsFollow
<1> QED BY <1>6, <1>9, <1>10

LEMMA HookCommits ==
  ASSUME BillingInv, NEW h \in Hooks, WebhookCommit(h)
  PROVE  BillingInv'
<1> DEFINE e == hook[h].event
           copy == hook[h].copy
<1>1. /\ h \in HooksInFlight /\ e \in Known /\ e.of \in Checkouts /\ e.n \in Nat /\ e.n > 0
      /\ checkout[e.of].at = "paid" /\ UNCHANGED <<org, checkout, stripe>> /\ event' \subseteq event
      /\ hook' = [hook EXCEPT ![h] = NoHook] /\ e.of # Nothing
      /\ told' \in [Checkouts -> 0..MaxEvents] /\ disorder' \subseteq Checkouts /\ EventsNumbered'
  BY HookTells, BillingAssumption
<1>2. /\ Held' = Held /\ sub' \in [Subs -> {NoSub} \cup SubRows]
      /\ \A r \in Held : \/ sub'[r].of = sub[r].of
                         \/ sub'[r].of = e.of /\ r \in DOMAIN copy /\ e.type = "completed"
      /\ e.type = "completed" => \A r \in Held : r \in DOMAIN copy => sub'[r].of # Nothing
  BY HookWrites
<1>3. /\ HooksInFlight' = HooksInFlight \ {h} /\ \A g \in HooksInFlight' : hook'[g] = hook[g]
      /\ event' \subseteq Events /\ hook' \in [Hooks -> {NoHook} \cup HookCalls]
  BY <1>1, HookEnds
<1>4. /\ e.type = "completed" => DOMAIN copy \subseteq {checkout[e.of].row}
      /\ e.type = "completed" /\ org = "here" => checkout[e.of].row \in DOMAIN copy
  BY <1>1 DEF BillingInv, HooksKnow
<1>5. torn' \subseteq Subs
  <2>1. copy \in Copies BY <1>1, BillingShapes DEF BillingInv, HookCalls
  <2>2. DOMAIN copy \subseteq Subs BY <2>1 DEF Copies
  <2>3. Targets(e) \subseteq Subs BY DEF Targets, OfStripe, Held
  <2> QED BY <2>2, <2>3 DEF BillingInv, BillingTypeOK, WebhookCommit
<1>6. RowsFollow' BY HookFollows
<1> HIDE DEF e, copy
<1>7. BillingTypeOK'
  BY <1>1, <1>2, <1>3, <1>5 DEF BillingInv, BillingTypeOK, HookCalls
<1>8. RowsReserved' BY <1>1, <1>2 DEF BillingInv, RowsReserved
<1>9. RowsOwned'
  <2>1. org' = "gone" => Held' = {} BY <1>1, <1>2 DEF BillingInv, RowsOwned
  <2>2. ASSUME NEW r \in Held, sub'[r].of # Nothing
        PROVE  checkout[sub'[r].of].at = "paid" /\ checkout[sub'[r].of].row = r
    <3>1. CASE sub'[r].of = sub[r].of BY <2>2, <3>1 DEF BillingInv, RowsOwned
    <3>2. CASE sub'[r].of = e.of /\ r \in DOMAIN copy /\ e.type = "completed"
      BY <1>1, <1>4, <3>2
    <3> QED BY <1>2, <3>1, <3>2
  <2> QED BY <1>1, <1>2, <2>1, <2>2 DEF RowsOwned
<1>10. \A r \in Held : sub[r].of # Nothing => sub'[r].of # Nothing BY <1>1, <1>2
<1>11. HooksKnow' BY <1>1, <1>2, <1>3, <1>10 DEF BillingInv, HooksKnow
<1>12. PaidRowTaken'
  <2> SUFFICES ASSUME org = "here", NEW d \in Checkouts, told'[d] > 0, d \notin disorder'
               PROVE  checkout[d].at = "paid" /\ sub'[checkout[d].row].of # Nothing
    BY <1>1 DEF PaidRowTaken
  <2>1. CASE told[d] > 0 /\ d \notin disorder
    <3>1. checkout[d].at = "paid" /\ sub[checkout[d].row].of # Nothing
      BY <2>1 DEF BillingInv, PaidRowTaken
    <3>2. checkout[d].row \in Held BY <3>1 DEF BillingInv, RowsReserved
    <3> QED BY <1>10, <3>1, <3>2
  <2>2. CASE ~(told[d] > 0 /\ d \notin disorder)
    <3>1. d = e.of BY <2>2, HookTells DEF e
    <3>2. d \notin disorder /\ (told[d] = e.n \/ told[d] + 1 = e.n) BY <3>1, HookTells DEF e
    <3>3. told[d] \in Nat BY BillingShapes DEF BillingInv
    <3>4. e.n = 1 BY <1>1, <2>2, <3>2, <3>3
    <3>5. e.type = "completed" BY <1>1, <3>4 DEF BillingInv, EventsNumbered
    <3>6. checkout[d].row \in Held BY <1>1, <3>1 DEF BillingInv, RowsReserved
    <3> QED BY <1>1, <1>2, <1>4, <3>1, <3>5, <3>6
  <2> QED BY <2>1, <2>2
<1> QED BY <1>1, <1>6, <1>7, <1>8, <1>9, <1>11, <1>12 DEF BillingInv

LEMMA BillingInvStep == BillingInv /\ [BillingNext]_billingVars => BillingInv'
<1> SUFFICES ASSUME BillingInv, [BillingNext]_billingVars PROVE BillingInv'
  OBVIOUS
<1>1. CASE DropOrganization BY <1>1, GoneKeeps
<1>2. CASE \E c \in Checkouts : FlushSubscription(c) \/ OpenSession(c) \/ FailCheckout(c) \/ Pay(c)
  BY <1>2, RowFlushKeeps, OpenKeeps, CheckoutFailKeeps, PayKeeps
<1>3. CASE \E c \in Checkouts, plan \in Plans : FindSubscription(c, plan) BY <1>3, RowFindKeeps
<1>4. CASE \E c \in Checkouts : Cancel(c)
  <2>1. PICK c \in Checkouts : Cancel(c) BY <1>4
  <2>2. stripe[c].status # "none" /\ Emit(c, "deleted", "canceled") /\ UNCHANGED checkout
    BY <2>1 DEF Cancel
  <2> QED BY <2>2, LaterEventKeeps
<1>5. CASE \E c \in Checkouts, status \in {"active", "past_due"} : Renew(c, status)
  <2>1. PICK c \in Checkouts, status \in {"active", "past_due"} : Renew(c, status) BY <1>5
  <2>2. stripe[c].status # "none" /\ Emit(c, "updated", status) /\ UNCHANGED checkout
    BY <2>1 DEF Renew
  <2>3. status \in {"active", "past_due", "canceled"} OBVIOUS
  <2> QED BY <2>2, <2>3, LaterEventKeeps
<1>6. CASE \E h \in Hooks : (\E e \in event : WebhookRead(h, e)) \/ WebhookCommit(h) \/ WebhookFails(h)
  BY <1>6, HookReads, HookCommits, HookFails
<1>7. CASE UNCHANGED billingVars
  <2>1. Known' = Known /\ HooksInFlight' = HooksInFlight /\ Held' = Held
    BY <1>7 DEF billingVars, Known, HooksInFlight, Held
  <2> QED BY <1>7, <2>1 DEF billingVars, BillingInv, BillingTypeOK, EventsNumbered, RowsFollow,
                           RowsReserved, RowsOwned, HooksKnow, PaidRowTaken
<1> QED BY <1>1, <1>2, <1>3, <1>4, <1>5, <1>6, <1>7 DEF BillingNext

LEMMA BillingInvAlways == BillingSpec => []BillingInv
<1>1. BillingInit => BillingInv
  <2> SUFFICES ASSUME BillingInit PROVE BillingInv
    OBVIOUS
  <2>1. \A c \in Checkouts : checkout[c] = NoCheckout /\ checkout[c].at = "idle"
    BY DEF BillingInit, NoCheckout
  <2>2. Held = {} BY DEF BillingInit, Held
  <2>3. BillingTypeOK BY BillingAssumption DEF BillingInit, BillingTypeOK, Unpaid
  <2>4. Known = {} /\ HooksInFlight = {} BY DEF BillingInit, Known, HooksInFlight
  <2>8. EventsNumbered /\ HooksKnow BY <2>1, <2>4 DEF BillingInit, EventsNumbered, HooksKnow, Unpaid
  <2>5. RowsFollow BY <2>2 DEF RowsFollow
  <2>6. RowsReserved BY <2>1 DEF RowsReserved
  <2>7. RowsOwned /\ PaidRowTaken BY <2>2 DEF BillingInit, RowsOwned, PaidRowTaken
  <2> QED BY <2>3, <2>5, <2>6, <2>7, <2>8 DEF BillingInv
<1> QED BY <1>1, BillingInvStep, PTL DEF BillingSpec

\* Rows, checkouts and events are of their types.
THEOREM BillingTypes == BillingSpec => []BillingTypeOK
<1>1. BillingInv => BillingTypeOK BY DEF BillingInv
<1> QED BY <1>1, BillingInvAlways, PTL

(***************************************************************************)
(* A row has the status that Stripe has, once every event of its           *)
(* subscription was handled in order and none of the row's from a copy     *)
(* that was no longer true (routes/billing.py, stripe_webhook): whatever   *)
(* checkouts overlap, and webhooks fail and come again.                    *)
(***************************************************************************)
THEOREM RowsMirrorStripe == BillingSpec => []MirrorsStripe
<1>1. BillingInv => MirrorsStripe BY DEF BillingInv, RowsFollow, MirrorsStripe
<1> QED BY <1>1, BillingInvAlways, PTL

(***************************************************************************)
(* A payment that the webhook was told of, in order, is on its             *)
(* organization's row, or another payment for the same row is: whatever    *)
(* checkouts and webhooks overlapped (routes/billing.py, create_checkout,  *)
(* _handle_checkout_completed).                                            *)
(***************************************************************************)
THEOREM PaymentsServed == BillingSpec => []PaidIsServed
<1>1. BillingInv => PaidIsServed
  <2> SUFFICES ASSUME BillingInv, NEW c \in Checkouts, org = "here", told[c] > 0, c \notin disorder
               PROVE  \E r \in Held : sub[r].of = c \/
                        \E d \in Checkouts \ {c} : sub[r].of = d /\ checkout[d].row = checkout[c].row
    BY DEF PaidIsServed
  <2>1. checkout[c].at = "paid" /\ sub[checkout[c].row].of # Nothing
    BY DEF BillingInv, PaidRowTaken
  <2>2. checkout[c].row \in Held BY <2>1 DEF BillingInv, RowsReserved
  <2>3. sub[checkout[c].row].of \in Checkouts BY <2>1, <2>2, BillingShapes DEF BillingInv, SubRows
  <2>4. checkout[sub[checkout[c].row].of].row = checkout[c].row
    BY <2>1, <2>2 DEF BillingInv, RowsOwned
  <2> QED BY <2>2, <2>3, <2>4
<1> QED BY <1>1, BillingInvAlways, PTL

-----------------------------------------------------------------------------
(* The composition.                                                        *)

(***************************************************************************)
(* Sockets, swarms and subscriptions share no state: a behaviour of all of *)
(* them is one of each, and what is proved of one holds of the             *)
(* specification that is run.                                              *)
(***************************************************************************)
THEOREM OverlapsCompose == OverlapsSpec => HubSpec /\ SwarmSpec /\ BillingSpec
<1>1. OverlapsInit => HubInit /\ SwarmInit /\ BillingInit
  BY DEF OverlapsInit
<1>2. [OverlapsNext]_<<focus, hubVars, swarmVars, billingVars>> =>
        [HubNext]_hubVars /\ [SwarmNext]_swarmVars /\ [BillingNext]_billingVars
  BY DEF OverlapsNext
<1> QED
  BY <1>1, <1>2, PTL DEF OverlapsSpec, HubSpec, SwarmSpec, BillingSpec

(***************************************************************************)
(* The state of the component in focus is of its type.                     *)
(***************************************************************************)
THEOREM OverlapsTypes == OverlapsSpec => []OverlapsTyped
<1>1. OverlapsInit => focus \in {"hub", "swarm", "billing"}
  BY DEF OverlapsInit
<1>2. focus \in {"hub", "swarm", "billing"} /\ [OverlapsNext]_<<focus, hubVars, swarmVars, billingVars>> =>
        (focus \in {"hub", "swarm", "billing"})'
  BY DEF OverlapsNext
<1>3. focus \in {"hub", "swarm", "billing"} /\ HubTypeOK /\ SwarmTypeOK /\ BillingTypeOK
        => OverlapsTyped
  BY DEF OverlapsTyped
<1> QED
  BY <1>1, <1>2, <1>3, OverlapsCompose, HubTypes, SwarmTypes, BillingTypes, PTL DEF OverlapsSpec
=============================================================================

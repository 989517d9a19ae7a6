-------------------------- MODULE RecentChatsProofs --------------------------
(***************************************************************************)
(* Proofs about RecentChats, for any chats, limit, timeouts and bounds:    *)
(* the list and what is stored of it stay bounded, what was used in this   *)
(* run is on top, and a clean-up forgets by when a chat was used.          *)
(*                                                                         *)
(* What a step leaves of the list is a subsequence of it, and a chat is    *)
(* never said to be used later than it was: not in the list, not in the    *)
(* configuration.  Nor is one that is used in this run ever said to be     *)
(* used earlier than one that was used before it.                          *)
(***************************************************************************)
EXTENDS RecentChats, FiniteSetTheorems, SequenceTheorems, TLAPS

-----------------------------------------------------------------------------
(* Recursion.  A set of numbers has a least one: instead of an induction,  *)
(* take the least length at which something would fail.                    *)

LEMMA Least ==
  ASSUME NEW T \in SUBSET Nat, T # {}
  PROVE  \E x \in T : \A y \in T : x <= y
<1> DEFINE Below(n) == {k \in Nat : k < n}
           W == {Below(n) : n \in T}
<1>1. IsWellFoundedOn(StrictSubsetOrdering(Nat), FiniteSubsetsOf(Nat))
  BY FS_StrictSubsetOrderingWellFounded
<1>2. W \subseteq FiniteSubsetsOf(Nat) /\ W # {}
  <2>1. ASSUME NEW n \in T PROVE Below(n) \in SUBSET Nat /\ IsFiniteSet(Below(n))
    <3>1. IsFiniteSet(0..n) /\ Below(n) \in SUBSET (0..n)
      BY FS_Interval
    <3> QED BY <3>1, FS_Subset
  <2> QED BY <2>1 DEF FiniteSubsetsOf
<1>3. PICK w \in W : \A v \in W : <<v, w>> \notin StrictSubsetOrdering(Nat)
  <2> HIDE DEF W
  <2> QED BY <1>1, <1>2, WFMin
<1>4. PICK x \in T : w = Below(x)
  OBVIOUS
<1>5. ASSUME NEW y \in T, y < x PROVE FALSE
  <2>1. Below(y) \subseteq Below(x) /\ y \in Below(x) /\ y \notin Below(y)
    BY <1>5
  <2>2. <<Below(y), Below(x)>> \in StrictSubsetOrdering(Nat)
    <3>1. Below(y) # Below(x)
      BY <2>1
    <3> QED BY <2>1, <3>1 DEF StrictSubsetOrdering
  <2>3. Below(y) \in W
    OBVIOUS
  <2> QED BY <1>3, <1>4, <2>2, <2>3
<1> QED BY <1>5

Inductive(P, N) == 0 \in P /\ \A n \in 1..N : n - 1 \in P => n \in P

\* Induction up to N, for a set of numbers.
LEMMA UpTo ==
  ASSUME NEW N \in Nat, NEW P, Inductive(P, N)
  PROVE  \A n \in 0..N : n \in P
<1> USE DEF Inductive
<1> DEFINE T == {n \in 0..N : n \notin P}
<1>1. CASE T = {}
  BY <1>1
<1>2. CASE T # {}
  <2>1. PICK x \in T : \A y \in T : x <= y
    <3>1. T \in SUBSET Nat
      OBVIOUS
    <3> HIDE DEF T
    <3> QED BY <3>1, <1>2, Least
  <2>2. x \in 1..N /\ x - 1 \in 0..N
    BY <2>1
  <2>3. x - 1 \notin T
    BY <2>1, <2>2
  <2> QED BY <2>1, <2>2, <2>3
<1> QED BY <1>1, <1>2

\* f is what N steps make of base.
Iterates(f, step, base, S, N) ==
  /\ f \in [0..N -> S] /\ f[0] = base
  /\ \A n \in 1..N : f[n] = step[n][f[n - 1]]

\* Steps within a set can be iterated in it.
LEMMA IterationExists ==
  ASSUME NEW S, NEW base \in S, NEW M \in Nat, NEW step \in [1..M -> [S -> S]]
  PROVE  \E f : Iterates(f, step, base, S, M)
<1> DEFINE P == {n \in 0..M : \E f : Iterates(f, step, base, S, n)}
<1>1. 0 \in P
  <2> DEFINE f == [n \in 0..0 |-> base]
  <2>1. Iterates(f, step, base, S, 0)
    BY DEF Iterates
  <2> QED BY <2>1
<1>2. ASSUME NEW x \in 1..M, x - 1 \in P PROVE x \in P
  <2>1. PICK f : Iterates(f, step, base, S, x - 1)
    BY <1>2
  <2>2. /\ f \in [0..(x - 1) -> S] /\ f[0] = base
        /\ \A n \in 1..(x - 1) : f[n] = step[n][f[n - 1]]
    BY <2>1 DEF Iterates
  <2> DEFINE g == [n \in 0..x |-> IF n = x THEN step[x][f[x - 1]] ELSE f[n]]
  <2>3. step[x][f[x - 1]] \in S
    <3>1. f[x - 1] \in S /\ step[x] \in [S -> S]
      BY <2>2
    <3> QED BY <3>1
  <2>4. g \in [0..x -> S] /\ g[0] = base
    BY <2>2, <2>3
  <2>5. ASSUME NEW n \in 1..x PROVE g[n] = step[n][g[n - 1]]
    <3>1. n - 1 \in 0..(x - 1) /\ g[n - 1] = f[n - 1]
      OBVIOUS
    <3>2. CASE n = x
      BY <3>1, <3>2
    <3>3. CASE n # x
      <4>1. n \in 1..(x - 1) /\ g[n] = f[n]
        BY <3>3
      <4> QED BY <2>2, <3>1, <4>1
    <3> QED BY <3>2, <3>3
  <2>6. Iterates(g, step, base, S, x)
    BY <2>4, <2>5 DEF Iterates
  <2> QED BY <2>6
<1> HIDE DEF P
<1>3. Inductive(P, M)
  BY <1>1, <1>2 DEF Inductive
<1>4. M \in P
  BY <1>3, UpTo
<1> QED BY <1>4 DEF P

-----------------------------------------------------------------------------
(* What is kept of a list.                                                 *)

\* The function Kept computes.
IsKept(f, list, gone, N) ==
  f = [n \in 0..N |->
        IF n = 0 THEN <<>>
        ELSE IF list[n] \in gone THEN f[n - 1] ELSE Append(f[n - 1], list[n])]

LEMMA KeptFunction ==
  ASSUME NEW C, NEW list \in Seq(C), NEW gone
  PROVE  \E f : IsKept(f, list, gone, Len(list)) /\ Kept(list, gone) = f[Len(list)]
<1> DEFINE N == Len(list)
           S == Seq(C)
           step == [n \in 1..N |->
                     [s \in S |-> IF list[n] \in gone THEN s ELSE Append(s, list[n])]]
<1>1. N \in Nat /\ <<>> \in S /\ \A n \in 1..N : list[n] \in C
  OBVIOUS
<1>2. step \in [1..N -> [S -> S]]
  <2>1. ASSUME NEW n \in 1..N, NEW s \in S
        PROVE  (IF list[n] \in gone THEN s ELSE Append(s, list[n])) \in S
    BY <1>1
  <2> QED BY <2>1
<1>3. PICK f : Iterates(f, step, <<>>, S, N)
  <2> HIDE DEF step, S, N
  <2> QED BY <1>1, <1>2, IterationExists
<1>4. /\ f \in [0..N -> S] /\ f[0] = <<>>
      /\ \A n \in 1..N : f[n] = step[n][f[n - 1]]
  BY <1>3 DEF Iterates
<1> HIDE DEF N
<1>5. ASSUME NEW n \in 1..N
      PROVE  f[n] = IF list[n] \in gone THEN f[n - 1] ELSE Append(f[n - 1], list[n])
  <2>1. f[n - 1] \in S
    BY <1>1, <1>4
  <2> QED BY <1>4, <2>1
<1>6. ASSUME NEW n \in 0..N
      PROVE  f[n] = IF n = 0 THEN <<>>
                    ELSE IF list[n] \in gone THEN f[n - 1] ELSE Append(f[n - 1], list[n])
  <2>1. CASE n = 0
    BY <1>4, <2>1
  <2>2. CASE n # 0
    <3>1. n \in 1..N
      BY <1>1, <2>2
    <3> QED BY <1>5, <2>2, <3>1
  <2> QED BY <2>1, <2>2
<1>7. IsKept(f, list, gone, N)
  BY <1>4, <1>6 DEF IsKept
<1> QED BY <1>7, Zenon DEF Kept, IsKept, N

KeptAt(f, list, gone, n) ==
  f[n] = IF n = 0 THEN <<>>
         ELSE IF list[n] \in gone THEN f[n - 1] ELSE Append(f[n - 1], list[n])

\* Where the elements of s come from in list, up to the n-th.
Embeds(e, s, list, n) ==
  /\ e \in [1..Len(s) -> 1..n]
  /\ \A i \in 1..Len(s) : s[i] = list[e[i]]
  /\ \A i, j \in 1..Len(s) : i < j => e[i] < e[j]

Part(s, list, gone, n, C) ==
  /\ s \in Seq(C) /\ Len(s) <= n
  /\ \A i \in 1..Len(s) : s[i] \notin gone
  /\ \E e : Embeds(e, s, list, n)

LEMMA PartDropped ==
  ASSUME NEW C, NEW s, NEW list, NEW gone, NEW n \in Nat, n # 0, Part(s, list, gone, n - 1, C)
  PROVE  Part(s, list, gone, n, C)
<1>1. PICK e : Embeds(e, s, list, n - 1)
  BY DEF Part
<1>2. Len(s) \in Nat
  BY DEF Part
<1>3. Embeds(e, s, list, n)
  BY <1>1, <1>2 DEF Embeds
<1> QED BY <1>2, <1>3 DEF Part

LEMMA PartAppended ==
  ASSUME NEW C, NEW s, NEW list \in Seq(C), NEW gone, NEW n \in 1..Len(list),
         Part(s, list, gone, n - 1, C), list[n] \notin gone
  PROVE  Part(Append(s, list[n]), list, gone, n, C)
<1> DEFINE x == list[n]
           l == Append(s, x)
<1>1. PICK e : Embeds(e, s, list, n - 1)
  BY DEF Part
<1>2. /\ s \in Seq(C) /\ Len(s) \in Nat /\ Len(s) <= n - 1 /\ x \in C
      /\ \A i \in 1..Len(s) : s[i] \notin gone
  BY DEF Part
<1>3. /\ l \in Seq(C) /\ Len(l) = Len(s) + 1 /\ l[Len(s) + 1] = x
      /\ \A i \in 1..Len(s) : l[i] = s[i]
  <2> HIDE DEF x
  <2> QED BY <1>2, AppendProperties
<1>4. /\ e \in [1..Len(s) -> 1..(n - 1)]
      /\ \A i \in 1..Len(s) : s[i] = list[e[i]]
      /\ \A i, j \in 1..Len(s) : i < j => e[i] < e[j]
  BY <1>1 DEF Embeds
<1> DEFINE d == [i \in 1..(Len(s) + 1) |-> IF i = Len(s) + 1 THEN n ELSE e[i]]
<1> HIDE DEF l
<1>5. \A i \in 1..(Len(s) + 1) : d[i] = IF i = Len(s) + 1 THEN n ELSE e[i]
  OBVIOUS
<1>6. d \in [1..(Len(s) + 1) -> 1..n]
  BY <1>2, <1>4
<1> HIDE DEF d
<1>7. ASSUME NEW i \in 1..Len(l) PROVE l[i] = list[d[i]] /\ l[i] \notin gone
  <2>1. CASE i = Len(s) + 1
    BY <1>2, <1>3, <1>5, <2>1
  <2>2. CASE i # Len(s) + 1
    <3>1. i \in 1..Len(s) /\ d[i] = e[i]
      BY <1>2, <1>3, <1>5, <2>2
    <3> QED BY <1>2, <1>3, <1>4, <3>1
  <2> QED BY <2>1, <2>2
<1>8. ASSUME NEW i \in 1..Len(l), NEW j \in 1..Len(l), i < j PROVE d[i] < d[j]
  <2>0. i \in 1..Len(s)
    BY <1>2, <1>3, <1>8
  <2>1. i \in 1..Len(s) /\ d[i] = e[i] /\ e[i] \in 1..(n - 1)
    <3>1. i \in 1..(Len(s) + 1) /\ i # Len(s) + 1
      BY <1>2, <2>0
    <3> QED BY <1>4, <1>5, <2>0, <3>1
  <2>2. CASE j = Len(s) + 1
    BY <1>2, <1>3, <1>5, <2>1, <2>2
  <2>3. CASE j # Len(s) + 1
    <3>1. j \in 1..Len(s) /\ d[j] = e[j]
      BY <1>2, <1>3, <1>5, <2>3
    <3> QED BY <1>4, <1>8, <2>1, <3>1
  <2> QED BY <2>2, <2>3
<1>9. Embeds(d, l, list, n)
  BY <1>3, <1>6, <1>7, <1>8 DEF Embeds
<1>10. Part(l, list, gone, n, C)
  BY <1>2, <1>3, <1>7, <1>9 DEF Part
<1> QED BY <1>10 DEF l

\* What is kept is the rest of the list, in its order.
LEMMA KeptIsPart ==
  ASSUME NEW C, NEW list \in Seq(C), NEW gone
  PROVE  Part(Kept(list, gone), list, gone, Len(list), C)
<1> DEFINE N == Len(list)
<1>1. PICK f : IsKept(f, list, gone, N) /\ Kept(list, gone) = f[N]
  BY KeptFunction
<1>2. N \in Nat
  OBVIOUS
<1>3. \A n \in 0..N : KeptAt(f, list, gone, n)
  BY <1>1, Zenon DEF IsKept, KeptAt
<1> DEFINE P == {n \in 0..N : Part(f[n], list, gone, n, C)}
<1>4. 0 \in P
  <2>1. f[0] = <<>>
    BY <1>2, <1>3 DEF KeptAt
  <2>2. Embeds(<<>>, <<>>, list, 0)
    BY DEF Embeds
  <2>3. Part(<<>>, list, gone, 0, C)
    BY <2>2 DEF Part
  <2> QED BY <1>2, <2>1, <2>3
<1>5. ASSUME NEW n \in 1..N, n - 1 \in P PROVE n \in P
  <2>1. Part(f[n - 1], list, gone, n - 1, C) /\ KeptAt(f, list, gone, n) /\ n \in Nat /\ n # 0
    BY <1>2, <1>3, <1>5
  <2>2. CASE list[n] \in gone
    BY <2>1, <2>2, PartDropped DEF KeptAt
  <2>3. CASE list[n] \notin gone
    <3> DEFINE start == f[n - 1]
    <3>1. f[n] = Append(start, list[n])
      BY <2>1, <2>3 DEF KeptAt
    <3>2. Part(start, list, gone, n - 1, C) /\ n \in 1..Len(list)
      BY <2>1
    <3> HIDE DEF start
    <3>3. Part(Append(start, list[n]), list, gone, n, C)
      BY <2>3, <3>2, PartAppended
    <3>4. Part(f[n], list, gone, n, C)
      BY <3>1, <3>3
    <3> QED BY <3>4
  <2> QED BY <2>2, <2>3
<1> HIDE DEF P, N
<1>6. Inductive(P, N)
  BY <1>4, <1>5 DEF Inductive
<1>7. N \in P
  BY <1>2, <1>6, UpTo
<1> QED BY <1>1, <1>7 DEF P, N

-----------------------------------------------------------------------------
(* Lists of chats.                                                         *)

Distinct(l) == \A i, j \in 1..Len(l) : i # j => l[i] # l[j]

\* The chats used after start come first, the last used before all others.
OrderedBy(l, use, start) ==
  \A i, j \in 1..Len(l) : i < j /\ use[l[j]] > start => use[l[i]] > use[l[j]]

Sub(s, l) == \E e : Embeds(e, s, l, Len(l))

Listed(l) == {l[i] : i \in 1..Len(l)}

\* A chat used later than another one used after start has a time later than that.
Timed(r, use, start) ==
  \A c, d \in Listed(r.list) :
    use[d] > start /\ use[d] < use[c] => r.time[c] > use[d]

LEMMA SubKeeps ==
  ASSUME NEW s \in Seq(Chats), NEW l \in Seq(Chats), Sub(s, l)
  PROVE  /\ Distinct(l) => Distinct(s)
         /\ \A use, start : OrderedBy(l, use, start) => OrderedBy(s, use, start)
         /\ \A i \in 1..Len(s) : \E k \in 1..Len(l) : s[i] = l[k]
<1>1. PICK e : Embeds(e, s, l, Len(l))
  BY DEF Sub
<1>2. /\ \A i \in 1..Len(s) : e[i] \in 1..Len(l) /\ s[i] = l[e[i]]
      /\ \A i, j \in 1..Len(s) : i < j => e[i] < e[j]
  BY <1>1 DEF Embeds
<1>3. Len(s) \in Nat /\ Len(l) \in Nat
  OBVIOUS
<1>4. ASSUME NEW i \in 1..Len(s), NEW j \in 1..Len(s), i # j PROVE e[i] # e[j]
  <2>1. i < j \/ j < i
    BY <1>3, <1>4
  <2>2. e[i] < e[j] \/ e[j] < e[i]
    BY <1>2, <2>1
  <2> QED BY <1>2, <1>3, <2>2
<1>5. Distinct(l) => Distinct(s)
  BY <1>2, <1>4 DEF Distinct
<1>6. ASSUME NEW use, NEW start, OrderedBy(l, use, start) PROVE OrderedBy(s, use, start)
  <2>1. ASSUME NEW i \in 1..Len(s), NEW j \in 1..Len(s), i < j, use[s[j]] > start
        PROVE  use[s[i]] > use[s[j]]
    <3>1. /\ e[i] \in 1..Len(l) /\ e[j] \in 1..Len(l) /\ e[i] < e[j]
          /\ s[i] = l[e[i]] /\ s[j] = l[e[j]]
      BY <1>2, <2>1
    <3> QED BY <1>6, <2>1, <3>1 DEF OrderedBy
  <2> QED BY <2>1 DEF OrderedBy
<1> QED BY <1>2, <1>5, <1>6

LEMMA SubTransitive ==
  ASSUME NEW s \in Seq(Chats), NEW t \in Seq(Chats), NEW l \in Seq(Chats), Sub(s, t), Sub(t, l)
  PROVE  Sub(s, l)
<1>1. PICK d : Embeds(d, s, t, Len(t))
  BY DEF Sub
<1>2. PICK e : Embeds(e, t, l, Len(l))
  BY DEF Sub
<1>3. /\ \A i \in 1..Len(s) : d[i] \in 1..Len(t) /\ s[i] = t[d[i]]
      /\ \A i, j \in 1..Len(s) : i < j => d[i] < d[j]
      /\ \A i \in 1..Len(t) : e[i] \in 1..Len(l) /\ t[i] = l[e[i]]
      /\ \A i, j \in 1..Len(t) : i < j => e[i] < e[j]
  BY <1>1, <1>2 DEF Embeds
<1> DEFINE f == [i \in 1..Len(s) |-> e[d[i]]]
<1>4. \A i \in 1..Len(s) : f[i] = e[d[i]]
  OBVIOUS
<1>5. f \in [1..Len(s) -> 1..Len(l)]
  BY <1>3
<1> HIDE DEF f
<1>6. Embeds(f, s, l, Len(l))
  BY <1>3, <1>4, <1>5 DEF Embeds
<1> QED BY <1>6 DEF Sub

\* A list that is cut to make room.
LEMMA LimitedIsSub ==
  ASSUME NEW l \in Seq(Chats)
  PROVE  /\ Limited(l) \in Seq(Chats) /\ Len(Limited(l)) <= MaxRecentChatCount - 1
         /\ Sub(Limited(l), l)
<1>0. Len(l) \in Nat /\ MaxRecentChatCount \in Nat \ {0}
  BY RecentAssumption DEF RecentAssumption
<1>1. CASE Len(l) < MaxRecentChatCount
  <2>1. Limited(l) = l
    BY <1>1 DEF Limited
  <2> DEFINE e == [i \in 1..Len(l) |-> i]
  <2>2. Embeds(e, l, l, Len(l))
    BY DEF Embeds
  <2> QED BY <1>0, <1>1, <2>1, <2>2 DEF Sub
<1>2. CASE ~(Len(l) < MaxRecentChatCount)
  <2> DEFINE n == MaxRecentChatCount - 1
  <2>1. n \in Nat /\ n \in Int /\ 1 \in Int /\ n <= Len(l) /\ \A i \in 1..n : l[i] \in Chats
    BY <1>0, <1>2
  <2>2. Limited(l) = SubSeq(l, 1, n)
    BY <1>2 DEF Limited
  <2> HIDE DEF n
  <2>3. /\ SubSeq(l, 1, n) \in Seq(Chats)
        /\ Len(SubSeq(l, 1, n)) = IF 1 <= n THEN n - 1 + 1 ELSE 0
        /\ \A i \in 1..(n - 1 + 1) : SubSeq(l, 1, n)[i] = l[1 + i - 1]
    BY <2>1, SubSeqProperties
  <2>4. Len(Limited(l)) = n
    <3>1. (IF 1 <= n THEN n - 1 + 1 ELSE 0) = n
      BY <2>1
    <3> QED BY <2>2, <2>3, <3>1, Zenon
  <2>5. ASSUME NEW i \in 1..n PROVE Limited(l)[i] = l[i]
    <3>1. i \in 1..(n - 1 + 1) /\ 1 + i - 1 = i
      BY <2>1
    <3> QED BY <2>2, <2>3, <3>1
  <2> DEFINE e == [i \in 1..n |-> i]
  <2>6. e \in [1..n -> 1..Len(l)] /\ \A i \in 1..n : e[i] = i
    BY <1>0, <2>1
  <2> HIDE DEF e
  <2>7. Embeds(e, Limited(l), l, Len(l))
    BY <1>0, <2>1, <2>4, <2>5, <2>6 DEF Embeds
  <2> QED BY <2>1, <2>2, <2>3, <2>4, <2>7 DEF Sub, n
<1> QED BY <1>1, <1>2

LEMMA KeptIsSub ==
  ASSUME NEW l \in Seq(Chats), NEW gone
  PROVE  /\ Kept(l, gone) \in Seq(Chats) /\ Len(Kept(l, gone)) <= Len(l)
         /\ \A i \in 1..Len(Kept(l, gone)) : Kept(l, gone)[i] \notin gone
         /\ Sub(Kept(l, gone), l)
BY KeptIsPart DEF Part, Sub

\* Nothing else is dropped.
LEMMA KeptHasRest ==
  ASSUME NEW l \in Seq(Chats), NEW gone, NEW i \in 1..Len(l), l[i] \notin gone
  PROVE  \E k \in 1..Len(Kept(l, gone)) : Kept(l, gone)[k] = l[i]
<1> DEFINE N == Len(l)
<1>1. PICK f : IsKept(f, l, gone, N) /\ Kept(l, gone) = f[N]
  BY KeptFunction
<1>2. N \in Nat /\ \A n \in 1..N : l[n] \in Chats
  OBVIOUS
<1>3. \A n \in 0..N : KeptAt(f, l, gone, n)
  BY <1>1, Zenon DEF IsKept, KeptAt
<1> DEFINE Has(s) == s \in Seq(Chats) /\ \E k \in 1..Len(s) : s[k] = l[i]
           P == {n \in 0..N : f[n] \in Seq(Chats) /\ (n >= i => Has(f[n]))}
<1>4. 0 \in P
  <2>1. f[0] = <<>> /\ 0 \in 0..N
    BY <1>2, <1>3 DEF KeptAt
  <2>2. ~(0 >= i) /\ f[0] \in Seq(Chats)
    BY <1>2, <2>1
  <2> QED BY <2>1, <2>2
<1>5. ASSUME NEW n \in 1..N, n - 1 \in P PROVE n \in P
  <2> DEFINE s == f[n - 1]
  <2>1. s \in Seq(Chats) /\ (n - 1 >= i => Has(s)) /\ KeptAt(f, l, gone, n) /\ n # 0
    BY <1>2, <1>3, <1>5
  <2>2. f[n] = IF l[n] \in gone THEN s ELSE Append(s, l[n])
    BY <2>1 DEF KeptAt
  <2> HIDE DEF s
  <2>3. CASE l[n] \in gone
    <3>1. n >= i => n - 1 >= i
      BY <1>2, <2>3
    <3> QED BY <2>1, <2>2, <2>3, <3>1
  <2>4. CASE l[n] \notin gone
    <3> DEFINE x == l[n]
               a == Append(s, x)
    <3>1. x \in Chats /\ f[n] = a
      BY <1>2, <2>2, <2>4
    <3> HIDE DEF x
    <3>2. /\ a \in Seq(Chats) /\ Len(a) = Len(s) + 1 /\ a[Len(s) + 1] = x
          /\ \A k \in 1..Len(s) : a[k] = s[k]
      BY <2>1, <3>1, AppendProperties
    <3>3. Len(s) \in Nat
      BY <2>1
    <3> HIDE DEF a
    <3>4. CASE n = i
      <4>1. Len(s) + 1 \in 1..Len(a) /\ a[Len(s) + 1] = l[i]
        BY <3>2, <3>3, <3>4 DEF x
      <4> QED BY <3>1, <3>2, <4>1
    <3>5. CASE n # i
      <4>1. n >= i => n - 1 >= i
        BY <1>2, <3>5
      <4>2. Has(s) => Has(a)
        <5> SUFFICES ASSUME Has(s) PROVE Has(a)
          OBVIOUS
        <5>1. PICK k \in 1..Len(s) : s[k] = l[i]
          OBVIOUS
        <5>2. k \in 1..Len(a) /\ a[k] = l[i]
          BY <3>2, <3>3, <5>1
        <5> QED BY <3>2, <5>2
      <4> QED BY <2>1, <3>1, <3>2, <4>1, <4>2
    <3> QED BY <3>4, <3>5
  <2> QED BY <2>3, <2>4
<1> HIDE DEF P, N
<1>6. Inductive(P, N)
  BY <1>4, <1>5 DEF Inductive
<1>7. N \in P
  BY <1>2, <1>6, UpTo
<1>8. i <= N
  BY <1>2 DEF N
<1> QED BY <1>1, <1>2, <1>7, <1>8 DEF P, N

-----------------------------------------------------------------------------
(* Adding a chat.                                                          *)

Record == [list : Seq(Chats), time : [Chats -> Times]]

\* Recent chats as they should be, given when the chats were used.
Good(r, use) ==
  /\ r \in Record
  /\ Distinct(r.list) /\ Len(r.list) <= MaxRecentChatCount
  /\ \A c \in Chats : r.time[c] <= use[c]

\* What of a list is left below a chat that gets on top of it.
Below(rest, l, chat) ==
  /\ rest \in Seq(Chats) /\ Len(rest) <= MaxRecentChatCount - 1
  /\ \A i \in 1..Len(rest) : rest[i] # chat
  /\ Sub(rest, l)

LEMMA RestIsBelow ==
  ASSUME NEW l \in Seq(Chats), NEW chat \in Chats
  PROVE  Below(Limited(Kept(l, {chat})), l, chat)
<1> DEFINE k == Kept(l, {chat})
<1>1. /\ k \in Seq(Chats) /\ \A i \in 1..Len(k) : k[i] # chat
      /\ Sub(k, l)
  <2> DEFINE gone == {chat}
  <2>1. \A i \in 1..Len(Kept(l, gone)) : Kept(l, gone)[i] \notin gone
    <3> HIDE DEF gone
    <3> QED BY KeptIsSub
  <2> QED BY <2>1, KeptIsSub
<1> HIDE DEF k
<1>2. /\ Limited(k) \in Seq(Chats) /\ Len(Limited(k)) <= MaxRecentChatCount - 1
      /\ Sub(Limited(k), k)
  BY <1>1, LimitedIsSub
<1>3. Sub(Limited(k), l)
  BY <1>1, <1>2, SubTransitive
<1>4. \A i \in 1..Len(Limited(k)) : \E j \in 1..Len(k) : Limited(k)[i] = k[j]
  BY <1>1, <1>2, SubKeeps
<1>5. \A i \in 1..Len(Limited(k)) : Limited(k)[i] # chat
  BY <1>1, <1>4
<1> QED BY <1>2, <1>3, <1>5 DEF Below, k

LEMMA OnTop ==
  ASSUME NEW rest \in Seq(Chats), NEW chat \in Chats
  PROVE  /\ <<chat>> \o rest \in Seq(Chats) /\ Len(<<chat>> \o rest) = Len(rest) + 1
         /\ (<<chat>> \o rest)[1] = chat
         /\ \A i \in 1..Len(rest) : (<<chat>> \o rest)[i + 1] = rest[i]
         /\ \A i \in 1..(Len(rest) + 1) : i # 1 =>
              i - 1 \in 1..Len(rest) /\ (<<chat>> \o rest)[i] = rest[i - 1]
<1> DEFINE one == <<chat>>
<1>1. one \in Seq(Chats) /\ Len(one) = 1 /\ one[1] = chat
  OBVIOUS
<1> HIDE DEF one
<1>2. /\ one \o rest \in Seq(Chats) /\ Len(one \o rest) = Len(one) + Len(rest)
      /\ \A i \in 1..(Len(one) + Len(rest)) :
            (one \o rest)[i] = IF i <= Len(one) THEN one[i] ELSE rest[i - Len(one)]
  BY <1>1, ConcatProperties
<1>3. Len(rest) \in Nat
  OBVIOUS
<1>4. \A i \in 1..(Len(rest) + 1) : (one \o rest)[i] = IF i = 1 THEN chat ELSE rest[i - 1]
  BY <1>1, <1>2, <1>3
<1>5. \A i \in 1..Len(rest) : i + 1 \in 1..(Len(rest) + 1) /\ i + 1 # 1 /\ (i + 1) - 1 = i
  BY <1>3
<1>6. \A i \in 1..(Len(rest) + 1) : i # 1 => i - 1 \in 1..Len(rest)
  BY <1>3
<1> QED BY <1>1, <1>2, <1>3, <1>4, <1>5, <1>6 DEF one

\* addRecentChat keeps the list good, whenever the chat is said to be used.
LEMMA AddGood ==
  ASSUME NEW use, NEW r, Good(r, use), NEW chat \in Chats, NEW t \in Times, t <= use[chat]
  PROVE  Good(AddRecentChat(r, chat, t), use)
<1>1. CASE r.list # <<>> /\ Head(r.list) = chat
  BY <1>1 DEF AddRecentChat
<1>2. CASE ~(r.list # <<>> /\ Head(r.list) = chat)
  <2> DEFINE rest == Limited(Kept(r.list, {chat}))
             l == <<chat>> \o rest
             times == [r.time EXCEPT ![chat] = t]
  <2>0. r.list \in Seq(Chats) /\ r.time \in [Chats -> Times]
    BY DEF Good, Record
  <2>1. AddRecentChat(r, chat, t) = [list |-> l, time |-> times]
    BY <1>2 DEF AddRecentChat
  <2>2. Below(rest, r.list, chat)
    BY <2>0, RestIsBelow
  <2> HIDE DEF rest
  <2>3. /\ rest \in Seq(Chats) /\ Len(rest) <= MaxRecentChatCount - 1
        /\ \A i \in 1..Len(rest) : rest[i] # chat
        /\ Distinct(rest)
    BY <2>0, <2>2, SubKeeps DEF Below, Good
  <2>4. /\ l \in Seq(Chats) /\ Len(l) = Len(rest) + 1 /\ l[1] = chat
        /\ \A i \in 1..(Len(rest) + 1) : i # 1 =>
              i - 1 \in 1..Len(rest) /\ l[i] = rest[i - 1]
    BY <2>3, OnTop
  <2>5. Len(rest) \in Nat /\ MaxRecentChatCount \in Nat
    BY <2>3, RecentAssumption DEF RecentAssumption
  <2> HIDE DEF l
  <2>6. ASSUME NEW i \in 1..Len(l), NEW j \in 1..Len(l), i # j PROVE l[i] # l[j]
    <3>1. CASE i = 1
      BY <2>3, <2>4, <2>6, <3>1
    <3>2. CASE j = 1
      BY <2>3, <2>4, <2>6, <3>2
    <3>3. CASE i # 1 /\ j # 1
      <4>1. /\ i - 1 \in 1..Len(rest) /\ j - 1 \in 1..Len(rest) /\ i - 1 # j - 1
            /\ l[i] = rest[i - 1] /\ l[j] = rest[j - 1]
        BY <2>4, <2>5, <2>6, <3>3
      <4> QED BY <2>3, <4>1 DEF Distinct
    <3> QED BY <3>1, <3>2, <3>3
  <2>7. times \in [Chats -> Times] /\ \A c \in Chats : times[c] <= use[c]
    BY <2>0 DEF Good
  <2> HIDE DEF times
  <2>8. Distinct(l) /\ Len(l) <= MaxRecentChatCount
    BY <2>3, <2>4, <2>5, <2>6 DEF Distinct
  <2> QED BY <2>1, <2>4, <2>7, <2>8 DEF Good, Record
<1> QED BY <1>1, <1>2

-----------------------------------------------------------------------------
(* Loading and storing.                                                    *)

\* Nothing is stored with a later time than it was used at.
SoundElements(s, use) ==
  /\ s \in Seq(Element)
  /\ \A i \in 1..Len(s) : s[i].time <= use[s[i].chat]

\* The function Load computes.
IsLoad(f) ==
  f = [n \in 0..Len(stored) |->
        IF n = 0 THEN recent
        ELSE LET element == stored[Len(stored) + 1 - n]
             IN  AddRecentChat(f[n - 1], element.chat, element.time)]

LEMMA LoadIsGood ==
  ASSUME NEW use, SoundElements(stored, use), Good(recent, use)
  PROVE  Good(Load, use)
<1> DEFINE N == Len(stored)
           S == {r \in Record : Good(r, use)}
           E(n) == stored[Len(stored) + 1 - n]
           step == [n \in 1..N |-> [r \in S |-> AddRecentChat(r, E(n).chat, E(n).time)]]
<1>1. N \in Nat /\ recent \in S
  BY DEF SoundElements, Good
<1>2. ASSUME NEW n \in 1..N
      PROVE  E(n).chat \in Chats /\ E(n).time \in Times /\ E(n).time <= use[E(n).chat]
  <2>1. N + 1 - n \in 1..N
    BY <1>1
  <2>2. E(n) \in Element /\ E(n).time <= use[E(n).chat]
    BY <2>1 DEF SoundElements
  <2> QED BY <2>2 DEF Element
<1>3. ASSUME NEW n \in 1..N, NEW r \in S
      PROVE  AddRecentChat(r, E(n).chat, E(n).time) \in S
  <2> DEFINE chat == E(n).chat
             t == E(n).time
  <2>1. chat \in Chats /\ t \in Times /\ t <= use[chat]
    BY <1>2
  <2> HIDE DEF chat, t
  <2>2. Good(AddRecentChat(r, chat, t), use)
    BY <2>1, AddGood
  <2>3. AddRecentChat(r, chat, t) \in S
    BY <2>2 DEF Good
  <2> QED BY <2>3 DEF chat, t
<1>4. step \in [1..N -> [S -> S]]
  BY <1>3
<1>5. PICK f : Iterates(f, step, recent, S, N)
  <2> HIDE DEF step, S, N
  <2> QED BY <1>1, <1>4, IterationExists
<1>6. /\ f \in [0..N -> S] /\ f[0] = recent
      /\ \A n \in 1..N : f[n] = step[n][f[n - 1]]
  BY <1>5 DEF Iterates
<1>7. ASSUME NEW n \in 0..N
      PROVE  f[n] = IF n = 0 THEN recent
                    ELSE LET element == stored[Len(stored) + 1 - n]
                         IN  AddRecentChat(f[n - 1], element.chat, element.time)
  <2>1. CASE n = 0
    BY <1>6, <2>1
  <2>2. CASE n # 0
    <3>1. n \in 1..N /\ n - 1 \in 0..N
      BY <1>1, <2>2
    <3>2. f[n - 1] \in S
      <4> HIDE DEF S, N
      <4> QED BY <1>6, <3>1
    <3>3. f[n] = AddRecentChat(f[n - 1], E(n).chat, E(n).time)
      <4>1. f[n] = step[n][f[n - 1]]
        BY <1>6, <3>1
      <4> HIDE DEF S, N, E
      <4> QED BY <3>1, <3>2, <4>1
    <3> QED BY <2>2, <3>3
  <2> QED BY <2>1, <2>2
<1>8. IsLoad(f)
  <2> HIDE DEF S
  <2> QED BY <1>6, <1>7 DEF IsLoad
<1>9. \E g : IsLoad(g) /\ Load = g[N]
  BY <1>8, Zenon DEF Load, IsLoad
<1>10. PICK g : IsLoad(g) /\ Load = g[N]
  BY <1>9
<1> DEFINE P == {n \in 0..N : g[n] \in S}
<1>11. 0 \in P
  <2>1. 0 \in 0..N
    BY <1>1
  <2>2. g[0] = recent
    BY <1>10, <2>1 DEF IsLoad
  <2> QED BY <1>1, <2>1, <2>2
<1>12. ASSUME NEW n \in 1..N, n - 1 \in P PROVE n \in P
  <2>1. n \in 0..N /\ n # 0
    BY <1>1
  <2> DEFINE before == g[n - 1]
  <2>2. before \in S
    BY <1>12
  <2>3. g[n] = AddRecentChat(before, E(n).chat, E(n).time)
    BY <1>10, <2>1, Zenon DEF IsLoad
  <2> HIDE DEF before, S
  <2>4. AddRecentChat(before, E(n).chat, E(n).time) \in S
    BY <1>3, <2>2
  <2> QED BY <2>1, <2>3, <2>4
<1> HIDE DEF P
<1>13. Inductive(P, N)
  BY <1>11, <1>12 DEF Inductive
<1> HIDE DEF N
<1>14. N \in P
  BY <1>1, <1>13, UpTo
<1>15. g[N] \in S
  BY <1>14 DEF P
<1> QED BY <1>10, <1>15

LEMMA ElementsAreSound ==
  ASSUME NEW use, NEW r, Good(r, use)
  PROVE  SoundElements(Elements(r), use) /\ Len(Elements(r)) <= MaxRecentChatCount
<1>1. MaxRecentChatCount \in Nat
  BY RecentAssumption DEF RecentAssumption
<1>2. /\ r.list \in Seq(Chats) /\ r.time \in [Chats -> Times] /\ Len(r.list) \in Nat
      /\ Len(r.list) <= MaxRecentChatCount /\ \A c \in Chats : r.time[c] <= use[c]
  BY DEF Good, Record
<1>3. CASE RecentChatsClear
  BY <1>1, <1>3 DEF Elements, SoundElements
<1>4. CASE ~RecentChatsClear
  <2> DEFINE n == Len(r.list)
             el == [i \in 1..n |-> [chat |-> r.list[i], time |-> r.time[r.list[i]]]]
  <2>1. Elements(r) = el
    BY <1>4 DEF Elements
  <2>2. ASSUME NEW i \in 1..n PROVE el[i] \in Element /\ el[i].time <= use[el[i].chat]
    <3>1. r.list[i] \in Chats
      BY <1>2
    <3> QED BY <1>2, <3>1 DEF Element
  <2>3. el \in Seq(Element) /\ Len(el) = n
    <3>1. el \in [1..n -> Element]
      BY <2>2
    <3>2. n \in Nat
      BY <1>2
    <3> HIDE DEF el, n
    <3> QED BY <3>1, <3>2
  <2> HIDE DEF el
  <2> QED BY <1>2, <2>1, <2>2, <2>3 DEF SoundElements
<1> QED BY <1>3, <1>4

LEMMA LeftOverIsSound ==
  ASSUME NEW use, SoundElements(stored, use)
  PROVE  SoundElements(LeftOver, use) /\ Len(LeftOver) = Len(stored) \div 2
<1>1. stored \in Seq(Element) /\ Len(stored) \in Nat
  BY DEF SoundElements
<1> DEFINE n == Len(stored) \div 2
<1>2. n \in Nat /\ \A i \in 1..n : 2 * i \in 1..Len(stored)
  BY <1>1
<1> HIDE DEF n
<1>3. \A i \in 1..n : LeftOver[i] = stored[2 * i] /\ LeftOver[i] \in Element
  BY <1>1, <1>2 DEF LeftOver, n
<1>4. LeftOver \in [1..n -> Element]
  BY <1>3 DEF LeftOver, n
<1>5. LeftOver \in Seq(Element) /\ Len(LeftOver) = n
  BY <1>2, <1>4
<1> QED BY <1>2, <1>3, <1>5 DEF SoundElements, n

\* What a flush leaves in the configuration.
LEMMA FlushedIsSound ==
  ASSUME NEW use, NEW r, Good(r, use), SoundElements(stored, use),
         Len(stored) < 2 * MaxRecentChatCount
  PROVE  /\ SoundElements(LeftOver \o Elements(r), use)
         /\ Len(LeftOver \o Elements(r)) < 2 * MaxRecentChatCount
<1> DEFINE s == LeftOver
           t == Elements(r)
<1>1. SoundElements(s, use) /\ Len(s) = Len(stored) \div 2
  BY LeftOverIsSound
<1>2. SoundElements(t, use) /\ Len(t) <= MaxRecentChatCount
  BY ElementsAreSound
<1> HIDE DEF s, t
<1>3. s \in Seq(Element) /\ t \in Seq(Element) /\ Len(s) \in Nat /\ Len(t) \in Nat
  BY <1>1, <1>2 DEF SoundElements
<1>4. /\ s \o t \in Seq(Element) /\ Len(s \o t) = Len(s) + Len(t)
      /\ \A i \in 1..(Len(s) + Len(t)) :
            (s \o t)[i] = IF i <= Len(s) THEN s[i] ELSE t[i - Len(s)]
  BY <1>3, ConcatProperties
<1>5. Len(s \o t) < 2 * MaxRecentChatCount
  <2>1. Len(stored) \in Nat /\ MaxRecentChatCount \in Nat
    BY RecentAssumption DEF RecentAssumption, SoundElements
  <2>2. Len(s) <= MaxRecentChatCount - 1
    BY <1>1, <2>1
  <2> QED BY <1>2, <1>3, <1>4, <2>1, <2>2
<1>6. ASSUME NEW i \in 1..Len(s \o t) PROVE (s \o t)[i].time <= use[(s \o t)[i].chat]
  <2>1. CASE i <= Len(s)
    <3>1. i \in 1..Len(s) /\ (s \o t)[i] = s[i]
      BY <1>3, <1>4, <2>1
    <3> QED BY <1>1, <3>1 DEF SoundElements
  <2>2. CASE ~(i <= Len(s))
    <3>1. i - Len(s) \in 1..Len(t) /\ (s \o t)[i] = t[i - Len(s)]
      BY <1>3, <1>4, <2>2
    <3> QED BY <1>2, <3>1 DEF SoundElements
  <2> QED BY <2>1, <2>2
<1>7. SoundElements(s \o t, use)
  BY <1>4, <1>6 DEF SoundElements
<1> QED BY <1>5, <1>7 DEF s, t

-----------------------------------------------------------------------------
(* Order.                                                                  *)

\* A message puts its chat on top, and leaves the others in their order.
LEMMA AddOrdered ==
  ASSUME NEW use \in [Chats -> Times], NEW r, Good(r, use), NEW start,
         OrderedBy(r.list, use, start), NEW chat \in Chats,
         NEW t \in Times, \A c \in Chats : use[c] < t
  PROVE  OrderedBy(AddRecentChat(r, chat, t).list, [use EXCEPT ![chat] = t], start)
<1> DEFINE later == [use EXCEPT ![chat] = t]
<1>0. /\ r.list \in Seq(Chats) /\ Len(r.list) \in Nat /\ Distinct(r.list)
      /\ later[chat] = t
      /\ \A c \in Chats : c # chat => later[c] = use[c] /\ use[c] < t
      /\ t \in Int
  BY DEF Good, Record, Times
<1> HIDE DEF later
<1>1. CASE r.list # <<>> /\ Head(r.list) = chat
  <2>1. AddRecentChat(r, chat, t).list = r.list
    BY <1>1 DEF AddRecentChat
  <2>2. r.list[1] = chat /\ 1 \in 1..Len(r.list)
    BY <1>0, <1>1
  <2>3. ASSUME NEW i \in 1..Len(r.list), NEW j \in 1..Len(r.list), i < j,
               later[r.list[j]] > start
        PROVE  later[r.list[i]] > later[r.list[j]]
    <3>1. j # 1 /\ r.list[i] \in Chats /\ r.list[j] \in Chats
      BY <1>0, <2>3
    <3>2. r.list[j] # chat /\ later[r.list[j]] = use[r.list[j]] /\ use[r.list[j]] < t
      BY <1>0, <2>2, <3>1 DEF Distinct
    <3>3. CASE i = 1
      BY <1>0, <2>2, <3>2, <3>3
    <3>4. CASE i # 1
      <4>1. r.list[i] # chat /\ later[r.list[i]] = use[r.list[i]]
        BY <1>0, <2>2, <3>1, <3>4 DEF Distinct
      <4>2. use[r.list[j]] > start
        BY <2>3, <3>2
      <4>3. use[r.list[i]] > use[r.list[j]]
        BY <2>3, <4>2 DEF OrderedBy
      <4> QED BY <3>2, <4>1, <4>3
    <3> QED BY <3>3, <3>4
  <2> QED BY <2>1, <2>3 DEF OrderedBy, later
<1>2. CASE ~(r.list # <<>> /\ Head(r.list) = chat)
  <2> DEFINE rest == Limited(Kept(r.list, {chat}))
             l == <<chat>> \o rest
  <2>1. AddRecentChat(r, chat, t).list = l
    BY <1>2 DEF AddRecentChat
  <2>2. Below(rest, r.list, chat)
    BY <1>0, RestIsBelow
  <2> HIDE DEF rest
  <2>3. /\ rest \in Seq(Chats) /\ Len(rest) \in Nat
        /\ \A i \in 1..Len(rest) : rest[i] # chat /\ rest[i] \in Chats
        /\ OrderedBy(rest, use, start)
    <3>1. rest \in Seq(Chats) /\ Sub(rest, r.list) /\ \A i \in 1..Len(rest) : rest[i] # chat
      BY <2>2 DEF Below
    <3>2. OrderedBy(rest, use, start)
      BY <1>0, <3>1, SubKeeps
    <3> QED BY <3>1, <3>2
  <2>4. /\ l \in Seq(Chats) /\ Len(l) = Len(rest) + 1 /\ l[1] = chat
        /\ \A i \in 1..(Len(rest) + 1) : i # 1 =>
              i - 1 \in 1..Len(rest) /\ l[i] = rest[i - 1]
    BY <2>3, OnTop
  <2> HIDE DEF l
  <2>5. ASSUME NEW i \in 1..Len(l), NEW j \in 1..Len(l), i < j, later[l[j]] > start
        PROVE  later[l[i]] > later[l[j]]
    <3>1. j # 1 /\ j - 1 \in 1..Len(rest) /\ l[j] = rest[j - 1]
      BY <2>3, <2>4, <2>5
    <3>2. later[l[j]] = use[rest[j - 1]] /\ use[rest[j - 1]] < t
      BY <1>0, <2>3, <3>1
    <3>3. CASE i = 1
      <4>1. later[l[i]] = t
        BY <1>0, <2>4, <3>3
      <4>2. use[rest[j - 1]] \in Int
        BY <2>3, <3>1 DEF Times
      <4> QED BY <1>0, <3>2, <4>1, <4>2
    <3>4. CASE i # 1
      <4>1. i - 1 \in 1..Len(rest) /\ l[i] = rest[i - 1] /\ i - 1 < j - 1
        BY <2>4, <2>5, <3>4
      <4>2. later[l[i]] = use[rest[i - 1]]
        BY <1>0, <2>3, <4>1
      <4>3. use[rest[j - 1]] > start
        BY <2>5, <3>2
      <4>4. use[rest[i - 1]] > use[rest[j - 1]]
        BY <2>3, <3>1, <4>1, <4>3 DEF OrderedBy
      <4> QED BY <3>2, <4>2, <4>4
    <3> QED BY <3>3, <3>4
  <2> QED BY <2>1, <2>5 DEF OrderedBy, later
<1> QED BY <1>1, <1>2

\* And its time is later than any use before, except on top, where nothing was
\* used since.
LEMMA AddTimed ==
  ASSUME NEW use \in [Chats -> Times], NEW r, Good(r, use), NEW start,
         OrderedBy(r.list, use, start), Timed(r, use, start), NEW chat \in Chats,
         NEW t \in Times, \A c \in Chats : use[c] < t
  PROVE  Timed(AddRecentChat(r, chat, t), [use EXCEPT ![chat] = t], start)
<1> DEFINE later == [use EXCEPT ![chat] = t]
           a == AddRecentChat(r, chat, t)
<1>0. /\ r.list \in Seq(Chats) /\ Len(r.list) \in Nat /\ r.time \in [Chats -> Times]
      /\ \A i \in 1..Len(r.list) : r.list[i] \in Chats
      /\ later[chat] = t /\ t \in Int
      /\ \A c \in Chats : use[c] \in Int /\ use[c] < t /\ (c # chat => later[c] = use[c])
  BY DEF Good, Record, Times
<1> HIDE DEF later
<1>1. /\ Listed(a.list) \subseteq Listed(r.list) \cup {chat}
      /\ \A c \in Chats : c # chat => a.time[c] = r.time[c]
      /\ \/ a.time[chat] = t
         \/ r.list # <<>> /\ r.list[1] = chat /\ a.time = r.time
  <2>1. CASE r.list # <<>> /\ Head(r.list) = chat
    <3>1. a = r /\ r.list[1] = chat
      BY <1>0, <2>1 DEF AddRecentChat
    <3> QED BY <2>1, <3>1
  <2>2. CASE ~(r.list # <<>> /\ Head(r.list) = chat)
    <3> DEFINE rest == Limited(Kept(r.list, {chat}))
               l == <<chat>> \o rest
    <3>1. a = [list |-> l, time |-> [r.time EXCEPT ![chat] = t]]
      BY <2>2 DEF AddRecentChat
    <3>2. Below(rest, r.list, chat)
      BY <1>0, RestIsBelow
    <3> HIDE DEF rest
    <3>3. rest \in Seq(Chats) /\ \A i \in 1..Len(rest) : \E k \in 1..Len(r.list) : rest[i] = r.list[k]
      BY <1>0, <3>2, SubKeeps DEF Below
    <3>4. /\ Len(l) = Len(rest) + 1 /\ l[1] = chat
          /\ \A i \in 1..(Len(rest) + 1) : i # 1 =>
                i - 1 \in 1..Len(rest) /\ l[i] = rest[i - 1]
      BY <3>3, OnTop
    <3> HIDE DEF l
    <3>5. ASSUME NEW i \in 1..Len(l) PROVE l[i] \in Listed(r.list) \cup {chat}
      BY <3>3, <3>4 DEF Listed
    <3>6. Listed(l) \subseteq Listed(r.list) \cup {chat}
      BY <3>5 DEF Listed
    <3>7. a.list = l /\ a.time = [r.time EXCEPT ![chat] = t]
      BY <3>1
    <3> QED BY <1>0, <3>6, <3>7
  <2> QED BY <2>1, <2>2
<1> HIDE DEF a
<1>2. Listed(r.list) \subseteq Chats
  BY <1>0 DEF Listed
<1>3. ASSUME NEW c \in Listed(a.list), NEW d \in Listed(a.list),
             later[d] > start, later[d] < later[c]
      PROVE  a.time[c] > later[d]
  <2>1. c \in Chats /\ d \in Chats
    BY <1>1, <1>2
  <2>2. later[c] <= t
    BY <1>0, <2>1
  <2>3. d # chat
    BY <1>0, <1>3, <2>1, <2>2
  <2>4. d \in Listed(r.list) /\ later[d] = use[d] /\ use[d] \in Int /\ use[d] < t
    BY <1>0, <1>1, <2>1, <2>3
  <2>5. CASE c # chat
    <3>1. c \in Listed(r.list) /\ later[c] = use[c] /\ a.time[c] = r.time[c]
      BY <1>0, <1>1, <2>1, <2>5
    <3> QED BY <1>3, <2>4, <3>1 DEF Timed
  <2>6. CASE c = chat /\ a.time[chat] = t
    BY <1>0, <2>4, <2>6
  <2>7. CASE c = chat /\ r.list # <<>> /\ r.list[1] = chat /\ a.time = r.time
    <3>1. PICK j \in 1..Len(r.list) : d = r.list[j]
      BY <2>4 DEF Listed
    <3>2. 1 \in 1..Len(r.list) /\ 1 < j
      BY <1>0, <2>3, <2>7, <3>1
    <3>3. use[chat] > use[d]
      BY <1>3, <2>4, <2>7, <3>1, <3>2 DEF OrderedBy
    <3>4. chat \in Listed(r.list) /\ use[chat] \in Int
      BY <1>0, <2>7, <3>2 DEF Listed
    <3>5. use[d] < use[chat]
      BY <2>4, <3>3, <3>4
    <3>6. r.time[chat] > use[d]
      BY <1>3, <2>4, <3>4, <3>5 DEF Timed
    <3> QED BY <2>4, <2>7, <3>6
  <2> QED BY <1>1, <2>5, <2>6, <2>7
<1> QED BY <1>3 DEF Timed, later, a

-----------------------------------------------------------------------------
(* The invariant.                                                          *)

Clock ==
  /\ now \in Times /\ started \in Times /\ restarts \in 0..MaxRestarts /\ started <= now
  /\ lastUse \in [Chats -> Times]
  /\ \A c \in Chats : lastUse[c] <= now

Options ==
  /\ loaded \in BOOLEAN
  /\ RecentChatsTimeout \in Timeouts /\ RecentChatsClear \in BOOLEAN

\* Before anything is loaded nothing has been used in this run.
NothingYet ==
  ~loaded => recent.list = <<>> /\ \A c \in Chats : lastUse[c] <= started

StoredIsSound ==
  SoundElements(stored, lastUse) /\ Len(stored) < 2 * MaxRecentChatCount

ListIsSound ==
  /\ Good(recent, lastUse)
  /\ OrderedBy(recent.list, lastUse, started) /\ Timed(recent, lastUse, started)

RecentInv ==
  /\ Clock /\ Options /\ NothingYet /\ StoredIsSound /\ ListIsSound

LEMMA UnusedAreOrdered ==
  ASSUME Clock, \A c \in Chats : lastUse[c] <= started, NEW l \in Seq(Chats)
  PROVE  OrderedBy(l, lastUse, started)
<1>1. \A c \in Chats : ~(lastUse[c] > started)
  BY DEF Clock, Times
<1>2. \A j \in 1..Len(l) : l[j] \in Chats
  OBVIOUS
<1> QED BY <1>1, <1>2 DEF OrderedBy

LEMMA UnusedAreTimed ==
  ASSUME Clock, \A c \in Chats : lastUse[c] <= started, NEW r, r.list \in Seq(Chats)
  PROVE  Timed(r, lastUse, started)
<1>1. \A c \in Chats : ~(lastUse[c] > started)
  BY DEF Clock, Times
<1>2. Listed(r.list) \subseteq Chats
  BY DEF Listed
<1> QED BY <1>1, <1>2 DEF Timed

\* The list as it is once it is loaded.
LEMMA LoadedIsSound ==
  ASSUME RecentInv
  PROVE  /\ Good(Loaded, lastUse) /\ OrderedBy(Loaded.list, lastUse, started)
         /\ Timed(Loaded, lastUse, started)
<1>1. CASE loaded
  BY <1>1 DEF RecentInv, Loaded, ListIsSound
<1>2. CASE ~loaded
  <2>1. Good(Load, lastUse)
    BY LoadIsGood DEF RecentInv, StoredIsSound, ListIsSound
  <2>2. Load.list \in Seq(Chats)
    BY <2>1 DEF Good, Record
  <2> DEFINE l == Load.list
  <2>3. OrderedBy(l, lastUse, started)
    <3> HIDE DEF l
    <3> QED BY <1>2, <2>2, UnusedAreOrdered DEF RecentInv, NothingYet, l
  <2>4. Timed(Load, lastUse, started)
    <3> DEFINE r == Load
    <3>1. r.list \in Seq(Chats) /\ Clock /\ \A c \in Chats : lastUse[c] <= started
      BY <1>2, <2>2 DEF RecentInv, NothingYet
    <3> HIDE DEF r
    <3>2. Timed(r, lastUse, started)
      BY <3>1, UnusedAreTimed
    <3> QED BY <3>2 DEF r
  <2> QED BY <1>2, <2>1, <2>3, <2>4 DEF Loaded
<1> QED BY <1>1, <1>2

\* No two listed chats of this run were used last at the same time.
LEMMA UsesDiffer ==
  ASSUME NEW l \in Seq(Chats), OrderedBy(l, lastUse, started), lastUse \in [Chats -> Times],
         NEW c \in Listed(l), NEW d \in Listed(l), c # d,
         lastUse[c] > started, lastUse[d] > started
  PROVE  lastUse[d] # lastUse[c]
<1>1. PICK i \in 1..Len(l), j \in 1..Len(l) : c = l[i] /\ d = l[j]
  BY DEF Listed
<1>2. i # j /\ lastUse[c] \in Int /\ lastUse[d] \in Int
  BY <1>1 DEF Times
<1>3. CASE i < j
  BY <1>1, <1>2, <1>3 DEF OrderedBy
<1>4. CASE j < i
  BY <1>1, <1>2, <1>4 DEF OrderedBy
<1> QED BY <1>2, <1>3, <1>4

LEMMA NothingIsSound ==
  ASSUME Clock
  PROVE  /\ NothingRecent.list = <<>> /\ Good(NothingRecent, lastUse)
         /\ \A start : /\ OrderedBy(NothingRecent.list, lastUse, start)
                       /\ Timed(NothingRecent, lastUse, start)
<1>1. NothingRecent.list = <<>> /\ NothingRecent.time = [c \in Chats |-> 0]
  BY DEF NothingRecent
<1>2. NothingRecent \in Record
  BY RecentAssumption DEF NothingRecent, Record, Times, RecentAssumption
<1>3. \A c \in Chats : NothingRecent.time[c] <= lastUse[c]
  BY <1>1 DEF Clock, Times
<1> QED BY <1>1, <1>2, <1>3, RecentAssumption DEF Good, Distinct, OrderedBy, Timed, Listed, RecentAssumption

LEMMA RecentInit == Init => RecentInv
<1> SUFFICES ASSUME Init PROVE RecentInv
  OBVIOUS
<1>1. Clock /\ Options
  <2>1. 0 \in Times /\ 0 \in 0..MaxRestarts
    BY RecentAssumption DEF Times, RecentAssumption
  <2>2. Clock
    BY <2>1 DEF Init, Clock
  <2>3. Options
    BY Zenon DEF Init, Options
  <2> QED BY <2>2, <2>3
<1>2. NothingYet
  BY DEF Init, NothingYet, NothingRecent
<1>3. StoredIsSound
  BY RecentAssumption DEF Init, StoredIsSound, SoundElements, RecentAssumption
<1>4. ListIsSound
  BY <1>1, NothingIsSound DEF Init, ListIsSound
<1> QED BY <1>1, <1>2, <1>3, <1>4 DEF RecentInv

-----------------------------------------------------------------------------
(* The steps.                                                              *)

LEMMA LaterUse ==
  ASSUME NEW use \in [Chats -> Times], NEW later \in [Chats -> Times],
         \A c \in Chats : use[c] <= later[c]
  PROVE  /\ \A r : Good(r, use) => Good(r, later)
         /\ SoundElements(stored, use) => SoundElements(stored, later)
<1>1. ASSUME NEW r, Good(r, use) PROVE Good(r, later)
  <2>1. ASSUME NEW c \in Chats PROVE r.time[c] <= later[c]
    <3>1. r.time[c] \in Int /\ use[c] \in Int /\ later[c] \in Int /\ r.time[c] <= use[c]
      BY <1>1 DEF Good, Record, Times
    <3> QED BY <3>1
  <2> QED BY <1>1, <2>1 DEF Good
<1>2. ASSUME SoundElements(stored, use) PROVE SoundElements(stored, later)
  <2>1. ASSUME NEW i \in 1..Len(stored) PROVE stored[i].time <= later[stored[i].chat]
    <3>1. stored[i] \in Element /\ stored[i].time <= use[stored[i].chat]
      BY <1>2 DEF SoundElements
    <3>2. /\ stored[i].chat \in Chats /\ stored[i].time \in Int
          /\ use[stored[i].chat] \in Int /\ later[stored[i].chat] \in Int
      BY <3>1 DEF Element, Times
    <3> QED BY <3>1, <3>2
  <2> QED BY <1>2, <2>1 DEF SoundElements
<1> QED BY <1>1, <1>2

LEMMA MessageStep ==
  ASSUME RecentInv, NEW chat \in Chats, OnNewMessage(chat)
  PROVE  RecentInv'
<1> DEFINE t == now + 1
           later == [lastUse EXCEPT ![chat] = t]
<1>1. /\ now' = t /\ lastUse' = later /\ loaded' = TRUE
      /\ recent' = AddRecentChat(Loaded, chat, t)
      /\ UNCHANGED <<stored, RecentChatsTimeout, RecentChatsClear, started, restarts>>
  BY DEF OnNewMessage, config
<1>2. /\ now \in Int /\ t \in Times /\ now < t /\ started <= t
      /\ lastUse \in [Chats -> Times] /\ \A c \in Chats : lastUse[c] <= now
  BY RecentAssumption DEF OnNewMessage, RecentInv, Clock, Times, RecentAssumption
<1>3. \A c \in Chats : lastUse[c] \in Int /\ lastUse[c] < t
  BY <1>2 DEF Times
<1> HIDE DEF t
<1>4. /\ later \in [Chats -> Times]
      /\ \A c \in Chats : later[c] <= t /\ lastUse[c] <= later[c]
  <2>1. t \in Int /\ \A c \in Chats : later[c] = IF c = chat THEN t ELSE lastUse[c]
    BY <1>2 DEF Times
  <2> QED BY <1>2, <1>3, <2>1
<1>5. Clock'
  BY <1>1, <1>2, <1>4 DEF RecentInv, Clock, Times
<1>6. Options' /\ NothingYet'
  BY <1>1, Zenon DEF RecentInv, Options, NothingYet
<1>7. /\ Good(Loaded, lastUse) /\ OrderedBy(Loaded.list, lastUse, started)
      /\ Timed(Loaded, lastUse, started)
  BY LoadedIsSound
<1>8. /\ OrderedBy(AddRecentChat(Loaded, chat, t).list, later, started)
      /\ Timed(AddRecentChat(Loaded, chat, t), later, started)
  BY <1>2, <1>3, <1>7, AddOrdered, AddTimed
<1>9. later[chat] = t /\ t <= t
  BY <1>2 DEF Times
<1> HIDE DEF later
<1>10. Good(Loaded, later) /\ SoundElements(stored, later)
  BY <1>2, <1>4, <1>7, LaterUse DEF RecentInv, StoredIsSound
<1>11. Good(AddRecentChat(Loaded, chat, t), later)
  BY <1>2, <1>9, <1>10, AddGood
<1>12. StoredIsSound'
  BY <1>1, <1>10 DEF RecentInv, StoredIsSound, SoundElements
<1>13. ListIsSound'
  BY <1>1, <1>8, <1>11 DEF ListIsSound
<1> QED BY <1>5, <1>6, <1>12, <1>13 DEF RecentInv

\* What is kept by a clean-up.
LEMMA CleanUpKeeps ==
  ASSUME RecentInv, CleanUp
  PROVE  /\ Good(recent', lastUse) /\ OrderedBy(recent'.list, lastUse, started)
         /\ Timed(recent', lastUse, started)
         /\ recent.list = <<>> => recent'.list = <<>>
<1> DEFINE gone == {c \in Chats : TooOld(c)}
           l == Kept(recent.list, gone)
<1>1. /\ recent \in Record /\ recent.list \in Seq(Chats) /\ Distinct(recent.list)
      /\ Len(recent.list) <= MaxRecentChatCount
      /\ OrderedBy(recent.list, lastUse, started) /\ Timed(recent, lastUse, started)
      /\ \A c \in Chats : recent.time[c] <= lastUse[c]
  BY DEF RecentInv, ListIsSound, Good, Record
<1>2. recent' = [recent EXCEPT !.list = l]
  BY DEF CleanUp, AfterCleanUp
<1> HIDE DEF gone
<1>3. l \in Seq(Chats) /\ Len(l) <= Len(recent.list) /\ Sub(l, recent.list)
  BY <1>1, KeptIsSub
<1> HIDE DEF l
<1>4. recent' \in Record /\ recent'.list = l /\ recent'.time = recent.time
  BY <1>1, <1>2, <1>3 DEF Record
<1>5. Distinct(l) /\ OrderedBy(l, lastUse, started)
  BY <1>1, <1>3, SubKeeps
<1>6. Len(l) <= MaxRecentChatCount
  BY <1>1, <1>3, RecentAssumption DEF RecentAssumption
<1>7. recent.list = <<>> => l = <<>>
  BY <1>3
<1>8. Good(recent', lastUse)
  BY <1>1, <1>4, <1>5, <1>6 DEF Good
<1>9. Listed(l) \subseteq Listed(recent.list)
  <2>1. \A i \in 1..Len(l) : \E k \in 1..Len(recent.list) : l[i] = recent.list[k]
    BY <1>1, <1>3, SubKeeps
  <2> QED BY <2>1 DEF Listed
<1>10. Timed(recent', lastUse, started)
  BY <1>1, <1>4, <1>9 DEF Timed
<1> QED BY <1>4, <1>5, <1>7, <1>8, <1>10 DEF l, gone

\* The end of a run and the start of the next: the list begins with what is stored.
LEMMA StartStep ==
  ASSUME RecentInv, StartAgain,
         stored' = stored \/ stored' = LeftOver \o Elements(Loaded)
  PROVE  RecentInv'
<1>1. /\ recent' = NothingRecent /\ loaded' = FALSE /\ started' = now
      /\ restarts < MaxRestarts /\ restarts' = restarts + 1
      /\ UNCHANGED <<RecentChatsTimeout, RecentChatsClear, now, lastUse>>
  BY DEF StartAgain, config
<1>2. Clock
  BY DEF RecentInv
<1>3. Clock'
  BY <1>1, <1>2, RecentAssumption DEF Clock, Times, RecentAssumption
<1>4. Options'
  BY <1>1, Zenon DEF RecentInv, Options
<1>5. NothingYet'
  BY <1>1, <1>2, NothingIsSound DEF NothingYet, Clock
<1>6. StoredIsSound'
  <2>1. Good(Loaded, lastUse)
    BY LoadedIsSound
  <2>2. /\ SoundElements(LeftOver \o Elements(Loaded), lastUse)
        /\ Len(LeftOver \o Elements(Loaded)) < 2 * MaxRecentChatCount
    BY <2>1, FlushedIsSound DEF RecentInv, StoredIsSound
  <2> DEFINE s == LeftOver \o Elements(Loaded)
  <2> HIDE DEF s
  <2>3. /\ SoundElements(s, lastUse) /\ Len(s) < 2 * MaxRecentChatCount
        /\ stored' = stored \/ stored' = s
    BY <2>2 DEF s
  <2> QED BY <1>1, <2>3 DEF RecentInv, StoredIsSound, SoundElements
<1>7. ListIsSound'
  BY <1>1, <1>2, NothingIsSound DEF ListIsSound
<1> QED BY <1>3, <1>4, <1>5, <1>6, <1>7 DEF RecentInv

LEMMA FlushStep ==
  ASSUME RecentInv, Flush
  PROVE  RecentInv'
<1>1. /\ recent' = Loaded /\ loaded' = TRUE
      /\ UNCHANGED <<RecentChatsTimeout, RecentChatsClear, now, started, restarts, lastUse>>
  BY DEF Flush, config, clock
<1>2. Clock' /\ Options' /\ NothingYet'
  BY <1>1, Zenon DEF RecentInv, Clock, Options, NothingYet
<1>3. /\ Good(Loaded, lastUse) /\ OrderedBy(Loaded.list, lastUse, started)
      /\ Timed(Loaded, lastUse, started)
  BY LoadedIsSound
<1>4. StoredIsSound'
  <2>1. /\ SoundElements(LeftOver \o Elements(Loaded), lastUse)
        /\ Len(LeftOver \o Elements(Loaded)) < 2 * MaxRecentChatCount
    BY <1>3, FlushedIsSound DEF RecentInv, StoredIsSound
  <2> DEFINE s == LeftOver \o Elements(Loaded)
  <2>2. stored' = s
    BY DEF Flush
  <2>3. SoundElements(s, lastUse) /\ Len(s) < 2 * MaxRecentChatCount
    BY <2>1
  <2> HIDE DEF s
  <2> QED BY <1>1, <2>2, <2>3 DEF StoredIsSound, SoundElements
<1>5. ListIsSound'
  BY <1>1, <1>3 DEF ListIsSound
<1> QED BY <1>2, <1>4, <1>5 DEF RecentInv

LEMMA RecentStep ==
  ASSUME RecentInv, [Next]_vars
  PROVE  RecentInv'
<1>1. ASSUME NEW chat \in Chats, OnNewMessage(chat) PROVE RecentInv'
  BY <1>1, MessageStep
<1>2. CASE ShowRecentChats
  <2>1. /\ recent' = Loaded /\ loaded' = TRUE
        /\ UNCHANGED <<stored, RecentChatsTimeout, RecentChatsClear, now, started, restarts,
                       lastUse>>
    BY <1>2, Zenon DEF ShowRecentChats, Loaded, config, clock
  <2>2. Clock' /\ Options' /\ NothingYet'
    BY <2>1, Zenon DEF RecentInv, Clock, Options, NothingYet
  <2>3. StoredIsSound'
    BY <2>1 DEF RecentInv, StoredIsSound, SoundElements
  <2>4. ListIsSound'
    BY <2>1, LoadedIsSound DEF ListIsSound
  <2> QED BY <2>2, <2>3, <2>4 DEF RecentInv
<1>3. CASE CleanUp
  <2>1. UNCHANGED <<loaded, stored, RecentChatsTimeout, RecentChatsClear, now, started, restarts,
                    lastUse>>
    BY <1>3 DEF CleanUp, config, clock
  <2>2. Clock' /\ Options'
    BY <2>1, Zenon DEF RecentInv, Clock, Options
  <2>3. NothingYet'
    BY <1>3, <2>1, CleanUpKeeps DEF RecentInv, NothingYet
  <2>4. StoredIsSound'
    BY <2>1 DEF RecentInv, StoredIsSound, SoundElements
  <2>5. ListIsSound'
    BY <1>3, <2>1, CleanUpKeeps DEF ListIsSound
  <2> QED BY <2>2, <2>3, <2>4, <2>5 DEF RecentInv
<1>4. CASE ConfigurationUpdated
  <2>1. UNCHANGED <<recent, loaded, stored, now, started, restarts, lastUse>>
    BY <1>4 DEF ConfigurationUpdated, clock
  <2>2. Options'
    BY <1>4, <2>1, Zenon DEF RecentInv, Options, ConfigurationUpdated
  <2> QED BY <2>1, <2>2 DEF RecentInv, Clock, NothingYet, StoredIsSound, ListIsSound, SoundElements, Timed
<1>5. CASE TimePasses
  <2>1. /\ now < MaxTime /\ now' = now + 1
        /\ UNCHANGED <<recent, loaded, stored, RecentChatsTimeout, RecentChatsClear, started,
                       restarts, lastUse>>
    BY <1>5 DEF TimePasses, config
  <2>2. Clock'
    BY <2>1, RecentAssumption DEF RecentInv, Clock, Times, RecentAssumption
  <2>3. Options'
    BY <2>1, Zenon DEF RecentInv, Options
  <2> QED BY <2>1, <2>2, <2>3
        DEF RecentInv, NothingYet, StoredIsSound, ListIsSound, SoundElements, Timed
<1>6. CASE Flush
  BY <1>6, FlushStep
<1>7. CASE Exit
  BY <1>7, StartStep DEF Exit
<1>8. CASE Crash
  BY <1>8, StartStep DEF Crash
<1>9. CASE UNCHANGED vars
  BY <1>9 DEF vars, config, clock, RecentInv, Clock, Options, NothingYet, StoredIsSound,
              ListIsSound, SoundElements, Timed
<1> QED BY <1>1, <1>2, <1>3, <1>4, <1>5, <1>6, <1>7, <1>8, <1>9 DEF Next

LEMMA RecentInvariant == Spec => []RecentInv
<1> QED BY RecentInit, RecentStep, PTL DEF Spec

-----------------------------------------------------------------------------
(* The theorems.                                                           *)

\* Types are kept, also by the list that is read from the configuration.
THEOREM RecentTypeCorrect == Spec => []TypeOK
<1>1. RecentInv => TypeOK
  <2> SUFFICES ASSUME RecentInv PROVE TypeOK
    OBVIOUS
  <2>1. recent.list \in Seq(Chats) /\ recent.time \in [Chats -> Times]
    BY DEF RecentInv, ListIsSound, Good, Record
  <2>2. stored \in Seq(Element)
    BY DEF RecentInv, StoredIsSound, SoundElements
  <2>3. Clock /\ Options
    BY DEF RecentInv
  <2> QED BY <2>1, <2>2, <2>3, Zenon DEF TypeOK, Clock, Options
<1> QED BY <1>1, RecentInvariant, PTL

\* A chat is listed once, the list keeps to its limit, and what is stored to
\* twice the limit: a flush that adds a full list to the half it leaves of what
\* was there cannot reach it.
THEOREM NeverTooMany == Spec => []Bounded
<1>1. RecentInv => Bounded
  <2> SUFFICES ASSUME RecentInv PROVE Bounded
    OBVIOUS
  <2>1. DOMAIN recent.list = 1..Len(recent.list)
    BY DEF RecentInv, ListIsSound, Good, Record
  <2>2. Distinct(recent.list) /\ Len(recent.list) <= MaxRecentChatCount
    BY DEF RecentInv, ListIsSound, Good
  <2>3. Len(stored) < 2 * MaxRecentChatCount
    BY DEF RecentInv, StoredIsSound
  <2> QED BY <2>1, <2>2, <2>3 DEF Bounded, Distinct
<1> QED BY <1>1, RecentInvariant, PTL

\* What was used in this run of the program is above what was not, the latest
\* on top, whatever was stored and whenever it is loaded.
THEOREM LatestOnTop == Spec => []UsedAreOnTop
<1>1. RecentInv => UsedAreOnTop
  <2> SUFFICES ASSUME RecentInv PROVE UsedAreOnTop
    OBVIOUS
  <2>1. DOMAIN recent.list = 1..Len(recent.list)
    BY DEF RecentInv, ListIsSound, Good, Record
  <2>2. OrderedBy(recent.list, lastUse, started)
    BY DEF RecentInv, ListIsSound
  <2> QED BY <2>1, <2>2 DEF UsedAreOnTop, UsedThisRun, OrderedBy
<1> QED BY <1>1, RecentInvariant, PTL

\* What a clean-up leaves has had a message within RecentChatsTimeout, because the
\* time kept with a chat is never later than its last message, however often it was
\* stored and loaded; and of the chats used in this run it forgets the oldest,
\* because that time is not earlier than the messages of those used before.
THEOREM CleanUpForgets == Spec => []CleanUpFollowsUse
<1>1. ASSUME RecentInv, RecentChatsTimeout > 0 PROVE CleanUpFollowsUse
  <2> DEFINE gone == {c \in Chats : TooOld(c)}
             l == Kept(recent.list, gone)
             list == recent.list
  <2>1. list \in Seq(Chats)
    BY <1>1 DEF RecentInv, ListIsSound, Good, Record
  <2>2. AfterCleanUp = l
    BY DEF AfterCleanUp
  <2>3. /\ l \in Seq(Chats) /\ Sub(l, list)
        /\ \A k \in 1..Len(l) : l[k] \notin gone
    <3> HIDE DEF gone, list
    <3> QED BY <2>1, KeptIsSub DEF list
  <2>4. /\ ToSet(list) = Listed(list) /\ ToSet(AfterCleanUp) = Listed(l)
        /\ Listed(list) \subseteq Chats /\ Listed(l) \subseteq Chats
    <3> HIDE DEF l, gone, list
    <3> QED BY <2>1, <2>2, <2>3 DEF ToSet, Listed
  <2>5. ASSUME NEW c \in Listed(l) PROVE ~TooOld(c)
    <3> HIDE DEF l
    <3> QED BY <2>3, <2>4, <2>5 DEF Listed
  <2>6. ASSUME NEW c \in Listed(list) \ Listed(l) PROVE TooOld(c)
    <3>1. PICK i \in 1..Len(list) : c = list[i]
      BY <2>6 DEF Listed
    <3>2. list[i] \in Chats
      BY <2>1
    <3> SUFFICES ASSUME list[i] \notin gone PROVE FALSE
      BY <3>1, <3>2
    <3>3. PICK k \in 1..Len(l) : l[k] = list[i]
      <4> HIDE DEF gone, list
      <4> QED BY <2>1, KeptHasRest DEF list
    <3> QED BY <2>6, <3>1, <3>3 DEF Listed
  <2> HIDE DEF l, gone, list
  <2>7. ASSUME NEW c \in Chats
        PROVE  /\ recent.time[c] \in Int /\ lastUse[c] \in Int /\ recent.time[c] <= lastUse[c]
               /\ now \in Int /\ RecentChatsTimeout \in Int
    BY <1>1, RecentAssumption
       DEF RecentInv, ListIsSound, Good, Record, Clock, Options, Times, RecentAssumption
  <2>8. ASSUME NEW c \in Listed(l) PROVE lastUse[c] + RecentChatsTimeout >= now
    <3>1. c \in Chats /\ ~TooOld(c)
      BY <2>4, <2>5
    <3> QED BY <2>7, <3>1 DEF TooOld
  <2>9. ASSUME NEW c \in Listed(list) \ Listed(l), NEW d \in Listed(l),
               UsedThisRun(c), UsedThisRun(d), ~(lastUse[d] > lastUse[c])
        PROVE  FALSE
    <3>1. c \in Chats /\ d \in Chats /\ c # d /\ TooOld(c) /\ ~TooOld(d)
      BY <2>4, <2>5, <2>6
    <3>2. recent.time[c] < recent.time[d] /\ recent.time[d] <= lastUse[d]
      BY <2>7, <3>1 DEF TooOld
    <3>3. c \in Listed(list) /\ d \in Listed(list)
      BY <2>1, <2>3, SubKeeps DEF Listed
    <3>4. lastUse[d] # lastUse[c]
      BY <1>1, <2>1, <2>9, <3>1, <3>3, UsesDiffer DEF RecentInv, ListIsSound, Clock, UsedThisRun, list
    <3>5. lastUse[d] < lastUse[c]
      BY <2>7, <2>9, <3>1, <3>4
    <3>6. recent.time[c] > lastUse[d]
      BY <1>1, <2>9, <3>3, <3>5 DEF RecentInv, ListIsSound, Timed, UsedThisRun, list
    <3> QED BY <2>7, <3>1, <3>2, <3>6
  <2> QED BY <2>4, <2>8, <2>9 DEF CleanUpFollowsUse, list
<1>2. RecentInv => CleanUpFollowsUse
  BY <1>1 DEF CleanUpFollowsUse
<1> QED BY <1>2, RecentInvariant, PTL
=============================================================================

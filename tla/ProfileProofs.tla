---------------------------- MODULE ProfileProofs ----------------------------
(***************************************************************************)
(* Proofs about the profile page: the records of a profile and the merge   *)
(* of a resume into them (ProfileRecords), for every profile, extraction   *)
(* and number of browsers; and the autosave of its form (Autosave), for    *)
(* every window, delay and number of edits.                                *)
(***************************************************************************)
EXTENDS ProfileRecords, Autosave, FiniteSetTheorems, SequenceTheorems, TLAPS

-----------------------------------------------------------------------------
(* Lists.                                                                  *)

IsList(t) == t \in Seq(Range(t))

LEMMA ListIs ==
  ASSUME NEW t, IsList(t)
  PROVE  /\ Len(t) \in Nat /\ DOMAIN t = 1..Len(t)
         /\ \A i \in 1..Len(t) : t[i] \in Range(t)
         /\ t = << >> <=> Len(t) = 0
         /\ t = << >> <=> Range(t) = {}
  BY LenProperties, EmptySeq DEF IsList, Range

LEMMA IsAList ==
  ASSUME NEW t, NEW S, t \in Seq(S)
  PROVE  IsList(t)
<1>1. Len(t) \in Nat /\ t \in [1..Len(t) -> S] /\ DOMAIN t = 1..Len(t)
  BY LenProperties
<1>2. \A i \in 1..Len(t) : t[i] \in Range(t)
  BY <1>1 DEF Range
<1>3. PICK n \in Nat : n = Len(t)
  BY <1>1
<1>4. t \in [1..n -> Range(t)]
  BY <1>1, <1>2, <1>3
<1> QED BY <1>4, SeqDef DEF IsList

LEMMA ConcatIs ==
  ASSUME NEW s, NEW t, IsList(s), IsList(t)
  PROVE  /\ IsList(s \o t) /\ Len(s \o t) = Len(s) + Len(t)
         /\ Range(s \o t) = Range(s) \cup Range(t)
         /\ \A i \in 1..Len(s) : (s \o t)[i] = s[i]
         /\ \A i \in 1..Len(t) : (s \o t)[Len(s) + i] = t[i]
<1>1. PICK R : R = Range(s) \cup Range(t)
  OBVIOUS
<1>2. s \in Seq(R) /\ t \in Seq(R)
  <2>1. Range(s) \subseteq R /\ Range(t) \subseteq R
    BY <1>1
  <2> QED BY <2>1, SeqDef DEF IsList
<1>3. PICK u : u = s \o t
  OBVIOUS
<1>4. /\ u \in Seq(R) /\ Len(u) = Len(s) + Len(t)
      /\ \A i \in 1..Len(s) + Len(t) : u[i] = IF i <= Len(s) THEN s[i] ELSE t[i - Len(s)]
  BY <1>2, <1>3, ConcatProperties
<1>5. Len(s) \in Nat /\ Len(t) \in Nat /\ DOMAIN s = 1..Len(s) /\ DOMAIN t = 1..Len(t)
      /\ DOMAIN u = 1..Len(u)
  BY <1>2, <1>4, LenProperties
<1>6. IsList(u)
  BY <1>4, IsAList
<1>7. \A i \in 1..Len(s) : u[i] = s[i]
  BY <1>4, <1>5
<1>8. \A i \in 1..Len(t) : u[Len(s) + i] = t[i]
  BY <1>4, <1>5
<1>9. Range(u) = Range(s) \cup Range(t)
  <2>1. \A i \in DOMAIN u : u[i] \in Range(s) \cup Range(t)
    BY <1>4, <1>5 DEF Range
  <2>2. \A i \in DOMAIN s : s[i] \in Range(u)
    BY <1>4, <1>5, <1>7 DEF Range
  <2>3. \A i \in DOMAIN t : t[i] \in Range(u)
    <3>1. \A i \in DOMAIN t : Len(s) + i \in DOMAIN u
      BY <1>4, <1>5
    <3> QED BY <1>5, <1>8, <3>1 DEF Range
  <2> QED BY <2>1, <2>2, <2>3 DEF Range
<1> QED BY <1>3, <1>4, <1>6, <1>7, <1>8, <1>9

LEMMA TailIs ==
  ASSUME NEW t, IsList(t), t # << >>
  PROVE  /\ Head(t) = t[1] /\ Head(t) \in Range(t)
         /\ IsList(Tail(t)) /\ Len(Tail(t)) = Len(t) - 1
         /\ \A i \in 1..Len(Tail(t)) : Tail(t)[i] = t[i + 1]
         /\ Range(t) = {Head(t)} \cup Range(Tail(t))
<1>1. PICK R : R = Range(t) /\ t \in Seq(R)
  BY DEF IsList
<1>2. Len(t) \in Nat \ {0} /\ DOMAIN t = 1..Len(t)
  BY ListIs
<1>3. /\ Tail(t) \in Seq(R) /\ Len(Tail(t)) = Len(t) - 1
      /\ \A i \in 1..Len(Tail(t)) : Tail(t)[i] = t[i + 1]
  BY <1>1, HeadTailProperties
<1>4. Head(t) = t[1]
  BY <1>1, <1>2
<1>5. IsList(Tail(t))
  BY <1>3, IsAList
<1>6. Range(t) = {Head(t)} \cup Range(Tail(t))
  <2>1. PICK n \in Nat : n = Len(t)
    BY <1>2
  <2>2. PICK rest : rest = Tail(t)
    OBVIOUS
  <2>3. DOMAIN t = 1..n /\ DOMAIN rest = 1..(n - 1) /\ \A i \in 1..(n - 1) : rest[i] = t[i + 1]
    BY <1>2, <1>3, <1>5, <2>1, <2>2, ListIs
  <2>4. \A i \in 1..n : i = 1 \/ (i - 1 \in 1..(n - 1) /\ i = (i - 1) + 1)
    OBVIOUS
  <2>5. \A i \in 1..(n - 1) : i + 1 \in 1..n
    OBVIOUS
  <2>6. 1 \in 1..n
    BY <1>2, <2>1
  <2>7. \A i \in DOMAIN t : t[i] = t[1] \/ t[i] \in Range(rest)
    <3> TAKE i \in DOMAIN t
    <3>1. i = 1 \/ (i - 1 \in DOMAIN rest /\ rest[i - 1] = t[i])
      BY <2>3, <2>4
    <3> QED BY <3>1 DEF Range
  <2>8. \A i \in DOMAIN rest : rest[i] \in Range(t)
    BY <2>3, <2>5 DEF Range
  <2> QED BY <1>4, <2>2, <2>3, <2>6, <2>7, <2>8 DEF Range
<1> QED BY <1>2, <1>3, <1>4, <1>5, <1>6 DEF Range

LEMMA MapIs ==
  ASSUME NEW t, NEW f, IsList(t), f = [i \in DOMAIN t |-> f[i]]
  PROVE  IsList(f) /\ Len(f) = Len(t) /\ DOMAIN f = DOMAIN t
<1>1. PICK n \in Nat : n = Len(t) /\ DOMAIN t = 1..n
  BY ListIs
<1>2. f \in [1..n -> Range(f)]
  BY <1>1 DEF Range
<1>3. f \in Seq(Range(f))
  BY <1>2, SeqDef
<1>4. Len(f) = n
  BY <1>1, <1>2, <1>3, LenProperties
<1> QED BY <1>1, <1>3, <1>4 DEF IsList

\* A finite set as a list.
LEMMA SetToSeqIs ==
  ASSUME NEW S, IsFiniteSet(S)
  PROVE  /\ IsList(SetToSeq(S)) /\ Range(SetToSeq(S)) = S
         /\ \A i, j \in DOMAIN SetToSeq(S) : SetToSeq(S)[i] = SetToSeq(S)[j] => i = j
<1>1. PICK n \in Nat : ExistsBijection(1..n, S)
  BY FS_NatBijection
<1>2. Cardinality(S) = n
  BY <1>1, FS_CountingElements
<1>3. \E f \in [1..n -> S] : IsInjective(f)
  BY <1>1 DEF ExistsBijection, Bijection, Injection
<1>4. PICK f : f = SetToSeq(S)
  OBVIOUS
<1>5. f \in [1..n -> S] /\ IsInjective(f)
  BY <1>2, <1>3, <1>4 DEF SetToSeq
<1>6. f \in Injection(1..n, S) /\ IsFiniteSet(1..n) /\ Cardinality(1..n) = n
  <2>1. IsFiniteSet(1..n) /\ Cardinality(1..n) = IF 1 > n THEN 0 ELSE n - 1 + 1
    BY FS_Interval
  <2> QED BY <1>5, <2>1 DEF Injection
<1>7. f \in Surjection(1..n, S)
  BY <1>2, <1>6, FS_Injection
<1>8. f \in Seq(S) /\ Range(f) = S
  BY <1>5, <1>7, SeqDef DEF Surjection, Range
<1> QED BY <1>4, <1>5, <1>8, IsAList DEF IsInjective

\* A set of numbers that is not empty has a least member.
LEMMA LeastOf ==
  ASSUME NEW S, S \subseteq Nat, S # {}
  PROVE  \E n \in S : \A m \in S : n <= m
<1> DEFINE less == {pair \in Nat \X Nat : pair[1] < pair[2]}
<1>1. PICK n \in S : \A m \in S : ~ <<m, n>> \in less
  <2>1. IsWellFoundedOn(less, Nat)
    BY NatLessThanWellFounded, Zenon DEF OpToRel
  <2> HIDE DEF less
  <2> QED BY <2>1, WFMin
<1>2. \A m \in S : m < n => <<m, n>> \in less
  OBVIOUS
<1> HIDE DEF less
<1>3. \A m \in S : ~ (m < n)
  BY <1>1, <1>2
<1> QED BY <1>3

\* No member comes twice.
NoRepeats(t) == \A m, n \in DOMAIN t : m # n => t[m] # t[n]

LEMMA ConcatNoRepeats ==
  ASSUME NEW s, NEW t, IsList(s), IsList(t), NoRepeats(s), NoRepeats(t),
         \A r \in Range(s), q \in Range(t) : r # q
  PROVE  NoRepeats(s \o t)
<1>1. PICK u : u = s \o t
  OBVIOUS
<1>2. /\ IsList(u) /\ Len(u) = Len(s) + Len(t)
      /\ \A i \in 1..Len(s) : u[i] = s[i]
      /\ \A i \in 1..Len(t) : u[Len(s) + i] = t[i]
  BY <1>1, ConcatIs
<1>3. /\ Len(s) \in Nat /\ Len(t) \in Nat
      /\ DOMAIN s = 1..Len(s) /\ DOMAIN t = 1..Len(t) /\ DOMAIN u = 1..Len(u)
  BY <1>2, ListIs
<1>4. ASSUME NEW m \in DOMAIN u, NEW n \in DOMAIN u, m # n, u[m] = u[n] PROVE FALSE
  <2>1. CASE m <= Len(s) /\ n <= Len(s)
    <3>1. m \in DOMAIN s /\ n \in DOMAIN s /\ u[m] = s[m] /\ u[n] = s[n]
      BY <1>2, <1>3, <1>4, <2>1
    <3> QED BY <1>4, <3>1 DEF NoRepeats
  <2>2. CASE m > Len(s) /\ n > Len(s)
    <3>1. PICK i \in 1..Len(t), j \in 1..Len(t) : m = Len(s) + i /\ n = Len(s) + j
      <4>1. m - Len(s) \in 1..Len(t) /\ n - Len(s) \in 1..Len(t)
        BY <1>2, <1>3, <1>4, <2>2
      <4>2. m = Len(s) + (m - Len(s)) /\ n = Len(s) + (n - Len(s))
        BY <1>2, <1>3, <1>4
      <4> QED BY <4>1, <4>2
    <3>2. i # j /\ u[m] = t[i] /\ u[n] = t[j]
      BY <1>2, <1>4, <3>1
    <3> QED BY <1>3, <1>4, <3>1, <3>2 DEF NoRepeats
  <2>3. CASE m <= Len(s) /\ n > Len(s)
    <3>1. m \in 1..Len(s) /\ n - Len(s) \in 1..Len(t) /\ n = Len(s) + (n - Len(s))
      BY <1>2, <1>3, <1>4, <2>3
    <3>2. u[m] = s[m] /\ u[n] = t[n - Len(s)]
      BY <1>2, <3>1
    <3> QED BY <1>3, <1>4, <3>1, <3>2 DEF Range
  <2>4. CASE m > Len(s) /\ n <= Len(s)
    <3>1. n \in 1..Len(s) /\ m - Len(s) \in 1..Len(t) /\ m = Len(s) + (m - Len(s))
      BY <1>2, <1>3, <1>4, <2>4
    <3>2. u[n] = s[n] /\ u[m] = t[m - Len(s)]
      BY <1>2, <3>1
    <3> QED BY <1>3, <1>4, <3>1, <3>2 DEF Range
  <2> QED BY <1>2, <1>3, <1>4, <2>1, <2>2, <2>3, <2>4
<1> QED BY <1>1, <1>4 DEF NoRepeats

\* The function that FlattenSeq is made of.
Flat(f, s, n) == f = [i \in 1..n |-> IF i = 1 THEN s[i] ELSE f[i - 1] \o s[i]]

LEMMA FlatExists == ASSUME NEW s PROVE \A n \in Nat : \E f : Flat(f, s, n)
<1> DEFINE bad == {n \in Nat : ~ \E f : Flat(f, s, n)}
<1> SUFFICES ASSUME bad # {} PROVE FALSE
  OBVIOUS
<1>1. PICK n \in bad : \A m \in bad : n <= m
  BY LeastOf
<1>2. n # 0
  <2>1. Flat([i \in 1..0 |-> s], s, 0)
    BY DEF Flat
  <2> QED BY <2>1
<1>3. n - 1 \in Nat /\ n - 1 \notin bad
  BY <1>1, <1>2
<1>4. PICK f : Flat(f, s, n - 1)
  BY <1>3
<1> DEFINE g == [i \in 1..n |-> IF i = n THEN (IF i = 1 THEN s[i] ELSE f[n - 1] \o s[i]) ELSE f[i]]
<1>5. \A i \in 1..n : g[i] = IF i = 1 THEN s[i] ELSE g[i - 1] \o s[i]
  <2> TAKE i \in 1..n
  <2>1. CASE i = n
    <3>1. i # 1 => i - 1 \in 1..n /\ i - 1 # n /\ i - 1 = n - 1
      BY <1>2, <2>1
    <3>2. i # 1 => g[i - 1] = f[n - 1]
      BY <3>1
    <3> QED BY <2>1, <3>2, Zenon
  <2>2. CASE i # n
    <3>1. i \in 1..n - 1 /\ n \in Nat
      BY <2>2
    <3>2. f[i] = IF i = 1 THEN s[i] ELSE f[i - 1] \o s[i]
      BY <3>1, <1>4, Zenon DEF Flat
    <3>3. i # 1 => i - 1 \in 1..n /\ i - 1 # n
      BY <3>1
    <3>4. g[i] = f[i] /\ (i # 1 => g[i - 1] = f[i - 1])
      BY <2>2, <3>3
    <3> QED BY <3>2, <3>4, Zenon
  <2> QED BY <2>1, <2>2
<1>6. Flat(g, s, n)
  BY <1>5, Zenon DEF Flat
<1> QED BY <1>1, <1>6

LEMMA FlattenSeqIs ==
  ASSUME NEW s, IsList(s), \A i \in DOMAIN s : IsList(s[i])
  PROVE  /\ IsList(FlattenSeq(s))
         /\ Range(FlattenSeq(s)) = UNION {Range(s[i]) : i \in DOMAIN s}
         /\ (/\ \A i \in DOMAIN s : NoRepeats(s[i])
             /\ \A i, j \in DOMAIN s : i # j =>
                  \A r \in Range(s[i]), q \in Range(s[j]) : r # q)
            => NoRepeats(FlattenSeq(s))
<1>1. PICK N \in Nat : N = Len(s) /\ DOMAIN s = 1..N
  BY ListIs
<1>2. CASE N = 0
  <2>1. FlattenSeq(s) = s /\ s = << >> /\ DOMAIN s = {} /\ Range(s) = {}
    BY <1>1, <1>2, ListIs DEF FlattenSeq
  <2> QED BY <2>1 DEF NoRepeats
<1>3. CASE N # 0
  <2>1. PICK f : Flat(f, s, N) /\ FlattenSeq(s) = f[N]
    <3>1. \E f : Flat(f, s, N)
      BY FlatExists
    <3>2. FlattenSeq(s) = (CHOOSE f : Flat(f, s, N))[N]
      BY <1>1, <1>3, Zenon DEF FlattenSeq, Flat
    <3> QED BY <3>1, <3>2
  <2>2. \A i \in 1..N : f[i] = IF i = 1 THEN s[i] ELSE f[i - 1] \o s[i]
    BY <2>1, Zenon DEF Flat
  <2> DEFINE Clean == /\ \A i \in DOMAIN s : NoRepeats(s[i])
                      /\ \A i, j \in DOMAIN s : i # j =>
                           \A r \in Range(s[i]), q \in Range(s[j]) : r # q
             Upto(n) == UNION {Range(s[i]) : i \in 1..n}
             Fine(n) == IsList(f[n]) /\ Range(f[n]) = Upto(n) /\ (Clean => NoRepeats(f[n]))
             bad == {n \in Nat : n \in 1..N /\ ~Fine(n)}
  <2>3. bad = {}
    <3> SUFFICES ASSUME bad # {} PROVE FALSE
      OBVIOUS
    <3>1. PICK n \in bad : \A m \in bad : n <= m
      <4> HIDE DEF bad
      <4>1. bad \subseteq Nat
        BY DEF bad
      <4> QED BY <4>1, LeastOf
    <3>2. n \in 1..N /\ ~Fine(n)
      BY <3>1
    <3>3. IsList(s[n])
      BY <1>1, <3>2
    <3>4. CASE n = 1
      <4>1. f[n] = s[n] /\ Upto(n) = Range(s[n])
        BY <2>2, <3>2, <3>4
      <4>2. Clean => NoRepeats(s[n])
        BY <1>1, <3>2
      <4> HIDE DEF Clean, Upto
      <4> QED BY <3>2, <3>3, <4>1, <4>2
    <3>5. CASE n # 1
      <4>1. n - 1 \in 1..N /\ n - 1 < n /\ n - 1 \in Nat
        BY <3>2, <3>5
      <4>2. Fine(n - 1)
        <5>1. n - 1 \notin bad
          <6> HIDE DEF bad
          <6>1. bad \subseteq Nat
            BY DEF bad
          <6> QED BY <3>1, <4>1, <6>1
        <5> HIDE DEF Fine
        <5> QED BY <4>1, <5>1
      <4>3. PICK t : t = f[n - 1]
        OBVIOUS
      <4>4. f[n] = t \o s[n] /\ IsList(t) /\ Range(t) = Upto(n - 1) /\ (Clean => NoRepeats(t))
        BY <2>2, <3>2, <3>5, <4>2, <4>3, Zenon
      <4>5. IsList(f[n]) /\ Range(f[n]) = Upto(n - 1) \cup Range(s[n])
        <5> HIDE DEF Upto, Clean
        <5> QED BY <3>3, <4>4, ConcatIs
      <4>6. Upto(n) = Upto(n - 1) \cup Range(s[n])
        <5>1. \A i : i \in 1..n <=> i \in 1..n - 1 \/ i = n
          BY <3>2, <4>1
        <5> QED BY <5>1
      <4>7. ASSUME Clean PROVE NoRepeats(f[n])
        <5>1. \A r \in Upto(n - 1), q \in Range(s[n]) : r # q
          <6> SUFFICES ASSUME NEW i \in 1..n - 1, NEW r \in Range(s[i]), NEW q \in Range(s[n])
                       PROVE  r # q
            OBVIOUS
          <6>1. i \in DOMAIN s /\ n \in DOMAIN s /\ i # n
            BY <1>1, <3>2, <4>1
          <6> QED BY <4>7, <6>1
        <5>2. NoRepeats(s[n]) /\ NoRepeats(t)
          BY <1>1, <3>2, <4>4, <4>7
        <5> HIDE DEF Upto, Clean
        <5> QED BY <3>3, <4>4, <5>1, <5>2, ConcatNoRepeats
      <4> HIDE DEF Upto, Clean
      <4> QED BY <3>2, <4>5, <4>6, <4>7
    <3> QED BY <3>4, <3>5
  <2>4. Fine(N)
    <3>1. N \in 1..N /\ N \in Nat
      BY <1>3
    <3> HIDE DEF Fine
    <3> QED BY <2>3, <3>1
  <2> QED BY <1>1, <2>1, <2>4
<1> QED BY <1>2, <1>3

LEMMA ExistingIs ==
  ASSUME NEW rows, DistinctNames(rows), NEW name, Matching(rows, name) # {}
  PROVE  Existing(rows, name) \in Matching(rows, name)
<1>1. \A i, j \in Matching(rows, name) : i = j
  BY DEF Matching, DistinctNames
<1>2. \E id \in Matching(rows, name) :
        \A other \in Matching(rows, name) \ {id} : ListedAfter(rows, id, other)
  BY <1>1
<1> QED BY <1>2, Zenon DEF Existing

-----------------------------------------------------------------------------
(* What is merged into the rows of one table.                              *)

\* The rows that a merge changes.
Changed(rows, entries) == {id \in DOMAIN rows : MergedRow(rows[id], entries) # rows[id]}

LEMMA MergedRowIs ==
  ASSUME NEW entries, DistinctNames(entries), NEW row
  PROVE  \/ /\ MergedRow(row, entries) = row
            /\ \A i \in DOMAIN entries : Key(entries[i].name) # Key(row.name)
         \/ \E i \in DOMAIN entries :
              /\ Key(entries[i].name) = Key(row.name)
              /\ MergedRow(row, entries) =
                   IF SameDates(row, Overlaid(row, entries[i])) THEN row ELSE Overlaid(row, entries[i])
<1> DEFINE matches == {i \in DOMAIN entries : Key(entries[i].name) = Key(row.name)}
           first == CHOOSE i \in matches : TRUE
<1>1. MergedRow(row, entries) =
        IF matches = {} THEN row
        ELSE IF SameDates(row, Overlaid(row, entries[first])) THEN row
        ELSE Overlaid(row, entries[first])
  BY Zenon DEF MergedRow
<1>2. matches # {} => first \in matches
  OBVIOUS
<1>3. \A i : i \in matches <=> i \in DOMAIN entries /\ Key(entries[i].name) = Key(row.name)
  OBVIOUS
<1> HIDE DEF matches, first
<1> QED BY <1>1, <1>2, <1>3

LEMMA MergedRowOf ==
  ASSUME NEW entries, DistinctNames(entries), NEW row, NEW i \in DOMAIN entries,
         Key(entries[i].name) = Key(row.name)
  PROVE  MergedRow(row, entries) =
           IF SameDates(row, Overlaid(row, entries[i])) THEN row ELSE Overlaid(row, entries[i])
<1>1. \A j \in DOMAIN entries : Key(entries[j].name) = Key(row.name) => j = i
  BY DEF DistinctNames
<1> QED BY <1>1, MergedRowIs

LEMMA MergedRowKey ==
  ASSUME NEW entries, DistinctNames(entries), NEW row
  PROVE  Key(MergedRow(row, entries).name) = Key(row.name)
<1>1. \A i \in DOMAIN entries : Overlaid(row, entries[i]).name = entries[i].name
  BY DEF Overlaid
<1> QED BY <1>1, MergedRowIs

\* What is merged already stays as it is.
LEMMA MergedTwice ==
  ASSUME NEW entries, DistinctNames(entries), NEW row
  PROVE  MergedRow(MergedRow(row, entries), entries) = MergedRow(row, entries)
<1>1. PICK new : new = MergedRow(row, entries)
  OBVIOUS
<1>2. CASE new = row
  BY <1>1, <1>2
<1>3. CASE new # row
  <2>1. PICK i \in DOMAIN entries : Key(entries[i].name) = Key(row.name) /\ new = Overlaid(row, entries[i])
    BY <1>1, <1>3, MergedRowIs
  <2>2. Key(entries[i].name) = Key(new.name)
    BY <2>1 DEF Overlaid
  <2>3. SameDates(new, Overlaid(new, entries[i]))
    BY <2>1 DEF Overlaid, SameDates, AsDate
  <2>4. MergedRow(new, entries) = new
    BY <2>2, <2>3, MergedRowOf
  <2> QED BY <1>1, <2>4
<1> QED BY <1>2, <1>3

LEMMA NewRowMerged ==
  ASSUME NEW entries, DistinctNames(entries), NEW i \in DOMAIN entries
  PROVE  MergedRow(NewRow(entries[i]), entries) = NewRow(entries[i])
<1>1. PICK row : row = NewRow(entries[i])
  OBVIOUS
<1>2. Key(entries[i].name) = Key(row.name) /\ SameDates(row, Overlaid(row, entries[i]))
  BY <1>1 DEF NewRow, Overlaid, SameDates, AsDate
<1> QED BY <1>1, <1>2, MergedRowOf

\* A new entry is inserted.
Gains(rows, new, id, row) ==
  /\ DOMAIN new = DOMAIN rows \cup {id} /\ new[id] = row
  /\ \A j \in DOMAIN rows : new[j] = rows[j]

LEMMA RowAdded ==
  ASSUME NEW entries, DistinctNames(entries), NEW rows, NEW k \in Added(rows, entries),
         NEW id, id \notin DOMAIN rows, NEW new, Gains(rows, new, id, NewRow(entries[k]))
  PROVE  /\ Added(new, entries) = Added(rows, entries) \ {k}
         /\ Changed(new, entries) = Changed(rows, entries)
         /\ MergedRow(new[id], entries) = NewRow(entries[k])
<1>1. /\ DOMAIN new = DOMAIN rows \cup {id} /\ new[id] = NewRow(entries[k])
      /\ \A j \in DOMAIN rows : new[j] = rows[j]
  BY DEF Gains
<1>2. MergedRow(new[id], entries) = new[id]
  BY <1>1, NewRowMerged DEF Added
<1>3. Changed(new, entries) = Changed(rows, entries)
  BY <1>1, <1>2 DEF Changed
<1>4. new[id].name = entries[k].name /\ k \in DOMAIN entries
  BY <1>1 DEF NewRow, Added
<1>5. ASSUME NEW i \in DOMAIN entries
      PROVE  Matching(new, entries[i].name) = {} <=> Matching(rows, entries[i].name) = {} /\ i # k
  <2>1. CASE i = k
    BY <1>1, <1>4, <2>1 DEF Matching
  <2>2. CASE i # k
    <3>1. Key(entries[i].name) # Key(entries[k].name)
      BY <1>4, <2>2 DEF DistinctNames
    <3>2. Matching(new, entries[i].name) = Matching(rows, entries[i].name)
      BY <1>1, <1>4, <3>1 DEF Matching
    <3> QED BY <2>2, <3>2
  <2> QED BY <2>1, <2>2
<1>6. Added(new, entries) = Added(rows, entries) \ {k}
  BY <1>5 DEF Added
<1> QED BY <1>1, <1>2, <1>3, <1>6

\* An entry that is there gets its dates.
LEMMA RowMerged ==
  ASSUME NEW entries, DistinctNames(entries), NEW rows, NEW id \in Changed(rows, entries),
         NEW new, new = Put(rows, id, MergedRow(rows[id], entries))
  PROVE  /\ DOMAIN new = DOMAIN rows
         /\ \A j \in DOMAIN rows : /\ Key(new[j].name) = Key(rows[j].name)
                                   /\ MergedRow(new[j], entries) = MergedRow(rows[j], entries)
                                   /\ j # id => new[j] = rows[j]
         /\ Added(new, entries) = Added(rows, entries)
         /\ Changed(new, entries) = Changed(rows, entries) \ {id}
<1>1. id \in DOMAIN rows
  BY DEF Changed
<1>2. /\ DOMAIN new = DOMAIN rows
      /\ \A j \in DOMAIN rows : new[j] = IF j = id THEN MergedRow(rows[id], entries) ELSE rows[j]
  BY <1>1 DEF Put
<1>3. Key(new[id].name) = Key(rows[id].name) /\ MergedRow(new[id], entries) = new[id]
  BY <1>1, <1>2, MergedRowKey, MergedTwice
<1>4. \A j \in DOMAIN rows : /\ Key(new[j].name) = Key(rows[j].name)
                             /\ MergedRow(new[j], entries) = MergedRow(rows[j], entries)
                             /\ j # id => new[j] = rows[j]
  BY <1>2, <1>3
<1>5. Added(new, entries) = Added(rows, entries)
  BY <1>2, <1>4 DEF Added, Matching
<1>6. Changed(new, entries) = Changed(rows, entries) \ {id}
  BY <1>1, <1>2, <1>3, <1>4 DEF Changed
<1> QED BY <1>2, <1>4, <1>5, <1>6

\* What an entry's bullets become.
LEMMA MergedBulletsIs ==
  ASSUME NEW c, NEW id, NEW entries, DistinctNames(entries)
  PROVE  \/ /\ MergedBullets(c, id, entries) = Texts(c, id)
            /\ \A i \in DOMAIN entries : Key(entries[i].name) # Key(c.work[id].name)
         \/ \E i \in DOMAIN entries :
              /\ Key(entries[i].name) = Key(c.work[id].name)
              /\ MergedBullets(c, id, entries) = entries[i].bullets
<1> DEFINE matches == {i \in DOMAIN entries : Key(entries[i].name) = Key(c.work[id].name)}
           first == CHOOSE i \in matches : TRUE
<1>1. MergedBullets(c, id, entries) = IF matches = {} THEN Texts(c, id) ELSE entries[first].bullets
  BY Zenon DEF MergedBullets
<1>2. matches # {} => first \in matches
  OBVIOUS
<1>3. \A i : i \in matches <=> i \in DOMAIN entries /\ Key(entries[i].name) = Key(c.work[id].name)
  OBVIOUS
<1> HIDE DEF matches, first
<1> QED BY <1>1, <1>2, <1>3

LEMMA MergedBulletsOf ==
  ASSUME NEW c, NEW id, NEW entries, DistinctNames(entries), NEW i \in DOMAIN entries,
         Key(entries[i].name) = Key(c.work[id].name)
  PROVE  MergedBullets(c, id, entries) = entries[i].bullets
<1>1. \A j \in DOMAIN entries : Key(entries[j].name) = Key(c.work[id].name) => j = i
  BY DEF DistinctNames
<1> QED BY <1>1, MergedBulletsIs

\* It depends on the entry's key, and on its own bullets if it is not merged.
LEMMA SameMergedBullets ==
  ASSUME NEW c, NEW d, NEW id, NEW entries, DistinctNames(entries),
         Key(d.work[id].name) = Key(c.work[id].name),
         \/ Texts(d, id) = Texts(c, id)
         \/ \E i \in DOMAIN entries : Key(entries[i].name) = Key(c.work[id].name)
  PROVE  MergedBullets(d, id, entries) = MergedBullets(c, id, entries)
<1>1. CASE \E i \in DOMAIN entries : Key(entries[i].name) = Key(c.work[id].name)
  BY <1>1, MergedBulletsOf
<1>2. CASE ~ \E i \in DOMAIN entries : Key(entries[i].name) = Key(c.work[id].name)
  BY <1>2, MergedBulletsIs
<1> QED BY <1>1, <1>2

LEMMA TextsIs ==
  ASSUME NEW c, NEW id
  PROVE  \A text : text \in Texts(c, id) <=>
           \E b \in DOMAIN c.bullets : c.bullets[b].work = id /\ c.bullets[b].text = text
  BY DEF Texts, BulletsOf

LEMMA SameTexts ==
  ASSUME NEW c, NEW d, d.bullets = c.bullets
  PROVE  \A id : Texts(d, id) = Texts(c, id)
<1> TAKE id
<1>1. \A text : text \in Texts(d, id) <=> text \in Texts(c, id)
  BY TextsIs
<1>2. /\ Texts(c, id) = {c.bullets[b].text : b \in BulletsOf(c, id)}
      /\ Texts(d, id) = {d.bullets[b].text : b \in BulletsOf(d, id)}
  BY DEF Texts
<1> QED BY <1>1, <1>2

-----------------------------------------------------------------------------
(* What there is to send: the requests of a plan from profile c.           *)

NeedsBasic(c, x, r) ==
  /\ c.basic.name = Empty /\ x.name # Empty
  /\ r = [op |-> "updateProfile", basic |-> [name |-> x.name, wanted |-> c.basic.wanted]]

NewSkills(rows, names) ==
  {i \in DOMAIN names : Matching(rows, names[i]) = {} /\ FirstOfKey(names, i)}
NeedsSkill(rows, names, r) ==
  \E i \in NewSkills(rows, names) : r = [op |-> "addSkill", name |-> names[i]]

NeedsEducation(rows, entries, r) ==
  \/ \E i \in Added(rows, entries) : r = [op |-> "addEducation", row |-> NewRow(entries[i])]
  \/ \E id \in Changed(rows, entries) :
       r = [op |-> "updateEducation", id |-> id, row |-> MergedRow(rows[id], entries)]

NeedsEntry(rows, entries, r) ==
  \/ \E i \in Added(rows, entries) : r = [op |-> "addWork", row |-> NewRow(entries[i]), place |-> i]
  \/ \E id \in Changed(rows, entries) :
       r = [op |-> "updateWork", id |-> id, row |-> MergedRow(rows[id], entries)]

\* The bullets an entry lacks, and those the extraction lacks.
Lacks(c, id, entries) == MergedBullets(c, id, entries) \ Texts(c, id)
Surplus(c, entries) ==
  {b \in DOMAIN c.bullets : /\ c.bullets[b].work \in DOMAIN c.work
                            /\ c.bullets[b].text \notin MergedBullets(c, c.bullets[b].work, entries)}
BulletFor(id, text) == [op |-> "addBullet", work |-> id, text |-> text]
NeedsBullet(c, entries, r) ==
  \/ \E i \in Added(c.work, entries) : \E text \in entries[i].bullets : r = BulletFor(-i, text)
  \/ \E id \in DOMAIN c.work : \E text \in Lacks(c, id, entries) : r = BulletFor(id, text)
  \/ \E b \in Surplus(c, entries) : r = [op |-> "deleteBullet", id |-> b]

Needs(c, x, r) ==
  \/ NeedsBasic(c, x, r) \/ NeedsSkill(c.skills, x.skills, r)
  \/ NeedsEducation(c.education, x.education, r)
  \/ NeedsEntry(c.work, x.work, r) \/ NeedsBullet(c, x.work, r)

LEMMA NeedsOps ==
  ASSUME NEW c, NEW x, NEW r
  PROVE  /\ NeedsBasic(c, x, r) => r.op = "updateProfile"
         /\ NeedsSkill(c.skills, x.skills, r) => r.op = "addSkill"
         /\ NeedsEducation(c.education, x.education, r) => r.op \in {"addEducation", "updateEducation"}
         /\ NeedsEntry(c.work, x.work, r) => r.op \in {"addWork", "updateWork"}
         /\ NeedsBullet(c, x.work, r) => r.op \in {"addBullet", "deleteBullet"}
  BY DEF NeedsBasic, NeedsSkill, NeedsEducation, NeedsEntry, NeedsBullet, BulletFor

\* The parts of a merged profile.
SkillsOf(rows, names) ==
  {rows[id].name : id \in DOMAIN rows} \cup {names[i] : i \in NewSkills(rows, names)}
EducationOf(rows, entries) ==
  {MergedRow(rows[id], entries) : id \in DOMAIN rows} \cup {NewRow(entries[i]) : i \in Added(rows, entries)}
WorkOf(c, entries) ==
  {<<MergedRow(c.work[id], entries), MergedBullets(c, id, entries)>> : id \in DOMAIN c.work}
  \cup {<<NewRow(entries[i]), entries[i].bullets>> : i \in Added(c.work, entries)}
NameOf(c, x) == IF c.basic.name = Empty THEN x.name ELSE c.basic.name

LEMMA MergedIs ==
  ASSUME NEW c, NEW x
  PROVE  Merged(c, x) = [name |-> NameOf(c, x), wanted |-> c.basic.wanted,
                         skills |-> SkillsOf(c.skills, x.skills),
                         education |-> EducationOf(c.education, x.education),
                         work |-> WorkOf(c, x.work)]
  BY Zenon DEF Merged, NameOf, SkillsOf, NewSkills, EducationOf, WorkOf

\* A request that was needed is served: the others still are, no more are, and
\* what there will be in the end is the same.
Progress(c, d, x, q) ==
  /\ \A r : Needs(d, x, r) <=> Needs(c, x, r) /\ r # q
  /\ Merged(d, x) = Merged(c, x)

-----------------------------------------------------------------------------
(* What serving a request leaves to send.                                  *)

LEMMA MergedBulletsFrom ==
  ASSUME NEW c, NEW d, d.work = c.work, \A id : Texts(d, id) = Texts(c, id), NEW entries
  PROVE  \A id : MergedBullets(d, id, entries) = MergedBullets(c, id, entries)
<1> TAKE id
<1> DEFINE matches(row) == {i \in DOMAIN entries : Key(entries[i].name) = Key(row.name)}
           bullets0(row, texts) == IF matches(row) = {} THEN texts
                                   ELSE entries[CHOOSE i \in matches(row) : TRUE].bullets
<1>1. MergedBullets(c, id, entries) = bullets0(c.work[id], Texts(c, id))
  BY Zenon DEF MergedBullets
<1>2. MergedBullets(d, id, entries) = bullets0(d.work[id], Texts(d, id))
  BY Zenon DEF MergedBullets
<1>3. c.work[id] = d.work[id] /\ Texts(c, id) = Texts(d, id)
  OBVIOUS
<1> HIDE DEF bullets0
<1> QED BY <1>1, <1>2, <1>3, Zenon

\* What does not touch the work table and its bullets.
LEMMA WorkAlone ==
  ASSUME NEW c, NEW d, NEW x, d.work = c.work, d.bullets = c.bullets
  PROVE  /\ \A r : NeedsBullet(d, x.work, r) <=> NeedsBullet(c, x.work, r)
         /\ WorkOf(d, x.work) = WorkOf(c, x.work)
<1>1. \A id : Texts(d, id) = Texts(c, id)
  BY SameTexts
<1>2. \A id : MergedBullets(d, id, x.work) = MergedBullets(c, id, x.work)
  BY <1>1, MergedBulletsFrom
<1> QED BY <1>1, <1>2 DEF NeedsBullet, Lacks, Surplus, WorkOf

LEMMA BasicProgress ==
  ASSUME NEW c, NEW d, NEW x, NEW q, NeedsBasic(c, x, q), d.basic = q.basic,
         d.skills = c.skills, d.education = c.education, d.work = c.work, d.bullets = c.bullets
  PROVE  Progress(c, d, x, q)
<1>1. /\ c.basic.name = Empty /\ x.name # Empty /\ q.op = "updateProfile"
      /\ d.basic.name = x.name /\ d.basic.wanted = c.basic.wanted
  BY DEF NeedsBasic
<1>2. \A r : ~NeedsBasic(d, x, r)
  BY <1>1 DEF NeedsBasic
<1>3. \A r : NeedsBasic(c, x, r) <=> r = q
  BY DEF NeedsBasic
<1>4. \A r : NeedsBullet(d, x.work, r) <=> NeedsBullet(c, x.work, r)
  BY WorkAlone
<1>5. NameOf(d, x) = NameOf(c, x)
  BY <1>1 DEF NameOf
<1>6. Merged(d, x) = Merged(c, x)
  BY <1>1, <1>5, WorkAlone, MergedIs
<1>7. \A r : Needs(d, x, r) <=> Needs(c, x, r) /\ r # q
  BY <1>1, <1>2, <1>3, <1>4, NeedsOps DEF Needs
<1> QED BY <1>6, <1>7 DEF Progress

LEMMA SkillProgress ==
  ASSUME NEW c, NEW d, NEW x, IsList(x.skills), NEW q, NeedsSkill(c.skills, x.skills, q),
         NEW id, id \notin DOMAIN c.skills, d.skills = Put(c.skills, id, [name |-> q.name]),
         d.basic = c.basic, d.education = c.education, d.work = c.work, d.bullets = c.bullets
  PROVE  Progress(c, d, x, q)
<1>1. PICK rows, names, new, todos, rest :
        /\ rows = c.skills /\ names = x.skills /\ new = d.skills
        /\ todos = NewSkills(rows, names) /\ rest = NewSkills(new, names)
  OBVIOUS
<1>2. PICK k \in todos : q = [op |-> "addSkill", name |-> names[k]]
  BY <1>1 DEF NeedsSkill
<1>3. q.op = "addSkill" /\ q.name = names[k] /\ k \in DOMAIN names
  BY <1>1, <1>2 DEF NewSkills
<1>4. /\ DOMAIN new = DOMAIN rows \cup {id} /\ new[id].name = names[k]
      /\ \A j \in DOMAIN rows : new[j] = rows[j]
  BY <1>1, <1>3 DEF Put
<1>5. \A i \in DOMAIN names : Matching(new, names[i]) = {} <=>
                              Matching(rows, names[i]) = {} /\ Key(names[i]) # Key(names[k])
  BY <1>4 DEF Matching
<1>6. \A i \in todos : Key(names[i]) = Key(names[k]) => i = k
  <2> SUFFICES ASSUME NEW i \in todos, Key(names[i]) = Key(names[k]) PROVE i = k
    OBVIOUS
  <2>1. i \in Nat \ {0} /\ k \in Nat \ {0}
    BY <1>1, ListIs DEF NewSkills
  <2>2. FirstOfKey(names, i) /\ FirstOfKey(names, k)
    BY <1>1 DEF NewSkills
  <2>3. ~(i < k) /\ ~(k < i)
    BY <2>1, <2>2 DEF FirstOfKey
  <2> QED BY <2>1, <2>3
<1>7. rest = todos \ {k}
  BY <1>1, <1>5, <1>6 DEF NewSkills
<1>8. \A r : NeedsSkill(new, names, r) <=> NeedsSkill(rows, names, r) /\ r # q
  <2>1. \A r : NeedsSkill(rows, names, r) <=> \E i \in todos : r = [op |-> "addSkill", name |-> names[i]]
    BY <1>1 DEF NeedsSkill
  <2>2. \A r : NeedsSkill(new, names, r) <=> \E i \in rest : r = [op |-> "addSkill", name |-> names[i]]
    BY <1>1 DEF NeedsSkill
  <2>3. \A i \in todos : [op |-> "addSkill", name |-> names[i]] = q => i = k
    BY <1>2, <1>6
  <2> QED BY <1>2, <1>7, <2>1, <2>2, <2>3
<1>9. SkillsOf(new, names) = SkillsOf(rows, names)
  BY <1>1, <1>4, <1>7 DEF SkillsOf
<1>10. Merged(d, x) = Merged(c, x)
  BY <1>1, <1>9, WorkAlone, MergedIs DEF NameOf
<1>11. \A r : Needs(d, x, r) <=> Needs(c, x, r) /\ r # q
  <2>1. \A r : NeedsBasic(d, x, r) <=> NeedsBasic(c, x, r)
    BY DEF NeedsBasic
  <2>2. \A r : NeedsBullet(d, x.work, r) <=> NeedsBullet(c, x.work, r)
    BY WorkAlone
  <2> QED BY <1>1, <1>3, <1>8, <2>1, <2>2, NeedsOps DEF Needs
<1> QED BY <1>10, <1>11 DEF Progress

LEMMA EducationProgress ==
  ASSUME NEW c, NEW d, NEW x, DistinctNames(x.education), NEW q,
         NeedsEducation(c.education, x.education, q), NEW id,
         q.op = "addEducation" => id \notin DOMAIN c.education,
         q.op = "updateEducation" => id = q.id,
         d.education = Put(c.education, id, q.row),
         d.basic = c.basic, d.skills = c.skills, d.work = c.work, d.bullets = c.bullets
  PROVE  Progress(c, d, x, q)
<1>1. PICK rows, entries, new : rows = c.education /\ entries = x.education /\ new = d.education
  OBVIOUS
<1>2. /\ q.op \in {"addEducation", "updateEducation"}
      /\ \A r : NeedsEducation(new, entries, r) <=> NeedsEducation(rows, entries, r) /\ r # q
      /\ EducationOf(new, entries) = EducationOf(rows, entries)
  <2>1. ASSUME NEW k \in Added(rows, entries), q = [op |-> "addEducation", row |-> NewRow(entries[k])]
        PROVE  /\ q.op = "addEducation"
               /\ \A r : NeedsEducation(new, entries, r) <=> NeedsEducation(rows, entries, r) /\ r # q
               /\ EducationOf(new, entries) = EducationOf(rows, entries)
    <3>1. new = Put(rows, id, NewRow(entries[k])) /\ id \notin DOMAIN rows /\ q.op = "addEducation"
      BY <1>1, <2>1
    <3>2. Gains(rows, new, id, NewRow(entries[k]))
      BY <3>1 DEF Gains, Put
    <3>3. /\ DOMAIN new = DOMAIN rows \cup {id} /\ new[id] = NewRow(entries[k])
          /\ \A j \in DOMAIN rows : new[j] = rows[j]
          /\ Added(new, entries) = Added(rows, entries) \ {k}
          /\ Changed(new, entries) = Changed(rows, entries)
          /\ MergedRow(new[id], entries) = NewRow(entries[k])
      <4>1. DistinctNames(entries)
        BY <1>1
      <4> QED BY <3>1, <3>2, <4>1, RowAdded DEF Gains
    <3>4. \A i \in Added(rows, entries) : NewRow(entries[i]) = NewRow(entries[k]) => i = k
      <4>1. \A i \in Added(rows, entries) : NewRow(entries[i]).name = entries[i].name /\ i \in DOMAIN entries
        BY DEF NewRow, Added
      <4> QED BY <1>1, <4>1 DEF DistinctNames
    <3>5. \A j \in Changed(rows, entries) : new[j] = rows[j]
      BY <3>3 DEF Changed
    <3>6. \A r : NeedsEducation(new, entries, r) <=> NeedsEducation(rows, entries, r) /\ r # q
      BY <2>1, <3>3, <3>4, <3>5 DEF NeedsEducation
    <3>7. EducationOf(new, entries) = EducationOf(rows, entries)
      BY <3>3 DEF EducationOf
    <3> QED BY <3>1, <3>6, <3>7
  <2>2. ASSUME NEW k \in Changed(rows, entries),
               q = [op |-> "updateEducation", id |-> k, row |-> MergedRow(rows[k], entries)]
        PROVE  /\ q.op = "updateEducation"
               /\ \A r : NeedsEducation(new, entries, r) <=> NeedsEducation(rows, entries, r) /\ r # q
               /\ EducationOf(new, entries) = EducationOf(rows, entries)
    <3>1. new = Put(rows, k, MergedRow(rows[k], entries)) /\ q.op = "updateEducation"
      BY <1>1, <2>2
    <3>2. /\ DOMAIN new = DOMAIN rows
          /\ \A j \in DOMAIN rows : /\ Key(new[j].name) = Key(rows[j].name)
                                    /\ MergedRow(new[j], entries) = MergedRow(rows[j], entries)
                                    /\ j # k => new[j] = rows[j]
          /\ Added(new, entries) = Added(rows, entries)
          /\ Changed(new, entries) = Changed(rows, entries) \ {k}
      BY <1>1, <3>1, RowMerged
    <3>3. \A j \in Changed(rows, entries) : j \in DOMAIN rows
      BY DEF Changed
    <3>4. \A r : NeedsEducation(new, entries, r) <=> NeedsEducation(rows, entries, r) /\ r # q
      BY <2>2, <3>2, <3>3 DEF NeedsEducation
    <3>5. EducationOf(new, entries) = EducationOf(rows, entries)
      BY <3>2 DEF EducationOf
    <3> QED BY <3>1, <3>4, <3>5
  <2> QED BY <1>1, <2>1, <2>2 DEF NeedsEducation
<1>3. Merged(d, x) = Merged(c, x)
  BY <1>1, <1>2, WorkAlone, MergedIs DEF NameOf
<1>4. \A r : Needs(d, x, r) <=> Needs(c, x, r) /\ r # q
  <2>1. \A r : NeedsBasic(d, x, r) <=> NeedsBasic(c, x, r)
    BY DEF NeedsBasic
  <2>2. \A r : NeedsBullet(d, x.work, r) <=> NeedsBullet(c, x.work, r)
    BY WorkAlone
  <2> QED BY <1>1, <1>2, <2>1, <2>2, NeedsOps DEF Needs
<1> QED BY <1>3, <1>4 DEF Progress

\* The dates of an entry are changed.
LEMMA EntryChanged ==
  ASSUME NEW c, NEW d, NEW x, DistinctNames(x.work), NEW id \in Changed(c.work, x.work), NEW q,
         q = [op |-> "updateWork", id |-> id, row |-> MergedRow(c.work[id], x.work)],
         d.work = Put(c.work, id, q.row),
         d.basic = c.basic, d.skills = c.skills, d.education = c.education, d.bullets = c.bullets
  PROVE  Progress(c, d, x, q)
<1>1. PICK rows, entries, new : rows = c.work /\ entries = x.work /\ new = d.work
  OBVIOUS
<1>2. new = Put(rows, id, MergedRow(rows[id], entries)) /\ q.op = "updateWork"
  BY <1>1
<1>3. DistinctNames(entries) /\ id \in Changed(rows, entries)
  BY <1>1
<1>4. /\ DOMAIN new = DOMAIN rows
      /\ \A j \in DOMAIN rows : /\ Key(new[j].name) = Key(rows[j].name)
                                /\ MergedRow(new[j], entries) = MergedRow(rows[j], entries)
                                /\ j # id => new[j] = rows[j]
      /\ Added(new, entries) = Added(rows, entries)
      /\ Changed(new, entries) = Changed(rows, entries) \ {id}
  BY <1>2, <1>3, RowMerged
<1>5. \A j : Texts(d, j) = Texts(c, j)
  BY SameTexts
<1>6. \A j \in DOMAIN rows : /\ MergedBullets(d, j, entries) = MergedBullets(c, j, entries)
                             /\ Lacks(d, j, entries) = Lacks(c, j, entries)
  <2> TAKE j \in DOMAIN rows
  <2>1. Key(d.work[j].name) = Key(c.work[j].name) /\ Texts(d, j) = Texts(c, j)
    BY <1>1, <1>4, <1>5
  <2>2. MergedBullets(d, j, entries) = MergedBullets(c, j, entries)
    BY <1>3, <2>1, SameMergedBullets
  <2> QED BY <2>1, <2>2 DEF Lacks
<1>7. Surplus(d, entries) = Surplus(c, entries)
  BY <1>1, <1>4, <1>6 DEF Surplus
<1>8. \A r : NeedsBullet(d, entries, r) <=> NeedsBullet(c, entries, r)
  BY <1>1, <1>4, <1>6, <1>7 DEF NeedsBullet
<1>9. \A r : NeedsEntry(new, entries, r) <=> NeedsEntry(rows, entries, r) /\ r # q
  <2>1. \A j \in Changed(rows, entries) : j \in DOMAIN rows
    BY DEF Changed
  <2> QED BY <1>1, <1>3, <1>4, <2>1 DEF NeedsEntry
<1>10. WorkOf(d, entries) = WorkOf(c, entries)
  BY <1>1, <1>4, <1>6 DEF WorkOf
<1>11. Merged(d, x) = Merged(c, x)
  BY <1>1, <1>10, MergedIs DEF NameOf
<1>12. \A r : Needs(d, x, r) <=> Needs(c, x, r) /\ r # q
  <2>1. \A r : NeedsBasic(d, x, r) <=> NeedsBasic(c, x, r)
    BY DEF NeedsBasic
  <2> QED BY <1>1, <1>2, <1>8, <1>9, <2>1, NeedsOps DEF Needs
<1> QED BY <1>11, <1>12 DEF Progress

\* A bullet the extraction has and the entry lacks is added.
LEMMA BulletGained ==
  ASSUME NEW c, NEW d, NEW x, DistinctNames(x.work), NEW id \in DOMAIN c.work,
         NEW text \in Lacks(c, id, x.work), NEW q, q = BulletFor(id, text),
         NEW b, b \notin DOMAIN c.bullets, Gains(c.bullets, d.bullets, b, [work |-> id, text |-> text]),
         \A i \in DOMAIN x.work : -i \notin DOMAIN c.work,
         d.basic = c.basic, d.skills = c.skills, d.education = c.education, d.work = c.work
  PROVE  Progress(c, d, x, q)
<1>1. PICK entries : entries = x.work
  OBVIOUS
<1>2. /\ DOMAIN d.bullets = DOMAIN c.bullets \cup {b}
      /\ d.bullets[b].work = id /\ d.bullets[b].text = text
      /\ \A j \in DOMAIN c.bullets : d.bullets[j] = c.bullets[j]
  BY DEF Gains
<1>3. /\ Texts(d, id) = Texts(c, id) \cup {text}
      /\ \A j : j # id => Texts(d, j) = Texts(c, j)
  <2>1. \A j, some : some \in Texts(d, j) <=> some \in Texts(c, j) \/ (j = id /\ some = text)
    BY <1>2, TextsIs
  <2>2. \A j : Texts(d, j) = {d.bullets[a].text : a \in BulletsOf(d, j)}
               /\ Texts(c, j) = {c.bullets[a].text : a \in BulletsOf(c, j)}
    BY DEF Texts
  <2> QED BY <2>1, <2>2
<1>4. text \in MergedBullets(c, id, entries) /\ text \notin Texts(c, id)
  BY <1>1 DEF Lacks
<1>5. \E i \in DOMAIN entries : Key(entries[i].name) = Key(c.work[id].name)
  BY <1>1, <1>4, MergedBulletsIs
<1>6. \A j : MergedBullets(d, j, entries) = MergedBullets(c, j, entries)
  <2> TAKE j
  <2>1. Key(d.work[j].name) = Key(c.work[j].name)
    OBVIOUS
  <2>2. Texts(d, j) = Texts(c, j) \/ \E i \in DOMAIN entries : Key(entries[i].name) = Key(c.work[j].name)
    BY <1>3, <1>5
  <2> QED BY <1>1, <2>1, <2>2, SameMergedBullets
<1>7. /\ Lacks(d, id, entries) = Lacks(c, id, entries) \ {text}
      /\ \A j : j # id => Lacks(d, j, entries) = Lacks(c, j, entries)
  BY <1>3, <1>6 DEF Lacks
<1>8. Surplus(d, entries) = Surplus(c, entries)
  BY <1>2, <1>4, <1>6 DEF Surplus
<1>9. \A r : NeedsBullet(d, entries, r) <=> NeedsBullet(c, entries, r) /\ r # q
  <2>1. \A j, some : BulletFor(j, some) = q <=> j = id /\ some = text
    BY DEF BulletFor
  <2>2. \A i \in Added(c.work, entries) : -i # id
    BY <1>1 DEF Added
  <2>3. \A a : [op |-> "deleteBullet", id |-> a] # q
    BY DEF BulletFor
  <2> QED BY <1>7, <1>8, <2>1, <2>2, <2>3 DEF NeedsBullet
<1>10. WorkOf(d, entries) = WorkOf(c, entries)
  BY <1>6 DEF WorkOf
<1>11. Merged(d, x) = Merged(c, x)
  BY <1>1, <1>10, MergedIs DEF NameOf
<1>12. \A r : Needs(d, x, r) <=> Needs(c, x, r) /\ r # q
  <2>1. \A r : NeedsBasic(d, x, r) <=> NeedsBasic(c, x, r)
    BY DEF NeedsBasic
  <2>2. q.op = "addBullet"
    BY DEF BulletFor
  <2> QED BY <1>1, <1>9, <2>1, <2>2, NeedsOps DEF Needs
<1> QED BY <1>11, <1>12 DEF Progress

\* A bullet the extraction lacks is deleted.
LEMMA BulletLost ==
  ASSUME NEW c, NEW d, NEW x, DistinctNames(x.work), NEW b \in Surplus(c, x.work), NEW q,
         q = [op |-> "deleteBullet", id |-> b],
         d.bullets = Drop(c.bullets, {b}),
         d.basic = c.basic, d.skills = c.skills, d.education = c.education, d.work = c.work
  PROVE  Progress(c, d, x, q)
<1>1. PICK entries, id : entries = x.work /\ id = c.bullets[b].work
  OBVIOUS
<1>2. /\ b \in DOMAIN c.bullets /\ id \in DOMAIN c.work
      /\ c.bullets[b].text \notin MergedBullets(c, id, entries)
  BY <1>1 DEF Surplus
<1>3. /\ DOMAIN d.bullets = DOMAIN c.bullets \ {b}
      /\ \A j \in DOMAIN d.bullets : d.bullets[j] = c.bullets[j]
  BY DEF Drop
<1>4. \A j, some : some \in Texts(d, j) <=>
        some \in Texts(c, j) /\ ~(j = id /\ some = c.bullets[b].text /\ some \notin Texts(d, j))
  <2>1. ASSUME NEW j, NEW some, some \in Texts(d, j) PROVE some \in Texts(c, j)
    <3>1. PICK a \in DOMAIN d.bullets : d.bullets[a].work = j /\ d.bullets[a].text = some
      BY <2>1, TextsIs
    <3>2. a \in DOMAIN c.bullets /\ c.bullets[a] = d.bullets[a]
      BY <1>3
    <3> QED BY <3>1, <3>2, TextsIs
  <2>2. ASSUME NEW j, NEW some, some \in Texts(c, j), some \notin Texts(d, j)
        PROVE  j = id /\ some = c.bullets[b].text
    <3>1. PICK a \in DOMAIN c.bullets : c.bullets[a].work = j /\ c.bullets[a].text = some
      BY <2>2, TextsIs
    <3>2. a = b
      <4>1. a # b => a \in DOMAIN d.bullets /\ d.bullets[a] = c.bullets[a]
        BY <1>3
      <4> QED BY <2>2, <3>1, <4>1, TextsIs
    <3> QED BY <1>1, <3>1, <3>2
  <2> QED BY <2>1, <2>2
<1>5. \A j : j # id => Texts(d, j) = Texts(c, j)
  <2>1. \A j : Texts(d, j) = {d.bullets[a].text : a \in BulletsOf(d, j)}
               /\ Texts(c, j) = {c.bullets[a].text : a \in BulletsOf(c, j)}
    BY DEF Texts
  <2> QED BY <1>4, <2>1
<1>6. c.bullets[b].text \in Texts(c, id)
  BY <1>1, <1>2, TextsIs
<1>7. \E i \in DOMAIN entries : Key(entries[i].name) = Key(c.work[id].name)
  BY <1>1, <1>2, <1>6, MergedBulletsIs
<1>8. \A j : MergedBullets(d, j, entries) = MergedBullets(c, j, entries)
  <2> TAKE j
  <2>1. Key(d.work[j].name) = Key(c.work[j].name)
    OBVIOUS
  <2>2. Texts(d, j) = Texts(c, j) \/ \E i \in DOMAIN entries : Key(entries[i].name) = Key(c.work[j].name)
    BY <1>5, <1>7
  <2> QED BY <1>1, <2>1, <2>2, SameMergedBullets
<1>9. \A j : Lacks(d, j, entries) = Lacks(c, j, entries)
  BY <1>2, <1>4, <1>8 DEF Lacks
<1>10. Surplus(d, entries) = Surplus(c, entries) \ {b}
  BY <1>3, <1>8 DEF Surplus
<1>11. \A r : NeedsBullet(d, entries, r) <=> NeedsBullet(c, entries, r) /\ r # q
  <2>1. \A j, some : BulletFor(j, some) # q
    BY DEF BulletFor
  <2>2. \A a : [op |-> "deleteBullet", id |-> a] = q => a = b
    OBVIOUS
  <2> QED BY <1>9, <1>10, <2>1, <2>2 DEF NeedsBullet
<1>12. WorkOf(d, entries) = WorkOf(c, entries)
  BY <1>8 DEF WorkOf
<1>13. Merged(d, x) = Merged(c, x)
  BY <1>1, <1>12, MergedIs DEF NameOf
<1>14. \A r : Needs(d, x, r) <=> Needs(c, x, r) /\ r # q
  <2>1. \A r : NeedsBasic(d, x, r) <=> NeedsBasic(c, x, r)
    BY DEF NeedsBasic
  <2>2. q.op = "deleteBullet"
    OBVIOUS
  <2> QED BY <1>1, <1>11, <2>1, <2>2, NeedsOps DEF Needs
<1> QED BY <1>13, <1>14 DEF Progress

-----------------------------------------------------------------------------
(* A new entry, whose bullets were planned before it had an id.            *)

LEMMA WithIdIs ==
  ASSUME NEW k, NEW id
  PROVE  /\ \A r : r.op # "addBullet" => WithId(r, k, id) = r
         /\ \A j, text : WithId(BulletFor(j, text), k, id) = BulletFor(IF j = -k THEN id ELSE j, text)
<1>1. \A r : r.op # "addBullet" => WithId(r, k, id) = r
  BY DEF WithId
<1>2. ASSUME NEW j, NEW text
      PROVE  WithId(BulletFor(j, text), k, id) = BulletFor(IF j = -k THEN id ELSE j, text)
  <2>1. PICK r : r = [op |-> "addBullet", work |-> j, text |-> text]
    OBVIOUS
  <2>2. [r EXCEPT !.work = id] = [op |-> "addBullet", work |-> id, text |-> text]
    BY <2>1
  <2>3. r.op = "addBullet" /\ r.work = j
    BY <2>1
  <2> QED BY <2>1, <2>2, <2>3 DEF WithId, BulletFor
<1> QED BY <1>1, <1>2

\* A new entry gets its id, and so do the bullets that are to follow.
LEMMA EntryGained ==
  ASSUME NEW c, NEW d, NEW x, IsList(x.work), DistinctNames(x.work), DOMAIN c.work \subseteq Nat,
         NEW id \in Nat, id \notin DOMAIN c.work,
         \A b \in DOMAIN c.bullets : c.bullets[b].work \in DOMAIN c.work,
         NEW k \in Added(c.work, x.work), NEW q,
         q = [op |-> "addWork", row |-> NewRow(x.work[k]), place |-> k],
         Gains(c.work, d.work, id, NewRow(x.work[k])),
         d.basic = c.basic, d.skills = c.skills, d.education = c.education, d.bullets = c.bullets
  PROVE  /\ Merged(d, x) = Merged(c, x)
         /\ \A r : Needs(d, x, r) <=> \E before : /\ Needs(c, x, before) /\ before # q
                                                  /\ r = WithId(before, k, id)
         /\ \A r, other : Needs(c, x, r) /\ Needs(c, x, other)
                          /\ WithId(r, k, id) = WithId(other, k, id) => r = other
<1>1. PICK rows, entries, new : rows = c.work /\ entries = x.work /\ new = d.work
  OBVIOUS
<1>2. /\ DistinctNames(entries) /\ k \in Added(rows, entries) /\ id \notin DOMAIN rows
      /\ Gains(rows, new, id, NewRow(entries[k])) /\ q.op = "addWork" /\ k \in DOMAIN entries
  BY <1>1 DEF Added
<1>3. /\ DOMAIN new = DOMAIN rows \cup {id} /\ new[id] = NewRow(entries[k])
      /\ \A j \in DOMAIN rows : new[j] = rows[j]
  BY <1>2 DEF Gains
<1>4. /\ Added(new, entries) = Added(rows, entries) \ {k}
      /\ Changed(new, entries) = Changed(rows, entries)
      /\ MergedRow(new[id], entries) = NewRow(entries[k])
  BY <1>2, RowAdded
\* A place, negated, is no id.
<1>5. /\ \A i \in DOMAIN entries : i \in Nat \ {0} /\ -i \notin DOMAIN rows /\ -i # id
      /\ \A i, j \in DOMAIN entries : -i = -j => i = j
  <2>1. \A i \in DOMAIN entries : i \in Nat \ {0}
    BY <1>1, ListIs
  <2> QED BY <1>1, <2>1
<1>6. \A j : Texts(d, j) = Texts(c, j)
  BY SameTexts
<1>7. \A j \in DOMAIN rows : MergedBullets(d, j, entries) = MergedBullets(c, j, entries)
  <2> TAKE j \in DOMAIN rows
  <2>1. Key(d.work[j].name) = Key(c.work[j].name) /\ Texts(d, j) = Texts(c, j)
    BY <1>1, <1>3, <1>6
  <2> QED BY <1>2, <2>1, SameMergedBullets
<1>8. MergedBullets(d, id, entries) = entries[k].bullets
  <2>1. Key(entries[k].name) = Key(d.work[id].name)
    BY <1>1, <1>3 DEF NewRow
  <2> QED BY <1>2, <2>1, MergedBulletsOf
<1>9. /\ Lacks(d, id, entries) = entries[k].bullets
      /\ \A j \in DOMAIN rows : Lacks(d, j, entries) = Lacks(c, j, entries)
  <2>1. \A text : text \notin Texts(d, id)
    BY <1>1, <1>2, TextsIs
  <2> QED BY <1>6, <1>7, <1>8, <2>1 DEF Lacks
<1>10. Surplus(d, entries) = Surplus(c, entries)
  BY <1>1, <1>3, <1>7 DEF Surplus
<1>11. \A r : NeedsEntry(new, entries, r) <=> NeedsEntry(rows, entries, r) /\ r # q
  <2>1. \A j \in Changed(rows, entries) : new[j] = rows[j]
    BY <1>3 DEF Changed
  <2>2. \A i : [op |-> "addWork", row |-> NewRow(entries[i]), place |-> i] = q => i = k
    BY <1>1
  <2> QED BY <1>1, <1>2, <1>4, <2>1, <2>2 DEF NeedsEntry
<1>12. \A r : NeedsBullet(d, entries, r) <=>
         \E before : NeedsBullet(c, entries, before) /\ r = WithId(before, k, id)
  <2>1. ASSUME NEW before, NeedsBullet(c, entries, before)
        PROVE  NeedsBullet(d, entries, WithId(before, k, id))
    <3>1. CASE \E i \in Added(rows, entries) : \E text \in entries[i].bullets : before = BulletFor(-i, text)
      <4>1. PICK i \in Added(rows, entries) : \E text \in entries[i].bullets : before = BulletFor(-i, text)
        BY <3>1
      <4>2. PICK text \in entries[i].bullets : before = BulletFor(-i, text)
        BY <4>1
      <4>3. i \in DOMAIN entries
        BY DEF Added
      <4>4. CASE i = k
        BY <1>1, <1>3, <1>9, <4>2, <4>4, WithIdIs DEF NeedsBullet
      <4>5. CASE i # k
        <5>1. WithId(before, k, id) = BulletFor(-i, text) /\ i \in Added(new, entries)
          BY <1>2, <1>4, <1>5, <4>2, <4>3, <4>5, WithIdIs
        <5> QED BY <1>1, <4>2, <5>1 DEF NeedsBullet
      <4> QED BY <4>4, <4>5
    <3>2. CASE \E j \in DOMAIN rows : \E text \in Lacks(c, j, entries) : before = BulletFor(j, text)
      <4>1. PICK j \in DOMAIN rows : \E text \in Lacks(c, j, entries) : before = BulletFor(j, text)
        BY <3>2
      <4>2. WithId(before, k, id) = before
        BY <1>2, <1>5, <4>1, WithIdIs
      <4> QED BY <1>1, <1>3, <1>9, <4>1, <4>2 DEF NeedsBullet
    <3>3. CASE \E b \in Surplus(c, entries) : before = [op |-> "deleteBullet", id |-> b]
      <4>1. WithId(before, k, id) = before
        BY <3>3, WithIdIs
      <4> QED BY <1>10, <3>3, <4>1 DEF NeedsBullet
    <3> QED BY <1>1, <2>1, <3>1, <3>2, <3>3 DEF NeedsBullet
  <2>2. ASSUME NEW r, NeedsBullet(d, entries, r)
        PROVE  \E before : NeedsBullet(c, entries, before) /\ r = WithId(before, k, id)
    <3>1. CASE \E i \in Added(new, entries) : \E text \in entries[i].bullets : r = BulletFor(-i, text)
      <4>1. PICK i \in Added(new, entries) : \E text \in entries[i].bullets : r = BulletFor(-i, text)
        BY <3>1
      <4>2. i \in Added(rows, entries) /\ i # k /\ i \in DOMAIN entries
        BY <1>4 DEF Added
      <4>3. WithId(r, k, id) = r
        BY <1>2, <1>5, <4>1, <4>2, WithIdIs
      <4> QED BY <1>1, <4>1, <4>2, <4>3 DEF NeedsBullet
    <3>2. CASE \E j \in DOMAIN new : \E text \in Lacks(d, j, entries) : r = BulletFor(j, text)
      <4>1. PICK j \in DOMAIN new : \E text \in Lacks(d, j, entries) : r = BulletFor(j, text)
        BY <3>2
      <4>2. PICK text \in Lacks(d, j, entries) : r = BulletFor(j, text)
        BY <4>1
      <4>3. CASE j = id
        <5>1. r = WithId(BulletFor(-k, text), k, id) /\ text \in entries[k].bullets
          BY <1>9, <4>2, <4>3, WithIdIs
        <5>2. NeedsBullet(c, entries, BulletFor(-k, text))
          BY <1>1, <1>2, <5>1 DEF NeedsBullet
        <5> QED BY <5>1, <5>2
      <4>4. CASE j # id
        <5>1. j \in DOMAIN rows /\ text \in Lacks(c, j, entries)
          BY <1>3, <1>9, <4>2, <4>4
        <5>2. WithId(r, k, id) = r
          BY <1>2, <1>5, <4>2, <5>1, WithIdIs
        <5>3. NeedsBullet(c, entries, r)
          BY <1>1, <4>2, <5>1 DEF NeedsBullet
        <5> QED BY <5>2, <5>3
      <4> QED BY <4>3, <4>4
    <3>3. CASE \E b \in Surplus(d, entries) : r = [op |-> "deleteBullet", id |-> b]
      <4>1. WithId(r, k, id) = r
        BY <3>3, WithIdIs
      <4>2. NeedsBullet(c, entries, r)
        BY <1>10, <3>3 DEF NeedsBullet
      <4> QED BY <4>1, <4>2
    <3> QED BY <1>1, <2>2, <3>1, <3>2, <3>3 DEF NeedsBullet
  <2> QED BY <2>1, <2>2
<1>13. WorkOf(d, entries) = WorkOf(c, entries)
  <2>1. \A j \in DOMAIN rows : MergedRow(new[j], entries) = MergedRow(rows[j], entries)
    BY <1>3
  <2>2. <<MergedRow(new[id], entries), MergedBullets(d, id, entries)>>
          = <<NewRow(entries[k]), entries[k].bullets>>
    BY <1>4, <1>8
  <2> QED BY <1>1, <1>2, <1>3, <1>4, <1>7, <2>1, <2>2 DEF WorkOf
<1>14. Merged(d, x) = Merged(c, x)
  BY <1>1, <1>13, MergedIs DEF NameOf
<1>15. \A r : Needs(d, x, r) <=> \E before : /\ Needs(c, x, before) /\ before # q
                                             /\ r = WithId(before, k, id)
  <2>1. \A r : NeedsBasic(d, x, r) <=> NeedsBasic(c, x, r)
    BY DEF NeedsBasic
  <2>2. \A r : NeedsBullet(c, entries, r) => r # q
    BY <1>1, <1>2, NeedsOps
  <2>3. \A r : ~NeedsBullet(c, entries, r) /\ Needs(c, x, r) => WithId(r, k, id) = r
    <3>1. \A r : ~NeedsBullet(c, entries, r) /\ Needs(c, x, r) => r.op # "addBullet"
      BY <1>1, NeedsOps DEF Needs
    <3> QED BY <3>1, WithIdIs
  <2>4. \A r : NeedsBasic(c, x, r) \/ NeedsSkill(c.skills, x.skills, r)
               \/ NeedsEducation(c.education, x.education, r) => r # q
    BY <1>2, NeedsOps
  <2>5. \A r : r.op # "addBullet" => WithId(r, k, id) = r
    BY WithIdIs
  <2>6. ASSUME NEW r, Needs(d, x, r)
        PROVE  \E before : Needs(c, x, before) /\ before # q /\ r = WithId(before, k, id)
    <3>1. CASE NeedsBullet(d, entries, r)
      BY <1>1, <1>12, <2>2, <3>1 DEF Needs
    <3>2. CASE ~NeedsBullet(d, entries, r)
      <4>1. Needs(c, x, r) /\ r # q /\ r.op # "addBullet"
        BY <1>1, <1>11, <2>1, <2>4, <2>6, <3>2, NeedsOps DEF Needs
      <4> QED BY <2>5, <4>1
    <3> QED BY <3>1, <3>2
  <2>7. ASSUME NEW before, Needs(c, x, before), before # q
        PROVE  Needs(d, x, WithId(before, k, id))
    <3>1. CASE NeedsBullet(c, entries, before)
      BY <1>1, <1>12, <3>1 DEF Needs
    <3>2. CASE ~NeedsBullet(c, entries, before)
      <4>1. WithId(before, k, id) = before
        BY <2>3, <2>7, <3>2
      <4> QED BY <1>1, <1>11, <2>1, <2>7, <3>2, <4>1 DEF Needs
    <3> QED BY <3>1, <3>2
  <2> QED BY <2>6, <2>7
<1>16. ASSUME NEW r, NEW other, Needs(c, x, r), Needs(c, x, other),
              WithId(r, k, id) = WithId(other, k, id)
       PROVE  r = other
  <2>1. \A i \in Added(rows, entries) : -i # id
    BY <1>5 DEF Added
  <2>2. \A before : Needs(c, x, before) =>
          before.op # "addBullet" \/ \E j, text : j # id /\ before = BulletFor(j, text)
    <3>1. \A before : NeedsBullet(c, entries, before) =>
            before.op # "addBullet" \/ \E j, text : j # id /\ before = BulletFor(j, text)
      BY <1>1, <1>2, <2>1 DEF NeedsBullet
    <3>2. \A before : Needs(c, x, before) /\ ~NeedsBullet(c, entries, before) => before.op # "addBullet"
      BY <1>1, NeedsOps DEF Needs
    <3> QED BY <3>1, <3>2
  <2>3. \A j, text : BulletFor(j, text).op = "addBullet"
    BY DEF BulletFor
  <2>4. \A j, text, i, some : BulletFor(j, text) = BulletFor(i, some) => j = i /\ text = some
    BY DEF BulletFor
  <2>5. \A before : before.op # "addBullet" => WithId(before, k, id) = before
    BY WithIdIs
  <2>6. \A j, text : WithId(BulletFor(j, text), k, id).op = "addBullet"
    BY <2>3, WithIdIs
  <2>7. CASE r.op # "addBullet"
    <3>1. other.op # "addBullet"
      BY <1>16, <2>2, <2>5, <2>6, <2>7
    <3> QED BY <1>16, <2>5, <2>7, <3>1
  <2>8. CASE r.op = "addBullet"
    <3>1. other.op = "addBullet"
      BY <1>16, <2>2, <2>5, <2>6, <2>8
    <3>2. PICK j, text : j # id /\ r = BulletFor(j, text)
      BY <1>16, <2>2, <2>8
    <3>3. PICK i, some : i # id /\ other = BulletFor(i, some)
      BY <1>16, <2>2, <3>1
    <3>4. BulletFor(IF j = -k THEN id ELSE j, text) = BulletFor(IF i = -k THEN id ELSE i, some)
      BY <1>16, <3>2, <3>3, WithIdIs
    <3> QED BY <2>4, <3>2, <3>3, <3>4
  <2> QED BY <2>7, <2>8
<1> QED BY <1>14, <1>15, <1>16

\* When nothing is needed any more, the profile is the merged one.
LEMMA NothingNeeded ==
  ASSUME NEW c, NEW x, \A r : ~Needs(c, x, r)
  PROVE  Content(c) = Merged(c, x)
<1>1. NameOf(c, x) = c.basic.name
  <2>1. ~(c.basic.name = Empty /\ x.name # Empty)
    BY DEF Needs, NeedsBasic
  <2> QED BY <2>1 DEF NameOf
<1>2. SkillsOf(c.skills, x.skills) = {c.skills[id].name : id \in DOMAIN c.skills}
  <2>1. NewSkills(c.skills, x.skills) = {}
    BY DEF Needs, NeedsSkill
  <2> QED BY <2>1 DEF SkillsOf
<1>3. EducationOf(c.education, x.education) = {c.education[id] : id \in DOMAIN c.education}
  <2>1. Added(c.education, x.education) = {} /\ Changed(c.education, x.education) = {}
    BY DEF Needs, NeedsEducation
  <2>2. \A id \in DOMAIN c.education : MergedRow(c.education[id], x.education) = c.education[id]
    BY <2>1 DEF Changed
  <2> QED BY <2>1, <2>2 DEF EducationOf
<1>4. WorkOf(c, x.work) = {<<c.work[id], Texts(c, id)>> : id \in DOMAIN c.work}
  <2>1. Added(c.work, x.work) = {} /\ Changed(c.work, x.work) = {}
    BY DEF Needs, NeedsEntry
  <2>2. \A id \in DOMAIN c.work : MergedRow(c.work[id], x.work) = c.work[id]
    BY <2>1 DEF Changed
  <2>3. ASSUME NEW id \in DOMAIN c.work PROVE MergedBullets(c, id, x.work) = Texts(c, id)
    <3>1. \A text \in Lacks(c, id, x.work) : FALSE
      BY DEF Needs, NeedsBullet
    <3>2. \A b \in Surplus(c, x.work) : FALSE
      BY DEF Needs, NeedsBullet
    <3>3. MergedBullets(c, id, x.work) \subseteq Texts(c, id)
      BY <3>1 DEF Lacks
    <3>4. \A text \in Texts(c, id) : text \in MergedBullets(c, id, x.work)
      BY <3>2, TextsIs DEF Surplus
    <3> QED BY <3>3, <3>4
  <2> QED BY <2>1, <2>2, <2>3 DEF WorkOf
<1> QED BY <1>1, <1>2, <1>3, <1>4, MergedIs, Zenon DEF Content

-----------------------------------------------------------------------------
(* A plan is a list of what is needed, each request once.                  *)

Plans(plan) == IsList(plan) /\ NoRepeats(plan)

LEMMA EmptyIs == Plans(<< >>) /\ Range(<< >>) = {}
<1>1. IsList(<< >>)
  BY EmptySeq, IsAList
<1> QED BY <1>1, ListIs DEF Range, NoRepeats, Plans

LEMMA OneIs == ASSUME NEW r PROVE Plans(<<r>>) /\ Range(<<r>>) = {r}
<1>1. <<r>> \in Seq({r}) /\ DOMAIN <<r>> = {1} /\ <<r>>[1] = r
  OBVIOUS
<1> QED BY <1>1, IsAList DEF Range, NoRepeats, Plans

LEMMA ConcatPlans ==
  ASSUME NEW s, NEW t, Plans(s), Plans(t), \A r \in Range(s), q \in Range(t) : r # q
  PROVE  Plans(s \o t) /\ Range(s \o t) = Range(s) \cup Range(t)
  BY ConcatIs, ConcatNoRepeats DEF Plans

\* A list put together from what is planned for each entry.
LEMMA FlattenPlans ==
  ASSUME NEW t, IsList(t), NEW f, f = [i \in DOMAIN t |-> f[i]],
         \A i \in DOMAIN t : Plans(f[i]),
         \A i, j \in DOMAIN t : i # j => \A r \in Range(f[i]), q \in Range(f[j]) : r # q
  PROVE  /\ Plans(FlattenSeq(f))
         /\ \A r : r \in Range(FlattenSeq(f)) <=> \E i \in DOMAIN t : r \in Range(f[i])
<1>1. IsList(f) /\ DOMAIN f = DOMAIN t
  BY MapIs
<1>2. \A i \in DOMAIN f : IsList(f[i]) /\ NoRepeats(f[i])
  BY <1>1 DEF Plans
<1>3. /\ IsList(FlattenSeq(f)) /\ NoRepeats(FlattenSeq(f))
      /\ Range(FlattenSeq(f)) = UNION {Range(f[i]) : i \in DOMAIN f}
  BY <1>1, <1>2, FlattenSeqIs
<1> QED BY <1>1, <1>3 DEF Plans

LEMMA BasicPlanned ==
  ASSUME NEW c, NEW x
  PROVE  Plans(BasicPlan(c, x)) /\ \A r : r \in Range(BasicPlan(c, x)) <=> NeedsBasic(c, x, r)
<1>1. PICK q : q = [op |-> "updateProfile", basic |-> [name |-> x.name, wanted |-> c.basic.wanted]]
  OBVIOUS
<1>2. BasicPlan(c, x) = IF c.basic.name = Empty /\ x.name # Empty THEN <<q>> ELSE << >>
  BY <1>1 DEF BasicPlan
<1>3. \A r : NeedsBasic(c, x, r) <=> c.basic.name = Empty /\ x.name # Empty /\ r = q
  BY <1>1 DEF NeedsBasic
<1> QED BY <1>2, <1>3, EmptyIs, OneIs

LEMMA SkillsPlanned ==
  ASSUME NEW c, NEW x, IsList(x.skills)
  PROVE  /\ Plans(SkillPlan(c, x))
         /\ \A r : r \in Range(SkillPlan(c, x)) <=> NeedsSkill(c.skills, x.skills, r)
<1>1. PICK t : t = x.skills /\ IsList(t)
  OBVIOUS
<1> DEFINE there(i) == \/ Matching(c.skills, t[i]) # {}
                       \/ \E j \in 1..(i - 1) : Key(t[j]) = Key(t[i])
           add(i) == [op |-> "addSkill", name |-> t[i]]
           f == [i \in DOMAIN t |-> IF there(i) THEN << >> ELSE <<add(i)>>]
<1>2. SkillPlan(c, x) = FlattenSeq(f)
  BY <1>1, Zenon DEF SkillPlan
<1>3. \A i \in DOMAIN t : there(i) <=> i \notin NewSkills(c.skills, t)
  BY DEF NewSkills, FirstOfKey
<1>4. \A i \in DOMAIN t : f[i] = IF there(i) THEN << >> ELSE <<add(i)>>
  OBVIOUS
<1>5. f = [i \in DOMAIN t |-> f[i]]
  BY Zenon DEF f
<1>6. \A i, j : add(i) = add(j) => Key(t[i]) = Key(t[j])
  OBVIOUS
<1>7. \A i, j \in DOMAIN t : ~there(i) /\ ~there(j) /\ Key(t[i]) = Key(t[j]) => i = j
  <2>1. DOMAIN t \subseteq Nat \ {0}
    BY <1>1, ListIs
  <2> QED BY <2>1
<1> HIDE DEF f, there, add
<1>8. \A i \in DOMAIN t : Plans(f[i]) /\ \A r : r \in Range(f[i]) <=> ~there(i) /\ r = add(i)
  BY <1>4, EmptyIs, OneIs
<1>9. \A i, j \in DOMAIN t : i # j => \A r \in Range(f[i]), q \in Range(f[j]) : r # q
  BY <1>6, <1>7, <1>8
<1>10. /\ Plans(FlattenSeq(f))
       /\ \A r : r \in Range(FlattenSeq(f)) <=> \E i \in DOMAIN t : r \in Range(f[i])
  BY <1>1, <1>5, <1>8, <1>9, FlattenPlans
<1>11. \A r : NeedsSkill(c.skills, t, r) <=> \E i \in DOMAIN t : ~there(i) /\ r = add(i)
  <2>1. \A i \in NewSkills(c.skills, t) : i \in DOMAIN t
    BY DEF NewSkills
  <2> QED BY <1>3, <2>1 DEF NeedsSkill, add
<1> QED BY <1>1, <1>2, <1>8, <1>10, <1>11

LEMMA EducationPlanned ==
  ASSUME NEW c, NEW x, IsList(x.education), DistinctNames(x.education), DistinctNames(c.education)
  PROVE  /\ Plans(EducationPlan(c, x))
         /\ \A r : r \in Range(EducationPlan(c, x)) <=> NeedsEducation(c.education, x.education, r)
<1>1. PICK t, rows : /\ t = x.education /\ rows = c.education
                     /\ IsList(t) /\ DistinctNames(t) /\ DistinctNames(rows)
  OBVIOUS
<1> DEFINE id(i) == Existing(rows, t[i].name)
           add(i) == [op |-> "addEducation", row |-> NewRow(t[i])]
           update(i) == [op |-> "updateEducation", id |-> id(i), row |-> Overlaid(rows[id(i)], t[i])]
           new(i) == Matching(rows, t[i].name) = {}
           same(i) == SameDates(rows[id(i)], Overlaid(rows[id(i)], t[i]))
           f == [i \in DOMAIN t |-> IF new(i) THEN <<add(i)>> ELSE IF same(i) THEN << >> ELSE <<update(i)>>]
<1>2. EducationPlan(c, x) = FlattenSeq(f)
  BY <1>1, Zenon DEF EducationPlan
<1>3. \A i \in DOMAIN t :
        f[i] = IF new(i) THEN <<add(i)>> ELSE IF same(i) THEN << >> ELSE <<update(i)>>
  OBVIOUS
<1>4. f = [i \in DOMAIN t |-> f[i]]
  BY Zenon DEF f
<1>5. \A i : Key(add(i).row.name) = Key(t[i].name) /\ Key(update(i).row.name) = Key(t[i].name)
  BY DEF NewRow, Overlaid
<1>6. \A i \in DOMAIN t : i \in Added(rows, t) <=> new(i)
  BY DEF Added
<1>7. \A i \in DOMAIN t : ~new(i) =>
        /\ id(i) \in DOMAIN rows
        /\ id(i) \in Changed(rows, t) <=> ~same(i)
        /\ ~same(i) => update(i) = [op |-> "updateEducation", id |-> id(i), row |-> MergedRow(rows[id(i)], t)]
  <2> SUFFICES ASSUME NEW i \in DOMAIN t, ~new(i)
               PROVE  /\ id(i) \in DOMAIN rows
                      /\ id(i) \in Changed(rows, t) <=> ~same(i)
                      /\ ~same(i) => MergedRow(rows[id(i)], t) = Overlaid(rows[id(i)], t[i])
    OBVIOUS
  <2>1. PICK k : k = id(i) /\ k \in Matching(rows, t[i].name)
    BY <1>1, ExistingIs
  <2>2. k \in DOMAIN rows /\ Key(t[i].name) = Key(rows[k].name)
    BY <2>1 DEF Matching
  <2>3. MergedRow(rows[k], t) = IF SameDates(rows[k], Overlaid(rows[k], t[i])) THEN rows[k]
                                ELSE Overlaid(rows[k], t[i])
    BY <1>1, <2>2, MergedRowOf
  <2>4. Overlaid(rows[k], t[i]) = rows[k] => SameDates(rows[k], Overlaid(rows[k], t[i]))
    BY DEF SameDates
  <2> QED BY <2>1, <2>2, <2>3, <2>4 DEF Changed
<1>8. \A k \in Changed(rows, t) : \E i \in DOMAIN t : ~new(i) /\ id(i) = k
  <2> TAKE k \in Changed(rows, t)
  <2>1. k \in DOMAIN rows /\ MergedRow(rows[k], t) # rows[k]
    BY DEF Changed
  <2>2. PICK i \in DOMAIN t : Key(t[i].name) = Key(rows[k].name)
    BY <1>1, <2>1, MergedRowIs
  <2>3. k \in Matching(rows, t[i].name)
    BY <2>1, <2>2 DEF Matching
  <2>4. id(i) \in Matching(rows, t[i].name)
    BY <1>1, <2>3, ExistingIs
  <2>5. id(i) = k
    BY <1>1, <2>3, <2>4 DEF Matching, DistinctNames
  <2> QED BY <2>3, <2>5
<1>9. \A r : NeedsEducation(rows, t, r) <=>
        \E i \in DOMAIN t : (new(i) /\ r = add(i)) \/ (~new(i) /\ ~same(i) /\ r = update(i))
  <2>1. \A i \in Added(rows, t) : i \in DOMAIN t
    BY DEF Added
  <2>2. ASSUME NEW r, NeedsEducation(rows, t, r)
        PROVE  \E i \in DOMAIN t : (new(i) /\ r = add(i)) \/ (~new(i) /\ ~same(i) /\ r = update(i))
    <3>1. CASE \E i \in Added(rows, t) : r = add(i)
      BY <1>6, <2>1, <3>1
    <3>2. CASE \E k \in Changed(rows, t) : r = [op |-> "updateEducation", id |-> k, row |-> MergedRow(rows[k], t)]
      <4>1. PICK k \in Changed(rows, t) : r = [op |-> "updateEducation", id |-> k, row |-> MergedRow(rows[k], t)]
        BY <3>2
      <4>2. PICK i \in DOMAIN t : ~new(i) /\ id(i) = k
        BY <1>8
      <4> HIDE DEF id, new, same, update
      <4> QED BY <1>7, <4>1, <4>2
    <3> QED BY <2>2, <3>1, <3>2 DEF NeedsEducation
  <2>3. ASSUME NEW r, NEW i \in DOMAIN t, (new(i) /\ r = add(i)) \/ (~new(i) /\ ~same(i) /\ r = update(i))
        PROVE  NeedsEducation(rows, t, r)
    <3>1. CASE new(i) /\ r = add(i)
      BY <1>6, <3>1 DEF NeedsEducation
    <3>2. CASE ~new(i) /\ ~same(i) /\ r = update(i)
      <4> HIDE DEF id, new, same, update
      <4> QED BY <1>7, <3>2 DEF NeedsEducation
    <3> QED BY <2>3, <3>1, <3>2
  <2> QED BY <2>2, <2>3
<1> HIDE DEF f, new, same, add, update, id
<1>10. \A i \in DOMAIN t :
         /\ Plans(f[i])
         /\ \A r : r \in Range(f[i]) <=> (new(i) /\ r = add(i)) \/ (~new(i) /\ ~same(i) /\ r = update(i))
  BY <1>3, EmptyIs, OneIs
<1>11. \A i, j \in DOMAIN t : i # j => \A r \in Range(f[i]), q \in Range(f[j]) : r # q
  BY <1>1, <1>5, <1>10 DEF DistinctNames
<1>12. /\ Plans(FlattenSeq(f))
       /\ \A r : r \in Range(FlattenSeq(f)) <=> \E i \in DOMAIN t : r \in Range(f[i])
  BY <1>1, <1>4, <1>10, <1>11, FlattenPlans
<1> QED BY <1>1, <1>2, <1>9, <1>10, <1>12

LEMMA AddBulletsPlanned ==
  ASSUME NEW id, NEW texts, IsFiniteSet(texts)
  PROVE  /\ Plans(AddBullets(id, texts))
         /\ \A r : r \in Range(AddBullets(id, texts)) <=> \E text \in texts : r = BulletFor(id, text)
<1>1. PICK list : /\ list = SetToSeq(texts) /\ IsList(list) /\ Range(list) = texts
                  /\ \A i, j \in DOMAIN list : list[i] = list[j] => i = j
  BY SetToSeqIs
<1>2. PICK f : f = [i \in DOMAIN list |-> [op |-> "addBullet", work |-> id, text |-> list[i]]]
  OBVIOUS
<1>3. AddBullets(id, texts) = f /\ IsList(f) /\ DOMAIN f = DOMAIN list
  <2>1. f = [i \in DOMAIN list |-> f[i]]
    BY <1>2
  <2> QED BY <1>1, <1>2, <2>1, MapIs DEF AddBullets
<1>4. \A i \in DOMAIN list : f[i] = BulletFor(id, list[i])
  BY <1>2 DEF BulletFor
<1>5. \A text, some : BulletFor(id, text) = BulletFor(id, some) => text = some
  BY DEF BulletFor
<1>6. NoRepeats(f)
  BY <1>1, <1>3, <1>4, <1>5 DEF NoRepeats
<1>7. \A r : r \in Range(f) <=> \E text \in texts : r = BulletFor(id, text)
  BY <1>1, <1>3, <1>4 DEF Range
<1> QED BY <1>3, <1>6, <1>7 DEF Plans

LEMMA DeleteBulletsPlanned ==
  ASSUME NEW ids, IsFiniteSet(ids)
  PROVE  /\ Plans(DeleteBullets(ids))
         /\ \A r : r \in Range(DeleteBullets(ids)) <=> \E b \in ids : r = [op |-> "deleteBullet", id |-> b]
<1>1. PICK list : /\ list = SetToSeq(ids) /\ IsList(list) /\ Range(list) = ids
                  /\ \A i, j \in DOMAIN list : list[i] = list[j] => i = j
  BY SetToSeqIs
<1>2. PICK f : f = [i \in DOMAIN list |-> [op |-> "deleteBullet", id |-> list[i]]]
  OBVIOUS
<1>3. DeleteBullets(ids) = f /\ IsList(f) /\ DOMAIN f = DOMAIN list
  <2>1. f = [i \in DOMAIN list |-> f[i]]
    BY <1>2
  <2> QED BY <1>1, <1>2, <2>1, MapIs DEF DeleteBullets
<1>4. NoRepeats(f)
  BY <1>1, <1>2, <1>3 DEF NoRepeats
<1>5. \A r : r \in Range(f) <=> \E b \in ids : r = [op |-> "deleteBullet", id |-> b]
  BY <1>1, <1>2, <1>3 DEF Range
<1> QED BY <1>3, <1>4, <1>5 DEF Plans

\* What is needed for one entry that is there.
NeedsFor(c, entries, id, r) ==
  \/ /\ id \in Changed(c.work, entries)
     /\ r = [op |-> "updateWork", id |-> id, row |-> MergedRow(c.work[id], entries)]
  \/ \E text \in Lacks(c, id, entries) : r = BulletFor(id, text)
  \/ \E b \in Surplus(c, entries) : c.bullets[b].work = id /\ r = [op |-> "deleteBullet", id |-> b]

LEMMA SyncPlanned ==
  ASSUME NEW c, NEW entries, DistinctNames(entries), NEW i \in DOMAIN entries,
         IsFiniteSet(entries[i].bullets), IsFiniteSet(DOMAIN c.bullets),
         NEW id \in Matching(c.work, entries[i].name)
  PROVE  /\ Plans(SyncWork(c, id, entries[i]))
         /\ \A r : r \in Range(SyncWork(c, id, entries[i])) <=> NeedsFor(c, entries, id, r)
<1>1. PICK entry, row, new : entry = entries[i] /\ row = c.work[id] /\ new = Overlaid(row, entry)
  OBVIOUS
<1>2. id \in DOMAIN c.work /\ Key(entry.name) = Key(row.name)
  BY <1>1 DEF Matching
<1>3. MergedRow(row, entries) = IF SameDates(row, new) THEN row ELSE new
  BY <1>1, <1>2, MergedRowOf
<1>4. id \in Changed(c.work, entries) <=> ~SameDates(row, new)
  <2>1. new = row => SameDates(row, new)
    BY DEF SameDates
  <2> QED BY <1>1, <1>2, <1>3, <2>1 DEF Changed
<1>5. MergedBullets(c, id, entries) = entry.bullets
  BY <1>1, <1>2, MergedBulletsOf
<1>6. PICK q, missing, ids, s, a, e :
        /\ q = [op |-> "updateWork", id |-> id, row |-> new]
        /\ missing = entry.bullets \ Texts(c, id)
        /\ ids = {b \in BulletsOf(c, id) : c.bullets[b].text \notin entry.bullets}
        /\ s = IF SameDates(row, new) THEN << >> ELSE <<q>>
        /\ a = AddBullets(id, missing) /\ e = DeleteBullets(ids)
  OBVIOUS
<1>7. SyncWork(c, id, entry) = s \o a \o e
  BY <1>1, <1>6, Zenon DEF SyncWork
<1>8. Plans(s) /\ \A r : r \in Range(s) <=> id \in Changed(c.work, entries) /\ r = q
  BY <1>4, <1>6, EmptyIs, OneIs
<1>9. Plans(a) /\ \A r : r \in Range(a) <=> \E text \in missing : r = BulletFor(id, text)
  <2>1. IsFiniteSet(missing)
    BY <1>1, <1>6, FS_Subset
  <2>2. /\ Plans(AddBullets(id, missing))
        /\ \A r : r \in Range(AddBullets(id, missing)) <=> \E text \in missing : r = BulletFor(id, text)
    BY <2>1, AddBulletsPlanned
  <2>3. a = AddBullets(id, missing)
    BY <1>6
  <2> QED BY <2>2, <2>3, Zenon
<1>10. Plans(e) /\ \A r : r \in Range(e) <=> \E b \in ids : r = [op |-> "deleteBullet", id |-> b]
  <2>1. ids \subseteq DOMAIN c.bullets
    BY <1>6 DEF BulletsOf
  <2>2. IsFiniteSet(ids)
    BY <2>1, FS_Subset
  <2> QED BY <1>6, <2>2, DeleteBulletsPlanned
<1>11. /\ \A r \in Range(s) : r.op = "updateWork"
       /\ \A r \in Range(a) : r.op = "addBullet"
       /\ \A r \in Range(e) : r.op = "deleteBullet"
  <2>1. q.op = "updateWork"
    BY <1>6
  <2>2. \A text : BulletFor(id, text).op = "addBullet"
    BY DEF BulletFor
  <2>3. \A b : [op |-> "deleteBullet", id |-> b].op = "deleteBullet"
    OBVIOUS
  <2> QED BY <1>8, <1>9, <1>10, <2>1, <2>2, <2>3
<1>12. Plans(s \o a) /\ Range(s \o a) = Range(s) \cup Range(a)
  BY <1>8, <1>9, <1>11, ConcatPlans
<1>13. Plans((s \o a) \o e) /\ Range((s \o a) \o e) = (Range(s) \cup Range(a)) \cup Range(e)
  BY <1>10, <1>11, <1>12, ConcatPlans
<1>14. missing = Lacks(c, id, entries)
  BY <1>5, <1>6 DEF Lacks
<1>15. \A b : b \in ids <=> b \in Surplus(c, entries) /\ c.bullets[b].work = id
  BY <1>2, <1>5, <1>6 DEF Surplus, BulletsOf
<1>16. id \in Changed(c.work, entries) =>
         q = [op |-> "updateWork", id |-> id, row |-> MergedRow(c.work[id], entries)]
  BY <1>1, <1>3, <1>4, <1>6
<1>17. \A r : r \in Range((s \o a) \o e) <=> NeedsFor(c, entries, id, r)
  BY <1>8, <1>9, <1>10, <1>13, <1>14, <1>15, <1>16 DEF NeedsFor
<1> QED BY <1>1, <1>7, <1>13, <1>17

LEMMA AddPlanned ==
  ASSUME NEW i, NEW entry, IsFiniteSet(entry.bullets)
  PROVE  /\ Plans(AddEntry(i, entry))
         /\ \A r : r \in Range(AddEntry(i, entry)) <=>
              \/ r = [op |-> "addWork", row |-> NewRow(entry), place |-> i]
              \/ \E text \in entry.bullets : r = BulletFor(-i, text)
<1>1. PICK q, a : /\ q = [op |-> "addWork", row |-> NewRow(entry), place |-> i]
                  /\ a = AddBullets(-i, entry.bullets)
  OBVIOUS
<1>2. AddEntry(i, entry) = <<q>> \o a
  BY <1>1 DEF AddEntry
<1>3. Plans(<<q>>) /\ Range(<<q>>) = {q}
  BY OneIs
<1>4. Plans(a) /\ \A r : r \in Range(a) <=> \E text \in entry.bullets : r = BulletFor(-i, text)
  BY <1>1, AddBulletsPlanned
<1>5. q.op = "addWork" /\ \A r \in Range(a) : r.op = "addBullet"
  BY <1>1, <1>4 DEF BulletFor
<1>6. Plans(<<q>> \o a) /\ Range(<<q>> \o a) = {q} \cup Range(a)
  BY <1>3, <1>4, <1>5, ConcatPlans
<1> QED BY <1>1, <1>2, <1>4, <1>6

LEMMA WorkPlanned ==
  ASSUME NEW c, NEW x, IsList(x.work), DistinctNames(x.work), DistinctNames(c.work),
         \A i \in DOMAIN x.work : IsFiniteSet(x.work[i].bullets), IsFiniteSet(DOMAIN c.bullets),
         DOMAIN c.work \subseteq Nat
  PROVE  /\ Plans(WorkPlan(c, x))
         /\ \A r : r \in Range(WorkPlan(c, x)) <=>
              NeedsEntry(c.work, x.work, r) \/ NeedsBullet(c, x.work, r)
<1>1. PICK t, rows : t = x.work /\ rows = c.work /\ IsList(t) /\ DistinctNames(t) /\ DistinctNames(rows)
                     /\ DOMAIN rows \subseteq Nat
  OBVIOUS
<1> DEFINE id(i) == Existing(rows, t[i].name)
           new(i) == Matching(rows, t[i].name) = {}
           f == [i \in DOMAIN t |-> IF new(i) THEN AddEntry(i, t[i]) ELSE SyncWork(c, id(i), t[i])]
<1>2. WorkPlan(c, x) = FlattenSeq(f)
  BY <1>1, Zenon DEF WorkPlan
<1>3. \A i \in DOMAIN t : f[i] = IF new(i) THEN AddEntry(i, t[i]) ELSE SyncWork(c, id(i), t[i])
  OBVIOUS
<1>4. f = [i \in DOMAIN t |-> f[i]]
  BY Zenon DEF f
<1>5. \A i : i \in Added(rows, t) <=> i \in DOMAIN t /\ new(i)
  BY DEF Added
<1>6. \A i \in DOMAIN t : ~new(i) => id(i) \in Matching(rows, t[i].name)
  BY <1>1, ExistingIs
<1>7. \A i \in DOMAIN t : \A k \in DOMAIN rows : Key(rows[k].name) = Key(t[i].name) => ~new(i) /\ id(i) = k
  <2> SUFFICES ASSUME NEW i \in DOMAIN t, NEW k \in DOMAIN rows, Key(rows[k].name) = Key(t[i].name)
               PROVE  ~new(i) /\ id(i) = k
    OBVIOUS
  <2>1. k \in Matching(rows, t[i].name)
    BY DEF Matching
  <2>2. id(i) \in Matching(rows, t[i].name)
    BY <1>1, <2>1, ExistingIs
  <2> QED BY <1>1, <2>1, <2>2 DEF Matching, DistinctNames
<1> HIDE DEF f, new, id
<1>8. \A i \in DOMAIN t : ~new(i) => id(i) \in DOMAIN rows /\ Key(rows[id(i)].name) = Key(t[i].name)
  BY <1>6 DEF Matching
\* What is planned for each entry.
<1>9. \A i \in DOMAIN t : new(i) =>
        /\ Plans(f[i])
        /\ \A r : r \in Range(f[i]) <=>
             \/ r = [op |-> "addWork", row |-> NewRow(t[i]), place |-> i]
             \/ \E text \in t[i].bullets : r = BulletFor(-i, text)
  BY <1>1, <1>3, AddPlanned
<1>10. \A i \in DOMAIN t : ~new(i) =>
         Plans(f[i]) /\ \A r : r \in Range(f[i]) <=> NeedsFor(c, t, id(i), r)
  BY <1>1, <1>3, <1>6, SyncPlanned
\* No request is planned for two.
<1> DEFINE owner(i) == IF new(i) THEN -i ELSE id(i)
<1>11. \A i, j \in DOMAIN t : i # j => owner(i) # owner(j)
  <2>1. \A i \in DOMAIN t : i \in Nat \ {0}
    BY <1>1, ListIs
  <2>2. \A i, j \in DOMAIN t : ~new(i) /\ ~new(j) /\ id(i) = id(j) => i = j
    BY <1>1, <1>8 DEF DistinctNames
  <2> QED BY <1>1, <1>8, <2>1, <2>2
<1>12. \A i \in DOMAIN t : \A r \in Range(f[i]) :
         /\ r.op = "addWork" => new(i) /\ r.place = i
         /\ r.op = "updateWork" => ~new(i) /\ r.id = id(i)
         /\ r.op = "addBullet" => r.work = owner(i)
         /\ r.op = "deleteBullet" => ~new(i) /\ c.bullets[r.id].work = id(i)
         /\ r.op \in {"addWork", "updateWork", "addBullet", "deleteBullet"}
  <2> SUFFICES ASSUME NEW i \in DOMAIN t, NEW r \in Range(f[i])
               PROVE  /\ r.op = "addWork" => new(i) /\ r.place = i
                      /\ r.op = "updateWork" => ~new(i) /\ r.id = id(i)
                      /\ r.op = "addBullet" => r.work = owner(i)
                      /\ r.op = "deleteBullet" => ~new(i) /\ c.bullets[r.id].work = id(i)
                      /\ r.op \in {"addWork", "updateWork", "addBullet", "deleteBullet"}
    OBVIOUS
  <2>1. CASE new(i)
    BY <1>9, <2>1 DEF BulletFor
  <2>2. CASE ~new(i)
    BY <1>10, <2>2 DEF NeedsFor, BulletFor
  <2> QED BY <2>1, <2>2
<1>13. \A i, j \in DOMAIN t : i # j => \A r \in Range(f[i]), q \in Range(f[j]) : r # q
  <2> SUFFICES ASSUME NEW i \in DOMAIN t, NEW j \in DOMAIN t, i # j,
                      NEW r, r \in Range(f[i]), r \in Range(f[j])
               PROVE  FALSE
    OBVIOUS
  <2>1. owner(i) # owner(j)
    BY <1>11
  <2>2. ~new(i) /\ ~new(j) => id(i) # id(j)
    BY <2>1
  <2> HIDE DEF owner
  <2> QED BY <1>12, <2>1, <2>2
<1>14. /\ Plans(FlattenSeq(f))
       /\ \A r : r \in Range(FlattenSeq(f)) <=> \E i \in DOMAIN t : r \in Range(f[i])
  <2>1. \A i \in DOMAIN t : Plans(f[i])
    BY <1>9, <1>10
  <2> QED BY <1>1, <1>4, <1>13, <2>1, FlattenPlans
\* All that is needed is planned, and only that.
<1>15. ASSUME NEW i \in DOMAIN t, NEW r \in Range(f[i])
       PROVE  NeedsEntry(rows, t, r) \/ NeedsBullet(c, t, r)
  <2>1. CASE new(i)
    BY <1>1, <1>5, <1>9, <2>1 DEF NeedsEntry, NeedsBullet
  <2>2. CASE ~new(i)
    BY <1>1, <1>8, <1>10, <2>2 DEF NeedsFor, NeedsEntry, NeedsBullet
  <2> QED BY <2>1, <2>2
<1>16. ASSUME NEW k \in DOMAIN rows, NEW r, NeedsFor(c, t, k, r)
       PROVE  \E i \in DOMAIN t : r \in Range(f[i])
  <2>1. \E i \in DOMAIN t : Key(t[i].name) = Key(rows[k].name)
    <3> SUFFICES ASSUME \A i \in DOMAIN t : Key(t[i].name) # Key(rows[k].name) PROVE FALSE
      OBVIOUS
    <3>1. k \notin Changed(rows, t)
      BY <1>1, MergedRowIs DEF Changed
    <3>2. MergedBullets(c, k, t) = Texts(c, k)
      BY <1>1, MergedBulletsIs
    <3>3. Lacks(c, k, t) = {}
      BY <3>2 DEF Lacks
    <3>4. \A b \in Surplus(c, t) : c.bullets[b].work # k
      BY <3>2, TextsIs DEF Surplus
    <3> QED BY <1>1, <1>16, <3>1, <3>3, <3>4 DEF NeedsFor
  <2>2. PICK i \in DOMAIN t : Key(t[i].name) = Key(rows[k].name)
    BY <2>1
  <2>3. ~new(i) /\ id(i) = k
    BY <1>7, <2>2
  <2> QED BY <1>10, <1>16, <2>3
<1>17. ASSUME NEW r, NeedsEntry(rows, t, r) \/ NeedsBullet(c, t, r)
       PROVE  \E i \in DOMAIN t : r \in Range(f[i])
  <2>1. CASE \/ \E i \in Added(rows, t) : r = [op |-> "addWork", row |-> NewRow(t[i]), place |-> i]
             \/ \E i \in Added(rows, t) : \E text \in t[i].bullets : r = BulletFor(-i, text)
    BY <1>5, <1>9, <2>1
  <2>2. CASE \/ \E k \in Changed(rows, t) : r = [op |-> "updateWork", id |-> k, row |-> MergedRow(rows[k], t)]
             \/ \E k \in DOMAIN rows : \E text \in Lacks(c, k, t) : r = BulletFor(k, text)
             \/ \E b \in Surplus(c, t) : r = [op |-> "deleteBullet", id |-> b]
    <3>1. \E k \in DOMAIN rows : NeedsFor(c, t, k, r)
      BY <1>1, <2>2 DEF NeedsFor, Surplus, Changed
    <3> QED BY <1>16, <3>1
  <2> QED BY <1>1, <1>17, <2>1, <2>2 DEF NeedsEntry, NeedsBullet
<1> QED BY <1>1, <1>2, <1>14, <1>15, <1>17

\* The plan made from profile c is what profile c needs, each request once.
LEMMA PlanIsNeeds ==
  ASSUME NEW c, NEW x \in Extractions,
         DistinctNames(x.education), DistinctNames(x.work),
         DistinctNames(c.education), DistinctNames(c.work),
         IsFiniteSet(DOMAIN c.bullets), DOMAIN c.work \subseteq Nat
  PROVE  Plans(MergePlan(c, x)) /\ \A r : r \in Range(MergePlan(c, x)) <=> Needs(c, x, r)
<1>1. /\ IsList(x.skills) /\ IsList(x.education) /\ IsList(x.work)
      /\ \A i \in DOMAIN x.work : IsFiniteSet(x.work[i].bullets)
  BY ExtractionsAssumption DEF IsList
<1>2. PICK b, s, e, w : /\ b = BasicPlan(c, x) /\ s = SkillPlan(c, x)
                        /\ e = EducationPlan(c, x) /\ w = WorkPlan(c, x)
  OBVIOUS
<1>3. Plans(b) /\ \A r : r \in Range(b) <=> NeedsBasic(c, x, r)
  BY <1>2, BasicPlanned
<1>4. Plans(s) /\ \A r : r \in Range(s) <=> NeedsSkill(c.skills, x.skills, r)
  BY <1>1, <1>2, SkillsPlanned
<1>5. Plans(e) /\ \A r : r \in Range(e) <=> NeedsEducation(c.education, x.education, r)
  BY <1>1, <1>2, EducationPlanned
<1>6. Plans(w) /\ \A r : r \in Range(w) <=> NeedsEntry(c.work, x.work, r) \/ NeedsBullet(c, x.work, r)
  BY <1>1, <1>2, WorkPlanned
<1>7. /\ \A r \in Range(b) : r.op = "updateProfile"
      /\ \A r \in Range(s) : r.op = "addSkill"
      /\ \A r \in Range(e) : r.op \in {"addEducation", "updateEducation"}
      /\ \A r \in Range(w) : r.op \in {"addWork", "updateWork", "addBullet", "deleteBullet"}
  BY <1>3, <1>4, <1>5, <1>6, NeedsOps
<1>8. Plans(b \o s) /\ Range(b \o s) = Range(b) \cup Range(s)
  BY <1>3, <1>4, <1>7, ConcatPlans
<1>9. Plans((b \o s) \o e) /\ Range((b \o s) \o e) = (Range(b) \cup Range(s)) \cup Range(e)
  BY <1>5, <1>7, <1>8, ConcatPlans
<1>10. /\ Plans(((b \o s) \o e) \o w)
       /\ Range(((b \o s) \o e) \o w) = ((Range(b) \cup Range(s)) \cup Range(e)) \cup Range(w)
  BY <1>6, <1>7, <1>9, ConcatPlans
<1>11. MergePlan(c, x) = ((b \o s) \o e) \o w
  BY <1>2 DEF MergePlan
<1> QED BY <1>3, <1>4, <1>5, <1>6, <1>10, <1>11 DEF Needs

-----------------------------------------------------------------------------
(* What a merge that broke off leaves.                                     *)

\* What was there before has its key, and what was not is alone with its own.
Kept(before, rows) ==
  /\ \A id \in DOMAIN before : id \in DOMAIN rows /\ Key(rows[id].name) = Key(before[id].name)
  /\ \A id \in DOMAIN rows \ DOMAIN before : Matching(rows, rows[id].name) = {id}

\* Of the bullets that were there, those the extraction has are still there.
BulletsKept(b, c, x) ==
  \A id \in DOMAIN b.work : \A i \in DOMAIN x.work :
    Key(x.work[i].name) = Key(b.work[id].name) =>
      Texts(b, id) \cap x.work[i].bullets \subseteq Texts(c, id)

\* Profile c is what a merge of x, or a part of it, made of profile b.
AllKept(b, c, x) ==
  /\ Kept(b.skills, c.skills) /\ Kept(b.education, c.education) /\ Kept(b.work, c.work)
  /\ BulletsKept(b, c, x)

LEMMA KeptSelf == ASSUME NEW rows PROVE Kept(rows, rows)
  BY DEF Kept

LEMMA KeptPut ==
  ASSUME NEW before, NEW rows, Kept(before, rows), NEW id, NEW row,
         \/ id \in DOMAIN rows /\ Key(row.name) = Key(rows[id].name)
         \/ id \notin DOMAIN rows /\ Matching(rows, row.name) = {}
  PROVE  Kept(before, Put(rows, id, row))
<1>1. PICK new : new = Put(rows, id, row)
  OBVIOUS
<1>2. /\ DOMAIN new = DOMAIN rows \cup {id}
      /\ \A i \in DOMAIN new : new[i] = IF i = id THEN row ELSE rows[i]
  BY <1>1 DEF Put
<1>3. \A i \in DOMAIN before : i \in DOMAIN new /\ Key(new[i].name) = Key(before[i].name)
  BY <1>2 DEF Kept
<1>4. ASSUME NEW i \in DOMAIN new \ DOMAIN before PROVE Matching(new, new[i].name) = {i}
  <2>1. CASE id \in DOMAIN rows /\ Key(row.name) = Key(rows[id].name)
    <3>1. DOMAIN new = DOMAIN rows /\ \A j \in DOMAIN rows : Key(new[j].name) = Key(rows[j].name)
      BY <1>2, <2>1
    <3>2. Matching(rows, rows[i].name) = {i}
      BY <1>4, <3>1 DEF Kept
    <3> QED BY <1>4, <3>1, <3>2 DEF Matching
  <2>2. CASE id \notin DOMAIN rows /\ Matching(rows, row.name) = {}
    <3>1. \A j \in DOMAIN rows : Key(rows[j].name) # Key(row.name) /\ new[j] = rows[j] /\ j # id
      BY <1>2, <2>2 DEF Matching
    <3>2. new[id] = row
      BY <1>2
    <3>3. CASE i = id
      BY <1>2, <3>1, <3>2, <3>3 DEF Matching
    <3>4. CASE i # id
      <4>1. i \in DOMAIN rows /\ Matching(rows, rows[i].name) = {i}
        BY <1>2, <1>4, <3>4 DEF Kept
      <4> QED BY <1>2, <3>1, <3>2, <4>1 DEF Matching
    <3> QED BY <3>3, <3>4
  <2> QED BY <2>1, <2>2
<1> QED BY <1>1, <1>3, <1>4 DEF Kept

LEMMA KeptDistinct ==
  ASSUME NEW before, NEW rows, Kept(before, rows), DistinctNames(before)
  PROVE  DistinctNames(rows)
<1> SUFFICES ASSUME NEW i \in DOMAIN rows, NEW j \in DOMAIN rows,
                    Key(rows[i].name) = Key(rows[j].name)
             PROVE  i = j
  BY DEF DistinctNames
<1>1. i \in Matching(rows, rows[j].name) /\ j \in Matching(rows, rows[i].name)
  BY DEF Matching
<1>2. CASE i \in DOMAIN before /\ j \in DOMAIN before
  BY <1>2 DEF Kept, DistinctNames
<1>3. CASE i \notin DOMAIN before \/ j \notin DOMAIN before
  BY <1>1, <1>3 DEF Kept
<1> QED BY <1>2, <1>3

LEMMA KeptNoneTwice ==
  ASSUME NEW before, NEW rows, Kept(before, rows), IsFiniteSet(DOMAIN rows)
  PROVE  NoneTwice(rows, before)
<1> SUFFICES ASSUME NEW id \in DOMAIN rows, NEW key, key = Key(rows[id].name),
                    CountOf(rows, key) > 1
             PROVE  CountOf(rows, key) <= CountOf(before, key)
  BY DEF NoneTwice
<1>1. PICK these : these = {i \in DOMAIN rows : Key(rows[i].name) = key}
  OBVIOUS
<1>2. CountOf(rows, key) = Cardinality(these)
  BY <1>1, Zenon DEF CountOf
<1>3. IsFiniteSet(these) /\ Cardinality(these) \in Nat
  <2>1. these \subseteq DOMAIN rows
    BY <1>1
  <2> QED BY <2>1, FS_Subset, FS_CardinalityType
<1>4. \A i \in these : these # {i}
  <2> SUFFICES ASSUME NEW i, these = {i} PROVE FALSE
    OBVIOUS
  <2>1. Cardinality(these) = 1
    BY FS_Singleton
  <2> QED BY <1>2, <2>1
<1>5. \A i \in these : i \in DOMAIN before
  <2> SUFFICES ASSUME NEW i \in these, i \notin DOMAIN before PROVE FALSE
    OBVIOUS
  <2>1. Matching(rows, rows[i].name) = {i}
    BY <1>1 DEF Kept
  <2>2. these = {i}
    BY <1>1, <2>1 DEF Matching
  <2> QED BY <1>4, <2>2
<1>6. these = {i \in DOMAIN before : Key(before[i].name) = key}
  BY <1>1, <1>5 DEF Kept
<1>7. CountOf(before, key) = Cardinality(these)
  BY <1>6, Zenon DEF CountOf
<1> QED BY <1>2, <1>3, <1>7

LEMMA AllKeptSelf == ASSUME NEW c, NEW x PROVE AllKept(c, c, x)
  BY KeptSelf DEF AllKept, BulletsKept

\* A request leaves the bullets alone.
LEMMA BulletsAlone ==
  ASSUME NEW b, NEW c, NEW d, NEW x, BulletsKept(b, c, x), d.bullets = c.bullets
  PROVE  BulletsKept(b, d, x)
<1>1. \A id : Texts(d, id) = Texts(c, id)
  BY SameTexts
<1> QED BY <1>1 DEF BulletsKept

\* Serving a request that is needed keeps it all.
LEMMA SkillKept ==
  ASSUME NEW b, NEW c, NEW d, NEW x, AllKept(b, c, x), NEW name, Matching(c.skills, name) = {},
         NEW id, id \notin DOMAIN c.skills, d.skills = Put(c.skills, id, [name |-> name]),
         d.education = c.education, d.work = c.work, d.bullets = c.bullets
  PROVE  AllKept(b, d, x)
<1>1. PICK row : row = [name |-> name]
  OBVIOUS
<1>2. Matching(c.skills, row.name) = {} /\ d.skills = Put(c.skills, id, row)
  BY <1>1
<1>3. Kept(b.skills, Put(c.skills, id, row))
  BY <1>2, KeptPut DEF AllKept
<1> QED BY <1>2, <1>3, BulletsAlone DEF AllKept

LEMMA RowKept ==
  ASSUME NEW before, NEW rows, Kept(before, rows), NEW entries, DistinctNames(entries), NEW id, NEW row,
         \/ id \notin DOMAIN rows /\ Matching(rows, row.name) = {}
         \/ id \in Changed(rows, entries) /\ row = MergedRow(rows[id], entries)
  PROVE  Kept(before, Put(rows, id, row))
<1>1. ASSUME id \in Changed(rows, entries), row = MergedRow(rows[id], entries)
      PROVE  id \in DOMAIN rows /\ Key(row.name) = Key(rows[id].name)
  BY <1>1, MergedRowKey DEF Changed
<1> QED BY <1>1, KeptPut

LEMMA BulletGainedKept ==
  ASSUME NEW b, NEW c, NEW d, NEW x, AllKept(b, c, x), NEW id, NEW row,
         id \notin DOMAIN c.bullets, Gains(c.bullets, d.bullets, id, row),
         d.skills = c.skills, d.education = c.education, d.work = c.work
  PROVE  AllKept(b, d, x)
<1>1. \A i \in DOMAIN c.bullets : i \in DOMAIN d.bullets /\ d.bullets[i] = c.bullets[i]
  BY DEF Gains
<1>2. \A w : Texts(c, w) \subseteq Texts(d, w)
  BY <1>1, TextsIs
<1> QED BY <1>2 DEF AllKept, BulletsKept

LEMMA BulletLostKept ==
  ASSUME NEW b, NEW c, NEW d, NEW x, DistinctNames(x.work), AllKept(b, c, x),
         NEW lost \in Surplus(c, x.work), d.bullets = Drop(c.bullets, {lost}),
         d.skills = c.skills, d.education = c.education, d.work = c.work
  PROVE  AllKept(b, d, x)
<1>1. \A i \in DOMAIN c.bullets \ {lost} : i \in DOMAIN d.bullets /\ d.bullets[i] = c.bullets[i]
  BY DEF Drop
<1>2. ASSUME NEW id \in DOMAIN b.work, NEW i \in DOMAIN x.work, Key(x.work[i].name) = Key(b.work[id].name),
             NEW text \in x.work[i].bullets, text \in Texts(c, id)
      PROVE  text \in Texts(d, id)
  <2>1. PICK j \in DOMAIN c.bullets : c.bullets[j].work = id /\ c.bullets[j].text = text
    BY <1>2, TextsIs
  <2>2. Key(x.work[i].name) = Key(c.work[id].name)
    BY <1>2 DEF AllKept, Kept
  <2>3. MergedBullets(c, id, x.work) = x.work[i].bullets
    BY <2>2, MergedBulletsOf
  <2>4. j # lost
    BY <1>2, <2>1, <2>3 DEF Surplus
  <2> QED BY <1>1, <2>1, <2>4, TextsIs
<1>3. BulletsKept(b, d, x)
  BY <1>2 DEF AllKept, BulletsKept
<1> QED BY <1>3 DEF AllKept

-----------------------------------------------------------------------------
(* The tables.                                                             *)

\* Ids are given out once, and a bullet's entry is there.
Below(rows) == DOMAIN rows \subseteq 0..(nextId - 1)
Fresh == nextId \in Nat /\ Below(skills) /\ Below(education) /\ Below(work) /\ Below(bullets)
Refs == \A b \in DOMAIN bullets : bullets[b].work \in DOMAIN work

LEMMA FreshIs ==
  ASSUME Fresh
  PROVE  /\ nextId \notin DOMAIN skills /\ nextId \notin DOMAIN education
         /\ nextId \notin DOMAIN work /\ nextId \notin DOMAIN bullets
         /\ DOMAIN work \subseteq Nat
         /\ \A rows : Below(rows) => IsFiniteSet(DOMAIN rows)
<1>1. IsFiniteSet(0..(nextId - 1))
  BY FS_Interval DEF Fresh
<1>2. \A rows : Below(rows) => IsFiniteSet(DOMAIN rows)
  BY <1>1, FS_Subset DEF Below
<1>3. nextId \notin 0..(nextId - 1) /\ 0..(nextId - 1) \subseteq Nat
  BY DEF Fresh
<1> QED BY <1>2, <1>3 DEF Fresh, Below

\* What merges like that leave is what HalfMergeIsSafe asks for.
LEMMA KeptIsSafe ==
  Fresh /\ (clean /\ Distinct(base, extraction) => AllKept(base, Stored, extraction)) => HalfMergeIsSafe
<1> SUFFICES ASSUME Fresh, AllKept(base, Stored, extraction) PROVE HalfMergeIsSafe
  BY DEF HalfMergeIsSafe
<1>1. Kept(base.skills, skills) /\ Kept(base.education, education) /\ Kept(base.work, work)
  BY DEF AllKept, Stored
<1>2. /\ NoneTwice(skills, base.skills) /\ NoneTwice(education, base.education)
      /\ NoneTwice(work, base.work)
  BY <1>1, FreshIs, KeptNoneTwice DEF Fresh
<1>3. /\ \A id \in DOMAIN base.skills : id \in DOMAIN skills
      /\ \A id \in DOMAIN base.education : id \in DOMAIN education
      /\ \A id \in DOMAIN base.work : id \in DOMAIN work
  BY <1>1 DEF Kept
<1> QED BY <1>2, <1>3 DEF HalfMergeIsSafe, AllKept, BulletsKept

-----------------------------------------------------------------------------
(* The deletion of an entry in two statements.                             *)

Places ==
  /\ half \in [Panels -> BOOLEAN]
  /\ DOMAIN mode = Panels /\ DOMAIN todo = Panels
  /\ \A p \in Panels : half[p] => mode[p] # "none"

Held(id) == {b \in DOMAIN bullets : bullets[b].work = id}

\* Once the first statement has run, no bullet is left, or another came since.
Deleting(p) == Serving(p, "deleteWork") /\ half[p]
Emptied == \A p \in Panels : Deleting(p) => Held(Request(p).id) = {} \/ Request(p).id \in refilled

HalfInv == Places /\ Emptied /\ HalfDeletedOnlyIfRefilled

LEMMA HeldIs == \A id : BulletsOf(Stored, id) = Held(id)
  BY DEF BulletsOf, Stored, Held

\* A panel's request ends, or the panel goes on to another; the others stay.
Ends(p) ==
  /\ half' = [half EXCEPT ![p] = FALSE]
  /\ DOMAIN mode' = Panels /\ DOMAIN todo' = Panels
  /\ \A q \in Panels \ {p} : mode'[q] = mode[q] /\ todo'[q] = todo[q]

LEMMA AnswerEnds ==
  ASSUME Places, NEW p \in Panels, NEW ok, NEW rest, Answer(p, ok, rest)
  PROVE  Ends(p)
  BY DEF Places, Answer, Ends

\* No entry gets a bullet, but it may be one on which no deletion waits.
LosesNone(id) == Held(id)' \subseteq Held(id)

LEMMA EndsKeeps ==
  ASSUME HalfInv, NEW p \in Panels, Ends(p), refilled \subseteq refilled', stripped' \subseteq refilled',
         \A q \in Panels : Deleting(q) => LosesNone(Request(q).id) \/ Request(q).id \in refilled'
  PROVE  HalfInv'
<1>1. Places'
  BY DEF HalfInv, Places, Ends
<1>2. ASSUME NEW q \in Panels, Deleting(q)'
      PROVE  Held(Request(q).id)' = {} \/ Request(q).id' \in refilled'
  <2>1. q # p
    BY <1>2 DEF HalfInv, Places, Ends, Deleting
  <2>2. mode'[q] = mode[q] /\ todo'[q] = todo[q] /\ half'[q] = half[q]
    BY <2>1 DEF Ends, HalfInv, Places
  <2>3. Deleting(q) /\ Request(q)' = Request(q)
    BY <1>2, <2>2 DEF Deleting, Serving, Request
  <2>4. Held(Request(q).id) = {} \/ Request(q).id \in refilled
    BY <2>3 DEF HalfInv, Emptied
  <2>5. PICK id : id = Request(q).id
    OBVIOUS
  <2>6. Held(id)' = {} \/ id \in refilled'
    BY <2>3, <2>4, <2>5 DEF LosesNone
  <2>7. id = Request(q)'.id
    BY <2>3, <2>5
  <2> QED BY <2>6, <2>7 DEF Held
<1> QED BY <1>1, <1>2 DEF HalfInv, Emptied, HalfDeletedOnlyIfRefilled

LEMMA HalfStep == HalfInv /\ [Next]_vars => HalfInv'
<1> SUFFICES ASSUME HalfInv, [Next]_vars PROVE HalfInv'
  OBVIOUS
<1>1. Places /\ stripped \subseteq refilled
  BY DEF HalfInv, HalfDeletedOnlyIfRefilled
\* What leaves the bullets and the history alone.
<1>2. ASSUME NEW p \in Panels, Ends(p), UNCHANGED bullets, UNCHANGED <<refilled, stripped>>
      PROVE  HalfInv'
  <2>1. \A id : LosesNone(id)
    BY <1>2 DEF LosesNone, Held
  <2> QED BY <1>1, <1>2, <2>1, EndsKeeps
<1>3. ASSUME NEW p \in Panels, Done(p, TRUE) \/ Done(p, FALSE) PROVE Ends(p)
  BY <1>1, <1>3, AnswerEnds DEF Done
<1>4. ASSUME NEW p \in Panels, NEW ok \in BOOLEAN, Done(p, ok) PROVE Ends(p)
  BY <1>1, <1>4, AnswerEnds DEF Done
\* A panel without a request is given one.
<1>5. ASSUME NEW p \in Panels, mode[p] = "none", UNCHANGED half,
             DOMAIN mode' = Panels, DOMAIN todo' = Panels,
             \A q \in Panels \ {p} : mode'[q] = mode[q] /\ todo'[q] = todo[q]
      PROVE  Ends(p)
  BY <1>1, <1>5 DEF Places, Ends
\* A request goes on to its second statement.
<1>6. ASSUME NEW p \in Panels, Continue(p), mode[p] # "none", UNCHANGED <<refilled, stripped>>,
             \A q \in Panels : Held(Request(q).id)' \subseteq Held(Request(q).id),
             Serving(p, "deleteWork") => Held(Request(p).id)' = {}
      PROVE  HalfInv'
  <2>1. /\ half' = [half EXCEPT ![p] = TRUE] /\ UNCHANGED mode /\ UNCHANGED todo
    BY <1>6 DEF Continue
  <2>2. Places'
    BY <1>1, <1>6, <2>1 DEF Places
  <2>3. ASSUME NEW q \in Panels, Deleting(q)'
        PROVE  Held(Request(q).id)' = {} \/ Request(q).id' \in refilled'
    <3>1. Request(q)' = Request(q) /\ Serving(q, "deleteWork")
      BY <2>1, <2>3 DEF Deleting, Serving, Request
    <3>2. q # p => Deleting(q)
      BY <1>1, <2>1, <2>3, <3>1 DEF Deleting, Places
    <3> QED BY <1>6, <3>1, <3>2 DEF HalfInv, Emptied
  <2> QED BY <1>1, <1>6, <2>2, <2>3 DEF HalfInv, Emptied, HalfDeletedOnlyIfRefilled
<1>7. CASE UNCHANGED vars
  BY <1>7 DEF vars, tables, clients, counts, history, HalfInv, Places, Emptied, Deleting, Serving,
     Request, Held, HalfDeletedOnlyIfRefilled
<1>8. ASSUME NEW p \in Panels, Load(p) PROVE HalfInv'
  BY <1>8 DEF Load, tables, counts, history, HalfInv, Places, Emptied, Deleting, Serving, Request,
     Held, HalfDeletedOnlyIfRefilled
<1>9. ASSUME NEW p \in Panels, StartMerge(p) \/ StartEdit(p) PROVE HalfInv'
  <2>1. /\ mode[p] = "none" /\ UNCHANGED half /\ UNCHANGED bullets
        /\ UNCHANGED <<refilled, stripped>>
        /\ \E plan : todo' = [todo EXCEPT ![p] = plan]
        /\ \E how : mode' = [mode EXCEPT ![p] = how]
    BY <1>9 DEF StartMerge, StartEdit, tables
  <2>2. Ends(p)
    BY <1>1, <1>5, <2>1 DEF Places
  <2> QED BY <1>2, <2>1, <2>2
<1>10. ASSUME NEW p \in Panels, Fail(p) PROVE HalfInv'
  <2>1. Ends(p) /\ UNCHANGED bullets /\ UNCHANGED <<refilled, stripped>>
    BY <1>1, <1>10 DEF Fail, Places, Ends, tables, history
  <2> QED BY <1>2, <2>1
<1>11. ASSUME NEW p \in Panels,
              \/ UpdateProfile(p) \/ AddSkill(p) \/ DeleteSkill(p)
              \/ AddEducation(p) \/ UpdateEducation(p) \/ DeleteEducation(p)
       PROVE  HalfInv'
  <2>1. UNCHANGED bullets /\ UNCHANGED <<refilled, stripped>> /\ \E ok : Done(p, ok)
    BY <1>11, Zenon DEF UpdateProfile, AddSkill, DeleteSkill, StoreSkills, AddEducation,
       UpdateEducation, DeleteEducation, StoreEducation
  <2>2. Ends(p)
    BY <1>1, <2>1, AnswerEnds DEF Done
  <2> QED BY <1>2, <2>1, <2>2
<1>12. ASSUME NEW p \in Panels, AddWork(p) \/ UpdateWork(p) PROVE HalfInv'
  <2>1. UNCHANGED bullets /\ UNCHANGED <<refilled, stripped>> /\ \E ok, rest : Answer(p, ok, rest)
    BY <1>12, Zenon DEF AddWork, UpdateWork, Done
  <2>2. Ends(p)
    BY <1>1, <2>1, AnswerEnds
  <2> QED BY <1>2, <2>1, <2>2
<1>13. ASSUME NEW p \in Panels, StripWork(p) PROVE HalfInv'
  <2>1. /\ Continue(p) /\ mode[p] # "none" /\ UNCHANGED <<refilled, stripped>>
        /\ bullets' = Drop(bullets, Held(Request(p).id))
    BY <1>13, HeldIs DEF StripWork, Serving
  <2>2. \A id : Held(id)' = Held(id) \ Held(Request(p).id)
    BY <2>1 DEF Drop, Held
  <2>3. UNCHANGED todo
    BY <2>1 DEF Continue
  <2>4. \A q \in Panels : Request(q)' = Request(q)
    BY <2>3 DEF Request
  <2> QED BY <1>6, <2>1, <2>2, <2>4
<1>14. ASSUME NEW p \in Panels, DeleteWork(p) PROVE HalfInv'
  <2>1. PICK id : id = Request(p).id
    OBVIOUS
  <2>2. /\ Deleting(p) /\ UNCHANGED bullets /\ UNCHANGED refilled
        /\ stripped' = IF id \in DOMAIN work /\ ~RemoveWork(id).ok
                         THEN stripped \cup {id} ELSE stripped
        /\ \E ok : Done(p, ok)
    BY <1>14, <2>1 DEF DeleteWork, Deleting
  <2>3. Ends(p)
    BY <1>1, <2>2, AnswerEnds DEF Done
  <2>4. id \in DOMAIN work /\ ~RemoveWork(id).ok => Held(id) # {}
    BY HeldIs DEF RemoveWork, Outcome, Success, Failure
  <2>5. Held(id) # {} => id \in refilled
    BY <2>1, <2>2 DEF HalfInv, Emptied
  <2>6. stripped' \subseteq refilled'
    BY <1>1, <2>2, <2>4, <2>5
  <2>7. \A other : LosesNone(other)
    BY <2>2 DEF LosesNone, Held
  <2> QED BY <2>2, <2>3, <2>6, <2>7, EndsKeeps
<1>15. ASSUME NEW p \in Panels, CheckWork(p) PROVE HalfInv'
  <2>1. /\ UNCHANGED bullets /\ UNCHANGED <<refilled, stripped>>
        /\ Continue(p) \/ Done(p, FALSE)
    BY <1>15 DEF CheckWork, tables
  <2>2. CASE Continue(p)
    <3>1. UNCHANGED todo
      BY <2>2 DEF Continue
    <3>2. mode[p] # "none" /\ ~Serving(p, "deleteWork")
      BY <1>15 DEF CheckWork, Serving
    <3>3. \A q \in Panels : Held(Request(q).id)' \subseteq Held(Request(q).id)
      BY <2>1, <3>1 DEF Request, Held
    <3> QED BY <1>6, <2>1, <2>2, <3>2, <3>3
  <2>3. CASE Done(p, FALSE)
    BY <1>2, <1>3, <2>1, <2>3
  <2> QED BY <2>1, <2>2, <2>3
<1>16. ASSUME NEW p \in Panels, AddBullet(p) PROVE HalfInv'
  <2>1. PICK id, text : id = Request(p).work /\ text = Request(p).text
    OBVIOUS
  <2>2. /\ bullets' = InsertBullet(id, text).rows /\ UNCHANGED stripped
        /\ refilled' = IF BeingDeleted(id) THEN refilled \cup {id} ELSE refilled
        /\ \E ok : Done(p, ok)
    BY <1>16, <2>1, Zenon DEF AddBullet
  <2>3. Ends(p)
    BY <1>1, <2>2, AnswerEnds DEF Done
  <2>4. ASSUME NEW other, other # id PROVE LosesNone(other)
    <3>1. \/ UNCHANGED bullets
          \/ \E b : bullets' = Put(bullets, b, [work |-> id, text |-> text])
      BY <2>2 DEF InsertBullet, Outcome, Success, Failure, Upsert
    <3>2. ASSUME NEW b, bullets' = Put(bullets, b, [work |-> id, text |-> text])
          PROVE  LosesNone(other)
      BY <2>4, <3>2 DEF Put, LosesNone, Held
    <3>3. UNCHANGED bullets => LosesNone(other)
      BY DEF LosesNone, Held
    <3> QED BY <3>1, <3>2, <3>3
  <2>5. ASSUME NEW q \in Panels, Deleting(q), Request(q).id = id PROVE id \in refilled'
    BY <2>2, <2>5 DEF BeingDeleted, Deleting
  <2> QED BY <1>1, <2>2, <2>3, <2>4, <2>5, EndsKeeps
<1>17. ASSUME NEW p \in Panels, UpdateBullet(p) PROVE HalfInv'
  <2>1. PICK b, text : b = Request(p).id /\ text = Request(p).text
    OBVIOUS
  <2>2. /\ bullets' = ChangeBullet(b, text).rows /\ UNCHANGED <<refilled, stripped>>
        /\ \E ok : Done(p, ok)
    BY <1>17, <2>1, Zenon DEF UpdateBullet
  <2>3. \/ UNCHANGED bullets
        \/ /\ b \in DOMAIN bullets
           /\ bullets' = Put(bullets, b, [work |-> bullets[b].work, text |-> text])
    BY <2>2 DEF ChangeBullet, Outcome, Success, Failure
  <2>4. \A id : LosesNone(id)
    BY <2>3 DEF Put, LosesNone, Held
  <2> QED BY <1>1, <2>2, <2>4, AnswerEnds, EndsKeeps DEF Done
<1>18. ASSUME NEW p \in Panels, DeleteBullet(p) PROVE HalfInv'
  <2>1. /\ bullets' = RemoveBullet(Request(p).id).rows /\ UNCHANGED <<refilled, stripped>>
        /\ \E ok : Done(p, ok)
    BY <1>18, Zenon DEF DeleteBullet
  <2>2. UNCHANGED bullets \/ \E ids : bullets' = Drop(bullets, ids)
    BY <2>1 DEF RemoveBullet, Outcome, Success, Failure
  <2>3. \A id : LosesNone(id)
    BY <2>2 DEF Drop, LosesNone, Held
  <2> QED BY <1>1, <2>1, <2>3, AnswerEnds, EndsKeeps DEF Done
<1> QED BY <1>7, <1>8, <1>9, <1>10, <1>11, <1>12, <1>13, <1>14, <1>15, <1>16, <1>17, <1>18,
           Zenon DEF Next, Serve

\* The deletion of an entry ends half way, its bullets gone and the entry still
\* there, only if a bullet was added to it between its two statements or a
\* request failed (DeleteWorkExperience of profile_work_experience.go).
THEOREM DeletionsEnd == Spec => []HalfDeletedOnlyIfRefilled
<1>1. Init => HalfInv
  <2> SUFFICES ASSUME Init PROVE HalfInv
    OBVIOUS
  <2>1. Places /\ \A p \in Panels : ~half[p]
    BY DEF Init, Places
  <2> QED BY <2>1 DEF Init, HalfInv, Emptied, Deleting, HalfDeletedOnlyIfRefilled
<1>2. HalfInv => HalfDeletedOnlyIfRefilled
  BY DEF HalfInv
<1> QED BY <1>1, <1>2, HalfStep, PTL DEF Spec

-----------------------------------------------------------------------------
(* Ids are given out once.                                                 *)

\* A statement leaves the rows it finds, but for one with a new id.
NoOther(rows, new) == DOMAIN new \subseteq DOMAIN rows \cup {nextId}
NoNew(rows, new) == DOMAIN new \subseteq DOMAIN rows

LEMMA UpsertAdds ==
  ASSUME NEW rows, NEW row, NEW inTheWay, inTheWay \subseteq DOMAIN rows
  PROVE  NoOther(rows, Upsert(rows, row, inTheWay))
<1>1. TargetId(inTheWay) \in DOMAIN rows \cup {nextId}
  BY DEF TargetId
<1> QED BY <1>1 DEF Upsert, Put, NoOther

LEMMA StillFresh ==
  ASSUME Fresh,
         \/ /\ nextId' = nextId + 1
            /\ NoOther(skills, skills') /\ NoOther(education, education')
            /\ NoOther(work, work') /\ NoOther(bullets, bullets')
         \/ /\ nextId' = nextId
            /\ NoNew(skills, skills') /\ NoNew(education, education')
            /\ NoNew(work, work') /\ NoNew(bullets, bullets')
  PROVE  Fresh'
<1>1. CASE nextId' = nextId
  BY <1>1 DEF Fresh, Below, NoOther, NoNew
<1>2. CASE nextId' = nextId + 1
  <2>1. nextId \in Nat /\ 0..(nextId' - 1) = 0..(nextId - 1) \cup {nextId}
    BY <1>2 DEF Fresh
  <2>2. nextId' # nextId
    BY <1>2, <2>1
  <2> QED BY <1>2, <2>1, <2>2 DEF Fresh, Below, NoOther
<1> QED BY <1>1, <1>2

LEMMA FreshStep == Fresh /\ [Next]_vars => Fresh'
<1> SUFFICES ASSUME Fresh, [Next]_vars PROVE Fresh'
  OBVIOUS
<1> USE DEF NoOther, NoNew
<1>1. CASE UNCHANGED tables
  BY <1>1, StillFresh DEF tables
<1>2. ASSUME NEW p \in Panels, Load(p) \/ StartMerge(p) \/ StartEdit(p) \/ Fail(p) PROVE UNCHANGED tables
  BY <1>2 DEF Load, StartMerge, StartEdit, Fail
<1>3. ASSUME NEW p \in Panels, UpdateProfile(p) \/ StripWork(p) \/ DeleteWork(p) \/ CheckWork(p)
      PROVE  Fresh'
  <2>1. nextId' = nextId /\ UNCHANGED <<skills, education>>
    BY <1>3, Zenon DEF UpdateProfile, StripWork, DeleteWork, CheckWork, tables
  <2>2. NoNew(work, work') /\ NoNew(bullets, bullets')
    BY <1>3 DEF UpdateProfile, StripWork, DeleteWork, CheckWork, tables, Drop, RemoveWork, Outcome,
       Success, Failure
  <2> QED BY <2>1, <2>2, StillFresh
<1>4. ASSUME NEW p \in Panels, AddSkill(p) \/ DeleteSkill(p) PROVE Fresh'
  <2>1. nextId' = nextId + 1 /\ UNCHANGED <<education, work, bullets>>
    BY <1>4 DEF AddSkill, DeleteSkill, StoreSkills
  <2>2. \A name : NoOther(skills, InsertSkill(name).rows)
    BY UpsertAdds DEF InsertSkill, Success, SameSkill
  <2>3. \A id : NoOther(skills, RemoveSkill(id).rows)
    BY DEF RemoveSkill, Outcome, Success, Failure, Drop
  <2>4. NoOther(skills, skills')
    BY <1>4, <2>2, <2>3 DEF AddSkill, DeleteSkill, StoreSkills
  <2> QED BY <2>1, <2>4, StillFresh
<1>5. ASSUME NEW p \in Panels, AddEducation(p) \/ UpdateEducation(p) \/ DeleteEducation(p) PROVE Fresh'
  <2>1. nextId' = nextId + 1 /\ UNCHANGED <<skills, work, bullets>>
    BY <1>5 DEF AddEducation, UpdateEducation, DeleteEducation, StoreEducation
  <2>2. \A row : NoOther(education, InsertEducation(row).rows)
    BY UpsertAdds DEF InsertEducation, Outcome, Success, Failure, SameEducation
  <2>3. \A id, row : NoOther(education, ChangeEducation(id, row).rows)
    BY DEF ChangeEducation, Outcome, Success, Failure, Put
  <2>4. \A id : NoOther(education, RemoveEducation(id).rows)
    BY DEF RemoveEducation, Outcome, Success, Failure, Drop
  <2>5. NoOther(education, education')
    BY <1>5, <2>2, <2>3, <2>4 DEF AddEducation, UpdateEducation, DeleteEducation, StoreEducation
  <2> QED BY <2>1, <2>5, StillFresh
<1>6. ASSUME NEW p \in Panels, AddWork(p) PROVE Fresh'
  <2>1. PICK row : row = Request(p).row
    OBVIOUS
  <2>2. nextId' = nextId + 1 /\ UNCHANGED <<skills, education, bullets>> /\ work' = InsertWork(row).rows
    BY <1>6, <2>1 DEF AddWork
  <2>3. NoOther(work, InsertWork(row).rows)
    BY UpsertAdds DEF InsertWork, Outcome, Success, Failure, SameWork
  <2> QED BY <2>2, <2>3, StillFresh
<1>7. ASSUME NEW p \in Panels, UpdateWork(p) PROVE Fresh'
  <2>1. /\ nextId' = nextId /\ UNCHANGED <<skills, education, bullets>>
        /\ work' = ChangeWork(Request(p).id, Request(p).row).rows
    BY <1>7 DEF UpdateWork
  <2>2. \A id, row : NoNew(work, ChangeWork(id, row).rows)
    BY DEF ChangeWork, Outcome, Success, Failure, Put
  <2> QED BY <2>1, <2>2, StillFresh
<1>8. ASSUME NEW p \in Panels, AddBullet(p) PROVE Fresh'
  <2>1. /\ nextId' = nextId + 1 /\ UNCHANGED <<skills, education, work>>
        /\ bullets' = InsertBullet(Request(p).work, Request(p).text).rows
    BY <1>8 DEF AddBullet
  <2>2. \A id, text : NoOther(bullets, InsertBullet(id, text).rows)
    BY UpsertAdds DEF InsertBullet, Outcome, Success, Failure, SameBullet
  <2> QED BY <2>1, <2>2, StillFresh
<1>9. ASSUME NEW p \in Panels, UpdateBullet(p) \/ DeleteBullet(p) PROVE Fresh'
  <2>1. nextId' = nextId /\ UNCHANGED <<skills, education, work>>
    BY <1>9 DEF UpdateBullet, DeleteBullet
  <2>2. /\ \A id, text : NoNew(bullets, ChangeBullet(id, text).rows)
        /\ \A id : NoNew(bullets, RemoveBullet(id).rows)
    BY DEF ChangeBullet, RemoveBullet, Outcome, Success, Failure, Put, Drop
  <2>3. NoNew(bullets, bullets')
    BY <1>9, <2>2 DEF UpdateBullet, DeleteBullet
  <2> QED BY <2>1, <2>3, StillFresh
<1> QED BY <1>1, <1>2, <1>3, <1>4, <1>5, <1>6, <1>7, <1>8, <1>9, Zenon DEF Next, Serve, vars

\* Bullets keep their entries: the foreign key, as the statements honour it.
LEMMA StillThere ==
  ASSUME Refs, DOMAIN work \subseteq DOMAIN work',
         \A b \in DOMAIN bullets' : \/ bullets'[b].work \in DOMAIN work
                                    \/ b \in DOMAIN bullets /\ bullets'[b] = bullets[b]
  PROVE  Refs'
  BY DEF Refs

LEMMA RefsStep == Refs /\ [Next]_vars => Refs'
<1> SUFFICES ASSUME Refs, [Next]_vars PROVE Refs'
  OBVIOUS
<1>1. ASSUME UNCHANGED <<work, bullets>> PROVE Refs'
  BY <1>1 DEF Refs
<1>2. CASE UNCHANGED vars
  BY <1>1, <1>2 DEF vars, tables
<1>3. ASSUME NEW p \in Panels,
             \/ Load(p) \/ StartMerge(p) \/ StartEdit(p) \/ Fail(p) \/ UpdateProfile(p)
             \/ AddSkill(p) \/ DeleteSkill(p)
             \/ AddEducation(p) \/ UpdateEducation(p) \/ DeleteEducation(p) \/ CheckWork(p)
      PROVE  Refs'
  <2>1. UNCHANGED <<work, bullets>>
    BY <1>3, Zenon DEF Load, StartMerge, StartEdit, Fail, UpdateProfile, AddSkill, DeleteSkill, StoreSkills,
       AddEducation, UpdateEducation, DeleteEducation, StoreEducation, CheckWork, tables
  <2> QED BY <1>1, <2>1
<1>4. ASSUME NEW p \in Panels, AddWork(p) \/ UpdateWork(p) PROVE Refs'
  <2>1. UNCHANGED bullets
    BY <1>4 DEF AddWork, UpdateWork
  <2>2. DOMAIN work \subseteq DOMAIN work'
    <3>1. \A row : DOMAIN work \subseteq DOMAIN InsertWork(row).rows
      BY DEF InsertWork, Outcome, Success, Failure, Upsert, Put
    <3>2. \A id, row : DOMAIN work \subseteq DOMAIN ChangeWork(id, row).rows
      BY DEF ChangeWork, Outcome, Success, Failure, Put
    <3> QED BY <1>4, <3>1, <3>2 DEF AddWork, UpdateWork
  <2> QED BY <2>1, <2>2, StillThere
<1>5. ASSUME NEW p \in Panels, StripWork(p) PROVE Refs'
  BY <1>5, StillThere DEF StripWork, Drop
<1>6. ASSUME NEW p \in Panels, DeleteWork(p) PROVE Refs'
  <2>1. PICK id : id = Request(p).id
    OBVIOUS
  <2>2. work' = RemoveWork(id).rows /\ UNCHANGED bullets
    BY <1>6, <2>1 DEF DeleteWork
  <2>3. \/ work' = work
        \/ work' = Drop(work, {id}) /\ Held(id) = {}
    BY <2>2, HeldIs DEF RemoveWork, Outcome, Success, Failure
  <2> QED BY <2>2, <2>3 DEF Refs, Drop, Held
<1>7. ASSUME NEW p \in Panels, AddBullet(p) PROVE Refs'
  <2>1. PICK id, text, row, b : /\ id = Request(p).work /\ text = Request(p).text
                                /\ row = [work |-> id, text |-> text]
                                /\ b = TargetId(SameBullet(id, text))
    OBVIOUS
  <2>2. bullets' = InsertBullet(id, text).rows /\ UNCHANGED work
    BY <1>7, <2>1 DEF AddBullet
  <2>3. \/ bullets' = bullets
        \/ bullets' = Put(bullets, b, row) /\ row.work \in DOMAIN work
    BY <2>1, <2>2 DEF InsertBullet, Outcome, Success, Failure, Upsert
  <2> QED BY <2>2, <2>3, StillThere DEF Put
<1>8. ASSUME NEW p \in Panels, UpdateBullet(p) \/ DeleteBullet(p) PROVE Refs'
  <2>1. UNCHANGED work
    BY <1>8 DEF UpdateBullet, DeleteBullet
  <2>2. PICK b, text : b = Request(p).id /\ text = Request(p).text
    OBVIOUS
  <2>3. bullets' = ChangeBullet(b, text).rows \/ bullets' = RemoveBullet(b).rows
    BY <1>8, <2>2 DEF UpdateBullet, DeleteBullet
  <2>4. PICK row : row = [work |-> bullets[b].work, text |-> text]
    OBVIOUS
  <2>5. \/ bullets' = bullets
        \/ bullets' = Drop(bullets, {b})
        \/ bullets' = Put(bullets, b, row) /\ b \in DOMAIN bullets
    BY <2>3, <2>4 DEF ChangeBullet, RemoveBullet, Outcome, Success, Failure
  <2>6. b \in DOMAIN bullets => row.work \in DOMAIN work
    BY <2>4 DEF Refs
  <2> QED BY <2>1, <2>5, <2>6, StillThere DEF Put, Drop
<1> QED BY <1>2, <1>3, <1>4, <1>5, <1>6, <1>7, <1>8, Zenon DEF Next, Serve

-----------------------------------------------------------------------------
(* One request of a merge: c is the profile before it, d the one after.    *)

\* It serves what was needed, or it leaves the profile alone.
ServedWell(q, ok, c, d) ==
  /\ ok => Progress(c, d, extraction, q) /\ AllKept(base, d, extraction)
  /\ ~ok => d = c

\* What a request of a merge may rely on.
Serviceable(q, c) ==
  /\ Fresh /\ Refs /\ extraction \in Extractions /\ Distinct(base, extraction)
  /\ AllKept(base, c, extraction) /\ Needs(c, extraction, q)

LEMMA StoredIs ==
  /\ Stored.basic = basic /\ Stored.skills = skills /\ Stored.education = education
  /\ Stored.work = work /\ Stored.bullets = bullets
  BY DEF Stored

LEMMA StoredNext ==
  ASSUME NEW d, d = Stored'
  PROVE  /\ d.basic = basic' /\ d.skills = skills' /\ d.education = education'
         /\ d.work = work' /\ d.bullets = bullets'
         /\ \A c : c = Stored /\ UNCHANGED <<basic, skills, education, work, bullets>> => d = c
  BY DEF Stored

LEMMA ExtractionIs ==
  ASSUME extraction \in Extractions, Distinct(base, extraction)
  PROVE  /\ IsList(extraction.skills) /\ IsList(extraction.education) /\ IsList(extraction.work)
         /\ DistinctNames(extraction.education) /\ DistinctNames(extraction.work)
         /\ \A i \in DOMAIN extraction.work : i \in Nat \ {0}
<1>1. /\ IsList(extraction.skills) /\ IsList(extraction.education) /\ IsList(extraction.work)
  BY ExtractionsAssumption DEF IsList
<1>2. \A i \in DOMAIN extraction.work : i \in Nat \ {0}
  <2>1. Len(extraction.work) \in Nat /\ DOMAIN extraction.work = 1..Len(extraction.work)
    BY <1>1, ListIs
  <2> QED BY <2>1
<1> QED BY <1>1, <1>2 DEF Distinct

LEMMA ProfileServed ==
  ASSUME NEW q, NEW c, c = Stored, NEW d, d = Stored', Serviceable(q, c), q.op = "updateProfile",
         basic' = q.basic, UNCHANGED <<skills, education, work, bullets>>
  PROVE  ServedWell(q, TRUE, c, d)
<1>1. /\ d.basic = q.basic /\ d.skills = c.skills /\ d.education = c.education
      /\ d.work = c.work /\ d.bullets = c.bullets
  BY StoredIs, StoredNext
<1>2. NeedsBasic(c, extraction, q)
  BY NeedsOps DEF Serviceable, Needs
<1>3. Progress(c, d, extraction, q)
  BY <1>1, <1>2, BasicProgress
<1>4. AllKept(base, d, extraction)
  BY <1>1, BulletsAlone DEF Serviceable, AllKept
<1> QED BY <1>3, <1>4 DEF ServedWell

LEMMA SkillServed ==
  ASSUME NEW q, NEW c, c = Stored, NEW d, d = Stored', Serviceable(q, c), q.op = "addSkill",
         skills' = InsertSkill(q.name).rows, UNCHANGED <<basic, education, work, bullets>>
  PROVE  ServedWell(q, InsertSkill(q.name).ok, c, d)
<1>1. /\ c.skills = skills /\ d.basic = c.basic /\ d.skills = skills' /\ d.education = c.education
      /\ d.work = c.work /\ d.bullets = c.bullets
  BY StoredIs, StoredNext
<1>2. PICK x, name, row : x = extraction /\ name = q.name /\ row = [name |-> name]
  OBVIOUS
<1>3. NeedsSkill(c.skills, x.skills, q)
  BY <1>2, NeedsOps DEF Serviceable, Needs
<1>4. Matching(c.skills, name) = {}
  BY <1>2, <1>3 DEF NeedsSkill, NewSkills
<1>5. SameSkill(name) = {}
  BY <1>1, <1>4 DEF SameSkill, Matching
<1>6. d.skills = Put(c.skills, nextId, row) /\ nextId \notin DOMAIN c.skills
  BY <1>1, <1>2, <1>5, FreshIs DEF InsertSkill, Success, Upsert, TargetId, Serviceable
<1>7. IsList(x.skills)
  BY <1>2, ExtractionIs DEF Serviceable
<1>8. Progress(c, d, x, q)
  BY <1>1, <1>2, <1>3, <1>6, <1>7, SkillProgress
<1>9. AllKept(base, d, x)
  BY <1>1, <1>2, <1>4, <1>6, SkillKept DEF Serviceable
<1>10. InsertSkill(q.name).ok
  BY DEF InsertSkill, Success
<1> QED BY <1>2, <1>8, <1>9, <1>10 DEF ServedWell

LEMMA EducationServed ==
  ASSUME NEW q, NEW c, c = Stored, NEW d, d = Stored', Serviceable(q, c), NEW result,
         \/ q.op = "addEducation" /\ result = InsertEducation(q.row)
         \/ q.op = "updateEducation" /\ result = ChangeEducation(q.id, q.row),
         education' = result.rows, UNCHANGED <<basic, skills, work, bullets>>
  PROVE  ServedWell(q, result.ok, c, d)
<1>1. /\ c.education = education /\ d.education = education' /\ d.basic = c.basic /\ d.skills = c.skills
      /\ d.work = c.work /\ d.bullets = c.bullets
      /\ education' = education => d = c
  BY StoredIs, StoredNext
<1>2. PICK x, row, id, rows, entries :
        /\ x = extraction /\ row = q.row /\ rows = c.education /\ entries = x.education
        /\ id = IF q.op = "addEducation" THEN nextId ELSE q.id
  OBVIOUS
<1>3. NeedsEducation(rows, entries, q)
  BY <1>2, NeedsOps DEF Serviceable, Needs
<1>4. DistinctNames(entries) /\ nextId \notin DOMAIN rows
  BY <1>1, <1>2, ExtractionIs, FreshIs DEF Serviceable
<1>5. \/ id \notin DOMAIN rows /\ Matching(rows, row.name) = {}
      \/ id \in Changed(rows, entries) /\ row = MergedRow(rows[id], entries)
  <2>1. CASE q.op = "addEducation"
    <3>1. PICK i \in Added(rows, entries) : q = [op |-> "addEducation", row |-> NewRow(entries[i])]
      BY <1>3, <2>1 DEF NeedsEducation
    <3>2. row.name = entries[i].name /\ id = nextId
      BY <1>2, <2>1, <3>1 DEF NewRow
    <3> QED BY <1>4, <3>1, <3>2 DEF Added, Matching
  <2>2. CASE q.op = "updateEducation"
    <3>1. PICK j \in Changed(rows, entries) :
            q = [op |-> "updateEducation", id |-> j, row |-> MergedRow(rows[j], entries)]
      BY <1>3, <2>2 DEF NeedsEducation
    <3> QED BY <1>2, <2>2, <3>1
  <2> QED BY <2>1, <2>2
<1>6. IF result.ok THEN d.education = Put(rows, id, row) ELSE education' = education
  <2>1. CASE q.op = "addEducation"
    <3>1. result = InsertEducation(row) /\ id = nextId
      BY <1>2, <2>1
    <3>2. id \notin Changed(rows, entries)
      BY <1>4, <3>1 DEF Changed
    <3>3. SameEducation(row) = {}
      BY <1>1, <1>2, <1>5, <3>2 DEF SameEducation, Matching
    <3> QED BY <1>1, <1>2, <3>1, <3>3 DEF InsertEducation, Outcome, Success, Failure, Upsert, TargetId
  <2>2. CASE q.op = "updateEducation"
    <3>1. result = ChangeEducation(id, row)
      BY <1>2, <2>2
    <3> QED BY <1>1, <1>2, <3>1 DEF ChangeEducation, Outcome, Success, Failure
  <2> QED BY <2>1, <2>2
<1>7. ASSUME d.education = Put(rows, id, row)
      PROVE  Progress(c, d, x, q) /\ AllKept(base, d, x)
  <2>1. /\ q.op = "addEducation" => id \notin DOMAIN rows
        /\ q.op = "updateEducation" => id = q.id
    BY <1>2, <1>4
  <2>2. Progress(c, d, x, q)
    BY <1>1, <1>2, <1>3, <1>4, <1>7, <2>1, EducationProgress
  <2>3. Kept(base.education, rows)
    BY <1>2 DEF Serviceable, AllKept
  <2>4. Kept(base.education, d.education)
    BY <1>4, <1>5, <1>7, <2>3, RowKept
  <2>5. AllKept(base, d, x)
    BY <1>1, <1>2, <2>4, BulletsAlone DEF Serviceable, AllKept
  <2> QED BY <2>2, <2>5
<1> QED BY <1>1, <1>2, <1>6, <1>7 DEF ServedWell

LEMMA EntryServed ==
  ASSUME NEW q, NEW c, c = Stored, NEW d, d = Stored', Serviceable(q, c), q.op = "updateWork",
         work' = ChangeWork(q.id, q.row).rows, UNCHANGED <<basic, skills, education, bullets>>
  PROVE  ServedWell(q, ChangeWork(q.id, q.row).ok, c, d)
<1>1. /\ c.work = work /\ d.work = work' /\ d.basic = c.basic /\ d.skills = c.skills
      /\ d.education = c.education /\ d.bullets = c.bullets
      /\ work' = work => d = c
  BY StoredIs, StoredNext
<1>2. PICK x, row, id, result : /\ x = extraction /\ row = q.row /\ id = q.id
                                /\ result = ChangeWork(id, row)
  OBVIOUS
<1>3. DistinctNames(x.work)
  BY <1>2, ExtractionIs DEF Serviceable
<1>4. /\ id \in Changed(c.work, x.work) /\ row = MergedRow(c.work[id], x.work)
      /\ q = [op |-> "updateWork", id |-> id, row |-> MergedRow(c.work[id], x.work)]
  <2>1. NeedsEntry(c.work, x.work, q)
    BY <1>2, NeedsOps DEF Serviceable, Needs
  <2>2. PICK j \in Changed(c.work, x.work) :
          q = [op |-> "updateWork", id |-> j, row |-> MergedRow(c.work[j], x.work)]
    BY <2>1 DEF NeedsEntry
  <2>3. id = j
    BY <1>2, <2>2
  <2> QED BY <1>2, <2>2, <2>3
<1>5. IF result.ok THEN d.work = Put(c.work, id, row) ELSE work' = work
  BY <1>1, <1>2 DEF ChangeWork, Outcome, Success, Failure
<1>6. ASSUME d.work = Put(c.work, id, row)
      PROVE  Progress(c, d, x, q) /\ AllKept(base, d, x)
  <2>1. Progress(c, d, x, q)
    BY <1>1, <1>2, <1>3, <1>4, <1>6, EntryChanged
  <2>2. Kept(base.work, c.work)
    BY DEF Serviceable, AllKept
  <2>3. Kept(base.work, d.work)
    BY <1>3, <1>4, <1>6, <2>2, RowKept
  <2>4. AllKept(base, d, x)
    BY <1>1, <1>2, <2>3, BulletsAlone DEF Serviceable, AllKept
  <2> QED BY <2>1, <2>4
<1> QED BY <1>1, <1>2, <1>5, <1>6 DEF ServedWell

\* A new entry: the bullets planned for it learn its id.
LEMMA NewEntryServed ==
  ASSUME NEW q, NEW c, c = Stored, NEW d, d = Stored', Serviceable(q, c), q.op = "addWork",
         work' = InsertWork(q.row).rows, UNCHANGED <<basic, skills, education, bullets>>,
         NEW id, id = TargetId(SameWork(q.row))
  PROVE  /\ ~InsertWork(q.row).ok => d = c
         /\ InsertWork(q.row).ok =>
              /\ AllKept(base, d, extraction) /\ Merged(d, extraction) = Merged(c, extraction)
              /\ \A r : Needs(d, extraction, r) <=>
                   \E before : /\ Needs(c, extraction, before) /\ before # q
                               /\ r = WithId(before, q.place, id)
              /\ \A r, other : /\ Needs(c, extraction, r) /\ Needs(c, extraction, other)
                               /\ WithId(r, q.place, id) = WithId(other, q.place, id)
                               => r = other
<1>1. /\ c.work = work /\ d.work = work' /\ d.basic = c.basic /\ d.skills = c.skills
      /\ d.education = c.education /\ d.bullets = c.bullets
      /\ work' = work => d = c
  BY StoredIs, StoredNext
<1>2. PICK x, row, result : x = extraction /\ row = q.row /\ result = InsertWork(row)
  OBVIOUS
<1>3. IsList(x.work) /\ DistinctNames(x.work)
  BY <1>2, ExtractionIs DEF Serviceable
<1>4. PICK k \in Added(c.work, x.work) : q = [op |-> "addWork", row |-> NewRow(x.work[k]), place |-> k]
  <2>1. NeedsEntry(c.work, x.work, q)
    BY <1>2, NeedsOps DEF Serviceable, Needs
  <2> QED BY <2>1 DEF NeedsEntry
<1>5. q.place = k /\ row = NewRow(x.work[k]) /\ row.name = x.work[k].name
  BY <1>2, <1>4 DEF NewRow
<1>6. Matching(c.work, row.name) = {}
  BY <1>5 DEF Added, Matching
<1>7. id = nextId
  <2>1. SameWork(row) = {}
    BY <1>1, <1>6 DEF SameWork, Matching
  <2> QED BY <1>2, <2>1 DEF TargetId
<1>8. id \notin DOMAIN c.work /\ DOMAIN c.work \subseteq Nat /\ id \in Nat
  BY <1>1, <1>7, FreshIs DEF Serviceable, Fresh
<1>9. IF result.ok THEN d.work = Put(c.work, id, row) ELSE work' = work
  BY <1>1, <1>2 DEF InsertWork, Outcome, Success, Failure, Upsert
<1>10. \A b \in DOMAIN c.bullets : c.bullets[b].work \in DOMAIN c.work
  BY StoredIs DEF Serviceable, Refs
<1>11. ASSUME d.work = Put(c.work, id, row)
       PROVE  /\ AllKept(base, d, x) /\ Merged(d, x) = Merged(c, x)
              /\ \A r : Needs(d, x, r) <=> \E before : /\ Needs(c, x, before) /\ before # q
                                                       /\ r = WithId(before, k, id)
              /\ \A r, other : Needs(c, x, r) /\ Needs(c, x, other)
                               /\ WithId(r, k, id) = WithId(other, k, id) => r = other
  <2>1. Gains(c.work, d.work, id, NewRow(x.work[k]))
    BY <1>5, <1>8, <1>11 DEF Put, Gains
  <2>2. Kept(base.work, c.work)
    BY DEF Serviceable, AllKept
  <2>3. Kept(base.work, d.work)
    BY <1>6, <1>8, <1>11, <2>2, KeptPut
  <2>4. AllKept(base, d, x)
    BY <1>1, <1>2, <2>3, BulletsAlone DEF Serviceable, AllKept
  <2> QED BY <1>1, <1>3, <1>4, <1>8, <1>10, <2>1, <2>4, EntryGained
<1> QED BY <1>1, <1>2, <1>5, <1>9, <1>11

LEMMA BulletAdded ==
  ASSUME NEW q, NEW c, c = Stored, NEW d, d = Stored', Serviceable(q, c), q.op = "addBullet",
         bullets' = InsertBullet(q.work, q.text).rows, UNCHANGED <<basic, skills, education, work>>
  PROVE  ServedWell(q, InsertBullet(q.work, q.text).ok, c, d)
<1>1. /\ c.bullets = bullets /\ d.bullets = bullets' /\ d.basic = c.basic /\ d.skills = c.skills
      /\ d.education = c.education /\ d.work = c.work /\ c.work = work
      /\ bullets' = bullets => d = c
  BY StoredIs, StoredNext
<1>2. PICK x, id, text, result, row :
        /\ x = extraction /\ id = q.work /\ text = q.text
        /\ result = InsertBullet(id, text) /\ row = [work |-> id, text |-> text]
  OBVIOUS
<1>3. DistinctNames(x.work) /\ \A i \in DOMAIN x.work : i \in Nat \ {0}
  BY <1>2, ExtractionIs DEF Serviceable
<1>4. nextId \notin DOMAIN c.bullets /\ DOMAIN c.work \subseteq Nat
  BY <1>1, FreshIs DEF Serviceable
<1>5. \A i \in DOMAIN x.work : -i \notin DOMAIN c.work
  BY <1>3, <1>4
<1>6. id \in DOMAIN c.work => text \in Lacks(c, id, x.work) /\ q = BulletFor(id, text)
  <2>1. NeedsBullet(c, x.work, q)
    BY <1>2, NeedsOps DEF Serviceable, Needs
  <2>2. ASSUME NEW j, NEW some, q = BulletFor(j, some) PROVE j = id /\ some = text
    BY <1>2, <2>2 DEF BulletFor
  <2>3. \A i \in Added(c.work, x.work) : -i \notin DOMAIN c.work
    BY <1>5 DEF Added
  <2> QED BY <2>1, <2>2, <2>3 DEF NeedsBullet
<1>7. IF id \in DOMAIN c.work
      THEN result.ok /\ bullets' = Upsert(bullets, row, SameBullet(id, text))
      ELSE ~result.ok /\ bullets' = bullets
  BY <1>1, <1>2 DEF InsertBullet, Outcome, Success, Failure
<1>8. ASSUME id \in DOMAIN c.work PROVE Progress(c, d, x, q) /\ AllKept(base, d, x)
  <2>1. SameBullet(id, text) = {}
    <3>1. text \notin Texts(c, id)
      BY <1>6, <1>8 DEF Lacks
    <3> QED BY <1>1, <3>1, TextsIs DEF SameBullet
  <2>2. d.bullets = Put(c.bullets, nextId, row)
    BY <1>1, <1>7, <1>8, <2>1 DEF Upsert, TargetId
  <2>3. Gains(c.bullets, d.bullets, nextId, row)
    BY <1>4, <2>2 DEF Put, Gains
  <2>4. Progress(c, d, x, q)
    BY <1>1, <1>2, <1>3, <1>4, <1>5, <1>6, <1>8, <2>3, BulletGained
  <2>5. AllKept(base, d, x)
    BY <1>1, <1>2, <1>4, <2>3, BulletGainedKept DEF Serviceable
  <2> QED BY <2>4, <2>5
<1> QED BY <1>1, <1>2, <1>7, <1>8 DEF ServedWell

LEMMA BulletDeleted ==
  ASSUME NEW q, NEW c, c = Stored, NEW d, d = Stored', Serviceable(q, c), q.op = "deleteBullet",
         bullets' = RemoveBullet(q.id).rows, UNCHANGED <<basic, skills, education, work>>
  PROVE  ServedWell(q, RemoveBullet(q.id).ok, c, d)
<1>1. /\ c.bullets = bullets /\ d.bullets = bullets' /\ d.basic = c.basic /\ d.skills = c.skills
      /\ d.education = c.education /\ d.work = c.work
      /\ bullets' = bullets => d = c
  BY StoredIs, StoredNext
<1>2. PICK x, b, result : x = extraction /\ b = q.id /\ result = RemoveBullet(b)
  OBVIOUS
<1>3. DistinctNames(x.work)
  BY <1>2, ExtractionIs DEF Serviceable
<1>4. b \in Surplus(c, x.work) /\ q = [op |-> "deleteBullet", id |-> b]
  <2>1. NeedsBullet(c, x.work, q)
    BY <1>2, NeedsOps DEF Serviceable, Needs
  <2>2. PICK lost \in Surplus(c, x.work) : q = [op |-> "deleteBullet", id |-> lost]
    BY <2>1 DEF NeedsBullet, BulletFor
  <2>3. lost = b
    BY <1>2, <2>2
  <2> QED BY <2>2, <2>3
<1>5. d.bullets = Drop(c.bullets, {b})
  <2>1. b \in DOMAIN bullets
    BY <1>1, <1>4 DEF Surplus
  <2> QED BY <1>1, <1>2, <2>1 DEF RemoveBullet, Outcome, Success
<1>6. Progress(c, d, x, q) /\ AllKept(base, d, x)
  BY <1>1, <1>2, <1>3, <1>4, <1>5, BulletLost, BulletLostKept DEF Serviceable
<1>7. result.ok
  BY <1>1, <1>2, <1>4 DEF RemoveBullet, Outcome, Success, Surplus
<1> QED BY <1>2, <1>6, <1>7 DEF ServedWell

-----------------------------------------------------------------------------
(* Merges of a resume, wherever they break off.                            *)

\* As long as only merges wrote, one panel works at a time, and what it has
\* still to send is what it would plan from the profile as it is now stored.
OnlyPanel(p) == \A q \in Panels : mode[q] # "none" => q = p
Pending(t, c, x) == t # << >> /\ Plans(t) /\ \A r : r \in Range(t) <=> Needs(c, x, r)

CleanInv ==
  /\ settled => clean
  /\ clean /\ Distinct(base, extraction) =>
       /\ AllKept(base, Stored, extraction)
       /\ Merged(Stored, extraction) = Merged(base, extraction)
       /\ settled => \A r : ~Needs(Stored, extraction, r)
       /\ \A p \in Panels : mode[p] # "none" =>
            Pending(todo[p], Stored, extraction) /\ OnlyPanel(p)

MergeInv == Fresh /\ Refs /\ extraction \in Extractions /\ CleanInv

\* The first request leaves the list.
LEMMA RestIs ==
  ASSUME NEW t, t # << >>, Plans(t)
  PROVE  Plans(Tail(t)) /\ Range(Tail(t)) = Range(t) \ {Head(t)}
<1>1. IsList(t) /\ NoRepeats(t)
  BY DEF Plans
<1>2. PICK rest : rest = Tail(t)
  OBVIOUS
<1>3. PICK n \in Nat, m \in Nat : n = Len(rest) /\ m = Len(t)
  BY <1>1, <1>2, TailIs, ListIs
<1>4. /\ IsList(rest) /\ n = m - 1 /\ m = n + 1 /\ Head(t) = t[1]
      /\ \A i \in 1..n : rest[i] = t[i + 1]
      /\ Range(t) = {Head(t)} \cup Range(rest)
  BY <1>1, <1>2, <1>3, TailIs, ListIs
<1>5. DOMAIN rest = 1..n /\ DOMAIN t = 1..(n + 1)
  <2>1. DOMAIN t = 1..m
    BY <1>1, <1>3, ListIs
  <2>2. DOMAIN rest = 1..n
    BY <1>3, <1>4, ListIs
  <2> QED BY <1>4, <2>1, <2>2
<1>6. NoRepeats(rest)
  <2>1. ASSUME NEW i \in 1..n, NEW j \in 1..n, i # j PROVE rest[i] # rest[j]
    <3>1. i + 1 \in DOMAIN t /\ j + 1 \in DOMAIN t /\ i + 1 # j + 1
      BY <1>5, <2>1
    <3>2. rest[i] = t[i + 1] /\ rest[j] = t[j + 1]
      BY <1>4
    <3> QED BY <1>1, <3>1, <3>2 DEF NoRepeats
  <2> QED BY <1>5, <2>1 DEF NoRepeats
<1>7. Head(t) \notin Range(rest)
  <2> SUFFICES ASSUME NEW i \in 1..n, rest[i] = Head(t) PROVE FALSE
    BY <1>5 DEF Range
  <2>1. 1 \in DOMAIN t /\ i + 1 \in DOMAIN t /\ i + 1 # 1
    BY <1>5
  <2>2. t[i + 1] = t[1]
    BY <1>4
  <2> QED BY <1>1, <2>1, <2>2 DEF NoRepeats
<1> QED BY <1>2, <1>4, <1>6, <1>7 DEF Plans

\* The bullets in the list learn the id of their entry.
LEMMA RewrittenIs ==
  ASSUME NEW t, Plans(t), NEW k, NEW id, NEW new, new = [i \in DOMAIN t |-> WithId(t[i], k, id)],
         \A r, other \in Range(t) : WithId(r, k, id) = WithId(other, k, id) => r = other
  PROVE  /\ Plans(new)
         /\ \A r : r \in Range(new) <=> \E before \in Range(t) : r = WithId(before, k, id)
<1>1. \A i \in DOMAIN t : new[i] = WithId(t[i], k, id) /\ t[i] \in Range(t)
  BY DEF Range
<1>2. IsList(new) /\ DOMAIN new = DOMAIN t
  <2>1. new = [i \in DOMAIN t |-> new[i]]
    OBVIOUS
  <2>2. IsList(t)
    BY DEF Plans
  <2> QED BY <2>1, <2>2, MapIs
<1>3. NoRepeats(new)
  BY <1>1, <1>2 DEF Plans, NoRepeats
<1>4. \A r : r \in Range(new) <=> \E before \in Range(t) : r = WithId(before, k, id)
  BY <1>1, <1>2 DEF Range
<1> QED BY <1>2, <1>3, <1>4 DEF Plans

\* The request is over: the next one is at hand, or the merge has ended.
LEMMA AnswerKeeps ==
  ASSUME Places, CleanInv, clean, Distinct(base, extraction), NEW p \in Panels, mode[p] # "none",
         NEW ok, NEW rest, Answer(p, ok, rest), NEW d, d = Stored',
         AllKept(base, d, extraction), Merged(d, extraction) = Merged(base, extraction),
         ok => Plans(rest) /\ \A r : r \in Range(rest) <=> Needs(d, extraction, r)
  PROVE  CleanInv'
<1>1. OnlyPanel(p) /\ base' = base /\ extraction' = extraction /\ clean'
  BY DEF CleanInv, Answer
<1>2. PICK more : /\ (ok /\ more = rest) \/ more = << >>
                  /\ todo' = [todo EXCEPT ![p] = more]
                  /\ mode' = [mode EXCEPT ![p] = IF more = << >> THEN "none" ELSE @]
  BY DEF Answer
<1>3. todo'[p] = more /\ (mode'[p] # "none" => more # << >>)
  BY <1>2 DEF Places
<1>4. \A q \in Panels : mode'[q] # "none" => q = p
  BY <1>1, <1>2 DEF Places, OnlyPanel
<1>5. more # << >> => Pending(more, d, extraction)
  BY <1>2 DEF Pending
<1>6. settled' => \A r : ~Needs(d, extraction, r)
  <2>1. settled' => ok /\ rest = << >>
    BY DEF Answer
  <2>2. Range(<< >>) = {}
    BY EmptyIs
  <2> QED BY <2>1, <2>2
<1>7. ASSUME NEW q \in Panels, mode'[q] # "none"
      PROVE  Pending(todo'[q], d, extraction) /\ OnlyPanel(q)'
  <2>1. q = p /\ more # << >> /\ todo'[q] = more
    BY <1>3, <1>4, <1>7
  <2> QED BY <1>4, <1>5, <2>1 DEF OnlyPanel
<1> QED BY <1>1, <1>6, <1>7 DEF CleanInv

LEMMA DoneKeeps ==
  ASSUME Places, MergeInv, clean, Distinct(base, extraction), NEW p \in Panels, mode[p] # "none",
         NEW q, q = Request(p), NEW ok, Done(p, ok), NEW c, c = Stored, NEW d, d = Stored',
         ServedWell(q, ok, c, d)
  PROVE  CleanInv'
<1>1. PICK t, rest : t = todo[p] /\ rest = Tail(t) /\ q = Head(t)
  BY DEF Request
<1>2. /\ Pending(t, c, extraction) /\ AllKept(base, c, extraction)
      /\ Merged(c, extraction) = Merged(base, extraction)
  BY <1>1 DEF MergeInv, CleanInv
<1>3. Plans(rest) /\ Range(rest) = Range(t) \ {q}
  BY <1>1, <1>2, RestIs DEF Pending
<1>4. ok => \A r : r \in Range(rest) <=> Needs(d, extraction, r)
  BY <1>2, <1>3 DEF Pending, ServedWell, Progress
<1>5. AllKept(base, d, extraction) /\ Merged(d, extraction) = Merged(base, extraction)
  BY <1>2 DEF ServedWell, Progress
<1>6. Answer(p, ok, rest)
  BY <1>1 DEF Done
<1> QED BY <1>3, <1>4, <1>5, <1>6, AnswerKeeps DEF MergeInv

\* A panel that works on a merge has a request that is needed.
LEMMA AtWork ==
  ASSUME MergeInv, clean, Distinct(base, extraction), NEW p \in Panels, mode[p] # "none",
         NEW c, c = Stored, NEW q, q = Request(p)
  PROVE  Serviceable(q, c)
<1>1. /\ Pending(todo[p], c, extraction) /\ AllKept(base, c, extraction) /\ q = Head(todo[p])
  BY DEF MergeInv, CleanInv, Request
<1>2. q \in Range(todo[p])
  BY <1>1, TailIs DEF Pending, Plans
<1> QED BY <1>1, <1>2 DEF Pending, Serviceable, MergeInv

LEMMA CleanStep == HalfInv /\ MergeInv /\ [Next]_vars => CleanInv'
<1> SUFFICES ASSUME HalfInv, MergeInv, [Next]_vars PROVE CleanInv'
  OBVIOUS
<1>1. Places /\ Fresh /\ Refs /\ CleanInv /\ extraction \in Extractions
  BY DEF HalfInv, MergeInv
<1>2. PICK c, d : c = Stored /\ d = Stored'
  OBVIOUS
\* A request that ends keeps it all, if it was served well.
<1>3. ASSUME NEW p \in Panels, mode[p] # "none", NEW q, q = Request(p), NEW ok, Done(p, ok),
             Serviceable(q, c) => ServedWell(q, ok, c, d)
      PROVE  CleanInv'
  <2>1. /\ UNCHANGED <<base, clean, extraction>>
        /\ settled' => clean
    BY <1>3 DEF Done, Answer
  <2>2. CASE ~(clean /\ Distinct(base, extraction))
    BY <2>1, <2>2 DEF CleanInv
  <2>3. CASE clean /\ Distinct(base, extraction)
    <3>1. Serviceable(q, c)
      BY <1>2, <1>3, <2>3, AtWork
    <3> QED BY <1>1, <1>2, <1>3, <2>3, <3>1, DoneKeeps
  <2> QED BY <2>2, <2>3
\* What leaves the tables and what is recorded keeps it, if it starts nothing.
<1>4. ASSUME UNCHANGED tables, UNCHANGED <<extraction, base, clean, settled>>,
             \A p \in Panels : mode'[p] # "none" => mode[p] # "none" /\ todo'[p] = todo[p]
      PROVE  CleanInv'
  <2>1. d = c
    BY <1>2, <1>4, StoredNext DEF tables
  <2>2. \A p \in Panels : OnlyPanel(p) => OnlyPanel(p)'
    BY <1>4 DEF OnlyPanel
  <2> QED BY <1>1, <1>2, <1>4, <2>1, <2>2 DEF CleanInv
<1>5. CASE UNCHANGED vars
  BY <1>4, <1>5 DEF vars, clients, history
<1>6. ASSUME NEW p \in Panels, Load(p) PROVE CleanInv'
  BY <1>4, <1>6 DEF Load, history
<1>7. ASSUME NEW p \in Panels, Fail(p) PROVE CleanInv'
  <2>1. UNCHANGED tables /\ UNCHANGED <<extraction, base, clean, settled>>
    BY <1>7 DEF Fail, history
  <2>2. \A q \in Panels : mode'[q] # "none" => mode[q] # "none" /\ todo'[q] = todo[q]
    BY <1>1, <1>7 DEF Fail, Places
  <2> QED BY <1>4, <2>1, <2>2
<1>8. ASSUME NEW p \in Panels, StartEdit(p) PROVE CleanInv'
  BY <1>8 DEF StartEdit, CleanInv
<1>9. ASSUME NEW p \in Panels, StartMerge(p) PROVE CleanInv'
  <2>1. PICK plan : /\ plan = MergePlan(cache[p], extraction)
                    /\ todo' = [todo EXCEPT ![p] = plan]
                    /\ mode' = [mode EXCEPT ![p] = IF plan = << >> THEN "none" ELSE "merge"]
                    /\ settled' = (clean' /\ plan = << >>)
    BY <1>9 DEF StartMerge
  <2>2. /\ clean' = (Quiet /\ cache[p] = Stored) /\ UNCHANGED tables /\ extraction' = extraction
        /\ base' = IF clean' /\ ~clean THEN Stored ELSE base
    BY <1>9 DEF StartMerge
  <2>3. d = c
    BY <1>2, <2>2, StoredNext DEF tables
  <2>4. settled' => clean'
    BY <2>1
  <2> SUFFICES ASSUME clean', Distinct(base, extraction)'
               PROVE  /\ AllKept(base', d, extraction)
                      /\ Merged(d, extraction) = Merged(base', extraction)
                      /\ settled' => \A r : ~Needs(d, extraction, r)
                      /\ \A q \in Panels : mode'[q] # "none" =>
                           Pending(todo'[q], d, extraction) /\ OnlyPanel(q)'
    BY <1>2, <2>2, <2>4 DEF CleanInv
  <2>5. PICK b, x : b = base' /\ x = extraction /\ Distinct(b, x) /\ x \in Extractions
    BY <1>1, <2>2 DEF Distinct
  <2>6. AllKept(b, c, x) /\ Merged(c, x) = Merged(b, x)
    <3>1. CASE clean
      <4>1. b = base
        BY <2>2, <2>5, <3>1
      <4> QED BY <1>1, <1>2, <2>5, <3>1, <4>1 DEF CleanInv
    <3>2. CASE ~clean
      <4>1. b = c
        BY <1>2, <2>2, <2>5, <3>2
      <4> QED BY <4>1, AllKeptSelf
    <3> QED BY <3>1, <3>2
  <2>7. Plans(plan) /\ \A r : r \in Range(plan) <=> Needs(c, x, r)
    <3>1. /\ DistinctNames(x.education) /\ DistinctNames(x.work)
          /\ DistinctNames(b.education) /\ DistinctNames(b.work)
      BY <2>5 DEF Distinct
    <3>2. DistinctNames(c.education) /\ DistinctNames(c.work)
      BY <2>6, <3>1, KeptDistinct DEF AllKept
    <3>3. IsFiniteSet(DOMAIN c.bullets) /\ DOMAIN c.work \subseteq Nat
      BY <1>1, <1>2, StoredIs, FreshIs DEF Fresh
    <3>4. plan = MergePlan(c, x)
      BY <1>2, <2>1, <2>2, <2>5
    <3> QED BY <2>5, <3>1, <3>2, <3>3, <3>4, PlanIsNeeds
  <2>8. settled' => \A r : ~Needs(c, x, r)
    BY <2>1, <2>7, EmptyIs
  <2>9. ASSUME NEW q \in Panels, mode'[q] # "none"
        PROVE  Pending(todo'[q], c, x) /\ OnlyPanel(q)'
    <3>1. \A other \in Panels : mode'[other] # "none" => other = p
      BY <1>1, <2>1, <2>2 DEF Quiet, Places
    <3>2. q = p /\ todo'[q] = plan /\ plan # << >>
      BY <1>1, <2>1, <2>9, <3>1 DEF Places
    <3> QED BY <2>7, <3>1, <3>2 DEF Pending, OnlyPanel
  <2> QED BY <2>3, <2>5, <2>6, <2>8, <2>9
<1>10. ASSUME NEW p \in Panels, UpdateProfile(p) PROVE CleanInv'
  <2>1. PICK q : q = Request(p)
    OBVIOUS
  <2>2. /\ mode[p] # "none" /\ q.op = "updateProfile" /\ Done(p, TRUE)
        /\ basic' = q.basic /\ UNCHANGED <<skills, education, work, bullets>>
    BY <1>10, <2>1 DEF UpdateProfile, StoreProfile, Serving, Request
  <2>3. Serviceable(q, c) => ServedWell(q, TRUE, c, d)
    BY <1>2, <2>2, ProfileServed
  <2> QED BY <1>3, <2>1, <2>2, <2>3
\* What no merge sends.
<1>11. ASSUME NEW p \in Panels,
              \/ DeleteSkill(p) \/ DeleteEducation(p) \/ StripWork(p) \/ DeleteWork(p) \/ UpdateBullet(p)
       PROVE  CleanInv'
  <2>1. PICK q : q = Request(p)
    OBVIOUS
  <2>2. /\ mode[p] # "none"
        /\ q.op \in {"deleteSkill", "deleteEducation", "deleteWork", "updateBullet"}
    BY <1>11, <2>1 DEF DeleteSkill, DeleteEducation, StripWork, DeleteWork, UpdateBullet, Serving, Request
  <2>3. ~(clean /\ Distinct(base, extraction))
    <3>1. ~Serviceable(q, c)
      BY <2>2, NeedsOps DEF Serviceable, Needs
    <3> QED BY <1>2, <2>1, <2>2, <3>1, AtWork
  <2>4. UNCHANGED <<base, clean, extraction>> /\ (settled' => clean)
    <3>1. \E ok : Continue(p) \/ Done(p, ok)
      BY <1>11, Zenon DEF DeleteSkill, DeleteEducation, StripWork, DeleteWork, UpdateBullet, StoreSkills,
         StoreEducation
    <3>2. Continue(p) => UNCHANGED <<base, clean, extraction, settled>>
      BY DEF Continue
    <3>3. \A ok : Done(p, ok) => UNCHANGED <<base, clean, extraction>> /\ (settled' => clean)
      BY DEF Done, Answer
    <3>4. settled => clean
      BY <1>1 DEF CleanInv
    <3> QED BY <3>1, <3>2, <3>3, <3>4
  <2> QED BY <2>3, <2>4 DEF CleanInv
<1>12. ASSUME NEW p \in Panels, AddSkill(p) PROVE CleanInv'
  <2>1. PICK q, result : q = Request(p) /\ result = InsertSkill(q.name)
    OBVIOUS
  <2>2. /\ mode[p] # "none" /\ q.op = "addSkill" /\ Done(p, result.ok)
        /\ skills' = result.rows /\ UNCHANGED <<basic, education, work, bullets>>
    BY <1>12, <2>1 DEF AddSkill, StoreSkills, Serving, Request
  <2>3. Serviceable(q, c) => ServedWell(q, result.ok, c, d)
    BY <1>2, <2>1, <2>2, SkillServed
  <2> QED BY <1>3, <2>1, <2>2, <2>3
<1>13. ASSUME NEW p \in Panels, AddEducation(p) \/ UpdateEducation(p) PROVE CleanInv'
  <2>1. PICK q, result : /\ q = Request(p)
                         /\ result = IF q.op = "addEducation" THEN InsertEducation(q.row)
                                     ELSE ChangeEducation(q.id, q.row)
    OBVIOUS
  <2>2. /\ mode[p] # "none" /\ q.op \in {"addEducation", "updateEducation"} /\ Done(p, result.ok)
        /\ education' = result.rows /\ UNCHANGED <<basic, skills, work, bullets>>
    BY <1>13, <2>1 DEF AddEducation, UpdateEducation, StoreEducation, Serving, Request
  <2>3. Serviceable(q, c) => ServedWell(q, result.ok, c, d)
    BY <1>2, <2>1, <2>2, EducationServed
  <2> QED BY <1>3, <2>1, <2>2, <2>3
<1>14. ASSUME NEW p \in Panels, UpdateWork(p) PROVE CleanInv'
  <2>1. PICK q, result : q = Request(p) /\ result = ChangeWork(q.id, q.row)
    OBVIOUS
  <2>2. /\ mode[p] # "none" /\ q.op = "updateWork" /\ Done(p, result.ok)
        /\ work' = result.rows /\ UNCHANGED <<basic, skills, education, bullets>>
    BY <1>14, <2>1 DEF UpdateWork, Serving, Request
  <2>3. Serviceable(q, c) => ServedWell(q, result.ok, c, d)
    BY <1>2, <2>1, <2>2, EntryServed
  <2> QED BY <1>3, <2>1, <2>2, <2>3
<1>15. ASSUME NEW p \in Panels, AddWork(p) PROVE CleanInv'
  <2>1. PICK q, id, ok, t, rest, new :
          /\ q = Request(p) /\ id = TargetId(SameWork(q.row)) /\ ok = InsertWork(q.row).ok
          /\ t = todo[p] /\ rest = Tail(t)
          /\ new = [i \in DOMAIN rest |-> WithId(rest[i], q.place, id)]
    OBVIOUS
  <2>2. /\ mode[p] # "none" /\ q.op = "addWork" /\ Answer(p, ok, new)
        /\ work' = InsertWork(q.row).rows /\ UNCHANGED <<basic, skills, education, bullets>>
    <3>1. Answer(p, ok, new)
      BY <1>15, <2>1, Zenon DEF AddWork
    <3> QED BY <1>15, <2>1, <3>1 DEF AddWork, Serving, Request
  <2>3. UNCHANGED <<base, clean, extraction>> /\ (settled' => clean)
    BY <2>2 DEF Answer
  <2>4. CASE ~(clean /\ Distinct(base, extraction))
    BY <2>3, <2>4 DEF CleanInv
  <2>5. CASE clean /\ Distinct(base, extraction)
    <3>1. Serviceable(q, c)
      BY <1>2, <2>1, <2>2, <2>5, AtWork
    <3>2. /\ Pending(t, c, extraction) /\ AllKept(base, c, extraction)
          /\ Merged(c, extraction) = Merged(base, extraction) /\ q = Head(t)
      BY <1>1, <1>2, <2>1, <2>2, <2>5 DEF CleanInv, Request
    <3>3. Plans(rest) /\ Range(rest) = Range(t) \ {q}
      BY <2>1, <3>2, RestIs DEF Pending
    <3>4. /\ ~ok => d = c
          /\ ok => /\ AllKept(base, d, extraction) /\ Merged(d, extraction) = Merged(c, extraction)
                   /\ \A r : Needs(d, extraction, r) <=>
                        \E before : /\ Needs(c, extraction, before) /\ before # q
                                    /\ r = WithId(before, q.place, id)
                   /\ \A r, other : /\ Needs(c, extraction, r) /\ Needs(c, extraction, other)
                                    /\ WithId(r, q.place, id) = WithId(other, q.place, id)
                                    => r = other
      BY <1>2, <2>1, <2>2, <3>1, NewEntryServed
    <3>5. \A r : r \in Range(rest) <=> Needs(c, extraction, r) /\ r # q
      BY <3>2, <3>3 DEF Pending
    <3>6. ok => Plans(new) /\ \A r : r \in Range(new) <=> Needs(d, extraction, r)
      <4> SUFFICES ASSUME ok PROVE Plans(new) /\ \A r : r \in Range(new) <=> Needs(d, extraction, r)
        OBVIOUS
      <4>1. PICK k : k = q.place
        OBVIOUS
      <4>2. \A r, other \in Range(rest) : WithId(r, k, id) = WithId(other, k, id) => r = other
        BY <3>4, <3>5, <4>1
      <4>3. new = [i \in DOMAIN rest |-> WithId(rest[i], k, id)]
        BY <2>1, <4>1
      <4>4. Plans(new) /\ \A r : r \in Range(new) <=> \E before \in Range(rest) : r = WithId(before, k, id)
        BY <3>3, <4>2, <4>3, RewrittenIs
      <4> QED BY <3>4, <3>5, <4>1, <4>4
    <3>7. AllKept(base, d, extraction) /\ Merged(d, extraction) = Merged(base, extraction)
      BY <3>2, <3>4
    <3> QED BY <1>1, <1>2, <2>2, <2>5, <3>6, <3>7, AnswerKeeps
  <2> QED BY <2>4, <2>5
<1>16. ASSUME NEW p \in Panels, CheckWork(p) PROVE CleanInv'
  <2>1. UNCHANGED tables /\ mode[p] # "none" /\ (Continue(p) \/ Done(p, FALSE))
    BY <1>16 DEF CheckWork, Serving
  <2>2. CASE Continue(p)
    BY <1>4, <2>1, <2>2 DEF Continue
  <2>3. CASE Done(p, FALSE)
    <3>1. d = c
      BY <1>2, <2>1, StoredNext DEF tables
    <3>2. PICK q : q = Request(p)
      OBVIOUS
    <3> QED BY <1>3, <2>1, <2>3, <3>1, <3>2 DEF ServedWell
  <2> QED BY <2>1, <2>2, <2>3
<1>17. ASSUME NEW p \in Panels, AddBullet(p) PROVE CleanInv'
  <2>1. PICK q, result : q = Request(p) /\ result = InsertBullet(q.work, q.text)
    OBVIOUS
  <2>2. /\ mode[p] # "none" /\ q.op = "addBullet" /\ Done(p, result.ok)
        /\ bullets' = result.rows /\ UNCHANGED <<basic, skills, education, work>>
    BY <1>17, <2>1 DEF AddBullet, Serving, Request
  <2>3. Serviceable(q, c) => ServedWell(q, result.ok, c, d)
    BY <1>2, <2>1, <2>2, BulletAdded
  <2> QED BY <1>3, <2>1, <2>2, <2>3
<1>18. ASSUME NEW p \in Panels, DeleteBullet(p) PROVE CleanInv'
  <2>1. PICK q, result : q = Request(p) /\ result = RemoveBullet(q.id)
    OBVIOUS
  <2>2. /\ mode[p] # "none" /\ q.op = "deleteBullet" /\ Done(p, result.ok)
        /\ bullets' = result.rows /\ UNCHANGED <<basic, skills, education, work>>
    BY <1>18, <2>1 DEF DeleteBullet, Serving, Request
  <2>3. Serviceable(q, c) => ServedWell(q, result.ok, c, d)
    BY <1>2, <2>1, <2>2, BulletDeleted
  <2> QED BY <1>3, <2>1, <2>2, <2>3
<1> QED BY <1>5, <1>6, <1>7, <1>8, <1>9, <1>10, <1>11, <1>12, <1>13, <1>14, <1>15, <1>16, <1>17, <1>18,
           Zenon DEF Next, Serve

\* What is stored, and what is still to be sent, of the merges of one resume.
LEMMA MergeInvariant == Spec => [](HalfInv /\ MergeInv)
<1>1. Init => HalfInv /\ MergeInv
  <2> SUFFICES ASSUME Init PROVE HalfInv /\ MergeInv
    OBVIOUS
  <2>1. HalfInv
    <3>1. Places /\ \A p \in Panels : ~half[p]
      BY DEF Init, Places
    <3> QED BY <3>1 DEF Init, HalfInv, Emptied, Deleting, HalfDeletedOnlyIfRefilled
  <2>2. Fresh /\ Refs
    BY ProfilesAssumption DEF Init, Fresh, Below, Refs
  <2> QED BY <2>1, <2>2 DEF Init, MergeInv, CleanInv
<1>2. HalfInv /\ MergeInv /\ [Next]_vars => (HalfInv /\ MergeInv)'
  <2> SUFFICES ASSUME HalfInv, MergeInv, [Next]_vars PROVE (HalfInv /\ MergeInv)'
    OBVIOUS
  <2>1. extraction' = extraction
    <3>1. CASE UNCHANGED vars
      BY <3>1 DEF vars
    <3>2. ASSUME NEW p \in Panels, Load(p) \/ StartMerge(p) \/ StartEdit(p) \/ Fail(p)
          PROVE  extraction' = extraction
      BY <3>2 DEF Load, StartMerge, StartEdit, Fail
    <3>3. ASSUME NEW p \in Panels, Serve(p) PROVE extraction' = extraction
      BY <3>3, Zenon DEF Serve, UpdateProfile, AddSkill, DeleteSkill, StoreSkills, AddEducation,
         UpdateEducation, DeleteEducation, StoreEducation, AddWork, UpdateWork, StripWork, DeleteWork,
         CheckWork, AddBullet, UpdateBullet, DeleteBullet, Continue, Done, Answer
    <3> QED BY <3>1, <3>2, <3>3, Zenon DEF Next
  <2> QED BY <2>1, HalfStep, FreshStep, RefsStep, CleanStep DEF MergeInv
<1> QED BY <1>1, <1>2, PTL DEF Spec

\* However many merges of one resume ran one after the other, and wherever they
\* broke off, nothing is there twice that was not before, no entry is lost, and
\* no bullet but those the extraction lacks (mergeExtractionIntoProfile and
\* syncBullets of profile-merge.ts, and the handlers behind them).
THEOREM BrokenMergesAreSafe == Spec => []HalfMergeIsSafe
<1>1. MergeInv => HalfMergeIsSafe
  BY KeptIsSafe DEF MergeInv, CleanInv
<1> QED BY <1>1, MergeInvariant, PTL

\* A merge that completes leaves the profile as one merge from where the first
\* of them began was to leave it, wherever the merges before it broke off
\* (mergeExtractionIntoProfile of profile-merge.ts, and the handlers behind it).
THEOREM MergesComplete == Spec => []MergeResult
<1>1. MergeInv => MergeResult
  <2> SUFFICES ASSUME MergeInv, settled, Distinct(base, extraction)
               PROVE  Content(Stored) = Merged(base, extraction)
    BY DEF MergeResult
  <2>1. PICK c, x : c = Stored /\ x = extraction
    OBVIOUS
  <2>2. Merged(c, x) = Merged(base, x) /\ \A r : ~Needs(c, x, r)
    BY <2>1 DEF MergeInv, CleanInv
  <2>3. Content(c) = Merged(c, x)
    BY <2>2, NothingNeeded
  <2> QED BY <2>1, <2>2, <2>3
<1> QED BY <1>1, MergeInvariant, PTL

\* Applied again to the profile it has completed, a merge sends nothing
\* (mergeBasicInfo, mergeSkills, mergeEducation and mergeWorkExperience of
\* profile-merge.ts).
THEOREM RepeatsAreQuiet == Spec => []RepeatIsQuiet
<1>1. MergeInv => RepeatIsQuiet
  <2> SUFFICES ASSUME MergeInv, settled, Distinct(base, extraction)
               PROVE  MergePlan(Stored, extraction) = << >>
    BY DEF RepeatIsQuiet
  <2>1. PICK c, x, plan : c = Stored /\ x = extraction /\ plan = MergePlan(c, x)
    OBVIOUS
  <2>2. AllKept(base, c, x) /\ (\A r : ~Needs(c, x, r)) /\ x \in Extractions
    BY <2>1 DEF MergeInv, CleanInv
  <2>3. /\ DistinctNames(x.education) /\ DistinctNames(x.work)
        /\ DistinctNames(c.education) /\ DistinctNames(c.work)
    BY <2>1, <2>2, KeptDistinct DEF AllKept, Distinct
  <2>4. IsFiniteSet(DOMAIN c.bullets) /\ DOMAIN c.work \subseteq Nat
    BY <2>1, StoredIs, FreshIs DEF MergeInv, Fresh
  <2>5. Plans(plan) /\ Range(plan) = {}
    BY <2>1, <2>2, <2>3, <2>4, PlanIsNeeds
  <2> QED BY <2>1, <2>5, ListIs DEF Plans
<1> QED BY <1>1, MergeInvariant, PTL

-----------------------------------------------------------------------------
(* The autosave of the form: every edit is saved, and not too often.       *)

On(r) == at[r] # "off"

\* The part of TypeOK the other invariants use.
FormShape ==
  /\ edits \in Nat /\ pending \in Nat /\ stored \in Nat /\ judged \in Nat
  /\ at \in [Loops -> {"off", "slot", "sending", "backoff"}]
  /\ value \in [Loops -> Nat]
  /\ abandoned \subseteq 0..edits
  /\ stored <= edits

\* At most one loop is on, and the flag tells.
OneOn ==
  /\ \A r, q \in Loops : On(r) /\ On(q) => r = q
  /\ running <=> \E r \in Loops : On(r)

\* What is pending is the newest edit.  A loop that is not sending has something
\* to send; one that is sends the newest edit unless that is pending again.
FormInHand ==
  /\ pending # None => running /\ pending = edits
  /\ ~running => judged = edits
  /\ \A r \in Loops :
       /\ at[r] \in {"slot", "backoff"} => pending # None
       /\ at[r] = "sending" => value[r] \in 1..edits
       /\ at[r] = "sending" /\ pending = None => value[r] = edits

FormInv == FormShape /\ OneOn /\ FormInHand /\ SavedIsStored

LEMMA FormInvInit == AutosaveInit => FormInv
<1> SUFFICES ASSUME AutosaveInit PROVE FormInv
  OBVIOUS
<1>1. FormShape
  BY DEF AutosaveInit, FormShape, None
<1>2. OneOn
  BY DEF AutosaveInit, OneOn, On
<1>3. FormInHand
  BY DEF AutosaveInit, FormInHand, None
<1>4. SavedIsStored
  BY DEF AutosaveInit, SavedIsStored
<1> QED BY <1>1, <1>2, <1>3, <1>4 DEF FormInv

LEMMA FormInvStep == FormInv /\ [AutosaveNext]_autosaveVars => FormInv'
<1> SUFFICES ASSUME FormInv, [AutosaveNext]_autosaveVars PROVE FormInv'
  OBVIOUS
<1> USE DEF FormInv, FormShape, OneOn, On, FormInHand, SavedIsStored, None
<1>1. CASE Queue
  <2>1. FormShape'
    BY <1>1 DEF Queue, StartsLoop, serverVars, histVars
  <2>2. OneOn'
    BY <1>1 DEF Queue, StartsLoop, serverVars, histVars
  <2>3. FormInHand'
    BY <1>1 DEF Queue, StartsLoop, serverVars, histVars
  <2>4. SavedIsStored'
    BY <1>1 DEF Queue, StartsLoop, serverVars, histVars
  <2> QED BY <2>1, <2>2, <2>3, <2>4
<1>2. ASSUME NEW r \in Loops, Send(r) PROVE FormInv'
  BY <1>2 DEF Send, Awake, serverVars
<1>3. ASSUME NEW r \in Loops, SleepForSlot(r) PROVE FormInv'
  BY <1>3 DEF SleepForSlot, Awake, serverVars, histVars
<1>4. ASSUME NEW r \in Loops, Retry(r) PROVE FormInv'
  BY <1>4 DEF Retry, Awake, serverVars, histVars
<1>5. ASSUME NEW r \in Loops, Saved(r) PROVE FormInv'
  <2>1. FormShape'
    BY <1>5 DEF Saved, Stores, GoOn
  <2>2. OneOn'
    BY <1>5 DEF Saved, Stores, GoOn
  <2>3. FormInHand'
    BY <1>5 DEF Saved, Stores, GoOn
  <2>4. SavedIsStored'
    BY <1>5 DEF Saved, Stores, GoOn
  <2> QED BY <2>1, <2>2, <2>3, <2>4
<1>6. ASSUME NEW r \in Loops, Refused(r) PROVE FormInv'
  <2>1. FormShape'
    BY <1>6 DEF Refused, GoOn, serverVars
  <2>2. OneOn'
    BY <1>6 DEF Refused, GoOn, serverVars
  <2>3. FormInHand'
    BY <1>6 DEF Refused, GoOn, serverVars
  <2>4. SavedIsStored'
    BY <1>6 DEF Refused, GoOn, serverVars
  <2> QED BY <2>1, <2>2, <2>3, <2>4
<1>7. ASSUME NEW r \in Loops, Failed(r) PROVE FormInv'
  <2>1. FormShape'
    <3>1. value[r] \in 1..edits
      BY <1>7 DEF Failed
    <3>2. stored' \in {stored, value[r]} /\ abandoned' \subseteq abandoned \cup {value[r]}
      BY <1>7 DEF Failed, Stores, serverVars
    <3>3. UNCHANGED <<edits, judged, value>> /\ pending' \in {pending, value[r]}
      BY <1>7 DEF Failed, PutBack
    <3>4. at' \in [Loops -> {"off", "slot", "sending", "backoff"}]
      BY <1>7 DEF Failed
    <3> QED BY <3>1, <3>2, <3>3, <3>4
  <2>2. OneOn'
    BY <1>7 DEF Failed, PutBack, Stores, serverVars
  <2>3. FormInHand'
    BY <1>7 DEF Failed, PutBack, Stores, serverVars
  <2>4. SavedIsStored'
    BY <1>7 DEF Failed, PutBack, Stores, serverVars
  <2> QED BY <2>1, <2>2, <2>3, <2>4
<1>8. ASSUME NEW v \in AllEdits, CarryOutLate(v) PROVE FormInv'
  <2>1. FormShape'
    BY <1>8 DEF CarryOutLate, Stores, hookVars, loopVars
  <2>2. OneOn'
    BY <1>8 DEF CarryOutLate, Stores, hookVars, loopVars
  <2>3. FormInHand'
    BY <1>8 DEF CarryOutLate, Stores, hookVars, loopVars
  <2>4. SavedIsStored'
    <3>1. stored' = v /\ v <= edits /\ v \in Nat /\ UNCHANGED <<edits, status, running>>
      BY <1>8 DEF CarryOutLate, Stores, hookVars, loopVars
    <3>2. v < stored => overtaken'
      BY <1>8 DEF CarryOutLate, Stores
    <3>3. overtaken => overtaken'
      BY <1>8 DEF CarryOutLate, Stores
    <3> QED BY <3>1, <3>2, <3>3
  <2> QED BY <2>1, <2>2, <2>3, <2>4
<1>9. CASE Tick
  <2>1. FormShape'
    BY <1>9 DEF Tick, serverVars, histVars
  <2>2. OneOn'
    BY <1>9 DEF Tick, serverVars, histVars
  <2>3. FormInHand'
    BY <1>9 DEF Tick, serverVars, histVars
  <2>4. SavedIsStored'
    BY <1>9 DEF Tick, serverVars, histVars
  <2> QED BY <2>1, <2>2, <2>3, <2>4
<1>10. CASE UNCHANGED autosaveVars
  BY <1>10 DEF autosaveVars, hookVars, loopVars, serverVars, histVars
<1> QED BY <1>1, <1>2, <1>3, <1>4, <1>5, <1>6, <1>7, <1>8, <1>9, <1>10 DEF AutosaveNext, Step, Answered

LEMMA FormInvHolds == AutosaveSpec => []FormInv
  BY FormInvInit, FormInvStep, PTL DEF AutosaveSpec

\* One loop runs at a time, and the flag is up exactly while it does.
THEOREM OneLoopRuns == AutosaveSpec => []OneLoop
<1>1. FormInv => OneLoop
  <2> SUFFICES ASSUME FormInv PROVE OneLoop
    OBVIOUS
  <2> DEFINE on == {r \in Loops : at[r] # "off"}
  <2>1. CASE on = {}
    BY <2>1, FS_EmptySet DEF FormInv, OneOn, On, OneLoop
  <2>2. CASE on # {}
    <3>1. PICK r \in Loops : on = {r}
      BY <2>2 DEF FormInv, OneOn, On
    <3>2. Cardinality(on) = 1
      BY <3>1, FS_Singleton
    <3> QED BY <3>2 DEF FormInv, OneOn, On, OneLoop
  <2> QED BY <2>1, <2>2
<1> QED BY <1>1, FormInvHolds, PTL

\* The newest edit is pending or on its way until the server has judged it.
THEOREM NewestIsInHand == AutosaveSpec => []NewestInHand
<1>1. FormInv => NewestInHand
  BY DEF FormInv, FormShape, OneOn, On, FormInHand, NewestInHand, None
<1> QED BY <1>1, FormInvHolds, PTL

\* When the loop has stopped and shows "saved", the newest edit is stored, unless
\* an abandoned save overtook it.
THEOREM SavedMeansStored == AutosaveSpec => []SavedIsStored
<1>1. FormInv => SavedIsStored
  BY DEF FormInv
<1> QED BY <1>1, FormInvHolds, PTL

-----------------------------------------------------------------------------
\* The sends are numbered, the hook remembers those that count, and no more than
\* MaxSends count.
InWindow == {n \in Sends : age[n] < Window}

Remembers ==
  /\ \E k \in Nat : Sends = 1..k
  /\ age \in [Sends -> Nat]
  /\ InWindow \subseteq sentAt
  /\ sentAt \subseteq Sends
  /\ Cardinality(InWindow) <= MaxSends

LEMMA SendsFinite ==
  ASSUME Remembers
  PROVE  /\ IsFiniteSet(Sends)
         /\ NextSend \in Nat /\ NextSend \notin Sends
         /\ Sends \cup {NextSend} = 1..NextSend
         /\ Counted = InWindow
         /\ IsFiniteSet(InWindow)
<1>1. PICK k \in Nat : Sends = 1..k
  BY DEF Remembers
<1>2. IsFiniteSet(1..k) /\ Cardinality(1..k) = k
  BY FS_Interval
<1>3. NextSend = k + 1
  BY <1>1, <1>2 DEF NextSend
<1>4. Counted = InWindow
  BY DEF Remembers, Counted, InWindow
<1>5. IsFiniteSet(InWindow)
  BY <1>1, <1>2, FS_Subset DEF InWindow
<1>6. Sends \cup {NextSend} = 1..NextSend
  BY <1>1, <1>3
<1> QED BY <1>1, <1>2, <1>3, <1>4, <1>5, <1>6

LEMMA RemembersInit == AutosaveInit => Remembers
<1> SUFFICES ASSUME AutosaveInit PROVE Remembers
  OBVIOUS
<1>1. Sends = {}
  BY DEF AutosaveInit, Sends
<1>2. InWindow = {}
  BY <1>1 DEF InWindow
<1>3. Sends = 1..0
  BY <1>1
<1> QED BY <1>1, <1>2, <1>3, FS_EmptySet, WindowAssumption DEF AutosaveInit, Remembers

LEMMA RemembersStep == Remembers /\ [AutosaveNext]_autosaveVars => Remembers'
<1> SUFFICES ASSUME Remembers, [AutosaveNext]_autosaveVars PROVE Remembers'
  OBVIOUS
<1>1. ASSUME NEW r \in Loops, Send(r) PROVE Remembers'
  <2>1. Sends' = Sends \cup {NextSend}
    BY <1>1 DEF Send, Sends
  <2>2. \A n \in Sends' : age'[n] = IF n = NextSend THEN 0 ELSE age[n]
    BY <1>1, <2>1 DEF Send
  <2>3. InWindow' = InWindow \cup {NextSend}
    BY <2>1, <2>2, SendsFinite, WindowAssumption DEF InWindow
  <2>4. Cardinality(InWindow) < MaxSends
    BY <1>1, SendsFinite DEF Send, SlotFree
  <2>5. Cardinality(InWindow') <= MaxSends
    <3>1. Cardinality(InWindow \cup {NextSend}) = Cardinality(InWindow) + 1
      <4>1. IsFiniteSet(InWindow)
        BY SendsFinite
      <4>2. NextSend \notin InWindow
        BY SendsFinite DEF InWindow
      <4> QED BY <4>1, <4>2, FS_AddElement, Zenon
    <3>2. Cardinality(InWindow) \in Nat
      BY SendsFinite, FS_CardinalityType
    <3>3. MaxSends \in Nat
      BY WindowAssumption
    <3>4. Cardinality(InWindow') = Cardinality(InWindow \cup {NextSend})
      BY <2>3, Zenon
    <3> QED BY <2>4, <3>1, <3>2, <3>3, <3>4
  <2>6. age' \in [Sends' -> Nat]
    BY <1>1, <2>1 DEF Send, Remembers
  <2>7. sentAt' = InWindow' /\ sentAt' \subseteq Sends'
    BY <1>1, <2>1, <2>3, SendsFinite DEF Send, InWindow
  <2>8. Sends' = 1..NextSend
    BY <2>1, SendsFinite
  <2> QED BY <2>5, <2>6, <2>7, <2>8, SendsFinite DEF Remembers
<1>2. ASSUME NEW r \in Loops, SleepForSlot(r) PROVE Remembers'
  <2>1. age' = age /\ sentAt' = InWindow
    BY <1>2, SendsFinite DEF SleepForSlot
  <2>2. Sends' = Sends /\ InWindow' = InWindow
    BY <2>1 DEF Sends, InWindow
  <2> QED BY <2>1, <2>2 DEF Remembers, InWindow
<1>3. CASE Tick
  <2>1. Sends' = Sends
    BY <1>3 DEF Tick, Sends
  <2>2. \A n \in Sends : age'[n] \in Nat /\ age[n] < Window => age'[n] = age[n] + 1
    BY <1>3 DEF Tick
  <2>3. \A n \in Sends : ~(age[n] < Window) => age'[n] = Window
    BY <1>3 DEF Tick
  <2>4. age' \in [Sends' -> Nat]
    BY <1>3, <2>1, WindowAssumption DEF Tick, Remembers
  <2>5. InWindow' \subseteq InWindow
    BY <2>1, <2>3, <2>4, WindowAssumption DEF InWindow, Remembers
  <2>6. Cardinality(InWindow') <= Cardinality(InWindow)
    BY <2>5, SendsFinite, FS_Subset
  <2>7. Cardinality(InWindow') \in Nat /\ Cardinality(InWindow) \in Nat
    BY <2>5, SendsFinite, FS_Subset, FS_CardinalityType
  <2>8. sentAt' = sentAt
    BY <1>3 DEF Tick
  <2>9. InWindow' \subseteq sentAt' /\ sentAt' \subseteq Sends'
    BY <2>1, <2>5, <2>8 DEF Remembers
  <2>10. Cardinality(InWindow') <= MaxSends
    BY <2>6, <2>7, WindowAssumption DEF Remembers
  <2> QED BY <2>1, <2>4, <2>9, <2>10 DEF Remembers
<1>4. ASSUME UNCHANGED <<age, sentAt>> PROVE Remembers'
  <2>1. Sends' = Sends /\ InWindow' = InWindow
    BY <1>4 DEF Sends, InWindow
  <2> QED BY <1>4, <2>1 DEF Remembers
<1>5. ASSUME NEW r \in Loops, Retry(r) \/ Answered(r) PROVE UNCHANGED <<age, sentAt>>
  BY <1>5 DEF Retry, Answered, Saved, Refused, Failed
<1>6. ASSUME NEW v \in AllEdits, CarryOutLate(v) PROVE UNCHANGED <<age, sentAt>>
  BY <1>6 DEF CarryOutLate, hookVars
<1>7. CASE Queue \/ UNCHANGED autosaveVars
  <2>1. UNCHANGED <<age, sentAt>>
    BY <1>7 DEF Queue, autosaveVars, hookVars
  <2> QED BY <2>1, <1>4
<1> QED BY <1>1, <1>2, <1>3, <1>4, <1>5, <1>6, <1>7 DEF AutosaveNext, Step

\* No window of WINDOW_MS holds more than MAX_SENDS_PER_WINDOW sends.
THEOREM RateIsBounded == AutosaveSpec => []RateBounded
<1>1. Remembers => RateBounded
  BY DEF Remembers, InWindow, RateBounded
<1> QED BY <1>1, RemembersInit, RemembersStep, PTL DEF AutosaveSpec

=============================================================================

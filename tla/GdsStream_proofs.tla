--------------------------- MODULE GdsStream_proofs ---------------------------
(***************************************************************************)
(* Proofs about GdsStream for any layouts, lists, maps and other files.    *)
(* The inductive invariant is Inv: what the writer appends for a list is a *)
(* story, a run of items each of which leads from one place to the next;   *)
(* the file is a beginning of that story; and the reader, at a position of *)
(* the file, is at the place of the story there, with exactly the          *)
(* cellviews, instances and drawings that lie before it.                   *)
(*                                                                         *)
(* The last part is about the names of the instances that are read, which  *)
(* GdsStream leaves to InstNaming.                                         *)
(***************************************************************************)
EXTENDS GdsStream, InstNaming, Recursion, SequenceTheorems, FiniteSetTheorems, TLAPS

-----------------------------------------------------------------------------
(***************************************************************************)
(* Sequences, and records laid out one item after another.                 *)
(***************************************************************************)

\* The records of the file are those of the items in order; item i begins at start[i].
Laid(recs, items, start) ==
  /\ IsSeq(recs) /\ IsSeq(items)
  /\ start \in [1 .. Len(items) + 1 -> Nat]
  /\ start[1] = 1 /\ start[Len(items) + 1] = Len(recs) + 1
  /\ \A i \in 1 .. Len(items) :
       /\ IsSeq(items[i].recs)
       /\ start[i + 1] = start[i] + Len(items[i].recs)
       /\ \A k \in 1 .. Len(items[i].recs) : recs[start[i] + k - 1] = items[i].recs[k]
IsLaid(recs, items) == \E start : Laid(recs, items, start)

\* A sequence of any set is one of its elements.
LEMMA SeqTypes ==
  ASSUME NEW S, NEW s \in Seq(S)
  PROVE  IsSeq(s) /\ ToSet(s) \subseteq S /\ DOMAIN s = 1 .. Len(s) /\ Len(s) \in Nat
<1>1. DOMAIN s = 1 .. Len(s) /\ Len(s) \in Nat /\ \A i \in 1 .. Len(s) : s[i] \in S
  OBVIOUS
<1>2. PICK T : T = ToSet(s)
  OBVIOUS
<1>3. \A i \in 1 .. Len(s) : s[i] \in T
  BY <1>1, <1>2 DEF ToSet
<1>4. s \in Seq(T)
  BY <1>1, <1>3
<1>. QED BY <1>1, <1>2, <1>4 DEF IsSeq, ToSet

\* The elements of a sequence.
LEMMA SeqHas ==
  ASSUME NEW s, IsSeq(s)
  PROVE  /\ DOMAIN s = 1 .. Len(s) /\ Len(s) \in Nat
         /\ \A i \in 1 .. Len(s) : s[i] \in ToSet(s)
BY DEF IsSeq, ToSet

\* A sequence of one element.
LEMMA OneOf ==
  ASSUME NEW x
  PROVE  IsSeq(<<x>>) /\ Len(<<x>>) = 1 /\ <<x>>[1] = x
BY DEF IsSeq, ToSet

\* Two sequences one after the other.
LEMMA ConcatOf ==
  ASSUME NEW s, NEW t, IsSeq(s), IsSeq(t)
  PROVE  /\ IsSeq(s \o t) /\ Len(s \o t) = Len(s) + Len(t)
         /\ \A i \in 1 .. Len(s) : (s \o t)[i] = s[i]
         /\ \A i \in 1 .. Len(t) : (s \o t)[Len(s) + i] = t[i]
         /\ ToSet(s \o t) = ToSet(s) \cup ToSet(t)
<1>. DEFINE S == ToSet(s) \cup ToSet(t)
<1>1. s \in Seq(S) /\ t \in Seq(S)
  <2>1. \A i \in 1 .. Len(s) : s[i] \in S
    BY SeqHas
  <2>2. \A i \in 1 .. Len(t) : t[i] \in S
    BY SeqHas
  <2>. HIDE DEF S
  <2>3. Len(s) \in Nat /\ s = [i \in 1 .. Len(s) |-> s[i]]
    BY DEF IsSeq
  <2>4. Len(t) \in Nat /\ t = [i \in 1 .. Len(t) |-> t[i]]
    BY DEF IsSeq
  <2>. QED BY <2>1, <2>2, <2>3, <2>4
<1>. HIDE DEF S
<1>2. /\ s \o t \in Seq(S) /\ Len(s \o t) = Len(s) + Len(t)
      /\ \A i \in 1 .. Len(s) + Len(t) : (s \o t)[i] = IF i <= Len(s) THEN s[i] ELSE t[i - Len(s)]
  BY <1>1
<1>3. Len(s) \in Nat /\ Len(t) \in Nat
  BY <1>1
<1>4. \A i \in 1 .. Len(s) : (s \o t)[i] = s[i]
  BY <1>2, <1>3
<1>5. \A i \in 1 .. Len(t) : (s \o t)[Len(s) + i] = t[i]
  BY <1>2, <1>3
<1>6. IsSeq(s \o t)
  BY <1>2, SeqTypes
<1>7. ToSet(s \o t) = ToSet(s) \cup ToSet(t)
  <2>1. \A i \in 1 .. Len(s) + Len(t) : i <= Len(s) \/ i - Len(s) \in 1 .. Len(t)
    BY <1>3
  <2>2. DOMAIN (s \o t) = 1 .. Len(s) + Len(t) /\ DOMAIN s = 1 .. Len(s) /\ DOMAIN t = 1 .. Len(t)
    BY <1>1, <1>2
  <2>3. ToSet(s \o t) \subseteq ToSet(s) \cup ToSet(t)
    BY <1>2, <1>3, <2>1, <2>2 DEF ToSet
  <2>4. \A i \in 1 .. Len(t) : Len(s) + i \in 1 .. Len(s) + Len(t)
    BY <1>3
  <2>5. \A i \in 1 .. Len(s) : i \in 1 .. Len(s) + Len(t)
    BY <1>3
  <2>6. PICK q : q = s \o t
    OBVIOUS
  <2>7. \A i \in DOMAIN s : s[i] = q[i] /\ i \in DOMAIN q
    BY <1>4, <2>2, <2>5, <2>6
  <2>8. \A i \in DOMAIN t : t[i] = q[Len(s) + i] /\ Len(s) + i \in DOMAIN q
    BY <1>5, <2>2, <2>4, <2>6
  <2>9. ToSet(s) \subseteq ToSet(q) /\ ToSet(t) \subseteq ToSet(q)
    BY ONLY <2>7, <2>8 DEF ToSet
  <2>. QED BY <2>3, <2>6, <2>9
<1>. QED BY <1>2, <1>4, <1>5, <1>6, <1>7

\* Nothing is laid as no items, and the records of one item as that item.
LEMMA LaidNone == IsLaid(<< >>, << >>)
<1>1. IsSeq(<< >>) /\ Len(<< >>) = 0
  BY DEF IsSeq, ToSet
<1>. DEFINE start == [i \in 1 .. Len(<< >>) + 1 |-> 1]
<1>2. start \in [1 .. Len(<< >>) + 1 -> Nat] /\ start[1] = 1
  BY <1>1
<1>. HIDE DEF start
<1>. QED BY <1>1, <1>2 DEF Laid, IsLaid

LEMMA LaidOne ==
  ASSUME NEW item, IsSeq(item.recs)
  PROVE  IsLaid(item.recs, <<item>>)
<1>. DEFINE n == Len(item.recs)
            start == [i \in 1 .. 2 |-> IF i = 1 THEN 1 ELSE n + 1]
<1>1. n \in Nat /\ IsSeq(<<item>>) /\ Len(<<item>>) = 1 /\ <<item>>[1] = item
  BY SeqHas, OneOf
<1>. HIDE DEF n
<1>2. start \in [1 .. 2 -> Nat] /\ start[1] = 1 /\ start[2] = n + 1
  BY <1>1
<1>. HIDE DEF start
<1>3. \A k \in 1 .. n : 1 + k - 1 = k
  BY <1>1
<1>4. \A i \in 1 .. 1 : i = 1 /\ i + 1 = 2
  OBVIOUS
<1>5. PICK items : items = <<item>>
  OBVIOUS
<1>6. Laid(item.recs, items, start)
  <2>1. Len(items) + 1 = 2 /\ Len(items) = 1
    BY <1>1, <1>5
  <2>2. \A i \in 1 .. 1 :
       /\ IsSeq(items[i].recs)
       /\ start[i + 1] = start[i] + Len(items[i].recs)
       /\ \A k \in 1 .. Len(items[i].recs) : item.recs[start[i] + k - 1] = items[i].recs[k]
    BY <1>1, <1>2, <1>3, <1>4, <1>5 DEF n
  <2>. QED BY <1>1, <1>2, <1>5, <2>1, <2>2 DEF Laid, n
<1>. QED BY <1>5, <1>6 DEF IsLaid

\* The starts grow, so that an item lies inside the records.
LEMMA LaidGrows ==
  ASSUME NEW recs, NEW items, NEW start, Laid(recs, items, start)
  PROVE  \A j \in 1 .. Len(items) + 1 : \A i \in 1 .. j : 1 <= start[i] /\ start[i] <= start[j]
<1>. DEFINE n == Len(items)
            P == {j \in Nat : j + 1 \in 1 .. n + 1 =>
                    \A i \in 1 .. j + 1 : 1 <= start[i] /\ start[i] <= start[j + 1]}
<1>1. n \in Nat
  BY SeqHas DEF Laid
<1>2. /\ start \in [1 .. n + 1 -> Nat] /\ start[1] = 1
      /\ \A i \in 1 .. n : start[i + 1] = start[i] + Len(items[i].recs) /\ Len(items[i].recs) \in Nat
  BY SeqHas DEF Laid
<1>. HIDE DEF n
<1>3. 0 \in P
  BY <1>1, <1>2
<1>4. ASSUME NEW j \in Nat, j \in P PROVE j + 1 \in P
  <2>1. SUFFICES ASSUME j + 2 \in 1 .. n + 1, NEW i \in 1 .. j + 2
                 PROVE  1 <= start[i] /\ start[i] <= start[j + 2]
    OBVIOUS
  <2>2. j + 1 \in 1 .. n /\ j + 1 \in 1 .. n + 1 /\ (j + 1) + 1 = j + 2 /\ (i \in 1 .. j + 1 \/ i = j + 2)
    BY <1>1, <2>1
  <2>3. \A x \in 1 .. j + 1 : 1 <= start[x] /\ start[x] <= start[j + 1]
    BY <1>4, <2>2
  <2>4. start[j + 2] = start[j + 1] + Len(items[j + 1].recs) /\ Len(items[j + 1].recs) \in Nat
    BY <1>2, <2>2
  <2>5. start[j + 1] \in Nat /\ 1 <= start[j + 1] /\ \A x \in 1 .. j + 1 : start[x] \in Nat
    <3>1. \A x \in 1 .. j + 1 : x \in 1 .. n + 1
      BY <1>1, <2>2
    <3>2. j + 1 \in 1 .. j + 1
      OBVIOUS
    <3>. QED BY <1>2, <2>3, <3>1, <3>2
  <2>. QED BY <2>2, <2>3, <2>4, <2>5
<1>5. \A j \in Nat : j \in P
  <2>. HIDE DEF P
  <2>. QED BY <1>3, <1>4, AllNumbers
<1>6. SUFFICES ASSUME NEW j \in 1 .. n + 1 PROVE \A i \in 1 .. j : 1 <= start[i] /\ start[i] <= start[j]
  BY DEF n
<1>7. j - 1 \in Nat /\ (j - 1) + 1 = j
  BY <1>1
<1>. QED BY <1>5, <1>7

\* The records of an item are inside of the file.
LEMMA LaidInside ==
  ASSUME NEW recs, NEW items, NEW start, Laid(recs, items, start),
         NEW i \in 1 .. Len(items), NEW k \in 1 .. Len(items[i].recs)
  PROVE  start[i] + k - 1 \in 1 .. Len(recs)
<1>1. Len(items) \in Nat /\ Len(recs) \in Nat /\ Len(items[i].recs) \in Nat
  BY SeqHas DEF Laid
<1>2. PICK n, m : n = Len(items) /\ m = Len(recs)
  OBVIOUS
<1>3. /\ start[n + 1] = m + 1 /\ start[i + 1] = start[i] + Len(items[i].recs)
      /\ start \in [1 .. n + 1 -> Nat]
  BY <1>2 DEF Laid
<1>4. i + 1 \in 1 .. n + 1 /\ n + 1 \in 1 .. n + 1 /\ i \in 1 .. n + 1 /\ i \in 1 .. i /\ i + 1 \in Nat
  BY <1>1, <1>2
<1>5. start[i + 1] <= start[n + 1] /\ 1 <= start[i]
  BY <1>2, <1>4, LaidGrows
<1>6. start[i] \in Nat
  BY <1>3, <1>4
<1>. QED BY <1>1, <1>2, <1>3, <1>5, <1>6

\* Items after items.
LEMMA LaidConcat ==
  ASSUME NEW r, NEW a, NEW q, NEW b, IsLaid(r, a), IsLaid(q, b)
  PROVE  IsLaid(r \o q, a \o b)
<1>1. PICK s : Laid(r, a, s)
  BY DEF IsLaid
<1>2. PICK t : Laid(q, b, t)
  BY DEF IsLaid
<1>3. PICK m, n, i0 : m = Len(a) /\ n = Len(b) /\ i0 = Len(r)
  OBVIOUS
<1>4. /\ IsSeq(r) /\ IsSeq(a) /\ IsSeq(q) /\ IsSeq(b)
      /\ m \in Nat /\ n \in Nat /\ i0 \in Nat
  BY <1>1, <1>2, <1>3, SeqHas DEF Laid
<1>5. /\ IsSeq(r \o q) /\ Len(r \o q) = i0 + Len(q)
      /\ \A i \in 1 .. i0 : (r \o q)[i] = r[i]
      /\ \A i \in 1 .. Len(q) : (r \o q)[i0 + i] = q[i]
  BY <1>3, <1>4, ConcatOf
<1>6. /\ IsSeq(a \o b) /\ Len(a \o b) = m + n
      /\ \A i \in 1 .. m : (a \o b)[i] = a[i]
      /\ \A i \in 1 .. n : (a \o b)[m + i] = b[i]
  BY <1>3, <1>4, ConcatOf
<1>7. PICK rq, ab : rq = r \o q /\ ab = a \o b
  OBVIOUS
<1>. DEFINE u == [i \in 1 .. m + n + 1 |-> IF i <= m THEN s[i] ELSE i0 + t[i - m]]
<1>8. /\ s \in [1 .. m + 1 -> Nat] /\ s[1] = 1 /\ s[m + 1] = i0 + 1
      /\ t \in [1 .. n + 1 -> Nat] /\ t[1] = 1 /\ t[n + 1] = Len(q) + 1
  BY <1>1, <1>2, <1>3 DEF Laid
<1>9. \A i \in 1 .. m + n + 1 : i <= m => i \in 1 .. m + 1
  BY <1>4
<1>10. \A i \in 1 .. m + n + 1 : ~(i <= m) => i - m \in 1 .. n + 1
  BY <1>4
<1>11. u \in [1 .. m + n + 1 -> Nat]
  <2>1. \A i \in 1 .. m + n + 1 : i <= m => s[i] \in Nat
    BY <1>8, <1>9
  <2>2. \A i \in 1 .. m + n + 1 : ~(i <= m) => i0 + t[i - m] \in Nat
    BY <1>4, <1>8, <1>10
  <2>. QED BY <2>1, <2>2
<1>12. \A i \in 1 .. m + 1 : u[i] = s[i]
  <2>1. \A i \in 1 .. m + 1 : i \in 1 .. m + n + 1 /\ (i <= m \/ i = m + 1)
    BY <1>4
  <2>2. u[m + 1] = i0 + 1
    BY <1>4, <1>8
  <2>. QED BY <1>4, <1>8, <2>1, <2>2
<1>13. \A i \in 1 .. n + 1 : u[m + i] = i0 + t[i]
  <2>1. \A i \in 1 .. n + 1 : m + i \in 1 .. m + n + 1 /\ ~(m + i <= m) /\ (m + i) - m = i
    BY <1>4
  <2>. QED BY <2>1
<1>14. u[1] = 1 /\ u[m + n + 1] = i0 + Len(q) + 1
  <2>1. 1 \in 1 .. m + 1 /\ n + 1 \in 1 .. n + 1 /\ m + (n + 1) = m + n + 1 /\ Len(q) \in Nat
    BY <1>4, SeqHas
  <2>. QED BY <1>4, <1>8, <1>12, <1>13, <2>1
<1>. HIDE DEF u
<1>15. ASSUME NEW i \in 1 .. m
       PROVE  /\ IsSeq(ab[i].recs)
              /\ u[i + 1] = u[i] + Len(ab[i].recs)
              /\ \A k \in 1 .. Len(ab[i].recs) : rq[u[i] + k - 1] = ab[i].recs[k]
  <2>1. ab[i] = a[i] /\ i \in 1 .. m + 1 /\ i + 1 \in 1 .. m + 1
    BY <1>4, <1>6, <1>7
  <2>2. u[i] = s[i] /\ u[i + 1] = s[i + 1]
    BY <1>12, <2>1
  <2>3. /\ IsSeq(a[i].recs) /\ s[i + 1] = s[i] + Len(a[i].recs)
        /\ \A k \in 1 .. Len(a[i].recs) : r[s[i] + k - 1] = a[i].recs[k]
    BY <1>1, <1>3 DEF Laid
  <2>4. ASSUME NEW k \in 1 .. Len(a[i].recs) PROVE rq[s[i] + k - 1] = a[i].recs[k]
    <3>1. s[i] + k - 1 \in 1 .. i0
      BY <1>1, <1>3, <2>4, LaidInside
    <3>. QED BY <1>5, <1>7, <2>3, <3>1
  <2>. QED BY <2>1, <2>2, <2>3, <2>4
<1>16. ASSUME NEW i \in 1 .. n
       PROVE  /\ IsSeq(ab[m + i].recs)
              /\ u[m + i + 1] = u[m + i] + Len(ab[m + i].recs)
              /\ \A k \in 1 .. Len(ab[m + i].recs) : rq[u[m + i] + k - 1] = ab[m + i].recs[k]
  <2>0. ab[m + i] = b[i]
    BY <1>6, <1>7
  <2>1. ab[m + i] = b[i] /\ i \in 1 .. n + 1 /\ i + 1 \in 1 .. n + 1 /\ m + (i + 1) = m + i + 1
    BY ONLY <1>4, <2>0
  <2>2. u[m + i] = i0 + t[i] /\ u[m + i + 1] = i0 + t[i + 1]
    BY <1>13, <2>1
  <2>3. /\ IsSeq(b[i].recs) /\ t[i + 1] = t[i] + Len(b[i].recs)
        /\ \A k \in 1 .. Len(b[i].recs) : q[t[i] + k - 1] = b[i].recs[k]
    BY <1>2, <1>3 DEF Laid
  <2>4. t[i] \in Nat /\ Len(b[i].recs) \in Nat
    BY <1>8, <2>1, <2>3, SeqHas
  <2>5. ASSUME NEW k \in 1 .. Len(b[i].recs) PROVE rq[(i0 + t[i]) + k - 1] = b[i].recs[k]
    <3>1. t[i] + k - 1 \in 1 .. Len(q)
      BY <1>2, <1>3, <2>5, LaidInside
    <3>2. (i0 + t[i]) + k - 1 = i0 + (t[i] + k - 1)
      BY <1>4, <2>4
    <3>. QED BY <1>5, <1>7, <2>3, <3>1, <3>2
  <2>. QED BY <1>4, <2>1, <2>2, <2>3, <2>4, <2>5
<1>17. ASSUME NEW i \in 1 .. m + n
       PROVE  /\ IsSeq(ab[i].recs)
              /\ u[i + 1] = u[i] + Len(ab[i].recs)
              /\ \A k \in 1 .. Len(ab[i].recs) : rq[u[i] + k - 1] = ab[i].recs[k]
  <2>1. CASE i <= m
    <3>1. i \in 1 .. m
      BY <1>4, <2>1
    <3>. QED BY <1>15, <3>1
  <2>2. CASE ~(i <= m)
    <3>1. PICK j \in 1 .. n : i = m + j
      <4>1. i - m \in 1 .. n /\ i = m + (i - m)
        BY <1>4, <2>2
      <4>. QED BY <4>1
    <3>. QED BY <1>16, <3>1
  <2>. QED BY <2>1, <2>2
<1>18. Laid(rq, ab, u)
  <2>1. Len(ab) = m + n /\ Len(rq) = i0 + Len(q) /\ IsSeq(ab) /\ IsSeq(rq)
    BY <1>5, <1>6, <1>7
  <2>. QED BY <1>11, <1>14, <1>17, <2>1 DEF Laid
<1>. QED BY <1>7, <1>18 DEF IsLaid

\* The first n elements of a sequence.
Upto(s, n) == [i \in 1 .. n |-> s[i]]

\* A sequence is its beginnings, each with one more element.
LEMMA UptoFacts ==
  ASSUME NEW s, IsSeq(s)
  PROVE  /\ Upto(s, Len(s)) = s
         /\ \A n \in 0 .. Len(s) : IsSeq(Upto(s, n)) /\ Len(Upto(s, n)) = n
         /\ \A n \in 1 .. Len(s) : Upto(s, n) = Upto(s, n - 1) \o <<s[n]>>
<1>1. DOMAIN s = 1 .. Len(s) /\ Len(s) \in Nat /\ (\A i \in 1 .. Len(s) : s[i] \in ToSet(s)) /\ s \in Seq(ToSet(s))
  BY SeqHas DEF IsSeq
<1>2. Upto(s, Len(s)) = s
  BY <1>1 DEF Upto
<1>3. ASSUME NEW n \in 0 .. Len(s) PROVE Upto(s, n) \in Seq(ToSet(s)) /\ Len(Upto(s, n)) = n
  <2>1. n \in Nat /\ \A i \in 1 .. n : s[i] \in ToSet(s)
    BY <1>1
  <2>. QED BY <2>1 DEF Upto
<1>4. ASSUME NEW n \in 1 .. Len(s) PROVE Upto(s, n) = Upto(s, n - 1) \o <<s[n]>>
  <2>1. PICK T, a, b : T = ToSet(s) /\ a = Upto(s, n) /\ b = Upto(s, n - 1)
    OBVIOUS
  <2>2. n \in 0 .. Len(s) /\ n - 1 \in 0 .. Len(s) /\ n \in Nat /\ (n - 1) + 1 = n /\ s[n] \in T
    BY <1>1, <2>1
  <2>3. a \in Seq(T) /\ b \in Seq(T) /\ Len(a) = n /\ Len(b) = n - 1
    BY <1>3, <2>1, <2>2
  <2>4. PICK c : c = b \o <<s[n]>>
    OBVIOUS
  <2>5. c \in Seq(T) /\ Len(c) = n /\ \A i \in 1 .. n : c[i] = IF i <= n - 1 THEN b[i] ELSE s[n]
    BY <2>2, <2>3, <2>4
  <2>6. \A i \in 1 .. n : c[i] = a[i]
    <3>1. \A i \in 1 .. n : a[i] = s[i] /\ (i <= n - 1 => b[i] = s[i]) /\ (~(i <= n - 1) => i = n)
      BY <2>1, <2>2 DEF Upto
    <3>. QED BY <2>5, <3>1
  <2>7. c = a
    BY <2>2, <2>3, <2>5, <2>6, SeqEqual
  <2>. QED BY <2>1, <2>4, <2>7
<1>5. \A n \in 0 .. Len(s) : IsSeq(Upto(s, n)) /\ Len(Upto(s, n)) = n
  BY <1>3, SeqTypes
<1>. QED BY <1>2, <1>4, <1>5

\* Sequences put together.
LEMMA FlatLaid ==
  ASSUME NEW items, IsSeq(items), \A i \in 1 .. Len(items) : IsSeq(items[i].recs),
         NEW parts, parts = [i \in 1 .. Len(items) |-> items[i].recs]
  PROVE  IsLaid(FlattenSeq(parts), items)
<1>1. PICK n : n = Len(items)
  OBVIOUS
<1>2. n \in Nat /\ DOMAIN items = 1 .. n
  BY <1>1, SeqHas
<1>3. CASE n = 0
  <2>1. items = << >> /\ parts = << >>
    <3>1. PICK S : S = ToSet(items)
      OBVIOUS
    <3>2. items \in Seq(S) /\ Len(items) = 0
      BY <1>1, <1>3, <3>1 DEF IsSeq
    <3>3. parts \in Seq(S) /\ Len(parts) = 0
      BY <3>2
    <3>. QED BY ONLY <3>2, <3>3, EmptySeq
  <2>2. FlattenSeq(parts) = << >>
    BY <2>1 DEF FlattenSeq
  <2>. QED BY <2>1, <2>2, LaidNone
<1>4. CASE n # 0
  <2>. DEFINE I == 1 .. n
              R == UNION {ToSet(items[i].recs) : i \in I}
              T == Seq(R)
              Body(g, i) == IF i = 1 THEN parts[i] ELSE g[i - 1] \o parts[i]
              rank == [i \in I |-> i]
              D == [p \in [I -> T] \X I |-> Body(p[1], p[2])]
              F == CHOOSE f : f = [i \in I |-> Body(f, i)]
  <2>1. \A i \in I : parts[i] \in T
    <3>1. ASSUME NEW i \in I PROVE parts[i] \in T
      <4>1. parts[i] = items[i].recs /\ IsSeq(items[i].recs)
        BY <1>1
      <4>2. \A k \in 1 .. Len(parts[i]) : parts[i][k] \in R
        BY <4>1, SeqHas
      <4>3. PICK p, S : p = parts[i] /\ S = ToSet(p)
        OBVIOUS
      <4>4. p \in Seq(S)
        BY <4>1, <4>3 DEF IsSeq
      <4>. HIDE DEF R
      <4>5. \A k \in 1 .. Len(p) : p[k] \in R
        BY <4>2, <4>3
      <4>6. p \in Seq(R)
        BY ONLY <4>4, <4>5
      <4>. QED BY <4>3, <4>6
    <3>. QED BY <3>1
  <2>2. \A i \in I : i \in Nat /\ (i # 1 => i - 1 \in I /\ i - 1 < i)
    BY <1>2
  <2>. HIDE DEF R, I
  <2>3. ASSUME NEW g \in [I -> T], NEW i \in I
        PROVE  D[<<g, i>>] = Body(g, i) /\ Body(g, i) \in T
    <3>1. i # 1 => g[i - 1] \in T
      BY <2>2
    <3>2. i # 1 => g[i - 1] \o parts[i] \in T
      BY <2>1, <3>1
    <3>3. Body(g, i) \in T
      BY <2>1, <3>2
    <3>. HIDE DEF T, Body
    <3>. QED BY <3>3
  <2>4. LooksDown(I, T, rank, D)
    <3>1. rank \in [I -> Nat]
      BY <2>2
    <3>2. D \in [[I -> T] \X I -> T]
      <4>. HIDE DEF T, Body
      <4>. QED BY <2>3
    <3>3. ASSUME NEW g \in [I -> T], NEW h \in [I -> T], NEW i \in I,
                 \A j \in I : rank[j] < rank[i] => g[j] = h[j]
          PROVE  D[<<g, i>>] = D[<<h, i>>]
      <4>1. i # 1 => g[i - 1] = h[i - 1]
        BY <2>2, <3>3
      <4>2. Body(g, i) = Body(h, i)
        BY <4>1
      <4>. HIDE DEF D, Body, T
      <4>. QED BY <2>3, <4>2
    <3>. HIDE DEF rank, D, T
    <3>. QED BY <3>1, <3>2, <3>3 DEF LooksDown
  <2>5. F = [i \in I |-> Body(F, i)]
    <3>1. << >> \in T
      OBVIOUS
    <3>. HIDE DEF T, rank, D, Body
    <3>2. PICK f \in [I -> T] : \A i \in I : f[i] = D[<<f, i>>]
      BY <2>4, <3>1, RecursiveExists
    <3>3. f = [i \in I |-> Body(f, i)]
      BY <2>3, <3>2
    <3>. QED BY <3>3
  <2>6. \A i \in I : F[i] = Body(F, i)
    <3>. HIDE DEF F, Body
    <3>1. PICK g : g = F
      OBVIOUS
    <3>2. g = [i \in I |-> Body(g, i)]
      BY <2>5, <3>1
    <3>3. \A i \in I : g[i] = Body(g, i)
      BY ONLY <3>2
    <3>. QED BY <3>1, <3>3
  <2>7. Len(parts) = n /\ FlattenSeq(parts) = F[n]
    <3>1. Len(parts) = n
      BY <1>1, <1>2
    <3>2. I = 1 .. Len(parts)
      BY <3>1 DEF I
    <3>. QED BY <1>4, <3>1, <3>2 DEF FlattenSeq
  <2>. HIDE DEF F
  <2>. DEFINE P == {k \in Nat : k + 1 \in I => IsLaid(F[k + 1], Upto(items, k + 1))}
  <2>8. \A i \in I : IsLaid(parts[i], <<items[i]>>)
    BY <1>1, LaidOne DEF I
  <2>9. 0 \in P
    <3>1. 1 \in I /\ 1 \in 1 .. Len(items)
      BY <1>1, <1>2, <1>4 DEF I
    <3>2. F[1] = parts[1]
      BY <2>6, <3>1
    <3>3. Upto(items, 1) = <<items[1]>>
      BY DEF Upto
    <3>. QED BY <2>8, <3>1, <3>2, <3>3
  <2>10. ASSUME NEW k \in Nat, k \in P PROVE k + 1 \in P
    <3>1. SUFFICES ASSUME k + 2 \in I PROVE IsLaid(F[k + 2], Upto(items, k + 2))
      OBVIOUS
    <3>2. k + 1 \in I /\ k + 2 # 1 /\ (k + 2) - 1 = k + 1 /\ k + 2 \in 1 .. Len(items)
      BY <1>1, <1>2, <3>1 DEF I
    <3>3. F[k + 2] = F[k + 1] \o parts[k + 2]
      BY <2>6, <3>1, <3>2
    <3>4. Upto(items, k + 2) = Upto(items, k + 1) \o <<items[k + 2]>>
      BY <3>2, UptoFacts
    <3>5. IsLaid(F[k + 1], Upto(items, k + 1)) /\ IsLaid(parts[k + 2], <<items[k + 2]>>)
      BY <2>8, <2>10, <3>1, <3>2
    <3>6. IsLaid(F[k + 1] \o parts[k + 2], Upto(items, k + 1) \o <<items[k + 2]>>)
      BY ONLY <3>5, LaidConcat
    <3>. QED BY <3>3, <3>4, <3>6
  <2>11. n - 1 \in P
    <3>. HIDE DEF P
    <3>1. \A k \in Nat : k \in P
      BY <2>9, <2>10, AllNumbers
    <3>. QED BY <1>2, <1>4, <3>1
  <2>12. (n - 1) + 1 = n /\ n \in I
    BY <1>2, <1>4 DEF I
  <2>. QED BY <1>1, <2>7, <2>11, <2>12, UptoFacts
<1>. QED BY <1>2, <1>3, <1>4

-----------------------------------------------------------------------------
(***************************************************************************)
(* Orientations: what is written of one is read back as the same.          *)
(***************************************************************************)

Units == {<<1, 0>>, <<0, 1>>}

\* Where an orientation turns the two axes.
LEMMA TurnUnits ==
  ASSUME NEW o \in Orientation
  PROVE  /\ Turn(o, <<1, 0>>) = IF FlipsXY(o) THEN <<0, Sign(o)[2]>> ELSE <<Sign(o)[1], 0>>
         /\ Turn(o, <<0, 1>>) = IF FlipsXY(o) THEN <<Sign(o)[1], 0>> ELSE <<0, Sign(o)[2]>>
         /\ Sign(o) \in {-1, 1} \X {-1, 1}
<1>1. Sign(o) \in {-1, 1} \X {-1, 1}
  BY DEF Orientation, Sign
<1>2. PICK a, b : Sign(o) = <<a, b>> /\ a \in {-1, 1} /\ b \in {-1, 1}
  BY <1>1
<1>3. a * 0 = 0 /\ b * 0 = 0 /\ a * 1 = a /\ b * 1 = b
  BY <1>2
<1>. QED BY <1>1, <1>2, <1>3 DEF Turn

\* An orientation is known by where it turns the two units.
LEMMA SameTurns ==
  ASSUME NEW o \in Orientation, NEW q \in Orientation,
         Turn(o, <<1, 0>>) = Turn(q, <<1, 0>>), Turn(o, <<0, 1>>) = Turn(q, <<0, 1>>)
  PROVE  o = q
<1>1. FlipsXY(o) = FlipsXY(q) /\ Sign(o) = Sign(q)
  <2>0. Sign(o) \in {-1, 1} \X {-1, 1} /\ Sign(q) \in {-1, 1} \X {-1, 1}
    BY TurnUnits
  <2>1. PICK a, b : Sign(o) = <<a, b>> /\ a \in {-1, 1} /\ b \in {-1, 1}
    BY <2>0
  <2>2. PICK c, d : Sign(q) = <<c, d>> /\ c \in {-1, 1} /\ d \in {-1, 1}
    BY <2>0
  <2>3. /\ (IF FlipsXY(o) THEN <<0, b>> ELSE <<a, 0>>) = (IF FlipsXY(q) THEN <<0, d>> ELSE <<c, 0>>)
        /\ (IF FlipsXY(o) THEN <<a, 0>> ELSE <<0, b>>) = (IF FlipsXY(q) THEN <<c, 0>> ELSE <<0, d>>)
    BY <2>1, <2>2, TurnUnits
  <2>4. FlipsXY(o) \in BOOLEAN /\ FlipsXY(q) \in BOOLEAN
    BY DEF FlipsXY
  <2>. QED BY <2>1, <2>2, <2>3, <2>4
<1>. QED BY <1>1 DEF Orientation, FlipsXY, Sign

\* Two orientations that agree on the axes are one.
LEMMA ThenIs ==
  ASSUME NEW o, NEW r, NEW q \in Orientation, \A p \in Units : Turn(q, p) = Turn(r, Turn(o, p))
  PROVE  Then(o, r) = q
<1>1. ASSUME NEW x \in Orientation, \A p \in Units : Turn(x, p) = Turn(r, Turn(o, p)) PROVE x = q
  <2>1. Turn(x, <<1, 0>>) = Turn(q, <<1, 0>>) /\ Turn(x, <<0, 1>>) = Turn(q, <<0, 1>>)
    BY <1>1 DEF Units
  <2>. QED BY <2>1, SameTurns
<1>. QED BY <1>1 DEF Then, Units

\* What a mirror and an angle say of an orientation gives it back.
Mirror(o) == IF Mirrored(o) THEN "MX" ELSE "R0"
\* The mirror and the angle that are written are those of the orientation.
LEMMA OrientBack ==
  ASSUME NEW o \in Orientation
  PROVE  Then(Mirror(o), Rotation(Angle(o))) = o
<1>1. \A p \in Units : Turn(o, p) = Turn(Rotation(Angle(o)), Turn(Mirror(o), p))
  <2>. USE DEF Orientation, Turn, Sign, FlipsXY, Mirror, Mirrored, Angle, Rotation, Units
  <2>1. CASE o = "R0"     BY <2>1
  <2>2. CASE o = "R90"    BY <2>2
  <2>3. CASE o = "R180"   BY <2>3
  <2>4. CASE o = "R270"   BY <2>4
  <2>5. CASE o = "MX"     BY <2>5
  <2>6. CASE o = "MY"     BY <2>6
  <2>7. CASE o = "MXR90"  BY <2>7
  <2>8. CASE o = "MYR90"  BY <2>8
  <2>. HIDE DEF Turn, Sign, FlipsXY, Mirror, Mirrored, Angle, Rotation, Units
  <2>. QED BY <2>1, <2>2, <2>3, <2>4, <2>5, <2>6, <2>7, <2>8
<1>. QED BY <1>1, ThenIs

\* A mirror and a rotation are an orientation.
LEMMA ThenRotation ==
  ASSUME NEW m \in BOOLEAN, NEW angle \in {0, 90, 180, 270}
  PROVE  Then(IF m THEN "MX" ELSE "R0", Rotation(angle)) \in Orientation
<1>1. \E o \in Orientation : Mirrored(o) = m /\ Angle(o) = angle
  <2>. DEFINE o == IF angle = 0 THEN (IF m THEN "MX" ELSE "R0")
                   ELSE IF angle = 90 THEN (IF m THEN "MXR90" ELSE "R90")
                   ELSE IF angle = 180 THEN (IF m THEN "MY" ELSE "R180")
                   ELSE IF m THEN "MYR90" ELSE "R270"
  <2>1. o \in Orientation /\ Mirrored(o) = m /\ Angle(o) = angle
    BY DEF Orientation, Mirrored, Angle
  <2>. QED BY <2>1
<1>. QED BY <1>1, OrientBack DEF Mirror

\* The opposite of an orientation is one.
LEMMA OppositeIn ==
  ASSUME NEW o \in Orientation
  PROVE  Opposite(o) \in Orientation
<1>1. \E q \in Orientation : Then(o, q) = "R0"
  <2>. DEFINE q == IF o = "R90" THEN "R270" ELSE IF o = "R270" THEN "R90" ELSE o
  <2>1. q \in Orientation /\ "R0" \in Orientation
    BY DEF Orientation
  <2>2. \A p \in Units : Turn("R0", p) = Turn(q, Turn(o, p))
    <3>. USE DEF Orientation, Turn, Sign, FlipsXY, Units
    <3>1. CASE o = "R0"     BY <3>1
    <3>2. CASE o = "R90"    BY <3>2
    <3>3. CASE o = "R180"   BY <3>3
    <3>4. CASE o = "R270"   BY <3>4
    <3>5. CASE o = "MX"     BY <3>5
    <3>6. CASE o = "MY"     BY <3>6
    <3>7. CASE o = "MXR90"  BY <3>7
    <3>8. CASE o = "MYR90"  BY <3>8
    <3>. QED BY <3>1, <3>2, <3>3, <3>4, <3>5, <3>6, <3>7, <3>8
  <2>. HIDE DEF q
  <2>. QED BY <2>1, <2>2, ThenIs
<1>. QED BY <1>1 DEF Opposite

\* Points stay points.
LEMMA TurnPoint ==
  ASSUME NEW o \in Orientation, NEW p \in Point
  PROVE  Turn(o, p) \in Point
<1>1. Sign(o) \in Int \X Int /\ Sign(o)[1] \in Int /\ Sign(o)[2] \in Int /\ p[1] \in Int /\ p[2] \in Int
  BY DEF Orientation, Sign, Point
<1>2. \A i, j \in Int : i * j \in Int
  OBVIOUS
<1>. QED BY <1>1, <1>2 DEF Turn, Point

\* A transform moves points to points, and its inverse is a transform.
LEMMA ApplyPoint ==
  ASSUME NEW x \in Xform, NEW p \in Point
  PROVE  Apply(x, p) \in Point
<1>1. x.orient \in Orientation /\ x.loc \in Point
  BY DEF Xform
<1>2. Turn(x.orient, p) \in Point
  BY <1>1, TurnPoint
<1>. QED BY <1>1, <1>2 DEF Apply, Plus, Point

LEMMA InverseXform ==
  ASSUME NEW x \in Xform
  PROVE  InverseOf(x) \in Xform
<1>1. x.orient \in Orientation /\ x.loc \in Point
  BY DEF Xform
<1>2. Opposite(x.orient) \in Orientation
  BY <1>1, OppositeIn
<1>3. Minus(Origin, x.loc) \in Point
  BY <1>1 DEF Minus, Origin, Point
<1>4. Turn(Opposite(x.orient), Minus(Origin, x.loc)) \in Point
  BY <1>2, <1>3, TurnPoint
<1>. QED BY <1>2, <1>4 DEF InverseOf, Xform

\* Parts of the records of an element.
LEMMA ThreeParts ==
  ASSUME NEW a, NEW b, NEW c, IsSeq(a), IsSeq(b), IsSeq(c)
  PROVE  LET r == a \o b \o c IN
         /\ IsSeq(r) /\ Len(r) = Len(a) + Len(b) + Len(c)
         /\ \A i \in 1 .. Len(a) : r[i] = a[i]
         /\ \A i \in 1 .. Len(b) : r[Len(a) + i] = b[i]
         /\ \A i \in 1 .. Len(c) : r[Len(a) + Len(b) + i] = c[i]
         /\ Len(a) \in Nat /\ Len(b) \in Nat /\ Len(c) \in Nat
<1>1. PICK s, r : s = a \o b /\ r = a \o b \o c
  OBVIOUS
<1>2. /\ IsSeq(s) /\ Len(s) = Len(a) + Len(b)
      /\ \A i \in 1 .. Len(a) : s[i] = a[i]
      /\ \A i \in 1 .. Len(b) : s[Len(a) + i] = b[i]
  BY <1>1, ConcatOf
<1>3. /\ IsSeq(r) /\ Len(r) = Len(s) + Len(c)
      /\ \A i \in 1 .. Len(s) : r[i] = s[i]
      /\ \A i \in 1 .. Len(c) : r[Len(s) + i] = c[i]
  <2>1. r = s \o c
    BY <1>1
  <2>2. /\ IsSeq(s \o c) /\ Len(s \o c) = Len(s) + Len(c)
        /\ \A i \in 1 .. Len(s) : (s \o c)[i] = s[i]
        /\ \A i \in 1 .. Len(c) : (s \o c)[Len(s) + i] = c[i]
    BY ONLY <1>2, IsSeq(c), ConcatOf
  <2>. QED BY ONLY <2>1, <2>2
<1>4. Len(a) \in Nat /\ Len(b) \in Nat /\ Len(c) \in Nat
  BY SeqHas
<1>5. ASSUME NEW i \in 1 .. Len(a) PROVE r[i] = a[i]
  <2>1. i \in 1 .. Len(s)
    BY <1>2, <1>4
  <2>. QED BY <1>2, <1>3, <2>1
<1>6. ASSUME NEW i \in 1 .. Len(b) PROVE r[Len(a) + i] = b[i]
  <2>1. Len(a) + i \in 1 .. Len(s)
    BY <1>2, <1>4
  <2>. QED BY <1>2, <1>3, <2>1
<1>. QED BY <1>1, <1>2, <1>3, <1>4, <1>5, <1>6

\* The elements of five sequences in a row.
LEMMA FiveParts ==
  ASSUME NEW a, NEW b, NEW c, NEW d, NEW e, IsSeq(a), IsSeq(b), IsSeq(c), IsSeq(d), IsSeq(e)
  PROVE  LET r == a \o b \o c \o d \o e IN
         /\ IsSeq(r) /\ Len(r) = Len(a) + Len(b) + Len(c) + Len(d) + Len(e)
         /\ \A i \in 1 .. Len(a) : r[i] = a[i]
         /\ \A i \in 1 .. Len(b) : r[Len(a) + i] = b[i]
         /\ \A i \in 1 .. Len(c) : r[Len(a) + Len(b) + i] = c[i]
         /\ \A i \in 1 .. Len(d) : r[Len(a) + Len(b) + Len(c) + i] = d[i]
         /\ \A i \in 1 .. Len(e) : r[Len(a) + Len(b) + Len(c) + Len(d) + i] = e[i]
<1>1. PICK s, n, r : s = a \o b \o c /\ n = Len(s) /\ r = a \o b \o c \o d \o e
  OBVIOUS
<1>2. /\ IsSeq(s) /\ n = Len(a) + Len(b) + Len(c)
      /\ \A i \in 1 .. Len(a) : s[i] = a[i]
      /\ \A i \in 1 .. Len(b) : s[Len(a) + i] = b[i]
      /\ \A i \in 1 .. Len(c) : s[Len(a) + Len(b) + i] = c[i]
      /\ Len(a) \in Nat /\ Len(b) \in Nat /\ Len(c) \in Nat
  <2>1. s = a \o b \o c
    BY <1>1
  <2>2. LET x == a \o b \o c IN
        /\ IsSeq(x) /\ Len(x) = Len(a) + Len(b) + Len(c)
        /\ \A i \in 1 .. Len(a) : x[i] = a[i]
        /\ \A i \in 1 .. Len(b) : x[Len(a) + i] = b[i]
        /\ \A i \in 1 .. Len(c) : x[Len(a) + Len(b) + i] = c[i]
        /\ Len(a) \in Nat /\ Len(b) \in Nat /\ Len(c) \in Nat
    BY ONLY IsSeq(a), IsSeq(b), IsSeq(c), ThreeParts
  <2>. QED BY ONLY <1>1, <2>1, <2>2
<1>3. /\ IsSeq(r) /\ Len(r) = n + Len(d) + Len(e)
      /\ \A i \in 1 .. n : r[i] = s[i]
      /\ \A i \in 1 .. Len(d) : r[n + i] = d[i]
      /\ \A i \in 1 .. Len(e) : r[n + Len(d) + i] = e[i]
  <2>1. r = s \o d \o e
    BY <1>1
  <2>2. LET x == s \o d \o e IN
        /\ IsSeq(x) /\ Len(x) = Len(s) + Len(d) + Len(e)
        /\ \A i \in 1 .. Len(s) : x[i] = s[i]
        /\ \A i \in 1 .. Len(d) : x[Len(s) + i] = d[i]
        /\ \A i \in 1 .. Len(e) : x[Len(s) + Len(d) + i] = e[i]
    BY ONLY <1>2, IsSeq(d), IsSeq(e), ThreeParts
  <2>. QED BY ONLY <1>1, <2>1, <2>2
<1>4. ASSUME NEW i \in 1 .. Len(a) PROVE r[i] = a[i]
  <2>1. i \in 1 .. n
    BY <1>2
  <2>. QED BY <1>2, <1>3, <2>1
<1>5. ASSUME NEW i \in 1 .. Len(b) PROVE r[Len(a) + i] = b[i]
  <2>1. Len(a) + i \in 1 .. n
    BY <1>2
  <2>. QED BY <1>2, <1>3, <2>1
<1>6. ASSUME NEW i \in 1 .. Len(c) PROVE r[Len(a) + Len(b) + i] = c[i]
  <2>1. Len(a) + Len(b) + i \in 1 .. n
    BY <1>2
  <2>. QED BY <1>2, <1>3, <2>1
<1>. QED BY <1>1, <1>2, <1>3, <1>4, <1>5, <1>6

\* Tuples are sequences.
LEMMA Tuples ==
  /\ \A x : IsSeq(<<x>>) /\ Len(<<x>>) = 1
  /\ \A x, y : IsSeq(<<x, y>>) /\ Len(<<x, y>>) = 2
  /\ \A x, y, z : IsSeq(<<x, y, z>>) /\ Len(<<x, y, z>>) = 3
<1>1. ASSUME NEW x PROVE IsSeq(<<x>>)
  <2>1. <<x>> \in Seq({x})
    OBVIOUS
  <2>. QED BY <2>1, SeqTypes
<1>2. ASSUME NEW x, NEW y PROVE IsSeq(<<x, y>>)
  <2>1. <<x, y>> \in Seq({x, y})
    OBVIOUS
  <2>. QED BY <2>1, SeqTypes
<1>3. ASSUME NEW x, NEW y, NEW z PROVE IsSeq(<<x, y, z>>)
  <2>1. <<x, y, z>> \in Seq({x, y, z})
    OBVIOUS
  <2>. QED BY <2>1, SeqTypes
<1>. QED BY <1>1, <1>2, <1>3

\* The records of an orientation, and how they are read wherever they stand.
LEMMA OrientParts ==
  ASSUME NEW o \in Orientation, NEW mag \in BOOLEAN, NEW r, r = OrientRecords(o, mag)
  PROVE  /\ IsSeq(r)
         /\ Len(r) = 1 + (IF mag THEN 1 ELSE 0) + (IF Angle(o) # 0 THEN 1 ELSE 0)
         /\ r[1] = Rec("STRANS", Mirrored(o))
         /\ mag => r[2] = Rec("MAG", None)
         /\ Angle(o) # 0 => r[Len(r)] = Rec("ANGLE", Angle(o))
<1>1. PICK a, b, c : /\ a = <<Rec("STRANS", Mirrored(o))>>
                     /\ b = (IF mag THEN Mark("MAG") ELSE << >>)
                     /\ c = (IF Angle(o) # 0 THEN <<Rec("ANGLE", Angle(o))>> ELSE << >>)
  OBVIOUS
<1>2. IsSeq(<< >>) /\ Len(<< >>) = 0
  BY DEF IsSeq, ToSet
<1>3. IsSeq(a) /\ Len(a) = 1 /\ a[1] = Rec("STRANS", Mirrored(o))
  BY <1>1, Tuples
<1>4. IsSeq(b) /\ Len(b) = (IF mag THEN 1 ELSE 0) /\ (mag => b[1] = Rec("MAG", None))
  BY <1>1, <1>2, Tuples DEF Mark
<1>5. /\ IsSeq(c) /\ Len(c) = (IF Angle(o) # 0 THEN 1 ELSE 0)
      /\ Angle(o) # 0 => c[1] = Rec("ANGLE", Angle(o))
  BY <1>1, <1>2, Tuples
<1>6. r = a \o b \o c
  BY <1>1 DEF OrientRecords
<1>7. /\ IsSeq(r) /\ Len(r) = Len(a) + Len(b) + Len(c)
      /\ \A i \in 1 .. Len(a) : r[i] = a[i]
      /\ \A i \in 1 .. Len(b) : r[Len(a) + i] = b[i]
      /\ \A i \in 1 .. Len(c) : r[Len(a) + Len(b) + i] = c[i]
  <2>1. LET x == a \o b \o c IN
        /\ IsSeq(x) /\ Len(x) = Len(a) + Len(b) + Len(c)
        /\ \A i \in 1 .. Len(a) : x[i] = a[i]
        /\ \A i \in 1 .. Len(b) : x[Len(a) + i] = b[i]
        /\ \A i \in 1 .. Len(c) : x[Len(a) + Len(b) + i] = c[i]
    <3>1. IsSeq(a) /\ IsSeq(b) /\ IsSeq(c)
      BY ONLY <1>3, <1>4, <1>5
    <3>. QED BY ONLY <3>1, ThreeParts
  <2>. QED BY ONLY <1>6, <2>1
<1>8. r[1] = Rec("STRANS", Mirrored(o))
  BY <1>3, <1>7
<1>9. mag => r[2] = Rec("MAG", None)
  <2>1. mag => 1 \in 1 .. Len(b) /\ Len(a) + 1 = 2
    BY ONLY <1>3, <1>4
  <2>. QED BY ONLY <1>4, <1>7, <2>1
<1>10. Angle(o) # 0 => r[Len(r)] = Rec("ANGLE", Angle(o))
  BY <1>3, <1>4, <1>5, <1>7
<1>. QED BY <1>3, <1>4, <1>5, <1>7, <1>8, <1>9, <1>10

\* The records recs stand at position q of the file, as far as it goes.
Shows(q, recs) == \A k \in 1 .. Len(recs) : q + k - 1 \in DOMAIN file => file[q + k - 1] = recs[k]

\* An orientation that was written is read back, up to the record after it.
LEMMA OrientRead ==
  ASSUME NEW o \in Orientation, NEW mag \in BOOLEAN, NEW r, r = OrientRecords(o, mag),
         NEW i \in Nat, \A k \in 1 .. Len(r) : i + k - 1 \in DOMAIN file /\ file[i + k - 1] = r[k],
         Type(i + Len(r)) \notin {"MAG", "ANGLE"}
  PROVE  OrientEnd(i) = i + Len(r) /\ OrientOK(i) /\ OrientAt(i) = o
<1>1. /\ IsSeq(r)
      /\ Len(r) = 1 + (IF mag THEN 1 ELSE 0) + (IF Angle(o) # 0 THEN 1 ELSE 0)
      /\ r[1] = Rec("STRANS", Mirrored(o))
      /\ mag => r[2] = Rec("MAG", None)
      /\ Angle(o) # 0 => r[Len(r)] = Rec("ANGLE", Angle(o))
  BY OrientParts
<1>2. Type(i) = "STRANS" /\ Val(i) = Mirrored(o)
  <2>1. 1 \in 1 .. Len(r) /\ i + 1 - 1 = i
    BY <1>1
  <2>. QED BY <1>1, <2>1 DEF Type, Val, Rec
<1>3. mag => Type(i + 1) = "MAG"
  <2>1. mag => 2 \in 1 .. Len(r) /\ i + 2 - 1 = i + 1
    BY <1>1
  <2>2. mag => i + 1 \in DOMAIN file /\ file[i + 1] = r[2]
    BY <2>1
  <2>3. mag => file[i + 1].type = "MAG"
    BY ONLY <1>1, <2>2 DEF Rec
  <2>. QED BY ONLY <2>2, <2>3 DEF Type
<1>4. Angle(o) # 0 => Type(i + Len(r) - 1) = "ANGLE" /\ Val(i + Len(r) - 1) = Angle(o)
  <2>1. Len(r) \in 1 .. Len(r)
    BY <1>1
  <2>. QED BY <1>1, <2>1 DEF Type, Val, Rec
<1>5. OrientEnd(i) = i + Len(r)
  <2>1. CASE mag /\ Angle(o) # 0
    BY <1>1, <1>3, <1>4, <2>1 DEF OrientEnd
  <2>2. CASE mag /\ Angle(o) = 0
    BY <1>1, <1>3, <2>2 DEF OrientEnd
  <2>3. CASE ~mag /\ Angle(o) # 0
    BY <1>1, <1>4, <2>3 DEF OrientEnd
  <2>4. CASE ~mag /\ Angle(o) = 0
    BY <1>1, <2>4 DEF OrientEnd
  <2>. QED BY <2>1, <2>2, <2>3, <2>4
<1>6. AngleAt(i) = Angle(o)
  <2>1. CASE Angle(o) # 0
    BY <1>4, <1>5, <2>1 DEF AngleAt
  <2>2. CASE Angle(o) = 0
    <3>1. Type(i + Len(r) - 1) # "ANGLE"
      <4>1. CASE mag
        BY <1>1, <1>3, <2>2, <4>1
      <4>2. CASE ~mag
        BY <1>1, <1>2, <2>2, <4>2
      <4>. QED BY <4>1, <4>2
    <3>. QED BY <1>5, <2>2, <3>1 DEF AngleAt
  <2>. QED BY <2>1, <2>2
<1>7. Angle(o) \in {0, 90, 180, 270}
  BY DEF Angle, Orientation
<1>8. OrientAt(i) = o
  BY <1>2, <1>6, OrientBack DEF OrientAt, Mirror
<1>. QED BY <1>2, <1>5, <1>6, <1>7, <1>8 DEF OrientOK

-----------------------------------------------------------------------------
(***************************************************************************)
(* Places and items.  A place is where a writer or a reader of a whole     *)
(* file is between two items: which structure, how many of its instances,  *)
(* which drawings.  An item is a run of records with the place before and  *)
(* the place after it: the header, the beginning or the end of a           *)
(* structure, an instance, a shape, a text, or the end of the library.  A  *)
(* story is a run of items that leads from one place to another.           *)
(***************************************************************************)

SourceOf(l, k) == Cellviews[l[k].cv]
OrderedList(l) ==
  \A i \in DOMAIN l : \A inst \in ToSet(SourceOf(l, i).insts) :
    \E j \in 1 .. i - 1 : l[j].cv = inst.master
MappedLabels(l) ==
  \A i \in DOMAIN l : \A label \in ToSet(SourceOf(l, i).labels) : ReverseLookup(LayerMap, label.key) # None

GoodRecs(recs) == IsSeq(recs) /\ \A r \in ToSet(recs) : IsRecord(r)

\* What an element draws: pairs of a layer of the file and the points of a polygon.
Drawing(gds, pts) == [gds |-> gds, pts |-> pts]
Drawn(gds, polys) == {Drawing(gds, ToSet(p)) : p \in polys}
OnLayer(key, polys) == IF Lookup(LayerMap, key) = None THEN {} ELSE Drawn(Lookup(LayerMap, key), polys)
Corners(boxes) == {BoxPoints(b) : b \in boxes}
GeoDrawings(geo) == OnLayer(geo.key, ToSet(geo.polys))
ViaDrawings(via) ==
  IF ViaMapped(via)
  THEN OnLayer(via.bot, Corners({via.bot_box})) \cup OnLayer(via.top, Corners({via.top_box}))
         \cup OnLayer(via.cut, Corners(ToSet(via.cuts)))
  ELSE {}
PinDrawings(pin) ==
  IF MakePin /\ Physical(pin.box) THEN OnLayer(<<pin.lay, PinPurpose>>, Corners({pin.box})) ELSE {}
BoundaryDrawings(bnd) ==
  IF Lookup(ObjectMap, bnd.type) = None THEN {} ELSE Drawn(Lookup(ObjectMap, bnd.type), {bnd.poly})
DrawingsOf(e) ==
  CASE e.kind = "geo" -> GeoDrawings(e.val) [] e.kind = "via" -> ViaDrawings(e.val)
    [] e.kind = "pin" -> PinDrawings(e.val) [] e.kind = "bnd" -> BoundaryDrawings(e.val)
    [] OTHER -> {}
DrawnBy(E, n) == UNION {DrawingsOf(E[i]) : i \in 1 .. n}
Drawings(cv) == DrawnBy(Elements(cv), Len(Elements(cv)))

\* Where a writer or a reader of the file is between two items: in the structure of number
\* k, after cnt of its instances, with these drawings drawn.
Place(at, k, cnt, drawn) == [at |-> at, k |-> k, cnt |-> cnt, drawn |-> drawn]
Start == Place("start", 1, 0, {})
InCell(k, cnt, drawn) == Place("cell", k, cnt, drawn)
Between(k) == Place("idle", k, 0, {})

\* The items of a file, from one place to the next.
IsHeader(t) == t.recs = FileHeader /\ t.from = Start /\ t.to = Between(1)
IsStruct(l, t) ==
  \E k \in DOMAIN l : /\ t.recs = StructBegin(l[k].name)
                      /\ t.from = Between(k) /\ t.to = InCell(k, 0, {})
IsShapeRecs(r, gds, pts) ==
  /\ IsSeq(r) /\ Len(r) = 5
  /\ \E xy \in Seq(Point) :
       /\ ToSet(xy) = pts
       /\ r[2] = Rec("LAYER", gds[1]) /\ r[4] = Rec("XY", xy) /\ r[5] = Rec("ENDEL", None)
       /\ \/ r[1] = Rec("BOX", None) /\ r[3] = Rec("BOXTYPE", gds[2]) /\ Len(xy) = 5
          \/ r[1] = Rec("BOUNDARY", None) /\ r[3] = Rec("DATATYPE", gds[2])
IsShape(l, t) ==
  \E k \in DOMAIN l, cnt \in Nat : \E gds, pts :
    /\ IsPair(gds) /\ IsShapeRecs(t.recs, gds, pts)
    /\ t.from.at = "cell" /\ t.from = InCell(k, cnt, t.from.drawn)
    /\ t.to = InCell(k, cnt, t.from.drawn \cup {Drawing(gds, pts)})
IsTextRecs(l, r) ==
  \E x \in Xform, mag \in BOOLEAN : \E gds, text :
    /\ r = TextRecords(gds, text, x, mag)
    /\ MappedLabels(l) => ReverseLookup(LayerMap, <<gds[1], gds[2]>>) # None
IsText(l, t) ==
  \E k \in DOMAIN l, cnt \in Nat :
    IsTextRecs(l, t.recs) /\ t.from = InCell(k, cnt, t.from.drawn) /\ t.to = t.from
InstRecs(ref, inst) ==
  Mark(IF IsArray(inst.n) THEN "AREF" ELSE "SREF") \o <<Rec("SNAME", ref)>>
    \o OrientRecords(inst.xform.orient, FALSE) \o PlaceRecords(inst)
    \o PropInstName(inst.name) \o Mark("ENDEL")
IsInst(l, t) ==
  \E k, cnt, ref :
    /\ k \in DOMAIN l /\ cnt \in Nat
    /\ cnt + 1 \in 1 .. Len(SourceOf(l, k).insts)
    /\ t.recs = InstRecs(ref, SourceOf(l, k).insts[cnt + 1])
    /\ OrderedList(l) => \E j \in 1 .. k - 1 : /\ l[j].cv = SourceOf(l, k).insts[cnt + 1].master
                                               /\ ref = l[j].name
    /\ t.from = InCell(k, cnt, t.from.drawn) /\ t.to = InCell(k, cnt + 1, t.from.drawn)
IsEndStruct(l, t) ==
  \E k \in DOMAIN l :
    /\ t.recs = Mark("ENDSTR")
    /\ t.from = InCell(k, Len(SourceOf(l, k).insts), Drawings(SourceOf(l, k)))
    /\ t.to = Between(k + 1)
IsEndLib(l, t) ==
  t.recs = Mark("ENDLIB") /\ t.from = Between(Len(l) + 1) /\ t.to = Place("done", Len(l) + 1, 0, {})

IsItem(l, t) ==
  /\ GoodRecs(t.recs)
  /\ \/ IsHeader(t) \/ IsStruct(l, t) \/ IsShape(l, t) \/ IsText(l, t) \/ IsInst(l, t)
     \/ IsEndStruct(l, t) \/ IsEndLib(l, t)

\* The records are those of items that lead from at[1] to the last place.
Tells(l, recs, items, start, at) ==
  /\ Laid(recs, items, start)
  /\ \A i \in 1 .. Len(items) : /\ IsItem(l, items[i])
                                /\ items[i].from = at[i] /\ items[i].to = at[i + 1]
Story(l, recs, a, b) ==
  \E items, start, at : Tells(l, recs, items, start, at) /\ at[1] = a /\ at[Len(items) + 1] = b

\* No records lead from a place to itself.
LEMMA StoryNone ==
  ASSUME NEW l, NEW a
  PROVE  Story(l, << >>, a, a)
<1>1. PICK start : Laid(<< >>, << >>, start)
  BY LaidNone DEF IsLaid
<1>2. PICK items, at : items = << >> /\ at = [i \in 1 .. 1 |-> a]
  OBVIOUS
<1>3. Len(items) = 0 /\ at[1] = a
  BY <1>2
<1>4. Tells(l, << >>, items, start, at)
  BY <1>1, <1>2, <1>3 DEF Tells
<1>. QED BY <1>3, <1>4 DEF Story

\* An item leads from the place before it to the one after it.
LEMMA StoryOne ==
  ASSUME NEW l, NEW item, IsItem(l, item)
  PROVE  Story(l, item.recs, item.from, item.to)
<1>0. IsSeq(item.recs)
  BY DEF IsItem, GoodRecs
<1>1. PICK start : Laid(item.recs, <<item>>, start)
  BY <1>0, LaidOne DEF IsLaid
<1>2. PICK items, at : items = <<item>> /\ at = [i \in 1 .. 2 |-> IF i = 1 THEN item.from ELSE item.to]
  OBVIOUS
<1>3. Len(items) = 1 /\ items[1] = item /\ at[1] = item.from /\ at[2] = item.to
  BY <1>2
<1>4. Tells(l, item.recs, items, start, at)
  <2>1. \A i \in 1 .. 1 : i = 1 /\ i + 1 = 2
    OBVIOUS
  <2>2. Laid(item.recs, items, start)
    BY <1>1, <1>2
  <2>. QED BY <1>3, <2>1, <2>2 DEF Tells
<1>5. 1 + 1 = 2
  OBVIOUS
<1>. QED BY <1>3, <1>4, <1>5 DEF Story

\* One story continues another.
LEMMA StoryConcat ==
  ASSUME NEW l, NEW r, NEW q, NEW a, NEW b, NEW c, Story(l, r, a, b), Story(l, q, b, c)
  PROVE  Story(l, r \o q, a, c)
<1>1. PICK items1, s1, at1 : Tells(l, r, items1, s1, at1) /\ at1[1] = a /\ at1[Len(items1) + 1] = b
  BY DEF Story
<1>2. PICK items2, s2, at2 : Tells(l, q, items2, s2, at2) /\ at2[1] = b /\ at2[Len(items2) + 1] = c
  BY DEF Story
<1>3. IsLaid(r \o q, items1 \o items2)
  BY <1>1, <1>2, LaidConcat DEF Tells, IsLaid
<1>4. PICK rq, items, start, m, n :
        rq = r \o q /\ items = items1 \o items2 /\ Laid(rq, items, start) /\ m = Len(items1) /\ n = Len(items2)
  BY <1>3 DEF IsLaid
<1>5. IsSeq(items1) /\ IsSeq(items2)
  BY <1>1, <1>2 DEF Tells, Laid
<1>6. m \in Nat /\ n \in Nat /\ Len(items) = m + n
      /\ (\A i \in 1 .. m : items[i] = items1[i]) /\ (\A i \in 1 .. n : items[m + i] = items2[i])
  BY <1>4, <1>5, SeqHas, ConcatOf
<1>. DEFINE at == [i \in 1 .. m + n + 1 |-> IF i <= m THEN at1[i] ELSE at2[i - m]]
<1>7. \A i \in 1 .. m + 1 : at[i] = at1[i]
  <2>1. \A i \in 1 .. m : at[i] = at1[i]
    BY <1>6
  <2>2. m + 1 \in 1 .. m + n + 1 /\ ~(m + 1 <= m) /\ (m + 1) - m = 1
    BY <1>6
  <2>3. at[m + 1] = at2[1]
    BY <2>2
  <2>4. \A i \in 1 .. m + 1 : i \in 1 .. m \/ i = m + 1
    BY <1>6
  <2>. QED BY <1>1, <1>2, <1>4, <2>1, <2>3, <2>4
<1>8. \A i \in 1 .. n + 1 : at[m + i] = at2[i]
  <2>1. \A i \in 1 .. n + 1 : m + i \in 1 .. m + n + 1 /\ ~(m + i <= m) /\ (m + i) - m = i
    BY <1>6
  <2>. QED BY <2>1
<1>. HIDE DEF at
<1>9. at[1] = a /\ at[m + n + 1] = c
  <2>1. 1 \in 1 .. m + 1 /\ n + 1 \in 1 .. n + 1 /\ m + (n + 1) = m + n + 1
    BY <1>6
  <2>. QED BY <1>1, <1>2, <1>4, <1>7, <1>8, <2>1
<1>10. ASSUME NEW i \in 1 .. m + n
       PROVE  IsItem(l, items[i]) /\ items[i].from = at[i] /\ items[i].to = at[i + 1]
  <2>1. CASE i \in 1 .. m
    <3>1. i \in 1 .. m + 1 /\ i + 1 \in 1 .. m + 1
      BY <1>6, <2>1
    <3>2. at[i] = at1[i] /\ at[i + 1] = at1[i + 1]
      BY <1>7, <3>1
    <3>. QED BY <1>1, <1>4, <1>6, <2>1, <3>2 DEF Tells
  <2>2. CASE i \notin 1 .. m
    <3>1. PICK j \in 1 .. n : i = m + j
      <4>1. i - m \in 1 .. n /\ i = m + (i - m)
        BY <1>6, <2>2
      <4>. QED BY <4>1
    <3>2. j \in 1 .. n + 1 /\ j + 1 \in 1 .. n + 1 /\ i + 1 = m + (j + 1)
      BY <1>6, <3>1
    <3>3. at[i] = at2[j] /\ at[i + 1] = at2[j + 1]
      BY <1>8, <3>1, <3>2
    <3>. QED BY <1>2, <1>4, <1>6, <3>1, <3>3 DEF Tells
  <2>. QED BY <2>1, <2>2
<1>11. Tells(l, rq, items, start, at)
  BY <1>4, <1>6, <1>10 DEF Tells
<1>. QED BY <1>4, <1>6, <1>9, <1>11 DEF Story

\* Every record belongs to an item.
LEMMA LaidCovers ==
  ASSUME NEW recs, NEW items, NEW start, Laid(recs, items, start), NEW p \in 1 .. Len(recs)
  PROVE  \E i \in 1 .. Len(items) : \E k \in 1 .. Len(items[i].recs) : p = start[i] + k - 1
<1>. DEFINE n == Len(items)
            Past == {i \in 1 .. n + 1 : p < start[i]}
<1>1. n \in Nat /\ Len(recs) \in Nat /\ \A i \in 1 .. n : Len(items[i].recs) \in Nat
  BY SeqHas DEF Laid
<1>2. start \in [1 .. n + 1 -> Nat] /\ start[1] = 1 /\ start[n + 1] = Len(recs) + 1
  BY DEF Laid
<1>. HIDE DEF n
<1>3. n + 1 \in Past /\ Past \subseteq Nat
  BY <1>1, <1>2
<1>4. PICK j \in Past : \A i \in Past : j <= i
  <2>. HIDE DEF Past
  <2>. QED BY <1>3, LeastElement
<1>5. j # 1 /\ j \in 1 .. n + 1
  BY <1>2
<1>6. PICK i \in 1 .. n : j = i + 1
  <2>1. j - 1 \in 1 .. n /\ j = (j - 1) + 1
    BY <1>1, <1>5
  <2>. QED BY <2>1
<1>7. i \notin Past /\ i \in 1 .. n + 1
  BY <1>1, <1>4, <1>6
<1>8. start[i] <= p /\ p < start[i + 1] /\ start[i] \in Nat /\ start[i + 1] = start[i] + Len(items[i].recs)
  <2>1. start[i + 1] = start[i] + Len(items[i].recs)
    BY DEF Laid, n
  <2>. QED BY <1>2, <1>4, <1>6, <1>7, <2>1
<1>9. p - start[i] + 1 \in 1 .. Len(items[i].recs) /\ p = start[i] + (p - start[i] + 1) - 1
  BY <1>1, <1>8
<1>. QED BY <1>9 DEF n

\* The records of a story are records that can be decoded.
LEMMA StoryGood ==
  ASSUME NEW l, NEW recs, NEW a, NEW b, Story(l, recs, a, b)
  PROVE  GoodRecs(recs)
<1>1. PICK items, start, at : Tells(l, recs, items, start, at)
  BY DEF Story
<1>2. Laid(recs, items, start) /\ IsSeq(recs)
  BY <1>1 DEF Tells, Laid
<1>3. ASSUME NEW r \in ToSet(recs) PROVE IsRecord(r)
  <2>1. PICK p \in 1 .. Len(recs) : r = recs[p]
    BY <1>2, SeqHas DEF ToSet
  <2>2. PICK i \in 1 .. Len(items) : \E k \in 1 .. Len(items[i].recs) : p = start[i] + k - 1
    BY ONLY <1>2, <2>1, LaidCovers, SMTT(20)
  <2>3. PICK k \in 1 .. Len(items[i].recs) : p = start[i] + k - 1
    BY <2>2
  <2>4. recs[p] = items[i].recs[k]
    BY <1>2, <2>3 DEF Laid
  <2>5. GoodRecs(items[i].recs)
    BY <1>1 DEF Tells, IsItem
  <2>6. items[i].recs[k] \in ToSet(items[i].recs)
    BY <2>5, SeqHas DEF GoodRecs
  <2>. QED BY <2>1, <2>4, <2>5, <2>6 DEF GoodRecs
<1>. QED BY <1>2, <1>3 DEF GoodRecs

-----------------------------------------------------------------------------
(***************************************************************************)
(* What each element writes is a story.                                    *)
(***************************************************************************)

\* Records that can be decoded.
LEMMA GoodOne ==
  ASSUME NEW x, IsRecord(x)
  PROVE  GoodRecs(<<x>>)
<1>1. ToSet(<<x>>) = {x}
  BY DEF ToSet
<1>. QED BY <1>1, Tuples DEF GoodRecs

LEMMA GoodConcat ==
  ASSUME NEW r, NEW q, GoodRecs(r), GoodRecs(q)
  PROVE  GoodRecs(r \o q)
BY ConcatOf DEF GoodRecs

LEMMA GoodRec ==
  /\ \A type, val : type \notin {"XY", "COLROW"} => IsRecord(Rec(type, val))
  /\ \A xy \in Seq(Point) : IsRecord(Rec("XY", xy))
  /\ \A n \in Counts : IsRecord(Rec("COLROW", n))
BY DEF Rec, IsRecord

LEMMA GoodMark ==
  ASSUME NEW type, type \notin {"XY", "COLROW"}
  PROVE  GoodRecs(Mark(type))
BY GoodRec, GoodOne DEF Mark

LEMMA GoodTuples ==
  /\ \A x, y : IsRecord(x) /\ IsRecord(y) => GoodRecs(<<x, y>>)
  /\ \A x, y, z : IsRecord(x) /\ IsRecord(y) /\ IsRecord(z) => GoodRecs(<<x, y, z>>)
<1>1. ASSUME NEW x, NEW y, IsRecord(x), IsRecord(y) PROVE GoodRecs(<<x, y>>)
  <2>1. ToSet(<<x, y>>) = {x, y}
    BY DEF ToSet
  <2>. QED BY <1>1, <2>1, Tuples DEF GoodRecs
<1>2. ASSUME NEW x, NEW y, NEW z, IsRecord(x), IsRecord(y), IsRecord(z) PROVE GoodRecs(<<x, y, z>>)
  <2>1. ToSet(<<x, y, z>>) = {x, y, z}
    BY DEF ToSet
  <2>. QED BY <1>2, <2>1, Tuples DEF GoodRecs
<1>. QED BY <1>1, <1>2

LEMMA GoodOrient ==
  ASSUME NEW o, NEW mag \in BOOLEAN
  PROVE  GoodRecs(OrientRecords(o, mag))
<1>1. GoodRecs(<< >>)
  BY DEF GoodRecs, IsSeq, ToSet
<1>2. GoodRecs(<<Rec("STRANS", Mirrored(o))>>)
  BY GoodRec, GoodOne
<1>3. GoodRecs(IF mag THEN Mark("MAG") ELSE << >>)
  BY <1>1, GoodMark
<1>4. GoodRecs(IF Angle(o) # 0 THEN <<Rec("ANGLE", Angle(o))>> ELSE << >>)
  BY <1>1, GoodRec, GoodOne
<1>. QED BY <1>2, <1>3, <1>4, GoodConcat DEF OrientRecords

\* The points of a polygon or of a box, with the first one again at the end.
LEMMA Closed ==
  ASSUME NEW poly, IsPolygon(poly)
  PROVE  LET xy == Append(poly, poly[1]) IN
         xy \in Seq(Point) /\ ToSet(xy) = ToSet(poly) /\ Len(xy) = Len(poly) + 1 /\ ToSet(poly) # {}
<1>0. PICK xy : xy = Append(poly, poly[1])
  OBVIOUS
<1>1. poly \in Seq(Point) /\ Len(poly) \in Nat /\ Len(poly) # 0 /\ DOMAIN poly = 1 .. Len(poly)
  BY EmptySeq DEF IsPolygon
<1>2. poly[1] \in Point /\ 1 \in 1 .. Len(poly)
  BY <1>1
<1>3. /\ xy \in Seq(Point) /\ Len(xy) = Len(poly) + 1
      /\ \A i \in 1 .. Len(poly) : xy[i] = poly[i]
      /\ xy[Len(poly) + 1] = poly[1]
  BY <1>0, <1>1, <1>2, AppendProperties
<1>4. DOMAIN xy = 1 .. Len(poly) + 1 /\ \A i \in 1 .. Len(poly) + 1 : i \in 1 .. Len(poly) \/ i = Len(poly) + 1
  BY <1>1, <1>3
<1>5. \A i \in 1 .. Len(poly) : i \in 1 .. Len(poly) + 1
  BY <1>1
<1>6. ToSet(xy) = ToSet(poly)
  BY <1>1, <1>2, <1>3, <1>4, <1>5 DEF ToSet
<1>7. ToSet(poly) # {}
  BY <1>1, <1>2 DEF ToSet
<1>. QED BY <1>0, <1>3, <1>6, <1>7

\* The five records of a shape.
LEMMA FiveRecs ==
  ASSUME NEW a, NEW b, NEW c, NEW d, NEW e
  PROVE  LET r == <<a>> \o <<b, c, d>> \o <<e>> IN
         IsSeq(r) /\ Len(r) = 5 /\ r[1] = a /\ r[2] = b /\ r[3] = c /\ r[4] = d /\ r[5] = e
<1>1. PICK x, y, z, r : x = <<a>> /\ y = <<b, c, d>> /\ z = <<e>> /\ r = <<a>> \o <<b, c, d>> \o <<e>>
  OBVIOUS
<1>2. /\ IsSeq(x) /\ IsSeq(y) /\ IsSeq(z) /\ Len(x) = 1 /\ Len(y) = 3 /\ Len(z) = 1
      /\ x[1] = a /\ y[1] = b /\ y[2] = c /\ y[3] = d /\ z[1] = e
  BY <1>1, Tuples
<1>3. r = x \o y \o z
  BY <1>1
<1>4. LET w == x \o y \o z IN
      /\ IsSeq(w) /\ Len(w) = Len(x) + Len(y) + Len(z)
      /\ \A i \in 1 .. Len(x) : w[i] = x[i]
      /\ \A i \in 1 .. Len(y) : w[Len(x) + i] = y[i]
      /\ \A i \in 1 .. Len(z) : w[Len(x) + Len(y) + i] = z[i]
  <2>1. IsSeq(x) /\ IsSeq(y) /\ IsSeq(z)
    BY <1>2
  <2>. QED BY ONLY <2>1, ThreeParts
<1>5. /\ IsSeq(r) /\ Len(r) = 5
      /\ \A i \in 1 .. 1 : r[i] = x[i]
      /\ \A i \in 1 .. 3 : r[1 + i] = y[i]
      /\ \A i \in 1 .. 1 : r[4 + i] = z[i]
  BY ONLY <1>2, <1>3, <1>4
<1>6. r[1] = x[1] /\ r[1 + 1] = y[1] /\ r[1 + 2] = y[2] /\ r[1 + 3] = y[3] /\ r[4 + 1] = z[1]
  BY ONLY <1>5
<1>7. IsSeq(r) /\ Len(r) = 5 /\ r[1] = a /\ r[2] = b /\ r[3] = c /\ r[4] = d /\ r[5] = e
  BY <1>2, <1>5, <1>6
<1>. QED BY ONLY <1>1, <1>7

\* A polygon and a box are written as the points they have, closed by the first one.
LEMMA PolygonShape ==
  ASSUME NEW gds, NEW poly, IsPolygon(poly)
  PROVE  IsShapeRecs(PolygonRecords(gds, poly), gds, ToSet(poly)) /\ GoodRecs(PolygonRecords(gds, poly))
<1>1. PICK r, xy : r = PolygonRecords(gds, poly) /\ xy = Append(poly, poly[1])
  OBVIOUS
<1>2. xy \in Seq(Point) /\ ToSet(xy) = ToSet(poly)
  BY <1>1, Closed
<1>3. r = <<Rec("BOUNDARY", None)>> \o <<Rec("LAYER", gds[1]), Rec("DATATYPE", gds[2]), Rec("XY", xy)>>
            \o <<Rec("ENDEL", None)>>
  BY <1>1 DEF PolygonRecords, Mark
<1>4. /\ IsSeq(r) /\ Len(r) = 5 /\ r[1] = Rec("BOUNDARY", None) /\ r[2] = Rec("LAYER", gds[1])
      /\ r[3] = Rec("DATATYPE", gds[2]) /\ r[4] = Rec("XY", xy) /\ r[5] = Rec("ENDEL", None)
  BY ONLY <1>3, FiveRecs
<1>5. IsShapeRecs(r, gds, ToSet(poly))
  BY <1>2, <1>4 DEF IsShapeRecs
<1>6. GoodRecs(r)
  <2>1. /\ IsRecord(Rec("LAYER", gds[1])) /\ IsRecord(Rec("DATATYPE", gds[2])) /\ IsRecord(Rec("XY", xy))
        /\ IsRecord(Rec("BOUNDARY", None)) /\ IsRecord(Rec("ENDEL", None))
    BY <1>2, GoodRec
  <2>. QED BY <1>3, <2>1, GoodOne, GoodTuples, GoodConcat
<1>. QED BY <1>1, <1>5, <1>6

LEMMA BoxShape ==
  ASSUME NEW gds, NEW b \in Rect
  PROVE  IsShapeRecs(BoxRecords(gds, b), gds, ToSet(BoxPoints(b))) /\ GoodRecs(BoxRecords(gds, b))
<1>1. PICK r, p, xy : r = BoxRecords(gds, b) /\ p = BoxPoints(b) /\ xy = Append(p, p[1])
  OBVIOUS
<1>2. p \in Seq(Point) /\ Len(p) = 4 /\ p[1] = b[1]
  BY <1>1 DEF BoxPoints, Rect, Point
<1>3. IsPolygon(p)
  <2>1. Len(<< >>) = 0
    OBVIOUS
  <2>. QED BY ONLY <1>2, <2>1, SMTT(20) DEF IsPolygon
<1>4. xy \in Seq(Point) /\ ToSet(xy) = ToSet(p) /\ Len(xy) = 5
  <2>1. LET q == Append(p, p[1]) IN
        q \in Seq(Point) /\ ToSet(q) = ToSet(p) /\ Len(q) = Len(p) + 1 /\ ToSet(p) # {}
    BY ONLY <1>3, Closed
  <2>2. xy = Append(p, p[1])
    BY <1>1
  <2>3. xy \in Seq(Point) /\ ToSet(xy) = ToSet(p) /\ Len(xy) = Len(p) + 1
    BY ONLY <2>1, <2>2
  <2>. QED BY ONLY <1>2, <2>3
<1>5. r = <<Rec("BOX", None)>> \o <<Rec("LAYER", gds[1]), Rec("BOXTYPE", gds[2]), Rec("XY", xy)>>
            \o <<Rec("ENDEL", None)>>
  BY <1>1, <1>2 DEF BoxRecords, Mark
<1>6. /\ IsSeq(r) /\ Len(r) = 5 /\ r[1] = Rec("BOX", None) /\ r[2] = Rec("LAYER", gds[1])
      /\ r[3] = Rec("BOXTYPE", gds[2]) /\ r[4] = Rec("XY", xy) /\ r[5] = Rec("ENDEL", None)
  BY ONLY <1>5, FiveRecs
<1>7. IsShapeRecs(r, gds, ToSet(p))
  BY <1>4, <1>6 DEF IsShapeRecs
<1>8. GoodRecs(r)
  <2>1. /\ IsRecord(Rec("LAYER", gds[1])) /\ IsRecord(Rec("BOXTYPE", gds[2])) /\ IsRecord(Rec("XY", xy))
        /\ IsRecord(Rec("BOX", None)) /\ IsRecord(Rec("ENDEL", None))
    BY <1>4, GoodRec
  <2>. QED BY <1>5, <2>1, GoodOne, GoodTuples, GoodConcat
<1>. QED BY <1>1, <1>7, <1>8

\* A shape adds its drawing.
LEMMA ShapeStory ==
  ASSUME NEW l, NEW k \in DOMAIN l, NEW cnt \in Nat, NEW drawn, NEW recs, NEW gds, NEW pts,
         IsPair(gds), IsShapeRecs(recs, gds, pts), GoodRecs(recs)
  PROVE  Story(l, recs, InCell(k, cnt, drawn), InCell(k, cnt, drawn \cup {Drawing(gds, pts)}))
<1>1. PICK t : t = [recs |-> recs, from |-> InCell(k, cnt, drawn),
                    to |-> InCell(k, cnt, drawn \cup {Drawing(gds, pts)})]
  OBVIOUS
<1>2. /\ t.recs = recs /\ t.from = InCell(k, cnt, drawn)
      /\ t.to = InCell(k, cnt, drawn \cup {Drawing(gds, pts)})
      /\ t.from.drawn = drawn /\ t.from.at = "cell"
  BY <1>1 DEF InCell, Place
<1>3. IsShape(l, t)
  BY <1>2 DEF IsShape
<1>4. IsItem(l, t)
  BY <1>2, <1>3 DEF IsItem
<1>. QED BY <1>2, <1>4, StoryOne

\* A sequence of polygons on one layer.
LEMMA ShapesStory ==
  ASSUME NEW l, NEW k \in DOMAIN l, NEW cnt \in Nat, NEW drawn, NEW gds, IsPair(gds),
         NEW n \in Nat, NEW parts, NEW pts, IsSeq(parts), Len(parts) = n,
         \A i \in 1 .. n : IsShapeRecs(parts[i], gds, pts[i]) /\ GoodRecs(parts[i])
  PROVE  Story(l, FlattenSeq(parts), InCell(k, cnt, drawn),
               InCell(k, cnt, drawn \cup {Drawing(gds, pts[i]) : i \in 1 .. n}))
<1>. DEFINE Sum(i) == drawn \cup {Drawing(gds, pts[j]) : j \in 1 .. i - 1}
            at == [i \in 1 .. n + 1 |-> InCell(k, cnt, Sum(i))]
            items == [i \in 1 .. n |-> [recs |-> parts[i], from |-> at[i], to |-> at[i + 1]]]
<1>1. IsSeq(items) /\ Len(items) = n
  <2>3. PICK f : f = items
    OBVIOUS
  <2>1. PICK S : S = {f[i] : i \in 1 .. n}
    OBVIOUS
  <2>2. f = [i \in 1 .. n |-> f[i]]
    BY <2>3
  <2>4. f = [i \in 1 .. n |-> f[i]] /\ \A i \in 1 .. n : f[i] \in S
    BY ONLY <2>1, <2>2
  <2>5. f \in Seq(S) /\ Len(f) = n
    BY ONLY <2>4, n \in Nat
  <2>. QED BY <2>3, <2>5, SeqTypes
<1>2. \A i \in 1 .. n : /\ items[i].recs = parts[i] /\ items[i].from = InCell(k, cnt, Sum(i))
                        /\ items[i].to = InCell(k, cnt, Sum(i + 1))
  <2>1. \A i \in 1 .. n : i \in 1 .. n + 1 /\ i + 1 \in 1 .. n + 1
    OBVIOUS
  <2>. HIDE DEF Sum
  <2>. QED BY <2>1
<1>3. ASSUME NEW i \in 1 .. n PROVE IsItem(l, items[i])
  <2>1. PICK t : t = items[i]
    OBVIOUS
  <2>2. Sum(i + 1) = Sum(i) \cup {Drawing(gds, pts[i])}
    <3>1. \A j \in 1 .. (i + 1) - 1 : j \in 1 .. i - 1 \/ j = i
      OBVIOUS
    <3>2. i \in 1 .. (i + 1) - 1 /\ \A j \in 1 .. i - 1 : j \in 1 .. (i + 1) - 1
      OBVIOUS
    <3>. QED BY <3>1, <3>2
  <2>3. PICK s : s = Sum(i)
    OBVIOUS
  <2>4. /\ t.recs = parts[i] /\ t.from = InCell(k, cnt, s) /\ t.to = InCell(k, cnt, s \cup {Drawing(gds, pts[i])})
    <3>. HIDE DEF Sum, items
    <3>. QED BY <1>2, <2>1, <2>2, <2>3
  <2>5. t.from.drawn = s /\ t.from.at = "cell"
    BY <2>4 DEF InCell, Place
  <2>6. IsShape(l, t)
    BY <2>4, <2>5 DEF IsShape
  <2>7. IsItem(l, t)
    BY <2>4, <2>6 DEF IsItem
  <2>. QED BY <2>1, <2>7
<1>4. PICK its, prts, a : its = items /\ prts = parts /\ a = at
  OBVIOUS
<1>5. prts = [i \in 1 .. Len(its) |-> its[i].recs]
  <2>1. prts \in Seq(ToSet(prts)) /\ Len(prts) = n
    BY <1>4 DEF IsSeq
  <2>2. prts = [i \in 1 .. n |-> prts[i]]
    BY <2>1
  <2>3. Len(its) = n /\ \A i \in 1 .. n : its[i].recs = prts[i]
    BY <1>1, <1>2, <1>4
  <2>. QED BY ONLY <2>2, <2>3
<1>6. IsLaid(FlattenSeq(prts), its)
  <2>1. IsSeq(its) /\ \A i \in 1 .. Len(its) : IsSeq(its[i].recs)
    <3>. HIDE DEF items
    <3>. QED BY <1>1, <1>2, <1>4 DEF GoodRecs
  <2>. QED BY ONLY <1>5, <2>1, FlatLaid
<1>7. PICK start : Laid(FlattenSeq(prts), its, start)
  BY <1>6 DEF IsLaid
<1>8. a[1] = InCell(k, cnt, drawn) /\ a[n + 1] = InCell(k, cnt, drawn \cup {Drawing(gds, pts[i]) : i \in 1 .. n})
  <2>1. Sum(1) = drawn /\ Sum(n + 1) = drawn \cup {Drawing(gds, pts[i]) : i \in 1 .. n}
    <3>1. 1 .. 1 - 1 = {} /\ (n + 1) - 1 = n
      OBVIOUS
    <3>. QED BY <3>1
  <2>2. 1 \in 1 .. n + 1 /\ n + 1 \in 1 .. n + 1
    OBVIOUS
  <2>. HIDE DEF Sum
  <2>. QED BY <1>4, <2>1, <2>2
<1>9. Tells(l, FlattenSeq(prts), its, start, a)
  <2>1. \A i \in 1 .. n : its[i].from = a[i] /\ its[i].to = a[i + 1]
    <3>1. \A i \in 1 .. n : i \in 1 .. n + 1 /\ i + 1 \in 1 .. n + 1
      OBVIOUS
    <3>. HIDE DEF Sum
    <3>. QED BY <1>4, <3>1
  <2>2. Len(its) = n
    BY <1>1, <1>4
  <2>3. \A i \in 1 .. n : IsItem(l, its[i])
    BY <1>3, <1>4
  <2>. QED BY ONLY <1>7, <2>1, <2>2, <2>3 DEF Tells
<1>10. Len(its) = n
  BY <1>1, <1>4
<1>. QED BY <1>4, <1>8, <1>9, <1>10 DEF Story

\* A text adds no drawing.
LEMMA TextStory ==
  ASSUME NEW l, NEW k \in DOMAIN l, NEW cnt \in Nat, NEW drawn,
         NEW gds, NEW text, NEW x \in Xform, NEW mag \in BOOLEAN,
         MappedLabels(l) => ReverseLookup(LayerMap, <<gds[1], gds[2]>>) # None
  PROVE  Story(l, TextRecords(gds, text, x, mag), InCell(k, cnt, drawn), InCell(k, cnt, drawn))
<1>1. PICK t : t = [recs |-> TextRecords(gds, text, x, mag), from |-> InCell(k, cnt, drawn), to |-> InCell(k, cnt, drawn)]
  OBVIOUS
<1>2. /\ t.recs = TextRecords(gds, text, x, mag) /\ t.from = InCell(k, cnt, drawn) /\ t.to = t.from
      /\ t.from.drawn = drawn
  BY <1>1 DEF InCell, Place
<1>3. IsText(l, t)
  <2>1. IsTextRecs(l, t.recs)
    BY <1>2 DEF IsTextRecs
  <2>2. t.from = InCell(k, cnt, t.from.drawn)
    BY <1>2
  <2>. QED BY <1>2, <2>1, <2>2 DEF IsText
<1>4. GoodRecs(t.recs)
  <2>1. x.loc \in Point
    BY DEF Xform
  <2>2. <<x.loc>> \in Seq(Point)
    BY <2>1
  <2>3. IsRecord(Rec("XY", <<x.loc>>)) /\ IsRecord(Rec("STRING", text))
    BY <2>2, GoodRec
  <2>4. IsRecord(Rec("LAYER", gds[1])) /\ IsRecord(Rec("TEXTTYPE", gds[2])) /\ IsRecord(Rec("PRESENTATION", None))
    BY GoodRec
  <2>5. PICK a, b, c, d, e :
          /\ a = Mark("TEXT") /\ b = <<Rec("LAYER", gds[1]), Rec("TEXTTYPE", gds[2]), Rec("PRESENTATION", None)>>
          /\ c = OrientRecords(x.orient, mag) /\ d = <<Rec("XY", <<x.loc>>), Rec("STRING", text)>> /\ e = Mark("ENDEL")
    OBVIOUS
  <2>6. GoodRecs(a) /\ GoodRecs(b) /\ GoodRecs(c) /\ GoodRecs(d) /\ GoodRecs(e)
    BY <2>3, <2>4, <2>5, GoodMark, GoodTuples, GoodOrient
  <2>7. GoodRecs(a \o b \o c \o d \o e)
    BY ONLY <2>6, GoodConcat
  <2>8. t.recs = a \o b \o c \o d \o e
    BY <1>2, <2>5 DEF TextRecords
  <2>. QED BY <2>7, <2>8
<1>5. IsItem(l, t)
  BY <1>3, <1>4 DEF IsItem
<1>. QED BY <1>2, <1>5, StoryOne

IsInstOf(inst) == inst.xform \in Xform /\ inst.n \in Counts /\ inst.sp \in Point

\* An array is written with its counts, exchanged when the axes are, and its origin.
LEMMA ArrayFacts ==
  ASSUME NEW inst, IsInstOf(inst),
         NEW arr, arr = ConvertArray(inst.xform, inst.n, inst.sp)
  PROVE  arr.n \in Counts /\ arr.n = Swapped(inst.xform.orient, inst.n)
         /\ ArrayPoints(inst.xform, arr) \in Seq(Point) /\ Len(ArrayPoints(inst.xform, arr)) = 3
         /\ ArrayPoints(inst.xform, arr)[1] = inst.xform.loc
<1>1. arr.n = Swapped(inst.xform.orient, inst.n) /\ arr.sp = Apply(InverseOf(inst.xform), inst.sp)
  BY DEF ConvertArray
<1>2. arr.n \in Counts /\ arr.n[1] \in Int /\ arr.n[2] \in Int
  BY <1>1 DEF IsInstOf, Counts, Swapped
<1>3. arr.sp \in Point /\ arr.sp[1] \in Int /\ arr.sp[2] \in Int
  <2>1. arr.sp \in Point
    BY <1>1, InverseXform, ApplyPoint DEF IsInstOf
  <2>. QED BY <2>1 DEF Point
<1>4. PICK u, v : u = arr.sp[1] * arr.n[1] /\ v = arr.sp[2] * arr.n[2] /\ u \in Int /\ v \in Int
  <2>1. \A i, j \in Int : i * j \in Int
    OBVIOUS
  <2>. QED BY <1>2, <1>3, <2>1
<1>5. <<u, 0>> \in Point /\ <<0, v>> \in Point
  BY <1>4 DEF Point
<1>6. Apply(inst.xform, <<u, 0>>) \in Point /\ Apply(inst.xform, <<0, v>>) \in Point /\ inst.xform.loc \in Point
  BY <1>5, ApplyPoint DEF IsInstOf, Xform
<1>7. PICK p, q, r : p = inst.xform.loc /\ q = Apply(inst.xform, <<u, 0>>) /\ r = Apply(inst.xform, <<0, v>>)
  OBVIOUS
<1>8. <<p, q, r>> \in Seq(Point) /\ Len(<<p, q, r>>) = 3 /\ <<p, q, r>>[1] = p
  <2>1. p \in Point /\ q \in Point /\ r \in Point
    BY <1>6, <1>7
  <2>. QED BY ONLY <2>1
<1>9. ArrayPoints(inst.xform, arr) = <<p, q, r>>
  BY <1>4, <1>7 DEF ArrayPoints
<1>. QED BY <1>1, <1>2, <1>7, <1>8, <1>9

\* The records of a place can be decoded.
LEMMA GoodPlace ==
  ASSUME NEW inst, IsInstOf(inst)
  PROVE  GoodRecs(PlaceRecords(inst))
<1>1. PICK arr : arr = ConvertArray(inst.xform, inst.n, inst.sp)
  OBVIOUS
<1>2. arr.n \in Counts /\ ArrayPoints(inst.xform, arr) \in Seq(Point)
  BY <1>1, ArrayFacts
<1>3. <<inst.xform.loc>> \in Seq(Point)
  <2>1. inst.xform.loc \in Point
    BY DEF IsInstOf, Xform
  <2>. QED BY <2>1
<1>4. IsRecord(Rec("COLROW", arr.n)) /\ IsRecord(Rec("XY", ArrayPoints(inst.xform, arr)))
      /\ IsRecord(Rec("XY", <<inst.xform.loc>>))
  BY <1>2, <1>3, GoodRec
<1>5. PICK a, b, c : a = Rec("COLROW", arr.n) /\ b = Rec("XY", ArrayPoints(inst.xform, arr)) /\ c = Rec("XY", <<inst.xform.loc>>)
  OBVIOUS
<1>6. GoodRecs(<<a, b>>) /\ GoodRecs(<<c>>)
  BY <1>4, <1>5, GoodOne, GoodTuples
<1>7. PlaceRecords(inst) = IF IsArray(inst.n) THEN <<a, b>> ELSE <<c>>
  BY <1>1, <1>5 DEF PlaceRecords
<1>. QED BY ONLY <1>6, <1>7

\* An instance adds one to the instances.
LEMMA InstStory ==
  ASSUME NEW l, NEW k \in DOMAIN l, NEW cnt \in Nat, NEW drawn, NEW ref,
         NEW inst, inst = SourceOf(l, k).insts[cnt + 1], IsInstOf(inst),
         cnt + 1 \in 1 .. Len(SourceOf(l, k).insts),
         OrderedList(l) => \E j \in 1 .. k - 1 : l[j].cv = inst.master /\ ref = l[j].name
  PROVE  Story(l, InstRecs(ref, inst), InCell(k, cnt, drawn), InCell(k, cnt + 1, drawn))
<1>1. PICK t : t = [recs |-> InstRecs(ref, inst), from |-> InCell(k, cnt, drawn), to |-> InCell(k, cnt + 1, drawn)]
  OBVIOUS
<1>2. /\ t.recs = InstRecs(ref, inst) /\ t.from = InCell(k, cnt, drawn) /\ t.to = InCell(k, cnt + 1, drawn)
      /\ t.from.drawn = drawn
  BY <1>1 DEF InCell, Place
<1>3. IsInst(l, t)
  BY <1>2 DEF IsInst
<1>4. GoodRecs(t.recs)
  <2>1. PICK a, b, c, d, e, f :
          /\ a = Mark(IF IsArray(inst.n) THEN "AREF" ELSE "SREF") /\ b = <<Rec("SNAME", ref)>>
          /\ c = OrientRecords(inst.xform.orient, FALSE) /\ d = PlaceRecords(inst)
          /\ e = PropInstName(inst.name) /\ f = Mark("ENDEL")
    OBVIOUS
  <2>2. GoodRecs(a) /\ GoodRecs(f)
    BY <2>1, GoodMark
  <2>3. GoodRecs(b)
    BY <2>1, GoodRec, GoodOne
  <2>4. GoodRecs(c) /\ GoodRecs(d)
    BY <2>1, GoodOrient, GoodPlace
  <2>5. GoodRecs(e)
    <3>1. IsRecord(Rec("PROPATTR", "inst_name")) /\ IsRecord(Rec("PROPVALUE", inst.name))
      BY GoodRec
    <3>. QED BY <2>1, <3>1, GoodTuples DEF PropInstName
  <2>6. GoodRecs(a \o b \o c \o d \o e \o f)
    BY ONLY <2>2, <2>3, <2>4, <2>5, GoodConcat
  <2>7. t.recs = a \o b \o c \o d \o e \o f
    BY <1>2, <2>1 DEF InstRecs
  <2>. QED BY <2>6, <2>7
<1>5. IsItem(l, t)
  BY <1>3, <1>4 DEF IsItem
<1>. QED BY <1>2, <1>5, StoryOne

\* The elements of a layout: its instances, and then elements of the set T.
Begins(x, A, T) ==
  /\ IsSeq(x) /\ Len(A) \in Nat /\ Len(A) <= Len(x)
  /\ \A i \in 1 .. Len(A) : x[i] = A[i]
  /\ \A i \in 1 .. Len(x) : i > Len(A) => x[i] \in T
  /\ ToSet(x) = ToSet(A) \cup T

\* What begins with the instances still does with more elements after them.
LEMMA BeginsMore ==
  ASSUME NEW x, NEW A, NEW T, Begins(x, A, T), NEW y, IsSeq(y)
  PROVE  Begins(x \o y, A, T \cup ToSet(y))
<1>1. PICK z : z = x \o y
  OBVIOUS
<1>2. /\ IsSeq(z) /\ Len(z) = Len(x) + Len(y)
      /\ \A i \in 1 .. Len(x) : z[i] = x[i]
      /\ \A i \in 1 .. Len(y) : z[Len(x) + i] = y[i]
      /\ ToSet(z) = ToSet(x) \cup ToSet(y)
  BY <1>1, ConcatOf DEF Begins
<1>3. Len(x) \in Nat /\ Len(y) \in Nat /\ Len(A) \in Nat /\ Len(A) <= Len(x)
      /\ \A i \in 1 .. Len(y) : y[i] \in ToSet(y)
  BY SeqHas DEF Begins
<1>4. \A i \in 1 .. Len(A) : z[i] = A[i]
  <2>1. \A i \in 1 .. Len(A) : i \in 1 .. Len(x)
    BY <1>3
  <2>. QED BY <1>2, <2>1 DEF Begins
<1>5. ASSUME NEW i \in 1 .. Len(z), i > Len(A) PROVE z[i] \in T \cup ToSet(y)
  <2>1. CASE i <= Len(x)
    <3>1. i \in 1 .. Len(x)
      BY <1>2, <1>3, <2>1
    <3>. QED BY <1>2, <1>5, <3>1 DEF Begins
  <2>2. CASE ~(i <= Len(x))
    <3>1. i - Len(x) \in 1 .. Len(y) /\ i = Len(x) + (i - Len(x))
      BY <1>2, <1>3, <2>2
    <3>2. z[i] = y[i - Len(x)]
      BY <1>2, <3>1
    <3>. QED BY <1>3, <3>1, <3>2
  <2>. QED BY <2>1, <2>2
<1>6. ToSet(z) = ToSet(A) \cup (T \cup ToSet(y))
  BY <1>2 DEF Begins
<1>7. Len(A) <= Len(z)
  BY <1>2, <1>3
<1>. QED BY <1>1, <1>2, <1>3, <1>4, <1>5, <1>6, <1>7 DEF Begins

ElemSet(kind, s) == {Elem(kind, x) : x \in ToSet(s)}

\* The elements of one kind.
LEMMA ElemsFacts ==
  ASSUME NEW s, IsSeq(s), NEW kind
  PROVE  LET E == Elems(kind, s) IN
         /\ IsSeq(E) /\ Len(E) = Len(s) /\ ToSet(E) = ElemSet(kind, s)
         /\ \A i \in 1 .. Len(s) : E[i] = Elem(kind, s[i])
<1>1. PICK E, n : E = Elems(kind, s) /\ n = Len(s)
  OBVIOUS
<1>2. n \in Nat /\ DOMAIN s = 1 .. n
  BY <1>1, SeqHas
<1>3. E = [i \in 1 .. n |-> Elem(kind, s[i])]
  BY <1>1, <1>2 DEF Elems
<1>4. ToSet(E) = ElemSet(kind, s)
  BY <1>2, <1>3 DEF ToSet, ElemSet
<1>5. E \in Seq(ElemSet(kind, s)) /\ Len(E) = n
  <2>1. \A i \in 1 .. n : Elem(kind, s[i]) \in ElemSet(kind, s)
    BY <1>2 DEF ElemSet, ToSet
  <2>2. PICK T : T = ElemSet(kind, s)
    OBVIOUS
  <2>3. \A i \in 1 .. n : E[i] \in T
    BY <1>3, <2>1, <2>2
  <2>4. DOMAIN E = 1 .. n /\ E = [i \in 1 .. n |-> E[i]]
    BY <1>3
  <2>5. E \in Seq(T) /\ Len(E) = n
    BY ONLY <1>2, <2>3, <2>4
  <2>. QED BY <2>2, <2>5
<1>6. IsSeq(E)
  BY <1>5, SeqTypes
<1>. QED BY <1>1, <1>3, <1>4, <1>5, <1>6

OtherElems(cv) ==
  ElemSet("geo", cv.geos) \cup ElemSet("via", cv.vias) \cup ElemSet("pin", cv.pins)
    \cup ElemSet("label", cv.labels) \cup ElemSet("bnd", cv.bnds)

\* The elements of a cellview: its instances, then the others.
LEMMA ElementsFacts ==
  ASSUME NEW cv, IsLayout(cv)
  PROVE  LET E == Elements(cv) IN
         /\ IsSeq(E) /\ Len(E) \in Nat /\ Len(cv.insts) \in Nat /\ Len(cv.insts) <= Len(E)
         /\ \A i \in 1 .. Len(cv.insts) : E[i] = Elem("inst", cv.insts[i])
         /\ \A i \in 1 .. Len(E) : i > Len(cv.insts) => E[i] \in OtherElems(cv)
         /\ ToSet(E) = ElemSet("inst", cv.insts) \cup OtherElems(cv)
<1>1. PICK A, a2, a3, a4, a5, a6 :
        /\ A = Elems("inst", cv.insts) /\ a2 = Elems("geo", cv.geos) /\ a3 = Elems("via", cv.vias)
        /\ a4 = Elems("pin", cv.pins) /\ a5 = Elems("label", cv.labels) /\ a6 = Elems("bnd", cv.bnds)
  OBVIOUS
<1>2. IsSeq(cv.insts) /\ IsSeq(cv.geos) /\ IsSeq(cv.vias) /\ IsSeq(cv.pins) /\ IsSeq(cv.labels) /\ IsSeq(cv.bnds)
  BY DEF IsLayout
<1>3. /\ IsSeq(A) /\ IsSeq(a2) /\ IsSeq(a3) /\ IsSeq(a4) /\ IsSeq(a5) /\ IsSeq(a6)
      /\ Len(A) = Len(cv.insts) /\ ToSet(A) = ElemSet("inst", cv.insts)
      /\ \A i \in 1 .. Len(cv.insts) : A[i] = Elem("inst", cv.insts[i])
      /\ ToSet(a2) = ElemSet("geo", cv.geos) /\ ToSet(a3) = ElemSet("via", cv.vias)
      /\ ToSet(a4) = ElemSet("pin", cv.pins) /\ ToSet(a5) = ElemSet("label", cv.labels)
      /\ ToSet(a6) = ElemSet("bnd", cv.bnds)
  BY ONLY <1>1, <1>2, ElemsFacts
<1>4. Len(A) \in Nat
  BY <1>3, SeqHas
<1>5. Begins(A, A, {})
  BY ONLY <1>3, <1>4 DEF Begins
<1>6. PICK x2, x3, x4, x5, x6 :
        x2 = A \o a2 /\ x3 = x2 \o a3 /\ x4 = x3 \o a4 /\ x5 = x4 \o a5 /\ x6 = x5 \o a6
  OBVIOUS
<1>7. Begins(x2, A, {} \cup ToSet(a2))
  BY ONLY <1>3, <1>5, <1>6, BeginsMore
<1>8. Begins(x3, A, {} \cup ToSet(a2) \cup ToSet(a3))
  BY ONLY <1>3, <1>6, <1>7, BeginsMore
<1>9. Begins(x4, A, {} \cup ToSet(a2) \cup ToSet(a3) \cup ToSet(a4))
  BY ONLY <1>3, <1>6, <1>8, BeginsMore
<1>10. Begins(x5, A, {} \cup ToSet(a2) \cup ToSet(a3) \cup ToSet(a4) \cup ToSet(a5))
  BY ONLY <1>3, <1>6, <1>9, BeginsMore
<1>11. Begins(x6, A, {} \cup ToSet(a2) \cup ToSet(a3) \cup ToSet(a4) \cup ToSet(a5) \cup ToSet(a6))
  BY ONLY <1>3, <1>6, <1>10, BeginsMore
<1>12. {} \cup ToSet(a2) \cup ToSet(a3) \cup ToSet(a4) \cup ToSet(a5) \cup ToSet(a6) = OtherElems(cv)
  BY <1>3 DEF OtherElems
<1>13. Begins(x6, A, OtherElems(cv))
  BY <1>11, <1>12
<1>14. x6 = Elements(cv)
  BY <1>1, <1>6 DEF Elements
<1>15. Len(x6) \in Nat
  BY <1>13, SeqHas DEF Begins
<1>. QED BY ONLY <1>3, <1>13, <1>14, <1>15 DEF Begins

\* The first of some numbers.
LEMMA FirstIs ==
  ASSUME NEW S, S \subseteq Nat, S # {}
  PROVE  FirstOf(S) \in S /\ \A j \in S : FirstOf(S) <= j
<1>1. \E i \in S : \A j \in S : i <= j
  BY LeastElement
<1>. QED BY <1>1 DEF FirstOf

\* What a map finds is a layer of the file that some line brings back.
LEMMA LookupFacts ==
  ASSUME NEW lines, IsMap(lines)
  PROVE  /\ \A key : LET gds == Lookup(lines, key) IN
              gds # None => IsPair(gds) /\ ReverseLookup(lines, gds) # None
         /\ \A gds : LET key == ReverseLookup(lines, gds) IN
              key # None => \E line \in ToSet(lines) : line.obj = key
<1>1. DOMAIN lines = 1 .. Len(lines) /\ Len(lines) \in Nat /\ \A i \in 1 .. Len(lines) : lines[i] \in ToSet(lines)
  BY SeqHas DEF IsMap
<1>2. ASSUME NEW key, NEW gds, gds = Lookup(lines, key), gds # None
      PROVE  IsPair(gds) /\ ReverseLookup(lines, gds) # None
  <2>1. PICK found : found = {i \in DOMAIN lines : lines[i].obj = key}
    OBVIOUS
  <2>2. found # {} /\ gds = lines[FirstOf(found)].gds
    BY <1>2, <2>1 DEF Lookup
  <2>3. found \subseteq Nat /\ found \subseteq DOMAIN lines
    BY <1>1, <2>1
  <2>4. FirstOf(found) \in DOMAIN lines
    BY <2>2, <2>3, FirstIs
  <2>5. IsPair(gds)
    BY <1>1, <2>2, <2>4 DEF IsMap
  <2>6. PICK back : back = {i \in DOMAIN lines : lines[i].gds = gds}
    OBVIOUS
  <2>7. back # {} /\ back \subseteq Nat /\ back \subseteq DOMAIN lines
    BY <1>1, <2>2, <2>4, <2>6
  <2>8. FirstOf(back) \in DOMAIN lines
    BY <2>7, FirstIs
  <2>9. lines[FirstOf(back)].obj # None
    BY <1>1, <2>8 DEF IsMap
  <2>10. ReverseLookup(lines, gds) = lines[FirstOf(back)].obj
    BY <2>6, <2>7 DEF ReverseLookup
  <2>. QED BY <2>5, <2>9, <2>10
<1>3. ASSUME NEW gds, NEW key, key = ReverseLookup(lines, gds), key # None
      PROVE  \E line \in ToSet(lines) : line.obj = key
  <2>1. PICK found : found = {i \in DOMAIN lines : lines[i].gds = gds}
    OBVIOUS
  <2>2. found # {} /\ key = lines[FirstOf(found)].obj
    BY <1>3, <2>1 DEF ReverseLookup
  <2>3. found \subseteq Nat /\ found \subseteq DOMAIN lines
    BY <1>1, <2>1
  <2>4. FirstOf(found) \in DOMAIN lines
    BY <2>2, <2>3, FirstIs
  <2>. QED BY <1>1, <2>2, <2>4
<1>. QED BY <1>2, <1>3

\* So it is for the two maps.
LEMMA MapFacts ==
  /\ \A key : LET gds == Lookup(LayerMap, key) IN
        gds # None => IsPair(gds) /\ gds = <<gds[1], gds[2]>> /\ ReverseLookup(LayerMap, gds) # None
  /\ \A type : LET gds == Lookup(ObjectMap, type) IN gds # None => IsPair(gds)
<1>1. IsMap(LayerMap) /\ IsMap(ObjectMap)
  BY GdsAssumption
<1>2. ASSUME NEW gds, IsPair(gds) PROVE gds = <<gds[1], gds[2]>>
  BY <1>2 DEF IsPair
<1>. QED BY <1>1, <1>2, LookupFacts

\* A function on the numbers up to n is a sequence.
LEMMA FunIsSeq ==
  ASSUME NEW n \in Nat, NEW f, f = [i \in 1 .. n |-> f[i]]
  PROVE  IsSeq(f) /\ Len(f) = n
<1>1. PICK S : S = {f[i] : i \in 1 .. n}
  OBVIOUS
<1>2. \A i \in 1 .. n : f[i] \in S
  BY <1>1
<1>3. f \in Seq(S) /\ Len(f) = n
  BY ONLY <1>2, f = [i \in 1 .. n |-> f[i]], n \in Nat
<1>. QED BY <1>3, SeqTypes

\* What an element that is not an instance writes draws what the element draws.
LEMMA PolygonsStory ==
  ASSUME NEW l, NEW k \in DOMAIN l, NEW cnt \in Nat, NEW drawn, NEW gds, IsPair(gds),
         NEW polys, IsSeq(polys), \A poly \in ToSet(polys) : IsPolygon(poly)
  PROVE  Story(l, FlattenSeq([i \in DOMAIN polys |-> PolygonRecords(gds, polys[i])]),
               InCell(k, cnt, drawn), InCell(k, cnt, drawn \cup Drawn(gds, ToSet(polys))))
<1>1. PICK n, parts, pts : /\ n = Len(polys) /\ parts = [i \in DOMAIN polys |-> PolygonRecords(gds, polys[i])]
                           /\ pts = [i \in DOMAIN polys |-> ToSet(polys[i])]
  OBVIOUS
<1>2. n \in Nat /\ DOMAIN polys = 1 .. n /\ \A i \in 1 .. n : polys[i] \in ToSet(polys)
  BY <1>1, SeqHas
<1>3. parts = [i \in 1 .. n |-> parts[i]]
  BY <1>1, <1>2
<1>4. IsSeq(parts) /\ Len(parts) = n
  BY ONLY <1>2, <1>3, FunIsSeq
<1>5. ASSUME NEW i \in 1 .. n PROVE IsShapeRecs(parts[i], gds, pts[i]) /\ GoodRecs(parts[i])
  <2>1. parts[i] = PolygonRecords(gds, polys[i]) /\ pts[i] = ToSet(polys[i]) /\ IsPolygon(polys[i])
    BY <1>1, <1>2
  <2>. QED BY <2>1, PolygonShape
<1>6. Drawn(gds, ToSet(polys)) = {Drawing(gds, pts[i]) : i \in 1 .. n}
  <2>1. \A i \in 1 .. n : pts[i] = ToSet(polys[i])
    BY <1>1, <1>2
  <2>2. ToSet(polys) = {polys[i] : i \in 1 .. n}
    BY <1>2 DEF ToSet
  <2>3. Drawn(gds, ToSet(polys)) = {Drawing(gds, ToSet(polys[i])) : i \in 1 .. n}
    BY <2>2 DEF Drawn
  <2>. QED BY ONLY <2>1, <2>3
<1>7. Story(l, FlattenSeq(parts), InCell(k, cnt, drawn),
            InCell(k, cnt, drawn \cup {Drawing(gds, pts[i]) : i \in 1 .. n}))
  BY <1>2, <1>4, <1>5, ShapesStory
<1>. QED BY <1>1, <1>6, <1>7

\* So do the boxes of the cuts of a via.
LEMMA BoxesStory ==
  ASSUME NEW l, NEW k \in DOMAIN l, NEW cnt \in Nat, NEW drawn, NEW gds, IsPair(gds),
         NEW boxes \in Seq(Rect)
  PROVE  Story(l, FlattenSeq([i \in DOMAIN boxes |-> BoxRecords(gds, boxes[i])]),
               InCell(k, cnt, drawn), InCell(k, cnt, drawn \cup Drawn(gds, Corners(ToSet(boxes)))))
<1>1. PICK n, parts, pts : /\ n = Len(boxes) /\ parts = [i \in DOMAIN boxes |-> BoxRecords(gds, boxes[i])]
                           /\ pts = [i \in DOMAIN boxes |-> ToSet(BoxPoints(boxes[i]))]
  OBVIOUS
<1>2. n \in Nat /\ DOMAIN boxes = 1 .. n /\ \A i \in 1 .. n : boxes[i] \in Rect
  BY <1>1
<1>3. parts = [i \in 1 .. n |-> parts[i]]
  BY <1>1, <1>2
<1>4. IsSeq(parts) /\ Len(parts) = n
  BY ONLY <1>2, <1>3, FunIsSeq
<1>5. ASSUME NEW i \in 1 .. n PROVE IsShapeRecs(parts[i], gds, pts[i]) /\ GoodRecs(parts[i])
  <2>1. parts[i] = BoxRecords(gds, boxes[i]) /\ pts[i] = ToSet(BoxPoints(boxes[i])) /\ boxes[i] \in Rect
    BY <1>1, <1>2
  <2>. QED BY <2>1, BoxShape
<1>6. Drawn(gds, Corners(ToSet(boxes))) = {Drawing(gds, pts[i]) : i \in 1 .. n}
  <2>1. \A i \in 1 .. n : pts[i] = ToSet(BoxPoints(boxes[i]))
    BY <1>1, <1>2
  <2>2. ToSet(boxes) = {boxes[i] : i \in 1 .. n}
    BY <1>2 DEF ToSet
  <2>3. Drawn(gds, Corners(ToSet(boxes))) = {Drawing(gds, ToSet(BoxPoints(boxes[i]))) : i \in 1 .. n}
    BY <2>2 DEF Drawn, Corners
  <2>. QED BY ONLY <2>1, <2>3
<1>7. Story(l, FlattenSeq(parts), InCell(k, cnt, drawn),
            InCell(k, cnt, drawn \cup {Drawing(gds, pts[i]) : i \in 1 .. n}))
  BY <1>2, <1>4, <1>5, ShapesStory
<1>. QED BY <1>1, <1>6, <1>7

\* One box.
LEMMA BoxStory ==
  ASSUME NEW l, NEW k \in DOMAIN l, NEW cnt \in Nat, NEW drawn, NEW gds, IsPair(gds), NEW b \in Rect
  PROVE  Story(l, BoxRecords(gds, b), InCell(k, cnt, drawn), InCell(k, cnt, drawn \cup Drawn(gds, Corners({b}))))
<1>1. Story(l, BoxRecords(gds, b), InCell(k, cnt, drawn), InCell(k, cnt, drawn \cup {Drawing(gds, ToSet(BoxPoints(b)))}))
  BY BoxShape, ShapeStory
<1>2. Drawn(gds, Corners({b})) = {Drawing(gds, ToSet(BoxPoints(b)))}
  BY DEF Drawn, Corners
<1>. QED BY <1>1, <1>2

\* A geometry draws its polygons, or nothing when its layer has no line in the map.
LEMMA GeoStory ==
  ASSUME NEW l, NEW k \in DOMAIN l, NEW cnt \in Nat, NEW drawn,
         NEW geo, IsSeq(geo.polys), \A poly \in ToSet(geo.polys) : IsPolygon(poly)
  PROVE  Story(l, GeoRecords(geo), InCell(k, cnt, drawn), InCell(k, cnt, drawn \cup GeoDrawings(geo)))
<1>1. PICK gds : gds = Lookup(LayerMap, geo.key)
  OBVIOUS
<1>2. CASE gds = None
  <2>1. GeoRecords(geo) = << >> /\ GeoDrawings(geo) = {} /\ drawn \cup {} = drawn
    BY <1>1, <1>2 DEF GeoRecords, GeoDrawings, OnLayer
  <2>2. Story(l, << >>, InCell(k, cnt, drawn), InCell(k, cnt, drawn))
    BY StoryNone
  <2>. QED BY <2>1, <2>2
<1>3. CASE gds # None
  <2>1. IsPair(gds)
    BY <1>1, <1>3, MapFacts
  <2>2. /\ GeoRecords(geo) = FlattenSeq([i \in DOMAIN geo.polys |-> PolygonRecords(gds, geo.polys[i])])
        /\ GeoDrawings(geo) = Drawn(gds, ToSet(geo.polys))
    BY <1>1, <1>3 DEF GeoRecords, GeoDrawings, OnLayer, Concat
  <2>. QED BY <2>1, <2>2, PolygonsStory
<1>. QED BY <1>2, <1>3

\* A via draws its three layers or none of them.
LEMMA ViaStory ==
  ASSUME NEW l, NEW k \in DOMAIN l, NEW cnt \in Nat, NEW drawn,
         NEW via, via.bot_box \in Rect, via.top_box \in Rect, via.cuts \in Seq(Rect)
  PROVE  Story(l, ViaRecords(via), InCell(k, cnt, drawn), InCell(k, cnt, drawn \cup ViaDrawings(via)))
<1>1. CASE ~ViaMapped(via)
  <2>1. ViaRecords(via) = << >> /\ ViaDrawings(via) = {} /\ drawn \cup {} = drawn
    BY <1>1 DEF ViaRecords, ViaDrawings
  <2>2. Story(l, << >>, InCell(k, cnt, drawn), InCell(k, cnt, drawn))
    BY StoryNone
  <2>. QED BY <2>1, <2>2
<1>2. CASE ViaMapped(via)
  <2>1. PICK b, t, c : /\ b = Lookup(LayerMap, via.bot) /\ t = Lookup(LayerMap, via.top)
                       /\ c = Lookup(LayerMap, via.cut)
    OBVIOUS
  <2>2. b # None /\ t # None /\ c # None
    BY <1>2, <2>1 DEF ViaMapped
  <2>3. IsPair(b) /\ IsPair(t) /\ IsPair(c)
    BY <2>1, <2>2, MapFacts
  <2>4. PICK D1, D2, D3 : /\ D1 = drawn \cup Drawn(b, Corners({via.bot_box}))
                          /\ D2 = D1 \cup Drawn(t, Corners({via.top_box}))
                          /\ D3 = D2 \cup Drawn(c, Corners(ToSet(via.cuts)))
    OBVIOUS
  <2>5. PICK r1, r2, r3 : /\ r1 = BoxRecords(b, via.bot_box) /\ r2 = BoxRecords(t, via.top_box)
                          /\ r3 = FlattenSeq([i \in DOMAIN via.cuts |-> BoxRecords(c, via.cuts[i])])
    OBVIOUS
  <2>6. Story(l, r1, InCell(k, cnt, drawn), InCell(k, cnt, D1))
    BY <2>3, <2>4, <2>5, BoxStory
  <2>7. Story(l, r2, InCell(k, cnt, D1), InCell(k, cnt, D2))
    BY <2>3, <2>4, <2>5, BoxStory
  <2>8. Story(l, r3, InCell(k, cnt, D2), InCell(k, cnt, D3))
    BY <2>3, <2>4, <2>5, BoxesStory
  <2>9. Story(l, r1 \o r2 \o r3, InCell(k, cnt, drawn), InCell(k, cnt, D3))
    BY ONLY <2>6, <2>7, <2>8, StoryConcat
  <2>10. ViaRecords(via) = r1 \o r2 \o r3
    BY <1>2, <2>1, <2>5 DEF ViaRecords, Concat
  <2>11. D3 = drawn \cup ViaDrawings(via)
    BY <1>2, <2>1, <2>2, <2>4 DEF ViaDrawings, OnLayer
  <2>. QED BY <2>9, <2>10, <2>11
<1>. QED BY <1>1, <1>2

\* A pin is a text, and a box when the technology says so.
LEMMA PinStory ==
  ASSUME NEW l, NEW k \in DOMAIN l, NEW cnt \in Nat, NEW drawn, NEW pin, pin.box \in Rect
  PROVE  Story(l, PinRecords(pin), InCell(k, cnt, drawn), InCell(k, cnt, drawn \cup PinDrawings(pin)))
<1>1. PICK gds, o : /\ gds = Lookup(LayerMap, <<pin.lay, PinPurpose>>)
                    /\ o = IF Height(pin.box) > Width(pin.box) THEN "R90" ELSE "R0"
  OBVIOUS
<1>2. CASE gds = None \/ ~Physical(pin.box)
  <2>1. PinRecords(pin) = << >> /\ PinDrawings(pin) = {} /\ drawn \cup {} = drawn
    BY <1>1, <1>2 DEF PinRecords, PinDrawings, OnLayer
  <2>2. Story(l, << >>, InCell(k, cnt, drawn), InCell(k, cnt, drawn))
    BY StoryNone
  <2>. QED BY <2>1, <2>2
<1>3. CASE gds # None /\ Physical(pin.box)
  <2>1. IsPair(gds) /\ gds = <<gds[1], gds[2]>> /\ ReverseLookup(LayerMap, gds) # None
    BY <1>1, <1>3, MapFacts
  <2>2. PICK x : x = MakeXform(Center(pin.box), o)
    OBVIOUS
  <2>3. x \in Xform
    <3>1. Center(pin.box) \in Point
      <4>1. \A i \in Int : i \div 2 \in Int
        OBVIOUS
      <4>. QED BY <4>1 DEF Center, Rect, Point
    <3>2. o \in Orientation
      BY <1>1 DEF Orientation
    <3>. QED BY <2>2, <3>1, <3>2 DEF MakeXform, Xform
  <2>4. PICK r1, r2 : /\ r1 = TextRecords(gds, pin.label, x, TRUE)
                      /\ r2 = IF MakePin THEN BoxRecords(gds, pin.box) ELSE << >>
    OBVIOUS
  <2>5. Story(l, r1, InCell(k, cnt, drawn), InCell(k, cnt, drawn))
    <3>1. MappedLabels(l) => ReverseLookup(LayerMap, <<gds[1], gds[2]>>) # None
      BY <2>1
    <3>. QED BY <2>3, <2>4, <3>1, TextStory
  <2>6. Story(l, r2, InCell(k, cnt, drawn), InCell(k, cnt, drawn \cup PinDrawings(pin)))
    <3>1. CASE MakePin
      <4>1. PinDrawings(pin) = Drawn(gds, Corners({pin.box}))
        BY <1>1, <1>3, <3>1 DEF PinDrawings, OnLayer
      <4>. QED BY <2>1, <2>4, <3>1, <4>1, BoxStory
    <3>2. CASE ~MakePin
      <4>1. PinDrawings(pin) = {} /\ r2 = << >> /\ drawn \cup {} = drawn
        BY <2>4, <3>2 DEF PinDrawings
      <4>2. Story(l, << >>, InCell(k, cnt, drawn), InCell(k, cnt, drawn))
        BY StoryNone
      <4>. QED BY <4>1, <4>2
    <3>. QED BY <3>1, <3>2
  <2>7. Story(l, r1 \o r2, InCell(k, cnt, drawn), InCell(k, cnt, drawn \cup PinDrawings(pin)))
    BY ONLY <2>5, <2>6, StoryConcat
  <2>8. PinRecords(pin) = r1 \o r2
    BY <1>1, <1>3, <2>2, <2>4 DEF PinRecords
  <2>. QED BY <2>7, <2>8
<1>. QED BY <1>2, <1>3

\* A label is a text.
LEMMA LabelStory ==
  ASSUME NEW l, NEW k \in DOMAIN l, NEW cnt \in Nat, NEW drawn,
         NEW label \in ToSet(SourceOf(l, k).labels),
         IsPair(label.key), label.xform \in Xform, label.mag \in BOOLEAN
  PROVE  Story(l, LabelRecords(label), InCell(k, cnt, drawn), InCell(k, cnt, drawn))
<1>1. MappedLabels(l) => ReverseLookup(LayerMap, <<label.key[1], label.key[2]>>) # None
  <2>1. label.key = <<label.key[1], label.key[2]>>
    BY DEF IsPair
  <2>2. MappedLabels(l) => ReverseLookup(LayerMap, label.key) # None
    BY DEF MappedLabels
  <2>. QED BY <2>1, <2>2
<1>. QED BY <1>1, TextStory DEF LabelRecords

\* A boundary draws its polygon on the layer of its type.
LEMMA BoundaryStory ==
  ASSUME NEW l, NEW k \in DOMAIN l, NEW cnt \in Nat, NEW drawn, NEW bnd, IsPolygon(bnd.poly)
  PROVE  Story(l, BoundaryRecords(bnd), InCell(k, cnt, drawn), InCell(k, cnt, drawn \cup BoundaryDrawings(bnd)))
<1>1. PICK gds : gds = Lookup(ObjectMap, bnd.type)
  OBVIOUS
<1>2. CASE gds = None
  <2>1. BoundaryRecords(bnd) = << >> /\ BoundaryDrawings(bnd) = {} /\ drawn \cup {} = drawn
    BY <1>1, <1>2 DEF BoundaryRecords, BoundaryDrawings
  <2>2. Story(l, << >>, InCell(k, cnt, drawn), InCell(k, cnt, drawn))
    BY StoryNone
  <2>. QED BY <2>1, <2>2
<1>3. CASE gds # None
  <2>1. IsPair(gds)
    BY <1>1, <1>3, MapFacts
  <2>2. BoundaryRecords(bnd) = PolygonRecords(gds, bnd.poly)
    BY <1>1, <1>3 DEF BoundaryRecords
  <2>3. BoundaryDrawings(bnd) = {Drawing(gds, ToSet(bnd.poly))}
    BY <1>1, <1>3 DEF BoundaryDrawings, Drawn
  <2>4. IsShapeRecs(PolygonRecords(gds, bnd.poly), gds, ToSet(bnd.poly)) /\ GoodRecs(PolygonRecords(gds, bnd.poly))
    BY PolygonShape
  <2>. QED BY <2>1, <2>2, <2>3, <2>4, ShapeStory
<1>. QED BY <1>2, <1>3

\* Any element that is not an instance.
LEMMA OtherStory ==
  ASSUME NEW l, NEW k \in DOMAIN l, NEW cnt \in Nat, NEW drawn,
         IsLayout(SourceOf(l, k)), NEW e \in OtherElems(SourceOf(l, k))
  PROVE  Story(l, Records(e), InCell(k, cnt, drawn), InCell(k, cnt, drawn \cup DrawingsOf(e)))
<1>1. PICK cv : cv = SourceOf(l, k)
  OBVIOUS
<1>2. CASE e \in ElemSet("geo", cv.geos)
  <2>1. PICK x \in ToSet(cv.geos) : e = Elem("geo", x)
    BY <1>2 DEF ElemSet
  <2>2. Records(e) = GeoRecords(x) /\ DrawingsOf(e) = GeoDrawings(x)
    BY <2>1 DEF Elem, Records, DrawingsOf
  <2>3. IsSeq(x.polys) /\ \A poly \in ToSet(x.polys) : IsPolygon(poly)
    BY <1>1, <2>1 DEF IsLayout
  <2>4. Story(l, GeoRecords(x), InCell(k, cnt, drawn), InCell(k, cnt, drawn \cup GeoDrawings(x)))
    BY <2>3, GeoStory
  <2>. QED BY <2>2, <2>4
<1>3. CASE e \in ElemSet("via", cv.vias)
  <2>1. PICK x \in ToSet(cv.vias) : e = Elem("via", x)
    BY <1>3 DEF ElemSet
  <2>2. Records(e) = ViaRecords(x) /\ DrawingsOf(e) = ViaDrawings(x)
    BY <2>1 DEF Elem, Records, DrawingsOf
  <2>3. x.bot_box \in Rect /\ x.top_box \in Rect /\ x.cuts \in Seq(Rect)
    BY <1>1, <2>1 DEF IsLayout
  <2>4. Story(l, ViaRecords(x), InCell(k, cnt, drawn), InCell(k, cnt, drawn \cup ViaDrawings(x)))
    BY <2>3, ViaStory
  <2>. QED BY <2>2, <2>4
<1>4. CASE e \in ElemSet("pin", cv.pins)
  <2>1. PICK x \in ToSet(cv.pins) : e = Elem("pin", x)
    BY <1>4 DEF ElemSet
  <2>2. Records(e) = PinRecords(x) /\ DrawingsOf(e) = PinDrawings(x)
    BY <2>1 DEF Elem, Records, DrawingsOf
  <2>3. x.box \in Rect
    BY <1>1, <2>1 DEF IsLayout
  <2>4. Story(l, PinRecords(x), InCell(k, cnt, drawn), InCell(k, cnt, drawn \cup PinDrawings(x)))
    BY <2>3, PinStory
  <2>. QED BY <2>2, <2>4
<1>5. CASE e \in ElemSet("label", cv.labels)
  <2>1. PICK x \in ToSet(cv.labels) : e = Elem("label", x)
    BY <1>5 DEF ElemSet
  <2>2. Records(e) = LabelRecords(x) /\ DrawingsOf(e) = {} /\ drawn \cup {} = drawn
    BY <2>1 DEF Elem, Records, DrawingsOf
  <2>3. IsPair(x.key) /\ x.xform \in Xform /\ x.mag \in BOOLEAN
    BY <1>1, <2>1 DEF IsLayout
  <2>4. Story(l, LabelRecords(x), InCell(k, cnt, drawn), InCell(k, cnt, drawn))
    BY <1>1, <2>3, LabelStory
  <2>. QED BY <2>2, <2>4
<1>6. CASE e \in ElemSet("bnd", cv.bnds)
  <2>1. PICK x \in ToSet(cv.bnds) : e = Elem("bnd", x)
    BY <1>6 DEF ElemSet
  <2>2. Records(e) = BoundaryRecords(x) /\ DrawingsOf(e) = BoundaryDrawings(x)
    BY <2>1 DEF Elem, Records, DrawingsOf
  <2>3. IsPolygon(x.poly)
    BY <1>1, <2>1 DEF IsLayout
  <2>4. Story(l, BoundaryRecords(x), InCell(k, cnt, drawn), InCell(k, cnt, drawn \cup BoundaryDrawings(x)))
    BY <2>3, BoundaryStory
  <2>. QED BY <2>2, <2>4
<1>. QED BY <1>1, <1>2, <1>3, <1>4, <1>5, <1>6 DEF OtherElems

-----------------------------------------------------------------------------
(***************************************************************************)
(* What each step of the writer appends is a story.                        *)
(***************************************************************************)

ListOK(l) ==
  /\ IsSeq(l)
  /\ \A i, j \in DOMAIN l :
       /\ l[i].cv \in DOMAIN Cellviews
       /\ i # j => l[i].cv # l[j].cv /\ l[i].name # l[j].name

\* The lists of the constants, and the layouts in them.
LEMMA ListFacts ==
  ASSUME NEW l \in Lists
  PROVE  ListOK(l)
BY GdsAssumption DEF ListOK

LEMMA SourceLayout ==
  ASSUME NEW l, ListOK(l), NEW k \in DOMAIN l
  PROVE  IsLayout(SourceOf(l, k))
BY LayoutsAssumption DEF ListOK, SourceOf

\* The new names of the first n cellviews.
Renamed(m, l, n) ==
  /\ DOMAIN m = {l[j].cv : j \in 1 .. n}
  /\ \A j \in 1 .. n : m[l[j].cv] = l[j].name

\* The instances among the first e elements.
Cnt(cv, e) == IF e <= Len(cv.insts) THEN e ELSE Len(cv.insts)
AfterElems(l, k, e) ==
  InCell(k, Cnt(SourceOf(l, k), e), DrawnBy(Elements(SourceOf(l, k)), e))

\* An element leads from the place after e elements to the one after e + 1.
LEMMA ElementStory ==
  ASSUME NEW l, ListOK(l), NEW k \in DOMAIN l, Renamed(rename_map, l, k - 1),
         NEW e \in Nat, e + 1 \in 1 .. Len(Elements(SourceOf(l, k)))
  PROVE  Story(l, Records(Elements(SourceOf(l, k))[e + 1]), AfterElems(l, k, e), AfterElems(l, k, e + 1))
<1>1. PICK cv, E, m, x, D : /\ cv = SourceOf(l, k) /\ E = Elements(cv) /\ m = Len(cv.insts) /\ x = E[e + 1]
                            /\ D = DrawnBy(E, e)
  OBVIOUS
<1>2. IsLayout(cv)
  BY <1>1, SourceLayout
<1>3. /\ IsSeq(E) /\ Len(E) \in Nat /\ m \in Nat /\ m <= Len(E)
      /\ \A i \in 1 .. m : E[i] = Elem("inst", cv.insts[i])
      /\ \A i \in 1 .. Len(E) : i > m => E[i] \in OtherElems(cv)
  BY ONLY <1>1, <1>2, ElementsFacts
<1>4. DrawnBy(E, e + 1) = D \cup DrawingsOf(x)
  <2>1. \A i \in 1 .. e + 1 : i \in 1 .. e \/ i = e + 1
    OBVIOUS
  <2>2. e + 1 \in 1 .. e + 1 /\ \A i \in 1 .. e : i \in 1 .. e + 1
    OBVIOUS
  <2>. QED BY <1>1, <2>1, <2>2 DEF DrawnBy
<1>5. Cnt(cv, e) \in Nat
  BY <1>1, <1>3 DEF Cnt
<1>6. CASE e + 1 <= m
  <2>1. e + 1 \in 1 .. m /\ Cnt(cv, e) = e /\ Cnt(cv, e + 1) = e + 1
    BY <1>1, <1>3, <1>6 DEF Cnt
  <2>2. PICK inst : inst = cv.insts[e + 1]
    OBVIOUS
  <2>3. x = Elem("inst", inst)
    BY <1>1, <1>3, <2>1, <2>2
  <2>4. DrawingsOf(x) = {} /\ Records(x) = InstRecords(inst)
    BY <2>3 DEF Elem, DrawingsOf, Records
  <2>5. IsInstOf(inst)
    <3>1. inst \in ToSet(cv.insts)
      BY <1>1, <1>2, <2>1, <2>2, SeqHas DEF IsLayout
    <3>. QED BY <1>2, <3>1 DEF IsLayout, IsInstOf
  <2>6. PICK ref : ref = IF Has(rename_map, inst.master) THEN rename_map[inst.master] ELSE inst.master
    OBVIOUS
  <2>7. Records(x) = InstRecs(ref, inst)
    BY <2>4, <2>6 DEF InstRecords, InstRecs
  <2>8. OrderedList(l) => \E j \in 1 .. k - 1 : l[j].cv = inst.master /\ ref = l[j].name
    <3>1. SUFFICES ASSUME OrderedList(l) PROVE \E j \in 1 .. k - 1 : l[j].cv = inst.master /\ ref = l[j].name
      OBVIOUS
    <3>2. inst \in ToSet(cv.insts)
      BY <1>1, <1>2, <2>1, <2>2, SeqHas DEF IsLayout
    <3>3. PICK j \in 1 .. k - 1 : l[j].cv = inst.master
      BY <1>1, <3>1, <3>2 DEF OrderedList
    <3>4. ref = l[j].name
      BY <2>6, <3>3 DEF Renamed, Has
    <3>. QED BY <3>3, <3>4
  <2>9. Story(l, InstRecs(ref, inst), InCell(k, e, D), InCell(k, e + 1, D))
    <3>1. inst = SourceOf(l, k).insts[e + 1] /\ e + 1 \in 1 .. Len(SourceOf(l, k).insts)
      BY <1>1, <2>1, <2>2
    <3>. QED BY <2>5, <2>8, <3>1, InstStory
  <2>10. AfterElems(l, k, e) = InCell(k, e, D) /\ AfterElems(l, k, e + 1) = InCell(k, e + 1, D)
    <3>1. D \cup {} = D
      OBVIOUS
    <3>. QED BY <1>1, <1>4, <2>1, <2>4, <3>1 DEF AfterElems
  <2>. QED BY <1>1, <2>7, <2>9, <2>10
<1>7. CASE ~(e + 1 <= m)
  <2>1. x \in OtherElems(cv) /\ Cnt(cv, e) = Cnt(cv, e + 1)
    <3>1. e + 1 > m /\ e + 1 \in 1 .. Len(E) /\ (e <= m => e = m)
      BY <1>1, <1>3, <1>7
    <3>. QED BY <1>1, <1>3, <1>7, <3>1 DEF Cnt
  <2>2. Story(l, Records(x), InCell(k, Cnt(cv, e), D), InCell(k, Cnt(cv, e), D \cup DrawingsOf(x)))
    BY <1>1, <1>2, <1>5, <2>1, OtherStory
  <2>3. AfterElems(l, k, e) = InCell(k, Cnt(cv, e), D)
        /\ AfterElems(l, k, e + 1) = InCell(k, Cnt(cv, e), D \cup DrawingsOf(x))
    BY <1>1, <1>4, <2>1 DEF AfterElems
  <2>. QED BY <1>1, <2>2, <2>3
<1>. QED BY <1>6, <1>7

\* The stories of the other calls of the writer.
LEMMA HeaderStory ==
  ASSUME NEW l
  PROVE  Story(l, FileHeader, Start, Between(1))
<1>1. PICK t : t = [recs |-> FileHeader, from |-> Start, to |-> Between(1)]
  OBVIOUS
<1>2. t.recs = FileHeader /\ t.from = Start /\ t.to = Between(1)
  BY <1>1
<1>3. GoodRecs(FileHeader)
  <2>1. GoodRecs(Mark("HEADER")) /\ GoodRecs(Mark("BGNLIB")) /\ GoodRecs(Mark("UNITS"))
    BY GoodMark
  <2>2. GoodRecs(<<Rec("LIBNAME", "lib")>>)
    BY GoodRec, GoodOne
  <2>. QED BY <2>1, <2>2, GoodConcat DEF FileHeader, LibBegin
<1>4. IsItem(l, t)
  BY <1>2, <1>3 DEF IsItem, IsHeader
<1>. QED BY <1>2, <1>4, StoryOne

\* The beginning and the end of a structure, and the end of the library.
LEMMA StructStory ==
  ASSUME NEW l, NEW k \in DOMAIN l
  PROVE  Story(l, StructBegin(l[k].name), Between(k), InCell(k, 0, {}))
<1>1. PICK t : t = [recs |-> StructBegin(l[k].name), from |-> Between(k), to |-> InCell(k, 0, {})]
  OBVIOUS
<1>2. t.recs = StructBegin(l[k].name) /\ t.from = Between(k) /\ t.to = InCell(k, 0, {})
  BY <1>1
<1>3. GoodRecs(StructBegin(l[k].name))
  <2>1. GoodRecs(Mark("BGNSTR")) /\ GoodRecs(<<Rec("STRNAME", l[k].name)>>)
    BY GoodMark, GoodRec, GoodOne
  <2>. QED BY <2>1, GoodConcat DEF StructBegin
<1>4. IsStruct(l, t)
  BY <1>2 DEF IsStruct
<1>5. IsItem(l, t)
  BY <1>2, <1>3, <1>4 DEF IsItem
<1>. QED BY <1>2, <1>5, StoryOne

LEMMA EndStructStory ==
  ASSUME NEW l, NEW k \in DOMAIN l
  PROVE  Story(l, Mark("ENDSTR"), InCell(k, Len(SourceOf(l, k).insts), Drawings(SourceOf(l, k))), Between(k + 1))
<1>1. PICK t : t = [recs |-> Mark("ENDSTR"), from |-> InCell(k, Len(SourceOf(l, k).insts), Drawings(SourceOf(l, k))),
                    to |-> Between(k + 1)]
  OBVIOUS
<1>2. /\ t.recs = Mark("ENDSTR") /\ t.from = InCell(k, Len(SourceOf(l, k).insts), Drawings(SourceOf(l, k)))
      /\ t.to = Between(k + 1)
  BY <1>1
<1>3. GoodRecs(Mark("ENDSTR"))
  BY GoodMark
<1>4. IsEndStruct(l, t)
  BY <1>2 DEF IsEndStruct
<1>5. IsItem(l, t)
  BY <1>2, <1>3, <1>4 DEF IsItem
<1>. QED BY <1>2, <1>5, StoryOne

LEMMA EndLibStory ==
  ASSUME NEW l
  PROVE  Story(l, Mark("ENDLIB"), Between(Len(l) + 1), Place("done", Len(l) + 1, 0, {}))
<1>1. PICK t : t = [recs |-> Mark("ENDLIB"), from |-> Between(Len(l) + 1), to |-> Place("done", Len(l) + 1, 0, {})]
  OBVIOUS
<1>2. t.recs = Mark("ENDLIB") /\ t.from = Between(Len(l) + 1) /\ t.to = Place("done", Len(l) + 1, 0, {})
  BY <1>1
<1>3. GoodRecs(Mark("ENDLIB"))
  BY GoodMark
<1>4. IsItem(l, t)
  BY <1>2, <1>3 DEF IsItem, IsEndLib
<1>. QED BY <1>2, <1>4, StoryOne

\* The elements that are left.
Rest(E, e) == [i \in 1 .. Len(E) - e |-> E[e + i]]
\* The elements that are left to write.
LEMMA RestFacts ==
  ASSUME NEW E, IsSeq(E), NEW e \in 0 .. Len(E)
  PROVE  /\ Rest(E, 0) = E
         /\ Rest(E, e) = << >> <=> e = Len(E)
         /\ e < Len(E) => Head(Rest(E, e)) = E[e + 1] /\ Tail(Rest(E, e)) = Rest(E, e + 1)
<1>1. PICK n, T : n = Len(E) /\ T = ToSet(E)
  OBVIOUS
<1>2. n \in Nat /\ E \in Seq(T) /\ \A i \in 1 .. n : E[i] \in T
  BY <1>1, SeqHas DEF IsSeq
<1>3. ASSUME NEW d \in 0 .. n PROVE Rest(E, d) \in Seq(T) /\ Len(Rest(E, d)) = n - d
  <2>1. n - d \in Nat /\ \A i \in 1 .. n - d : d + i \in 1 .. n
    BY <1>2
  <2>2. PICK f : f = Rest(E, d)
    OBVIOUS
  <2>3. f = [i \in 1 .. n - d |-> E[d + i]]
    BY <1>1, <2>2 DEF Rest
  <2>4. \A i \in 1 .. n - d : E[d + i] \in T
    BY <1>2, <2>1
  <2>5. f \in Seq(T) /\ Len(f) = n - d
    BY ONLY <2>1, <2>3, <2>4
  <2>. QED BY <2>2, <2>5
<1>4. Rest(E, 0) = E
  <2>1. n - 0 = n /\ E = [i \in 1 .. n |-> E[i]] /\ \A i \in 1 .. n : 0 + i = i
    BY <1>1, <1>2
  <2>. QED BY <1>1, <2>1 DEF Rest
<1>5. Rest(E, e) = << >> <=> e = n
  <2>1. e \in 0 .. n
    BY <1>1
  <2>2. Len(Rest(E, e)) = n - e /\ Rest(E, e) \in Seq(T)
    BY <1>3, <2>1
  <2>3. Rest(E, e) = << >> <=> Len(Rest(E, e)) = 0
    BY <2>2, EmptySeq
  <2>. QED BY <1>2, <2>1, <2>2, <2>3
<1>6. ASSUME e < n PROVE Head(Rest(E, e)) = E[e + 1] /\ Tail(Rest(E, e)) = Rest(E, e + 1)
  <2>1. e \in 0 .. n /\ e + 1 \in 0 .. n /\ n - e \in Nat /\ n - e # 0 /\ n - (e + 1) = (n - e) - 1
    BY <1>1, <1>2, <1>6
  <2>2. PICK f, g : f = Rest(E, e) /\ g = Rest(E, e + 1)
    OBVIOUS
  <2>3. f \in Seq(T) /\ Len(f) = n - e /\ g \in Seq(T) /\ Len(g) = (n - e) - 1
    BY <1>3, <2>1, <2>2
  <2>4. f # << >>
    BY <2>1, <2>3
  <2>5. Head(f) = f[1] /\ Tail(f) \in Seq(T) /\ Len(Tail(f)) = Len(f) - 1
        /\ \A i \in 1 .. Len(f) - 1 : Tail(f)[i] = f[i + 1]
    BY ONLY <2>3, <2>4
  <2>6. 1 \in 1 .. n - e
    BY <2>1
  <2>7. f[1] = E[e + 1]
    BY <1>1, <2>2, <2>6 DEF Rest
  <2>8. ASSUME NEW i \in 1 .. (n - e) - 1 PROVE f[i + 1] = g[i]
    <3>1. i + 1 \in 1 .. n - e /\ i \in 1 .. n - (e + 1) /\ e + (i + 1) = (e + 1) + i
      BY <1>2, <2>1
    <3>. QED BY <1>1, <2>2, <3>1 DEF Rest
  <2>9. Tail(f) = g
    BY <2>3, <2>5, <2>8, SeqEqual
  <2>. QED BY <2>2, <2>5, <2>7, <2>9
<1>. QED BY <1>1, <1>4, <1>5, <1>6

-----------------------------------------------------------------------------
(***************************************************************************)
(* The invariant of the writer and of the reader.  Writing: the file so    *)
(* far is a story from the start to the place of the writer.  Reading: the *)
(* file is the beginning of a story, and the reader is at a place of it,   *)
(* with the cellviews read up to there; after an exception it is somewhere *)
(* else only for a file cut short, or one whose masters or labels are not  *)
(* in order.                                                               *)
(***************************************************************************)

\* The reader takes of some drawings the shapes on layers that the map brings back, and
\* of the rest the boundaries.
Layer(d) == ReverseLookup(LayerMap, d.gds)
Object(d) == ReverseLookup(ObjectMap, d.gds)
ShapesIn(D) == {[key |-> Layer(d), pts |-> d.pts] : d \in {x \in D : Layer(x) # None}}
BndsIn(D) == {[type |-> Object(d), pts |-> d.pts] : d \in {x \in D : Layer(x) = None /\ Object(x) # None}}

NameOf(name) == [id |-> name, nul |-> name \in OddNames]

\* The first n instances of cellview number k.
InstsOf(l, insts, k, n) ==
  /\ IsSeq(insts) /\ Len(insts) = n
  /\ \A i \in 1 .. n :
       LET inst == SourceOf(l, k).insts[i] IN
       /\ insts[i].xform = inst.xform /\ insts[i].n = inst.n
       /\ OrderedList(l) => \E j \in 1 .. k - 1 : insts[i].master = j /\ l[j].cv = inst.master

\* Cellview number k, as far as n instances and the drawings D.
Holds(l, cell, k, n, D) ==
  /\ cell.name = NameOf(l[k].name)
  /\ cell.shapes = ShapesIn(D) /\ cell.bnds = BndsIn(D)
  /\ InstsOf(l, cell.insts, k, n)
IsCell(l, cell, k) == Holds(l, cell, k, Len(SourceOf(l, k).insts), Drawings(SourceOf(l, k)))

\* The reader is at place b.
ReadTo(l, cs, c, rd, b) ==
  /\ rd \notin {"done", "error"} => rd = b.at
  /\ rd = "done" => b = Between(Len(l) + 1)
  /\ IsSeq(cs) /\ Len(cs) = b.k - 1
  /\ \A i \in 1 .. b.k - 1 : IsCell(l, cs[i], i)
  /\ b.at = "cell" => Holds(l, c, b.k, b.cnt, b.drawn)

Prefix(f, F) == IsSeq(f) /\ Len(f) <= Len(F) /\ \A i \in 1 .. Len(f) : f[i] = F[i]

\* The file is one of the writer, or the beginning of one.
Readable(l, f, w, F, items, start, at) ==
  /\ Tells(l, F, items, start, at) /\ at[1] = Start /\ Prefix(f, F)
  /\ w = "done" => f = F
  /\ w = "done" <=> at[Len(items) + 1].at = "done"

ReadingOf(l, f, w, p, cs, c, rd) ==
  /\ w \in {"done", "cut"}
  /\ \E F, items, start, at :
       /\ Readable(l, f, w, F, items, start, at)
       /\ \E r \in 1 .. Len(items) + 1 : p = start[r] /\ ReadTo(l, cs, c, rd, at[r])
  /\ rd = "done" => w = "done"
  /\ rd = "error" /\ OrderedList(l) /\ MappedLabels(l) => w = "cut"

\* The writer is at place b.
WriterAt(l, n, lf, w, b) ==
  \/ w = "start" /\ n = 0 /\ b = Start
  \/ w = "idle" /\ b = Between(n + 1)
  \/ /\ w = "cell" /\ n < Len(l)
     /\ \E e \in 0 .. Len(Elements(SourceOf(l, n + 1))) :
          lf = Rest(Elements(SourceOf(l, n + 1)), e) /\ b = AfterElems(l, n + 1, e)
WritingOf(l, f, n, lf, m, w) ==
  /\ n \in 0 .. Len(l) /\ Renamed(m, l, n)
  /\ \E b : Story(l, f, Start, b) /\ WriterAt(l, n, lf, w, b)

Writing ==
  /\ list \in Lists /\ WritingOf(list, file, written, left, rename_map, writer)
  /\ pos = 1 /\ cells = << >> /\ reader = "start"
Reading ==
  /\ list \in Lists /\ ReadingOf(list, file, writer, pos, cells, cur, reader)
  /\ written \in 0 .. Len(list) /\ DOMAIN rename_map \subseteq DOMAIN Cellviews
Alien ==
  /\ list = << >> /\ GoodRecs(file) /\ writer = "done" /\ written = 0 /\ DOMAIN rename_map = {}

\* A reader that has not begun is at the start of the story.
LEMMA BeginReading ==
  ASSUME NEW l, NEW f, NEW w \in {"done", "cut"}, NEW c, NEW F, NEW b,
         Story(l, F, Start, b), Prefix(f, F), w = "done" => f = F,
         w = "done" <=> b.at = "done"
  PROVE  ReadingOf(l, f, w, 1, << >>, c, "start")
<1>1. PICK items, start, at : Tells(l, F, items, start, at) /\ at[1] = Start /\ at[Len(items) + 1] = b
  BY DEF Story
<1>2. Readable(l, f, w, F, items, start, at)
  BY <1>1 DEF Readable
<1>3. start[1] = 1 /\ 1 \in 1 .. Len(items) + 1
  BY <1>1, SeqHas DEF Tells, Laid
<1>4. ReadTo(l, << >>, c, "start", at[1])
  <2>1. IsSeq(<< >>) /\ Len(<< >>) = 0
    BY DEF IsSeq, ToSet
  <2>2. Start.at = "start" /\ Start.k = 1
    BY DEF Start, Place
  <2>3. 1 - 1 = 0 /\ \A i \in 1 .. 0 : FALSE
    OBVIOUS
  <2>. QED BY ONLY <1>1, <2>1, <2>2, <2>3 DEF ReadTo
<1>. QED BY <1>2, <1>3, <1>4 DEF ReadingOf

\* A file that is not cut is a beginning of itself.
LEMMA PrefixSelf ==
  ASSUME NEW f, IsSeq(f)
  PROVE  Prefix(f, f)
BY SeqHas DEF Prefix

LEMMA StorySeq ==
  ASSUME NEW l, NEW recs, NEW a, NEW b, Story(l, recs, a, b)
  PROVE  IsSeq(recs)
BY StoryGood DEF GoodRecs

\* The fields of the places.
LEMMA PlaceAt ==
  /\ \A k, n, D : InCell(k, n, D).at = "cell" /\ InCell(k, n, D).k = k /\ InCell(k, n, D).cnt = n /\ InCell(k, n, D).drawn = D
  /\ \A k : Between(k).at = "idle" /\ Between(k).k = k
  /\ Start.at = "start" /\ Start.k = 1
BY DEF InCell, Between, Start, Place

\* The steps of the writer.
LEMMA StepStart == Writing /\ WriteStart => Writing'
<1>. SUFFICES ASSUME Writing, WriteStart PROVE Writing'
  OBVIOUS
<1>1. /\ file' = FileHeader /\ writer' = "idle" /\ list' = list /\ written' = written
      /\ rename_map' = rename_map /\ writer = "start"
      /\ pos' = 1 /\ cells' = << >> /\ reader' = "start"
  BY DEF WriteStart, Writing, reader_vars
<1>2. written = 0 /\ Renamed(rename_map, list, 0) /\ written \in 0 .. Len(list)
  BY <1>1 DEF Writing, WritingOf, WriterAt
<1>3. Story(list, FileHeader, Start, Between(0 + 1))
  BY HeaderStory
<1>4. WritingOf(list, FileHeader, 0, left', rename_map, "idle")
  BY <1>2, <1>3 DEF WritingOf, WriterAt
<1>. QED BY <1>1, <1>2, <1>4 DEF Writing

\* BeginStruct begins the next structure.
LEMMA StepBegin == Writing /\ BeginStruct => Writing'
<1>. SUFFICES ASSUME Writing, BeginStruct PROVE Writing'
  OBVIOUS
<1>1. PICK n, entry : n = written /\ entry = list[n + 1]
  OBVIOUS
<1>2. /\ file' = file \o StructBegin(entry.name) /\ left' = Elements(Cellviews[entry.cv])
      /\ writer' = "cell" /\ list' = list /\ written' = n
      /\ rename_map' = rename_map /\ writer = "idle" /\ n < Len(list)
      /\ pos' = 1 /\ cells' = << >> /\ reader' = "start"
  BY <1>1 DEF BeginStruct, Writing, reader_vars
<1>3. ListOK(list) /\ list \in Lists
  BY ListFacts DEF Writing
<1>4. n \in 0 .. Len(list) /\ Renamed(rename_map, list, n) /\ Story(list, file, Start, Between(n + 1))
  BY <1>1, <1>2 DEF Writing, WritingOf, WriterAt
<1>5. n + 1 \in DOMAIN list /\ Len(list) \in Nat
  BY <1>2, <1>3, <1>4, SeqHas DEF ListOK
<1>6. Story(list, file', Start, InCell(n + 1, 0, {}))
  <2>1. Story(list, StructBegin(entry.name), Between(n + 1), InCell(n + 1, 0, {}))
    BY <1>1, <1>5, StructStory
  <2>. QED BY ONLY <1>2, <1>4, <2>1, StoryConcat
<1>7. PICK E : E = Elements(SourceOf(list, n + 1))
  OBVIOUS
<1>8. IsLayout(SourceOf(list, n + 1))
  BY <1>3, <1>5, SourceLayout
<1>9. IsSeq(E) /\ Len(E) \in Nat /\ Len(SourceOf(list, n + 1).insts) \in Nat
  BY ONLY <1>7, <1>8, ElementsFacts
<1>10. left' = Rest(E, 0)
  BY <1>1, <1>2, <1>7, <1>9, RestFacts DEF SourceOf
<1>11. AfterElems(list, n + 1, 0) = InCell(n + 1, 0, {})
  <2>1. Cnt(SourceOf(list, n + 1), 0) = 0
    BY <1>9 DEF Cnt
  <2>2. DrawnBy(E, 0) = {}
    BY DEF DrawnBy
  <2>. QED BY <1>7, <2>1, <2>2 DEF AfterElems
<1>12. WriterAt(list, n, left', "cell", InCell(n + 1, 0, {}))
  <2>1. 0 \in 0 .. Len(E)
    BY <1>9
  <2>. QED BY <1>2, <1>7, <1>10, <1>11, <2>1 DEF WriterAt
<1>13. WritingOf(list, file', n, left', rename_map, "cell")
  BY <1>4, <1>6, <1>12 DEF WritingOf
<1>. QED BY <1>2, <1>3, <1>13 DEF Writing

\* WriteElement appends the story of one element.
LEMMA StepElement == Writing /\ WriteElement => Writing'
<1>. SUFFICES ASSUME Writing, WriteElement PROVE Writing'
  OBVIOUS
<1>1. PICK n : n = written
  OBVIOUS
<1>2. /\ file' = file \o Records(Head(left)) /\ left' = Tail(left) /\ left # << >>
      /\ writer' = "cell" /\ list' = list /\ written' = n
      /\ rename_map' = rename_map /\ writer = "cell"
      /\ pos' = 1 /\ cells' = << >> /\ reader' = "start"
  BY <1>1 DEF WriteElement, Writing, reader_vars
<1>3. ListOK(list) /\ list \in Lists
  BY ListFacts DEF Writing
<1>4. PICK E : E = Elements(SourceOf(list, n + 1))
  OBVIOUS
<1>5. n \in 0 .. Len(list) /\ Renamed(rename_map, list, n) /\ n < Len(list)
  BY <1>1, <1>2 DEF Writing, WritingOf, WriterAt
<1>6. PICK e \in 0 .. Len(E) : left = Rest(E, e) /\ Story(list, file, Start, AfterElems(list, n + 1, e))
  BY <1>1, <1>2, <1>4 DEF Writing, WritingOf, WriterAt
<1>7. n + 1 \in DOMAIN list /\ (n + 1) - 1 = n
  BY <1>3, <1>5, SeqHas DEF ListOK
<1>8. IsLayout(SourceOf(list, n + 1))
  BY <1>3, <1>7, SourceLayout
<1>9. IsSeq(E) /\ Len(E) \in Nat
  BY ONLY <1>4, <1>8, ElementsFacts
<1>10. e # Len(E) /\ e \in Nat /\ e < Len(E) /\ e + 1 \in 1 .. Len(E) /\ e + 1 \in 0 .. Len(E)
  <2>1. e # Len(E)
    BY <1>2, <1>6, <1>9, RestFacts
  <2>. QED BY <1>9, <2>1
<1>11. Head(left) = E[e + 1] /\ left' = Rest(E, e + 1)
  BY <1>2, <1>6, <1>9, <1>10, RestFacts
<1>12. Story(list, Records(Head(left)), AfterElems(list, n + 1, e), AfterElems(list, n + 1, e + 1))
  BY <1>3, <1>4, <1>5, <1>7, <1>10, <1>11, ElementStory
<1>13. Story(list, file', Start, AfterElems(list, n + 1, e + 1))
  BY ONLY <1>2, <1>6, <1>12, StoryConcat
<1>14. WriterAt(list, n, left', "cell", AfterElems(list, n + 1, e + 1))
  BY <1>4, <1>5, <1>10, <1>11 DEF WriterAt
<1>15. WritingOf(list, file', n, left', rename_map, "cell")
  BY <1>5, <1>13, <1>14 DEF WritingOf
<1>. QED BY <1>2, <1>3, <1>15 DEF Writing

\* EndStruct ends the structure, and the map of new names has one more name.
LEMMA StepEnd == Writing /\ EndStruct => Writing'
<1>. SUFFICES ASSUME Writing, EndStruct PROVE Writing'
  OBVIOUS
<1>1. PICK n : n = written
  OBVIOUS
<1>2. /\ file' = file \o Mark("ENDSTR") /\ left = << >>
      /\ rename_map' = InsertOrAssign(rename_map, list[n + 1].cv, list[n + 1].name)
      /\ writer' = "idle" /\ list' = list /\ written' = n + 1 /\ writer = "cell"
      /\ pos' = 1 /\ cells' = << >> /\ reader' = "start"
  BY <1>1 DEF EndStruct, Writing, reader_vars
<1>3. ListOK(list) /\ list \in Lists
  BY ListFacts DEF Writing
<1>4. PICK cv, E : cv = SourceOf(list, n + 1) /\ E = Elements(cv)
  OBVIOUS
<1>5. n \in 0 .. Len(list) /\ Renamed(rename_map, list, n) /\ n < Len(list)
  BY <1>1, <1>2 DEF Writing, WritingOf, WriterAt
<1>6. PICK e \in 0 .. Len(E) : left = Rest(E, e) /\ Story(list, file, Start, AfterElems(list, n + 1, e))
  BY <1>1, <1>2, <1>4 DEF Writing, WritingOf, WriterAt
<1>7. n + 1 \in DOMAIN list /\ n + 1 \in 0 .. Len(list) /\ n \in Nat /\ DOMAIN list = 1 .. Len(list)
  BY <1>3, <1>5, SeqHas DEF ListOK
<1>8. IsLayout(cv)
  BY <1>3, <1>4, <1>7, SourceLayout
<1>9. IsSeq(E) /\ Len(E) \in Nat /\ Len(cv.insts) \in Nat /\ Len(cv.insts) <= Len(E)
  BY ONLY <1>4, <1>8, ElementsFacts
<1>10. e = Len(E)
  BY <1>2, <1>6, <1>9, RestFacts
<1>11. AfterElems(list, n + 1, e) = InCell(n + 1, Len(cv.insts), Drawings(cv))
  <2>1. Cnt(cv, e) = Len(cv.insts)
    BY <1>9, <1>10 DEF Cnt
  <2>. QED BY <1>4, <1>10, <2>1 DEF AfterElems, Drawings
<1>12. Story(list, file', Start, Between((n + 1) + 1))
  <2>1. Story(list, Mark("ENDSTR"), AfterElems(list, n + 1, e), Between((n + 1) + 1))
    BY <1>4, <1>7, <1>11, EndStructStory
  <2>. QED BY ONLY <1>2, <1>6, <2>1, StoryConcat
<1>13. Renamed(rename_map', list, n + 1)
  <2>1. PICK cv1, nm, m : cv1 = list[n + 1].cv /\ nm = list[n + 1].name /\ m = rename_map'
    OBVIOUS
  <2>2. \A j \in 1 .. n + 1 : j \in 1 .. n \/ j = n + 1
    BY <1>7
  <2>3. \A j \in 1 .. n : j \in 1 .. n + 1 /\ j \in DOMAIN list /\ j # n + 1
    BY <1>7
  <2>4. n + 1 \in 1 .. n + 1
    BY <1>7
  <2>5. \A j \in 1 .. n : list[j].cv # cv1
    BY <1>3, <1>7, <2>1, <2>3 DEF ListOK
  <2>6. m = [x \in DOMAIN rename_map \cup {cv1} |-> IF x = cv1 THEN nm ELSE rename_map[x]]
    BY <1>2, <2>1 DEF InsertOrAssign
  <2>7. DOMAIN rename_map = {list[j].cv : j \in 1 .. n} /\ \A j \in 1 .. n : rename_map[list[j].cv] = list[j].name
    BY <1>5 DEF Renamed
  <2>8. DOMAIN m = {list[j].cv : j \in 1 .. n + 1}
    BY <2>1, <2>2, <2>3, <2>4, <2>6, <2>7
  <2>9. \A j \in 1 .. n + 1 : m[list[j].cv] = list[j].name
    BY <2>1, <2>2, <2>5, <2>6, <2>7
  <2>. QED BY <2>1, <2>8, <2>9 DEF Renamed
<1>14. WriterAt(list, n + 1, left', "idle", Between((n + 1) + 1))
  BY DEF WriterAt
<1>15. WritingOf(list, file', n + 1, left', rename_map', "idle")
  BY <1>7, <1>12, <1>13, <1>14 DEF WritingOf
<1>. QED BY <1>2, <1>3, <1>15 DEF Writing

\* The names that are replaced are names of cellviews.
LEMMA RenameDomain ==
  ASSUME NEW l, ListOK(l), NEW n \in 0 .. Len(l), NEW m, Renamed(m, l, n)
  PROVE  DOMAIN m \subseteq DOMAIN Cellviews
<1>1. \A j \in 1 .. n : j \in DOMAIN l
  BY SeqHas DEF ListOK
<1>. QED BY <1>1 DEF Renamed, ListOK

\* WriteStop ends the story.
LEMMA StepStop == Writing /\ WriteStop => Reading'
<1>. SUFFICES ASSUME Writing, WriteStop PROVE Reading'
  OBVIOUS
<1>1. /\ file' = file \o Mark("ENDLIB") /\ writer = "idle" /\ written = Len(list)
      /\ writer' = "done" /\ list' = list /\ written' = written /\ rename_map' = rename_map
      /\ pos' = 1 /\ cells' = << >> /\ reader' = "start"
  BY DEF WriteStop, Writing, reader_vars
<1>2. ListOK(list) /\ list \in Lists
  BY ListFacts DEF Writing
<1>3. written \in 0 .. Len(list) /\ Renamed(rename_map, list, written) /\ Story(list, file, Start, Between(Len(list) + 1))
  BY <1>1 DEF Writing, WritingOf, WriterAt
<1>4. Story(list, file', Start, Place("done", Len(list) + 1, 0, {}))
  <2>1. Story(list, Mark("ENDLIB"), Between(Len(list) + 1), Place("done", Len(list) + 1, 0, {}))
    BY EndLibStory
  <2>. QED BY ONLY <1>1, <1>3, <2>1, StoryConcat
<1>5. Prefix(file', file')
  BY <1>4, StorySeq, PrefixSelf
<1>6. Place("done", Len(list) + 1, 0, {}).at = "done"
  BY DEF Place
<1>7. ReadingOf(list, file', "done", 1, << >>, cur', "start")
  BY <1>4, <1>5, <1>6, BeginReading
<1>8. DOMAIN rename_map \subseteq DOMAIN Cellviews
  BY <1>2, <1>3, RenameDomain
<1>. QED BY <1>1, <1>2, <1>3, <1>7, <1>8 DEF Reading

\* Cut leaves a beginning of the story.
LEMMA StepCut == Writing /\ Cut => Reading'
<1>. SUFFICES ASSUME Writing, Cut PROVE Reading'
  OBVIOUS
<1>1. /\ writer \in {"idle", "cell"}
      /\ writer' = "cut" /\ list' = list /\ written' = written /\ rename_map' = rename_map
      /\ pos' = 1 /\ cells' = << >> /\ reader' = "start"
  BY DEF Cut, Writing, reader_vars
<1>2. ListOK(list) /\ list \in Lists
  BY ListFacts DEF Writing
<1>3. written \in 0 .. Len(list) /\ Renamed(rename_map, list, written)
  BY DEF Writing, WritingOf
<1>4. PICK b : Story(list, file, Start, b) /\ WriterAt(list, written, left, writer, b)
  BY DEF Writing, WritingOf
<1>5. b.at \in {"idle", "cell"}
  BY <1>1, <1>4, PlaceAt DEF WriterAt, AfterElems
<1>6. PICK n \in 0 .. Len(file) : file' = SubSeq(file, 1, n)
  BY DEF Cut
<1>7. Prefix(file', file)
  <2>1. PICK F, T, f : F = file /\ T = ToSet(F) /\ f = file'
    OBVIOUS
  <2>2. F \in Seq(T) /\ Len(F) \in Nat /\ n \in 0 .. Len(F)
    BY <1>4, <1>6, <2>1, StorySeq, SeqHas DEF IsSeq
  <2>3. f = SubSeq(F, 1, n)
    BY <1>6, <2>1
  <2>4. f \in Seq(T) /\ Len(f) = n /\ \A i \in 1 .. n : f[i] = F[i]
    BY ONLY <2>2, <2>3
  <2>. QED BY <2>1, <2>2, <2>4, SeqTypes DEF Prefix
<1>8. ReadingOf(list, file', "cut", 1, << >>, cur', "start")
  BY <1>4, <1>5, <1>7, BeginReading
<1>9. DOMAIN rename_map \subseteq DOMAIN Cellviews
  BY <1>2, <1>3, RenameDomain
<1>. QED BY <1>1, <1>2, <1>3, <1>8, <1>9 DEF Reading

-----------------------------------------------------------------------------
(***************************************************************************)
(* What the reader finds where the records of an item are.                 *)
(***************************************************************************)

\* The types of the next records, one by one.
LEMMA TypesOf ==
  ASSUME NEW i \in Int
  PROVE  /\ \A a, b : Types(i, <<a, b>>) <=> Type(i) = a /\ Type(i + 1) = b
         /\ \A a, b, c : Types(i, <<a, b, c>>) <=> Type(i) = a /\ Type(i + 1) = b /\ Type(i + 2) = c
         /\ \A a, b, c, d : Types(i, <<a, b, c, d>>) <=>
              Type(i) = a /\ Type(i + 1) = b /\ Type(i + 2) = c /\ Type(i + 3) = d
         /\ \A a, b, c, d, e : Types(i, <<a, b, c, d, e>>) <=>
              Type(i) = a /\ Type(i + 1) = b /\ Type(i + 2) = c /\ Type(i + 3) = d /\ Type(i + 4) = e
<1>1. i + 1 - 1 = i /\ i + 2 - 1 = i + 1 /\ i + 3 - 1 = i + 2 /\ i + 4 - 1 = i + 3 /\ i + 5 - 1 = i + 4
  OBVIOUS
<1>2. 1 .. 2 = {1, 2} /\ 1 .. 3 = {1, 2, 3} /\ 1 .. 4 = {1, 2, 3, 4} /\ 1 .. 5 = {1, 2, 3, 4, 5}
  OBVIOUS
<1>3. ASSUME NEW a, NEW b PROVE Types(i, <<a, b>>) <=> Type(i) = a /\ Type(i + 1) = b
  <2>1. DOMAIN <<a, b>> = {1, 2}
    BY <1>2
  <2>. QED BY <1>1, <2>1 DEF Types
<1>4. ASSUME NEW a, NEW b, NEW c
      PROVE  Types(i, <<a, b, c>>) <=> Type(i) = a /\ Type(i + 1) = b /\ Type(i + 2) = c
  <2>1. DOMAIN <<a, b, c>> = {1, 2, 3}
    BY <1>2
  <2>. QED BY <1>1, <2>1 DEF Types
<1>5. ASSUME NEW a, NEW b, NEW c, NEW d
      PROVE  Types(i, <<a, b, c, d>>) <=>
               Type(i) = a /\ Type(i + 1) = b /\ Type(i + 2) = c /\ Type(i + 3) = d
  <2>1. DOMAIN <<a, b, c, d>> = {1, 2, 3, 4}
    BY <1>2
  <2>. QED BY <1>1, <2>1 DEF Types
<1>6. ASSUME NEW a, NEW b, NEW c, NEW d, NEW e
      PROVE  Types(i, <<a, b, c, d, e>>) <=>
               Type(i) = a /\ Type(i + 1) = b /\ Type(i + 2) = c /\ Type(i + 3) = d /\ Type(i + 4) = e
  <2>1. DOMAIN <<a, b, c, d, e>> = {1, 2, 3, 4, 5}
    BY <1>2
  <2>. QED BY <1>1, <2>1 DEF Types
<1>. QED BY <1>3, <1>4, <1>5, <1>6

\* Of the records recs the file has those that it is long enough for, at position p.
Whole(p, recs) == \A k \in 1 .. Len(recs) : p + k - 1 \in DOMAIN file /\ file[p + k - 1] = recs[k]

\* Records the last of which is in the file are all in it.
LEMMA WholeOf ==
  ASSUME NEW p \in Nat, p # 0, NEW recs, Len(recs) \in Nat, Shows(p, recs), IsSeq(file),
         p + Len(recs) - 1 \in DOMAIN file
  PROVE  Whole(p, recs)
<1>1. DOMAIN file = 1 .. Len(file) /\ Len(file) \in Nat
  BY SeqHas
<1>2. \A k \in 1 .. Len(recs) : p + k - 1 \in DOMAIN file
  BY <1>1
<1>. QED BY <1>2 DEF Shows, Whole

\* A record that was not lost is the one that was written.
LEMMA ShownAt ==
  ASSUME NEW p \in Nat, NEW recs, Shows(p, recs), NEW k \in 1 .. Len(recs), Type(p + k - 1) # "EOF"
  PROVE  p + k - 1 \in DOMAIN file /\ Type(p + k - 1) = recs[k].type /\ Val(p + k - 1) = recs[k].val
BY DEF Type, Val, Shows

\* Of an item that is whole, each record is the one that was written.
LEMMA WholeAt ==
  ASSUME NEW p, NEW recs, Whole(p, recs), NEW k \in 1 .. Len(recs)
  PROVE  Type(p + k - 1) = recs[k].type /\ Val(p + k - 1) = recs[k].val
BY DEF Type, Val, Whole

\* A record that has a type is in the file.
LEMMA TypeIn ==
  ASSUME NEW p, Type(p) # "EOF"
  PROVE  p \in DOMAIN file
BY DEF Type

\* The next item of the file.
LEMMA Peek ==
  ASSUME NEW l, NEW w, NEW F, NEW items, NEW start, NEW at, Readable(l, file, w, F, items, start, at),
         NEW r \in 1 .. Len(items) + 1
  PROVE  /\ start[r] \in Nat /\ start[r] # 0 /\ IsSeq(file)
         /\ start[r] \in DOMAIN file => r \in 1 .. Len(items)
         /\ r \in 1 .. Len(items) =>
              /\ IsItem(l, items[r]) /\ items[r].from = at[r] /\ items[r].to = at[r + 1]
              /\ start[r + 1] = start[r] + Len(items[r].recs) /\ r + 1 \in 1 .. Len(items) + 1
              /\ Shows(start[r], items[r].recs)
              /\ w = "done" => Whole(start[r], items[r].recs)
<1>1. PICK n : n = Len(items)
  OBVIOUS
<1>2. Laid(F, items, start) /\ IsSeq(file) /\ Len(file) \in Nat /\ DOMAIN file = 1 .. Len(file)
  BY SeqHas DEF Readable, Tells, Prefix
<1>3. n \in Nat /\ IsSeq(F) /\ Len(F) \in Nat
  BY <1>1, <1>2, SeqHas DEF Laid
<1>4. start[r] \in Nat /\ 1 <= start[r]
  <2>1. start[r] \in Nat
    BY <1>1, <1>2 DEF Laid
  <2>2. r \in 1 .. r
    BY <1>1, <1>3
  <2>3. 1 <= start[r]
    BY <1>2, <2>2, LaidGrows
  <2>. QED BY <2>1, <2>3
<1>5. start[r] \in DOMAIN file => r \in 1 .. n
  <2>1. SUFFICES ASSUME start[r] \in DOMAIN file, r = n + 1 PROVE FALSE
    BY <1>1, <1>3
  <2>2. start[n + 1] = Len(F) + 1
    BY <1>1, <1>2 DEF Laid
  <2>3. Len(file) <= Len(F)
    BY DEF Readable, Prefix
  <2>. QED BY <1>2, <1>3, <2>1, <2>2, <2>3
<1>6. ASSUME r \in 1 .. n
      PROVE  /\ IsItem(l, items[r]) /\ items[r].from = at[r] /\ items[r].to = at[r + 1]
             /\ start[r + 1] = start[r] + Len(items[r].recs) /\ r + 1 \in 1 .. n + 1
             /\ Shows(start[r], items[r].recs)
             /\ w = "done" => Whole(start[r], items[r].recs)
  <2>1. IsItem(l, items[r]) /\ items[r].from = at[r] /\ items[r].to = at[r + 1]
    BY <1>1, <1>6 DEF Readable, Tells
  <2>2. /\ start[r + 1] = start[r] + Len(items[r].recs) /\ r + 1 \in 1 .. n + 1
        /\ \A k \in 1 .. Len(items[r].recs) : F[start[r] + k - 1] = items[r].recs[k]
    BY <1>1, <1>2, <1>3, <1>6 DEF Laid
  <2>3. Shows(start[r], items[r].recs)
    <3>1. \A i \in DOMAIN file : file[i] = F[i]
      BY <1>2 DEF Readable, Prefix
    <3>. QED BY <2>2, <3>1 DEF Shows
  <2>4. w = "done" => Whole(start[r], items[r].recs)
    <3>1. SUFFICES ASSUME w = "done" PROVE Whole(start[r], items[r].recs)
      OBVIOUS
    <3>2. file = F
      BY <3>1 DEF Readable
    <3>3. \A k \in 1 .. Len(items[r].recs) : start[r] + k - 1 \in DOMAIN file
      <4>1. \A k \in 1 .. Len(items[r].recs) : start[r] + k - 1 \in 1 .. Len(F)
        BY <1>1, <1>2, <1>6, LaidInside
      <4>. QED BY <1>2, <3>2, <4>1
    <3>. QED BY <2>3, <3>3 DEF Shows, Whole
  <2>. QED BY <2>1, <2>2, <2>3, <2>4
<1>. QED BY <1>1, <1>2, <1>4, <1>5, <1>6

\* The orientation is whole when the record after it is the one expected.
LEMMA OrientWhole ==
  ASSUME NEW o \in Orientation, NEW mag \in BOOLEAN, NEW i \in Nat, i # 0, IsSeq(file),
         Shows(i, OrientRecords(o, mag)), Type(OrientEnd(i)) \in {"XY", "COLROW"}
  PROVE  Whole(i, OrientRecords(o, mag))
<1>1. PICK r : r = OrientRecords(o, mag)
  OBVIOUS
<1>2. /\ IsSeq(r)
      /\ Len(r) = 1 + (IF mag THEN 1 ELSE 0) + (IF Angle(o) # 0 THEN 1 ELSE 0)
      /\ mag => r[2] = Rec("MAG", None)
  BY <1>1, OrientParts
<1>3. DOMAIN file = 1 .. Len(file) /\ Len(file) \in Nat
  BY SeqHas
<1>4. OrientEnd(i) \in DOMAIN file
  BY TypeIn
<1>5. OrientEnd(i) \in {i + 1, i + 2, i + 3}
  BY DEF OrientEnd
<1>6. i \in DOMAIN file /\ i + 1 \in DOMAIN file
  BY <1>3, <1>4, <1>5
<1>7. i + Len(r) - 1 \in DOMAIN file
  <2>1. CASE mag /\ Angle(o) # 0
    <3>1. Len(r) = 3 /\ 2 \in 1 .. Len(r) /\ i + 2 - 1 = i + 1 /\ i + 3 - 1 = i + 2
      BY <1>2, <2>1
    <3>2. file[i + 1] = r[2]
      BY <1>1, <1>6, <3>1 DEF Shows
    <3>3. Type(i + 1) = "MAG"
      BY <1>2, <1>6, <2>1, <3>2 DEF Type, Rec
    <3>4. OrientEnd(i) = i + 2 \/ OrientEnd(i) = i + 3
      BY <3>3 DEF OrientEnd
    <3>5. i + 2 \in DOMAIN file
      BY <1>3, <1>4, <3>4
    <3>. QED BY <3>1, <3>5
  <2>2. CASE ~(mag /\ Angle(o) # 0)
    <3>1. i + 1 - 1 = i /\ i + 2 - 1 = i + 1
      OBVIOUS
    <3>2. CASE Len(r) = 1
      BY ONLY <1>6, <3>1, <3>2
    <3>3. CASE Len(r) = 2
      BY ONLY <1>6, <3>1, <3>3
    <3>4. Len(r) = 1 \/ Len(r) = 2
      BY <1>2, <2>2
    <3>. QED BY <3>2, <3>3, <3>4
  <2>. QED BY <2>1, <2>2
<1>8. Len(r) \in Nat
  BY <1>2, SeqHas
<1>. QED BY <1>1, <1>7, <1>8, WholeOf

\* An orientation that is whole is read back.
LEMMA OrientTaken ==
  ASSUME NEW o \in Orientation, NEW mag \in BOOLEAN, NEW i \in Nat,
         Whole(i, OrientRecords(o, mag)),
         Type(i + Len(OrientRecords(o, mag))) \notin {"MAG", "ANGLE"}
  PROVE  OrientEnd(i) = i + Len(OrientRecords(o, mag)) /\ OrientOK(i) /\ OrientAt(i) = o
<1>1. PICK r : r = OrientRecords(o, mag)
  OBVIOUS
<1>2. \A k \in 1 .. Len(r) : i + k - 1 \in DOMAIN file /\ file[i + k - 1] = r[k]
  BY <1>1 DEF Whole
<1>3. Type(i + Len(r)) \notin {"MAG", "ANGLE"}
  BY <1>1
<1>4. OrientEnd(i) = i + Len(r) /\ OrientOK(i) /\ OrientAt(i) = o
  BY <1>1, <1>2, <1>3, OrientRead
<1>. QED BY <1>1, <1>4

\* A shape: it is read when its five records are there.
LEMMA ShapeTaken ==
  ASSUME NEW p \in Nat, p # 0, IsSeq(file), NEW recs, NEW gds, NEW pts,
         IsPair(gds), IsShapeRecs(recs, gds, pts), Shows(p, recs)
  PROVE  /\ ShapeOK(p) => GdsAt(p + 1) = gds /\ ToSet(Val(p + 3)) = pts
         /\ Whole(p, recs) => ShapeOK(p)
<1>1. PICK xy \in Seq(Point) :
        /\ ToSet(xy) = pts
        /\ recs[2] = Rec("LAYER", gds[1]) /\ recs[4] = Rec("XY", xy) /\ recs[5] = Rec("ENDEL", None)
        /\ \/ recs[1] = Rec("BOX", None) /\ recs[3] = Rec("BOXTYPE", gds[2]) /\ Len(xy) = 5
           \/ recs[1] = Rec("BOUNDARY", None) /\ recs[3] = Rec("DATATYPE", gds[2])
  BY DEF IsShapeRecs
<1>2. IsSeq(recs) /\ Len(recs) = 5
  BY DEF IsShapeRecs
<1>3. /\ 1 \in 1 .. Len(recs) /\ 2 \in 1 .. Len(recs) /\ 3 \in 1 .. Len(recs)
      /\ 4 \in 1 .. Len(recs) /\ 5 \in 1 .. Len(recs)
      /\ p + 1 - 1 = p /\ p + 2 - 1 = p + 1 /\ p + 3 - 1 = p + 2 /\ p + 4 - 1 = p + 3 /\ p + 5 - 1 = p + 4
  BY <1>2
<1>4. ASSUME Whole(p, recs)
      PROVE  /\ Type(p) = recs[1].type /\ Type(p + 1) = "LAYER" /\ Type(p + 2) = recs[3].type
             /\ Type(p + 3) = "XY" /\ Type(p + 4) = "ENDEL"
             /\ Val(p + 1) = gds[1] /\ Val(p + 2) = gds[2] /\ Val(p + 3) = xy
  <2>1. /\ Type(p) = recs[1].type /\ Type(p + 1) = recs[2].type /\ Type(p + 2) = recs[3].type
        /\ Type(p + 3) = recs[4].type /\ Type(p + 4) = recs[5].type
        /\ Val(p + 1) = recs[2].val /\ Val(p + 2) = recs[3].val /\ Val(p + 3) = recs[4].val
    <3>1. \A k \in 1 .. Len(recs) : Type(p + k - 1) = recs[k].type /\ Val(p + k - 1) = recs[k].val
      BY <1>4, WholeAt
    <3>. QED BY ONLY <1>3, <3>1
  <2>2. recs[3].val = gds[2]
    BY <1>1 DEF Rec
  <2>. QED BY <1>1, <2>1, <2>2 DEF Rec
<1>5. ASSUME ShapeOK(p) PROVE GdsAt(p + 1) = gds /\ ToSet(Val(p + 3)) = pts
  <2>1. Type(p + 4) = "ENDEL"
    BY <1>5, TypesOf DEF ShapeOK
  <2>2. Whole(p, recs)
    <3>1. p + 4 \in DOMAIN file
      BY <2>1, TypeIn
    <3>2. p + Len(recs) - 1 \in DOMAIN file /\ Len(recs) \in Nat
      BY <1>2, <1>3, <3>1
    <3>. QED BY <3>2, WholeOf
  <2>3. Val(p + 1) = gds[1] /\ Val((p + 1) + 1) = gds[2] /\ Val(p + 3) = xy
    <3>1. (p + 1) + 1 = p + 2
      OBVIOUS
    <3>. QED BY <1>4, <2>2, <3>1
  <2>4. gds = <<gds[1], gds[2]>>
    BY DEF IsPair
  <2>. QED BY <1>1, <2>3, <2>4 DEF GdsAt
<1>6. ASSUME Whole(p, recs) PROVE ShapeOK(p)
  <2>1. CASE recs[1] = Rec("BOX", None) /\ recs[3] = Rec("BOXTYPE", gds[2]) /\ Len(xy) = 5
    <3>1. Type(p) = "BOX" /\ Type(p + 1) = "LAYER" /\ Type(p + 2) = "BOXTYPE" /\ Type(p + 3) = "XY" /\ Type(p + 4) = "ENDEL"
      BY <1>4, <1>6, <2>1 DEF Rec
    <3>2. Points(p + 3, 5)
      BY <1>4, <1>6, <2>1 DEF Points
    <3>. QED BY <3>1, <3>2, TypesOf DEF ShapeOK
  <2>2. CASE recs[1] = Rec("BOUNDARY", None) /\ recs[3] = Rec("DATATYPE", gds[2])
    <3>1. Type(p) = "BOUNDARY" /\ Type(p + 1) = "LAYER" /\ Type(p + 2) = "DATATYPE" /\ Type(p + 3) = "XY" /\ Type(p + 4) = "ENDEL"
      BY <1>4, <1>6, <2>2 DEF Rec
    <3>. QED BY <3>1, TypesOf DEF ShapeOK
  <2>. QED BY <1>1, <2>1, <2>2
<1>. QED BY <1>5, <1>6

\* A part of some records is where they are.
LEMMA PartOf ==
  ASSUME NEW p \in Nat, NEW r, NEW c, NEW m \in Nat, Len(r) \in Nat, Len(c) \in Nat, m + Len(c) <= Len(r),
         \A i \in 1 .. Len(c) : r[m + i] = c[i]
  PROVE  /\ Shows(p, r) => Shows(p + m, c)
         /\ Whole(p, r) => Whole(p + m, c)
<1>1. \A i \in 1 .. Len(c) : m + i \in 1 .. Len(r) /\ p + (m + i) - 1 = (p + m) + i - 1
  OBVIOUS
<1>. QED BY <1>1 DEF Shows, Whole

\* What the reader finds at record k: the record, or the end of the file.
LEMMA Found ==
  ASSUME NEW p, NEW r, Shows(p, r)
  PROVE  \A k \in 1 .. Len(r) : Type(p + k - 1) = r[k].type \/ Type(p + k - 1) = "EOF"
BY DEF Shows, Type

\* The same for an item that is whole.
LEMMA FoundWhole ==
  ASSUME NEW p, NEW r, Whole(p, r)
  PROVE  \A k \in 1 .. Len(r) : Type(p + k - 1) = r[k].type /\ Val(p + k - 1) = r[k].val
BY DEF Whole, Type, Val

\* The orientation of an element in a file that may be cut short: it is as it was written when
\* the reader goes on after it, and when the element is whole.
LEMMA OrientFound ==
  ASSUME NEW o \in Orientation, NEW mag \in BOOLEAN, NEW i \in Nat, i # 0, IsSeq(file),
         NEW c, c = OrientRecords(o, mag), Shows(i, c),
         Type(i + Len(c)) \notin {"MAG", "ANGLE"},
         Type(OrientEnd(i)) \in {"XY", "COLROW"} \/ Whole(i, c)
  PROVE  OrientEnd(i) = i + Len(c) /\ OrientOK(i) /\ OrientAt(i) = o
<1>1. Whole(i, OrientRecords(o, mag))
  BY OrientWhole
<1>2. Type(i + Len(OrientRecords(o, mag))) \notin {"MAG", "ANGLE"}
  OBVIOUS
<1>. QED BY <1>1, <1>2, OrientTaken

\* The records of a text, c being those of its orientation.
IsTextOf(r, c, gds, text, x) ==
  /\ IsSeq(r) /\ Len(c) \in Nat /\ Len(r) = Len(c) + 7
  /\ r[1] = Rec("TEXT", None) /\ r[2] = Rec("LAYER", gds[1]) /\ r[3] = Rec("TEXTTYPE", gds[2])
  /\ r[4] = Rec("PRESENTATION", None)
  /\ \A i \in 1 .. Len(c) : r[4 + i] = c[i]
  /\ r[Len(c) + 5] = Rec("XY", <<x.loc>>) /\ r[Len(c) + 6] = Rec("STRING", text)
  /\ r[Len(c) + 7] = Rec("ENDEL", None)

\* The records of a text.
LEMMA TextParts ==
  ASSUME NEW gds, NEW text, NEW x \in Xform, NEW mag \in BOOLEAN
  PROVE  IsTextOf(TextRecords(gds, text, x, mag), OrientRecords(x.orient, mag), gds, text, x)
<1>1. PICK a, b, c, d, e :
        /\ a = <<Rec("TEXT", None)>> /\ c = OrientRecords(x.orient, mag)
        /\ b = <<Rec("LAYER", gds[1]), Rec("TEXTTYPE", gds[2]), Rec("PRESENTATION", None)>>
        /\ d = <<Rec("XY", <<x.loc>>), Rec("STRING", text)>> /\ e = <<Rec("ENDEL", None)>>
  OBVIOUS
<1>2. PICK r : r = TextRecords(gds, text, x, mag)
  OBVIOUS
<1>3. r = a \o b \o c \o d \o e
  BY <1>1, <1>2 DEF TextRecords, Mark
<1>4. IsSeq(a) /\ IsSeq(b) /\ IsSeq(d) /\ IsSeq(e) /\ Len(a) = 1 /\ Len(b) = 3 /\ Len(d) = 2 /\ Len(e) = 1
  BY <1>1, Tuples
<1>5. IsSeq(c) /\ Len(c) \in Nat
  <2>1. x.orient \in Orientation
    BY DEF Xform
  <2>2. IsSeq(c)
    BY <1>1, <2>1, OrientParts
  <2>. QED BY ONLY <2>2, SeqHas
<1>6. /\ IsSeq(r) /\ Len(r) = Len(a) + Len(b) + Len(c) + Len(d) + Len(e)
      /\ \A i \in 1 .. Len(a) : r[i] = a[i]
      /\ \A i \in 1 .. Len(b) : r[Len(a) + i] = b[i]
      /\ \A i \in 1 .. Len(c) : r[Len(a) + Len(b) + i] = c[i]
      /\ \A i \in 1 .. Len(d) : r[Len(a) + Len(b) + Len(c) + i] = d[i]
      /\ \A i \in 1 .. Len(e) : r[Len(a) + Len(b) + Len(c) + Len(d) + i] = e[i]
  <2>1. LET r1 == a \o b \o c \o d \o e IN
        /\ IsSeq(r1) /\ Len(r1) = Len(a) + Len(b) + Len(c) + Len(d) + Len(e)
        /\ \A i \in 1 .. Len(a) : r1[i] = a[i]
        /\ \A i \in 1 .. Len(b) : r1[Len(a) + i] = b[i]
        /\ \A i \in 1 .. Len(c) : r1[Len(a) + Len(b) + i] = c[i]
        /\ \A i \in 1 .. Len(d) : r1[Len(a) + Len(b) + Len(c) + i] = d[i]
        /\ \A i \in 1 .. Len(e) : r1[Len(a) + Len(b) + Len(c) + Len(d) + i] = e[i]
    <3>1. IsSeq(a) /\ IsSeq(b) /\ IsSeq(c) /\ IsSeq(d) /\ IsSeq(e)
      BY ONLY <1>4, <1>5
    <3>. QED BY ONLY <3>1, FiveParts
  <2>. QED BY ONLY <1>3, <2>1
<1>7. r[1] = a[1] /\ r[2] = b[1] /\ r[3] = b[2] /\ r[4] = b[3]
  BY ONLY <1>4, <1>6
<1>8. \A i \in 1 .. Len(c) : r[4 + i] = c[i]
  BY ONLY <1>4, <1>6
<1>9. r[Len(c) + 5] = d[1] /\ r[Len(c) + 6] = d[2] /\ r[Len(c) + 7] = e[1] /\ Len(r) = Len(c) + 7
  <2>1. /\ 1 \in 1 .. Len(d) /\ 2 \in 1 .. Len(d) /\ 1 \in 1 .. Len(e)
        /\ Len(a) + Len(b) + Len(c) + 1 = Len(c) + 5 /\ Len(a) + Len(b) + Len(c) + 2 = Len(c) + 6
        /\ Len(a) + Len(b) + Len(c) + Len(d) + 1 = Len(c) + 7
        /\ Len(a) + Len(b) + Len(c) + Len(d) + Len(e) = Len(c) + 7
    BY ONLY <1>4, <1>5
  <2>. QED BY ONLY <1>6, <2>1
<1>10. IsTextOf(r, c, gds, text, x)
  BY <1>1, <1>5, <1>6, <1>7, <1>8, <1>9 DEF IsTextOf
<1>. QED BY <1>1, <1>2, <1>10

\* A text: when it is read it is skipped as a whole, and a whole one is read when its layer is known.
LEMMA TextTaken ==
  ASSUME NEW p \in Nat, p # 0, IsSeq(file), NEW gds, NEW text, NEW x \in Xform, NEW mag \in BOOLEAN,
         NEW recs, recs = TextRecords(gds, text, x, mag), Shows(p, recs)
  PROVE  /\ TextOK(p) => TextEnd(p) = p + Len(recs)
         /\ Whole(p, recs) /\ ReverseLookup(LayerMap, <<gds[1], gds[2]>>) # None => TextOK(p)
<1>1. PICK c : c = OrientRecords(x.orient, mag)
  OBVIOUS
<1>2. PICK q : q = Len(c)
  OBVIOUS
<1>3. /\ IsSeq(recs) /\ q \in Nat /\ Len(recs) = q + 7
      /\ recs[1] = Rec("TEXT", None) /\ recs[2] = Rec("LAYER", gds[1]) /\ recs[3] = Rec("TEXTTYPE", gds[2])
      /\ recs[4] = Rec("PRESENTATION", None)
      /\ \A i \in 1 .. q : recs[4 + i] = c[i]
      /\ recs[q + 5] = Rec("XY", <<x.loc>>) /\ recs[q + 6] = Rec("STRING", text)
      /\ recs[q + 7] = Rec("ENDEL", None)
  <2>1. IsTextOf(recs, c, gds, text, x)
    BY <1>1, TextParts
  <2>. QED BY ONLY <1>2, <2>1 DEF IsTextOf
<1>4. x.orient \in Orientation
  BY DEF Xform
<1>5. PICK i : i = p + 4
  OBVIOUS
<1>6. i \in Nat /\ i # 0
  BY <1>5
<1>7. Shows(i, c) /\ (Whole(p, recs) => Whole(i, c))
  <2>1. Len(recs) \in Nat /\ Len(c) \in Nat /\ 4 + Len(c) <= Len(recs) /\ \A j \in 1 .. Len(c) : recs[4 + j] = c[j]
    BY <1>2, <1>3
  <2>2. (Shows(p, recs) => Shows(p + 4, c)) /\ (Whole(p, recs) => Whole(p + 4, c))
    BY ONLY <2>1, PartOf, p \in Nat
  <2>. QED BY ONLY <1>5, <2>2, Shows(p, recs)
<1>8. /\ 1 \in 1 .. Len(recs) /\ 2 \in 1 .. Len(recs) /\ 3 \in 1 .. Len(recs) /\ 4 \in 1 .. Len(recs)
      /\ q + 5 \in 1 .. Len(recs) /\ q + 6 \in 1 .. Len(recs) /\ q + 7 \in 1 .. Len(recs)
      /\ p = p + 1 - 1 /\ p + 1 = p + 2 - 1 /\ p + 2 = p + 3 - 1 /\ p + 3 = p + 4 - 1
      /\ i + q = p + (q + 5) - 1 /\ (i + q + 3) - 3 = i + q
      /\ (i + q + 3) - 2 = p + (q + 6) - 1 /\ ((i + q + 3) - 2) + 1 = p + (q + 7) - 1
      /\ i + q + 3 = p + Len(recs)
  BY <1>3, <1>5
<1>9. Type(i + q) \notin {"MAG", "ANGLE"}
  <2>1. Type(i + q) = recs[q + 5].type \/ Type(i + q) = "EOF"
    <3>1. \A k \in 1 .. Len(recs) : Type(p + k - 1) = recs[k].type \/ Type(p + k - 1) = "EOF"
      BY Found
    <3>. QED BY ONLY <1>8, <3>1
  <2>. QED BY <1>3, <2>1 DEF Rec
<1>10. ASSUME Type(OrientEnd(i)) = "XY" \/ Whole(i, c)
       PROVE  OrientEnd(i) = i + q /\ OrientOK(i) /\ OrientAt(i) = x.orient /\ TextEnd(p) = i + q + 3
  <2>1. OrientEnd(i) = i + q /\ OrientOK(i) /\ OrientAt(i) = x.orient
    BY <1>1, <1>2, <1>4, <1>6, <1>7, <1>9, <1>10, OrientFound
  <2>. QED BY <1>5, <2>1 DEF TextEnd
<1>11. ASSUME TextOK(p) PROVE TextEnd(p) = p + Len(recs)
  <2>1. Type(TextEnd(p) - 3) = "XY"
    BY <1>11 DEF TextOK, Points
  <2>2. TextEnd(p) - 3 = OrientEnd(i)
    <3>1. OrientEnd(i) \in Int
      BY <1>6 DEF OrientEnd
    <3>. QED BY <1>5, <3>1 DEF TextEnd
  <2>. QED BY <1>8, <1>10, <2>1, <2>2
<1>12. ASSUME Whole(p, recs), ReverseLookup(LayerMap, <<gds[1], gds[2]>>) # None
       PROVE  TextOK(p)
  <2>0. \A k \in 1 .. Len(recs) : Type(p + k - 1) = recs[k].type /\ Val(p + k - 1) = recs[k].val
    BY <1>12, FoundWhole
  <2>1. /\ Type(p) = recs[1].type /\ Type(p + 1) = recs[2].type /\ Type(p + 2) = recs[3].type /\ Type(p + 3) = recs[4].type
        /\ Val(p + 1) = recs[2].val /\ Val(p + 2) = recs[3].val
    BY ONLY <1>8, <2>0
  <2>2. /\ Type(p) = "TEXT" /\ Type(p + 1) = "LAYER" /\ Type(p + 2) = "TEXTTYPE" /\ Type(p + 3) = "PRESENTATION"
        /\ Val(p + 1) = gds[1] /\ Val(p + 2) = gds[2]
    BY ONLY <1>3, <2>1 DEF Rec
  <2>3. OrientEnd(i) = i + q /\ OrientOK(i) /\ TextEnd(p) = i + q + 3
    BY <1>7, <1>10, <1>12
  <2>4. Type(i + q) = recs[q + 5].type /\ Val(i + q) = recs[q + 5].val
    BY ONLY <1>8, <2>0
  <2>5. Type((i + q + 3) - 2) = recs[q + 6].type /\ Type(((i + q + 3) - 2) + 1) = recs[q + 7].type
    BY ONLY <1>8, <2>0
  <2>6. Points(TextEnd(p) - 3, 1)
    <3>1. Type(i + q) = "XY" /\ Val(i + q) = <<x.loc>> /\ Len(<<x.loc>>) = 1
      BY <1>3, <2>4 DEF Rec
    <3>. QED BY <1>8, <2>3, <3>1 DEF Points
  <2>7. Types(TextEnd(p) - 2, <<"STRING", "ENDEL">>)
    <3>1. Type((i + q + 3) - 2) = "STRING" /\ Type(((i + q + 3) - 2) + 1) = "ENDEL"
      BY <1>3, <2>5 DEF Rec
    <3>2. (i + q + 3) - 2 \in Int
      BY <1>3, <1>6
    <3>. QED BY <2>3, <3>1, <3>2, TypesOf
  <2>8. Types(p, <<"TEXT", "LAYER", "TEXTTYPE", "PRESENTATION">>)
    BY <2>2, TypesOf
  <2>9. GdsAt(p + 1) = <<gds[1], gds[2]>>
    <3>1. (p + 1) + 1 = p + 2
      OBVIOUS
    <3>. QED BY <2>2, <3>1 DEF GdsAt
  <2>. QED BY <1>5, <1>12, <2>3, <2>6, <2>7, <2>8, <2>9 DEF TextOK
<1>. QED BY <1>11, <1>12

\* The records of an instance of ref, c being those of its orientation and d those of its place.
IsInstRecs(r, c, d, ref, inst) ==
  /\ IsSeq(r) /\ Len(c) \in Nat /\ Len(d) \in Nat /\ Len(r) = Len(c) + Len(d) + 5
  /\ r[1] = Rec(IF IsArray(inst.n) THEN "AREF" ELSE "SREF", None) /\ r[2] = Rec("SNAME", ref)
  /\ \A i \in 1 .. Len(c) : r[2 + i] = c[i]
  /\ \A i \in 1 .. Len(d) : r[2 + Len(c) + i] = d[i]
  /\ r[Len(c) + Len(d) + 3] = Rec("PROPATTR", "inst_name")
  /\ r[Len(c) + Len(d) + 4] = Rec("PROPVALUE", inst.name)
  /\ r[Len(c) + Len(d) + 5] = Rec("ENDEL", None)

\* The records of an instance.
LEMMA InstParts ==
  ASSUME NEW ref, NEW inst, IsInstOf(inst)
  PROVE  IsInstRecs(InstRecs(ref, inst), OrientRecords(inst.xform.orient, FALSE), PlaceRecords(inst), ref, inst)
<1>1. PICK a, b, c, d, e, f :
        /\ a = <<Rec(IF IsArray(inst.n) THEN "AREF" ELSE "SREF", None)>> /\ b = <<Rec("SNAME", ref)>>
        /\ c = OrientRecords(inst.xform.orient, FALSE) /\ d = PlaceRecords(inst)
        /\ e = <<Rec("PROPATTR", "inst_name"), Rec("PROPVALUE", inst.name)>> /\ f = <<Rec("ENDEL", None)>>
  OBVIOUS
<1>2. PICK w, r : w = a \o b \o c \o d \o e /\ r = w \o f
  OBVIOUS
<1>3. r = InstRecs(ref, inst)
  BY <1>1, <1>2 DEF InstRecs, Mark, PropInstName
<1>4. IsSeq(a) /\ IsSeq(b) /\ IsSeq(e) /\ IsSeq(f) /\ Len(a) = 1 /\ Len(b) = 1 /\ Len(e) = 2 /\ Len(f) = 1
  BY <1>1, Tuples
<1>5. IsSeq(c) /\ IsSeq(d)
  <2>1. inst.xform.orient \in Orientation
    BY DEF IsInstOf, Xform
  <2>2. IsSeq(c)
    BY <1>1, <2>1, OrientParts
  <2>3. GoodRecs(d)
    BY <1>1, GoodPlace
  <2>. QED BY <2>2, <2>3 DEF GoodRecs
<1>6. Len(c) \in Nat /\ Len(d) \in Nat
  BY ONLY <1>5, SeqHas
<1>7. /\ IsSeq(w) /\ Len(w) = Len(a) + Len(b) + Len(c) + Len(d) + Len(e)
      /\ \A i \in 1 .. Len(a) : w[i] = a[i]
      /\ \A i \in 1 .. Len(b) : w[Len(a) + i] = b[i]
      /\ \A i \in 1 .. Len(c) : w[Len(a) + Len(b) + i] = c[i]
      /\ \A i \in 1 .. Len(d) : w[Len(a) + Len(b) + Len(c) + i] = d[i]
      /\ \A i \in 1 .. Len(e) : w[Len(a) + Len(b) + Len(c) + Len(d) + i] = e[i]
  <2>1. LET r1 == a \o b \o c \o d \o e IN
        /\ IsSeq(r1) /\ Len(r1) = Len(a) + Len(b) + Len(c) + Len(d) + Len(e)
        /\ \A i \in 1 .. Len(a) : r1[i] = a[i]
        /\ \A i \in 1 .. Len(b) : r1[Len(a) + i] = b[i]
        /\ \A i \in 1 .. Len(c) : r1[Len(a) + Len(b) + i] = c[i]
        /\ \A i \in 1 .. Len(d) : r1[Len(a) + Len(b) + Len(c) + i] = d[i]
        /\ \A i \in 1 .. Len(e) : r1[Len(a) + Len(b) + Len(c) + Len(d) + i] = e[i]
    <3>1. IsSeq(a) /\ IsSeq(b) /\ IsSeq(c) /\ IsSeq(d) /\ IsSeq(e)
      BY ONLY <1>4, <1>5
    <3>. QED BY ONLY <3>1, FiveParts
  <2>. QED BY ONLY <1>2, <2>1
<1>8. /\ IsSeq(r) /\ Len(r) = Len(w) + Len(f)
      /\ \A i \in 1 .. Len(w) : r[i] = w[i]
      /\ \A i \in 1 .. Len(f) : r[Len(w) + i] = f[i]
  <2>1. IsSeq(w) /\ IsSeq(f)
    BY ONLY <1>4, <1>7
  <2>. QED BY ONLY <1>2, <2>1, ConcatOf
<1>9. Len(w) = Len(c) + Len(d) + 4 /\ Len(w) \in Nat /\ Len(r) = Len(c) + Len(d) + 5
  BY ONLY <1>4, <1>6, <1>7, <1>8
<1>10. r[1] = a[1] /\ r[2] = b[1]
  <2>1. 1 \in 1 .. Len(w) /\ 2 \in 1 .. Len(w) /\ 1 \in 1 .. Len(a) /\ 1 \in 1 .. Len(b) /\ Len(a) + 1 = 2
    BY ONLY <1>4, <1>6, <1>9
  <2>. QED BY ONLY <1>7, <1>8, <2>1
<1>11. \A i \in 1 .. Len(c) : r[2 + i] = c[i]
  <2>1. \A i \in 1 .. Len(c) : 2 + i \in 1 .. Len(w) /\ Len(a) + Len(b) + i = 2 + i
    BY ONLY <1>4, <1>6, <1>9
  <2>. QED BY ONLY <1>7, <1>8, <2>1
<1>12. \A i \in 1 .. Len(d) : r[2 + Len(c) + i] = d[i]
  <2>1. \A i \in 1 .. Len(d) : 2 + Len(c) + i \in 1 .. Len(w) /\ Len(a) + Len(b) + Len(c) + i = 2 + Len(c) + i
    BY ONLY <1>4, <1>6, <1>9
  <2>. QED BY ONLY <1>7, <1>8, <2>1
<1>13. r[Len(c) + Len(d) + 3] = e[1] /\ r[Len(c) + Len(d) + 4] = e[2] /\ r[Len(c) + Len(d) + 5] = f[1]
  <2>1. /\ Len(c) + Len(d) + 3 \in 1 .. Len(w) /\ Len(c) + Len(d) + 4 \in 1 .. Len(w)
        /\ Len(a) + Len(b) + Len(c) + Len(d) + 1 = Len(c) + Len(d) + 3
        /\ Len(a) + Len(b) + Len(c) + Len(d) + 2 = Len(c) + Len(d) + 4
        /\ Len(w) + 1 = Len(c) + Len(d) + 5
        /\ 1 \in 1 .. Len(e) /\ 2 \in 1 .. Len(e) /\ 1 \in 1 .. Len(f)
    BY ONLY <1>4, <1>6, <1>9
  <2>. QED BY ONLY <1>7, <1>8, <2>1
<1>14. IsInstRecs(r, c, d, ref, inst)
  BY <1>1, <1>6, <1>8, <1>9, <1>10, <1>11, <1>12, <1>13 DEF IsInstRecs
<1>. QED BY <1>1, <1>3, <1>14

\* The place of an instance: a point, or for an array the numbers and three points.
LEMMA PlaceParts ==
  ASSUME NEW inst, IsInstOf(inst)
  PROVE  LET d == PlaceRecords(inst) IN
         /\ ~IsArray(inst.n) => Len(d) = 1 /\ d[1] = Rec("XY", <<inst.xform.loc>>)
         /\ IsArray(inst.n) =>
              /\ Len(d) = 2 /\ d[1] = Rec("COLROW", Swapped(inst.xform.orient, inst.n))
              /\ \E xy : d[2] = Rec("XY", xy) /\ Len(xy) = 3 /\ xy[1] = inst.xform.loc
<1>1. PICK d, arr : d = PlaceRecords(inst) /\ arr = ConvertArray(inst.xform, inst.n, inst.sp)
  OBVIOUS
<1>2. ~IsArray(inst.n) => Len(d) = 1 /\ d[1] = Rec("XY", <<inst.xform.loc>>)
  <2>1. ~IsArray(inst.n) => d = <<Rec("XY", <<inst.xform.loc>>)>>
    BY <1>1 DEF PlaceRecords
  <2>. QED BY ONLY <2>1
<1>3. ASSUME IsArray(inst.n)
      PROVE  /\ Len(d) = 2 /\ d[1] = Rec("COLROW", Swapped(inst.xform.orient, inst.n))
             /\ \E xy : d[2] = Rec("XY", xy) /\ Len(xy) = 3 /\ xy[1] = inst.xform.loc
  <2>1. PICK xy : xy = ArrayPoints(inst.xform, arr)
    OBVIOUS
  <2>2. arr.n = Swapped(inst.xform.orient, inst.n) /\ Len(xy) = 3 /\ xy[1] = inst.xform.loc
    BY <1>1, <2>1, ArrayFacts
  <2>3. d = <<Rec("COLROW", arr.n), Rec("XY", xy)>>
    BY <1>1, <1>3, <2>1 DEF PlaceRecords
  <2>4. Len(d) = 2 /\ d[1] = Rec("COLROW", arr.n) /\ d[2] = Rec("XY", xy)
    BY ONLY <2>3
  <2>. QED BY <2>2, <2>4
<1>. QED BY <1>1, <1>2, <1>3

\* An instance that is not an array counts one row and one column; the reader turns back
\* the counts of an array.
LEMMA CountsBack ==
  ASSUME NEW n \in Counts, NEW o
  PROVE  /\ ~IsArray(n) => n = <<1, 1>>
         /\ Swapped(o, Swapped(o, n)) = n
<1>1. n = <<n[1], n[2]>> /\ n[1] \in Nat \ {0} /\ n[2] \in Nat \ {0}
  BY DEF Counts
<1>2. ~IsArray(n) => n = <<1, 1>>
  <2>1. ~IsArray(n) => n[1] = 1 /\ n[2] = 1
    BY <1>1 DEF IsArray
  <2>. QED BY <1>1, <2>1
<1>3. Swapped(o, Swapped(o, n)) = n
  BY <1>1 DEF Swapped
<1>. QED BY <1>2, <1>3

\* What the reader finds of an instance: first where it stands and how it is turned, and
\* after its place its name.
InstFacts(p, recs, ref, inst, q, s) ==
  /\ p \in Nat /\ p # 0 /\ IsSeq(file) /\ IsInstOf(inst)
  /\ Shows(p, recs) /\ q \in Nat /\ s \in {1, 2} /\ Len(recs) = q + s + 5
  /\ s = IF IsArray(inst.n) THEN 2 ELSE 1
  /\ recs[1] = Rec(IF IsArray(inst.n) THEN "AREF" ELSE "SREF", None) /\ recs[2] = Rec("SNAME", ref)
  /\ ~IsArray(inst.n) => recs[q + 3] = Rec("XY", <<inst.xform.loc>>)
  /\ IsArray(inst.n) =>
       /\ recs[q + 3] = Rec("COLROW", Swapped(inst.xform.orient, inst.n))
       /\ \E xy : recs[q + 4] = Rec("XY", xy) /\ Len(xy) = 3 /\ xy[1] = inst.xform.loc
  /\ recs[q + s + 3] = Rec("PROPATTR", "inst_name")
  /\ recs[q + s + 4] = Rec("PROPVALUE", inst.name)
  /\ recs[q + s + 5] = Rec("ENDEL", None)
  /\ Type(OrientEnd(p + 2)) \in {"XY", "COLROW"} \/ Whole(p, recs) =>
       OrientEnd(p + 2) = p + 2 + q /\ OrientOK(p + 2) /\ OrientAt(p + 2) = inst.xform.orient

\* Where the records of an instance are, the reader finds its facts.
LEMMA InstFound ==
  ASSUME NEW p \in Nat, p # 0, IsSeq(file), NEW ref, NEW inst, IsInstOf(inst),
         NEW recs, recs = InstRecs(ref, inst), Shows(p, recs)
  PROVE  \E q, s : InstFacts(p, recs, ref, inst, q, s)
<1>1. PICK c, d, q, s :
        /\ c = OrientRecords(inst.xform.orient, FALSE) /\ d = PlaceRecords(inst)
        /\ q = Len(c) /\ s = Len(d)
  OBVIOUS
<1>2. IsInstRecs(recs, c, d, ref, inst)
  BY <1>1, InstParts
<1>3. /\ IsSeq(recs) /\ q \in Nat /\ s \in Nat /\ Len(recs) = q + s + 5
      /\ recs[1] = Rec(IF IsArray(inst.n) THEN "AREF" ELSE "SREF", None) /\ recs[2] = Rec("SNAME", ref)
      /\ \A i \in 1 .. q : recs[2 + i] = c[i]
      /\ \A i \in 1 .. s : recs[2 + q + i] = d[i]
      /\ recs[q + s + 3] = Rec("PROPATTR", "inst_name")
      /\ recs[q + s + 4] = Rec("PROPVALUE", inst.name)
      /\ recs[q + s + 5] = Rec("ENDEL", None)
  BY ONLY <1>1, <1>2 DEF IsInstRecs
<1>4. /\ ~IsArray(inst.n) => s = 1 /\ d[1] = Rec("XY", <<inst.xform.loc>>)
      /\ IsArray(inst.n) =>
           /\ s = 2 /\ d[1] = Rec("COLROW", Swapped(inst.xform.orient, inst.n))
           /\ \E xy : d[2] = Rec("XY", xy) /\ Len(xy) = 3 /\ xy[1] = inst.xform.loc
  BY <1>1, PlaceParts
<1>5. s \in {1, 2} /\ s = (IF IsArray(inst.n) THEN 2 ELSE 1)
  BY ONLY <1>4
<1>6. recs[q + 3] = d[1] /\ (IsArray(inst.n) => recs[q + 4] = d[2])
  <2>1. /\ 1 \in 1 .. s /\ (IsArray(inst.n) => 2 \in 1 .. s) /\ 2 + q + 1 = q + 3 /\ 2 + q + 2 = q + 4
    BY ONLY <1>3, <1>5
  <2>. QED BY ONLY <1>3, <2>1
<1>7. inst.xform.orient \in Orientation
  BY DEF IsInstOf, Xform
<1>8. PICK i : i = p + 2
  OBVIOUS
<1>9. Shows(i, c) /\ (Whole(p, recs) => Whole(i, c))
  <2>1. Len(recs) \in Nat /\ Len(c) \in Nat /\ 2 + Len(c) <= Len(recs) /\ \A j \in 1 .. Len(c) : recs[2 + j] = c[j]
    <3>1. q = Len(c)
      BY ONLY <1>1
    <3>. QED BY ONLY <1>3, <3>1
  <2>2. (Shows(p, recs) => Shows(p + 2, c)) /\ (Whole(p, recs) => Whole(p + 2, c))
    BY ONLY <2>1, PartOf, p \in Nat
  <2>. QED BY ONLY <1>8, <2>2, Shows(p, recs)
<1>10. Type(i + q) \notin {"MAG", "ANGLE"}
  <2>1. \A k \in 1 .. Len(recs) : Type(p + k - 1) = recs[k].type \/ Type(p + k - 1) = "EOF"
    BY Found
  <2>2. q + 3 \in 1 .. Len(recs) /\ p + (q + 3) - 1 = i + q
    BY ONLY <1>3, <1>8, p \in Nat
  <2>3. Type(i + q) = recs[q + 3].type \/ Type(i + q) = "EOF"
    BY ONLY <2>1, <2>2
  <2>4. recs[q + 3].type \in {"XY", "COLROW"}
    BY <1>4, <1>6 DEF Rec
  <2>. QED BY ONLY <2>3, <2>4
<1>11. ASSUME Type(OrientEnd(i)) \in {"XY", "COLROW"} \/ Whole(p, recs)
       PROVE  OrientEnd(i) = i + q /\ OrientOK(i) /\ OrientAt(i) = inst.xform.orient
  <2>1. i \in Nat /\ i # 0 /\ FALSE \in BOOLEAN
    BY <1>8
  <2>2. Type(i + Len(c)) \notin {"MAG", "ANGLE"}
    BY <1>1, <1>10
  <2>3. OrientEnd(i) = i + Len(c) /\ OrientOK(i) /\ OrientAt(i) = inst.xform.orient
    BY <1>1, <1>7, <1>9, <1>11, <2>1, <2>2, OrientFound
  <2>. QED BY <1>1, <2>3
<1>12. InstFacts(p, recs, ref, inst, q, s)
  BY <1>3, <1>4, <1>5, <1>6, <1>8, <1>11 DEF InstFacts
<1>. QED BY <1>12

\* The name at the end of an instance.
LEMMA NameFound ==
  ASSUME NEW p, NEW recs, NEW ref, NEW inst, NEW q, NEW s, InstFacts(p, recs, ref, inst, q, s),
         NEW j, j = p + q + s + 2
  PROVE  /\ NameOK(j) => NameEnd(j) = p + Len(recs)
         /\ Whole(p, recs) => NameOK(j)
<1>1. p \in Nat /\ q \in Nat /\ s \in Nat /\ Len(recs) = q + s + 5 /\ Shows(p, recs)
  BY DEF InstFacts
<1>2. /\ recs[q + s + 3] = Rec("PROPATTR", "inst_name")
      /\ recs[q + s + 4] = Rec("PROPVALUE", inst.name)
      /\ recs[q + s + 5] = Rec("ENDEL", None)
  BY DEF InstFacts
<1>3. /\ q + s + 3 \in 1 .. Len(recs) /\ q + s + 4 \in 1 .. Len(recs) /\ q + s + 5 \in 1 .. Len(recs)
      /\ p + (q + s + 3) - 1 = j /\ p + (q + s + 4) - 1 = j + 1 /\ p + (q + s + 5) - 1 = j + 2
      /\ j + 3 = p + Len(recs) /\ j \in Int
  BY <1>1
<1>4. Type(j) # "ENDEL"
  <2>1. \A k \in 1 .. Len(recs) : Type(p + k - 1) = recs[k].type \/ Type(p + k - 1) = "EOF"
    BY <1>1, Found
  <2>2. Type(j) = recs[q + s + 3].type \/ Type(j) = "EOF"
    BY ONLY <1>3, <2>1
  <2>3. recs[q + s + 3].type = "PROPATTR"
    BY <1>2 DEF Rec
  <2>. QED BY ONLY <2>2, <2>3
<1>5. NameEnd(j) = p + Len(recs)
  BY <1>3, <1>4 DEF NameEnd
<1>6. ASSUME Whole(p, recs) PROVE NameOK(j)
  <2>1. \A k \in 1 .. Len(recs) : Type(p + k - 1) = recs[k].type /\ Val(p + k - 1) = recs[k].val
    BY <1>6, FoundWhole
  <2>2. /\ Type(j) = recs[q + s + 3].type /\ Val(j) = recs[q + s + 3].val
        /\ Type(j + 1) = recs[q + s + 4].type /\ Type(j + 2) = recs[q + s + 5].type
    BY ONLY <1>3, <2>1
  <2>3. Type(j) = "PROPATTR" /\ Val(j) = "inst_name" /\ Type(j + 1) = "PROPVALUE" /\ Type(j + 2) = "ENDEL"
    BY ONLY <1>2, <2>2 DEF Rec
  <2>. QED BY <1>3, <2>3, TypesOf DEF NameOK, NamedAt
<1>. QED BY <1>5, <1>6

\* Its name and type, when they are there.
LEMMA RefFound ==
  ASSUME NEW p, NEW recs, NEW ref, NEW inst, NEW q, NEW s, InstFacts(p, recs, ref, inst, q, s)
  PROVE  /\ Type(p) = "SREF" => ~IsArray(inst.n)
         /\ Type(p) = "AREF" => IsArray(inst.n)
         /\ RefOK(p) => NameAt(p + 1) = NameOf(ref)
         /\ Whole(p, recs) => /\ Type(p) = IF IsArray(inst.n) THEN "AREF" ELSE "SREF"
                              /\ NameAt(p + 1) = NameOf(ref)
                              /\ Masters(NameOf(ref)) # {} => RefOK(p)
<1>1. p \in Nat /\ q \in Nat /\ s \in Nat /\ Len(recs) = q + s + 5 /\ Shows(p, recs)
  BY DEF InstFacts
<1>2. recs[1] = Rec(IF IsArray(inst.n) THEN "AREF" ELSE "SREF", None) /\ recs[2] = Rec("SNAME", ref)
  BY DEF InstFacts
<1>3. 1 \in 1 .. Len(recs) /\ 2 \in 1 .. Len(recs) /\ p + 1 - 1 = p /\ p + 2 - 1 = p + 1
  BY <1>1
<1>4. \A k \in 1 .. Len(recs) : Type(p + k - 1) = recs[k].type \/ Type(p + k - 1) = "EOF"
  BY <1>1, Found
<1>5. Type(p) = recs[1].type \/ Type(p) = "EOF"
  BY ONLY <1>3, <1>4
<1>6. recs[1].type = (IF IsArray(inst.n) THEN "AREF" ELSE "SREF") /\ recs[2].type = "SNAME" /\ recs[2].val = ref
  BY <1>2 DEF Rec
<1>7. ASSUME RefOK(p) PROVE NameAt(p + 1) = NameOf(ref)
  <2>1. Type(p + 1) = "SNAME"
    BY <1>7 DEF RefOK
  <2>2. p + 1 \in DOMAIN file
    BY <2>1, TypeIn
  <2>3. file[p + 1] = recs[2]
    BY <1>1, <1>3, <2>2 DEF Shows
  <2>. QED BY <1>6, <2>3 DEF NameAt, NameOf, Val
<1>8. ASSUME Whole(p, recs)
      PROVE  /\ Type(p) = IF IsArray(inst.n) THEN "AREF" ELSE "SREF"
             /\ NameAt(p + 1) = NameOf(ref)
             /\ Masters(NameOf(ref)) # {} => RefOK(p)
  <2>1. \A k \in 1 .. Len(recs) : Type(p + k - 1) = recs[k].type /\ Val(p + k - 1) = recs[k].val
    BY <1>8, FoundWhole
  <2>2. Type(p) = recs[1].type /\ Type(p + 1) = recs[2].type /\ Val(p + 1) = recs[2].val
    BY ONLY <1>3, <2>1
  <2>3. NameAt(p + 1) = NameOf(ref)
    BY <1>6, <2>2 DEF NameAt, NameOf
  <2>4. OrientOK(p + 2)
    BY <1>8 DEF InstFacts
  <2>. QED BY <1>6, <2>2, <2>3, <2>4 DEF RefOK
<1>. QED BY <1>5, <1>6, <1>7, <1>8

\* What the reader takes of an instance that it accepts.
LEMMA InstTaken ==
  ASSUME NEW p, NEW recs, NEW ref, NEW inst, NEW q, NEW s, InstFacts(p, recs, ref, inst, q, s), InstOK(p),
         NEW at, at = OrientEnd(p + 2)
  PROVE  /\ ~IsArray(inst.n) /\ NameAt(p + 1) = NameOf(ref) /\ OrientAt(p + 2) = inst.xform.orient
         /\ Val(at)[1] = inst.xform.loc /\ NameEnd(at + 1) = p + Len(recs)
<1>1. Type(p) = "SREF" /\ RefOK(p) /\ Type(at) = "XY" /\ NameOK(at + 1)
  BY DEF InstOK, Points
<1>2. ~IsArray(inst.n) /\ NameAt(p + 1) = NameOf(ref)
  BY <1>1, RefFound
<1>3. s = 1 /\ recs[q + 3] = Rec("XY", <<inst.xform.loc>>)
  BY <1>2 DEF InstFacts
<1>4. at = p + 2 + q /\ OrientAt(p + 2) = inst.xform.orient
  BY <1>1 DEF InstFacts
<1>5. p \in Nat /\ q \in Nat /\ Len(recs) = q + s + 5 /\ Shows(p, recs)
  BY DEF InstFacts
<1>6. at = p + (q + 3) - 1 /\ q + 3 \in 1 .. Len(recs) /\ at + 1 = p + q + s + 2
  BY ONLY <1>3, <1>4, <1>5
<1>7. Val(at)[1] = inst.xform.loc
  <2>1. at \in DOMAIN file
    BY <1>1, TypeIn
  <2>2. file[at] = recs[q + 3]
    BY <1>5, <1>6, <2>1 DEF Shows
  <2>3. Val(at) = <<inst.xform.loc>>
    BY <1>3, <2>2 DEF Val, Rec
  <2>. QED BY ONLY <2>3
<1>8. NameEnd(at + 1) = p + Len(recs)
  BY <1>1, <1>6, NameFound
<1>. QED BY <1>2, <1>4, <1>7, <1>8

\* What read_arr_instance takes of an array: its master, orientation, counts and place.
LEMMA ArrTaken ==
  ASSUME NEW p, NEW recs, NEW ref, NEW inst, NEW q, NEW s, InstFacts(p, recs, ref, inst, q, s), ArrOK(p),
         NEW at, at = OrientEnd(p + 2)
  PROVE  /\ NameAt(p + 1) = NameOf(ref) /\ OrientAt(p + 2) = inst.xform.orient
         /\ Val(at) = Swapped(inst.xform.orient, inst.n)
         /\ Val(at + 1)[1] = inst.xform.loc /\ NameEnd(at + 2) = p + Len(recs)
<1>1. Type(p) = "AREF" /\ RefOK(p) /\ Type(at) = "COLROW" /\ Type(at + 1) = "XY" /\ NameOK(at + 2)
  BY DEF ArrOK, Points
<1>2. IsArray(inst.n) /\ NameAt(p + 1) = NameOf(ref)
  BY <1>1, RefFound
<1>3. s = 2 /\ recs[q + 3] = Rec("COLROW", Swapped(inst.xform.orient, inst.n))
  BY <1>2 DEF InstFacts
<1>4. PICK xy : recs[q + 4] = Rec("XY", xy) /\ xy[1] = inst.xform.loc
  BY <1>2 DEF InstFacts
<1>5. at = p + 2 + q /\ OrientAt(p + 2) = inst.xform.orient
  BY <1>1 DEF InstFacts
<1>6. p \in Nat /\ q \in Nat /\ Len(recs) = q + s + 5 /\ Shows(p, recs)
  BY DEF InstFacts
<1>7. /\ at = p + (q + 3) - 1 /\ q + 3 \in 1 .. Len(recs) /\ at + 1 = p + (q + 4) - 1 /\ q + 4 \in 1 .. Len(recs)
      /\ at + 2 = p + q + s + 2
  BY ONLY <1>3, <1>5, <1>6
<1>8. Val(at) = Swapped(inst.xform.orient, inst.n)
  <2>1. at \in DOMAIN file
    BY <1>1, TypeIn
  <2>2. file[at] = recs[q + 3]
    BY <1>6, <1>7, <2>1 DEF Shows
  <2>. QED BY <1>3, <2>2 DEF Val, Rec
<1>9. Val(at + 1)[1] = inst.xform.loc
  <2>1. at + 1 \in DOMAIN file
    BY <1>1, TypeIn
  <2>2. file[at + 1] = recs[q + 4]
    BY <1>6, <1>7, <2>1 DEF Shows
  <2>3. Val(at + 1) = xy
    BY <1>4, <2>2 DEF Val, Rec
  <2>. QED BY <1>4, <2>3
<1>10. NameEnd(at + 2) = p + Len(recs)
  BY <1>1, <1>7, NameFound
<1>. QED BY <1>2, <1>5, <1>8, <1>9, <1>10

\* A whole instance of a cellview that was read is accepted.
LEMMA InstAccepted ==
  ASSUME NEW p, NEW recs, NEW ref, NEW inst, NEW q, NEW s, InstFacts(p, recs, ref, inst, q, s),
         Whole(p, recs), Masters(NameOf(ref)) # {}
  PROVE  InstOK(p) \/ ArrOK(p)
<1>1. PICK at : at = OrientEnd(p + 2)
  OBVIOUS
<1>2. RefOK(p) /\ Type(p) = IF IsArray(inst.n) THEN "AREF" ELSE "SREF"
  BY RefFound
<1>3. at = p + 2 + q
  BY <1>1 DEF InstFacts
<1>4. p \in Nat /\ q \in Nat /\ Len(recs) = q + s + 5 /\ s = IF IsArray(inst.n) THEN 2 ELSE 1
  BY DEF InstFacts
<1>5. \A k \in 1 .. Len(recs) : Type(p + k - 1) = recs[k].type /\ Val(p + k - 1) = recs[k].val
  BY FoundWhole
<1>6. at = p + (q + 3) - 1 /\ q + 3 \in 1 .. Len(recs) /\ at + s = p + q + s + 2
  BY ONLY <1>3, <1>4
<1>7. NameOK(at + s)
  BY <1>6, NameFound
<1>8. Type(at) = recs[q + 3].type /\ Val(at) = recs[q + 3].val
  BY ONLY <1>5, <1>6
<1>9. CASE ~IsArray(inst.n)
  <2>1. recs[q + 3] = Rec("XY", <<inst.xform.loc>>) /\ Len(<<inst.xform.loc>>) = 1
    BY <1>9 DEF InstFacts
  <2>2. Points(at, 1)
    BY <1>8, <2>1 DEF Points, Rec
  <2>. QED BY <1>1, <1>2, <1>4, <1>7, <1>9, <2>2 DEF InstOK
<1>10. CASE IsArray(inst.n)
  <2>1. recs[q + 3] = Rec("COLROW", Swapped(inst.xform.orient, inst.n))
    BY <1>10 DEF InstFacts
  <2>2. PICK xy : recs[q + 4] = Rec("XY", xy) /\ Len(xy) = 3
    BY <1>10 DEF InstFacts
  <2>3. at + 1 = p + (q + 4) - 1 /\ q + 4 \in 1 .. Len(recs)
    BY <1>3, <1>4, <1>10
  <2>4. Type(at + 1) = recs[q + 4].type /\ Val(at + 1) = recs[q + 4].val
    BY ONLY <1>5, <2>3
  <2>5. Type(at) = "COLROW" /\ Points(at + 1, 3)
    BY <1>8, <2>1, <2>2, <2>4 DEF Points, Rec
  <2>. QED BY <1>1, <1>2, <1>4, <1>7, <1>10, <2>5 DEF ArrOK
<1>. QED BY <1>9, <1>10

-----------------------------------------------------------------------------
(***************************************************************************)
(* The types of what is read, for any file.                                *)
(***************************************************************************)

\* What a cellview that was read is made of, whatever the file was.
IsReadInst(inst) == inst.xform \in Xform /\ inst.n \in Nat \X Nat /\ inst.sp \in Point
IsRow(c) == c = [name |-> c.name, insts |-> c.insts, shapes |-> c.shapes, bnds |-> c.bnds, labels |-> c.labels]
IsReadCell(c) ==
  /\ IsRow(c) /\ IsSeq(c.insts) /\ \A inst \in ToSet(c.insts) : IsReadInst(inst)

ReaderTyped ==
  /\ IsSeq(cells) /\ \A c \in ToSet(cells) : IsReadCell(c)
  /\ IsReadCell(cur)
  /\ pos \in 1 .. Len(file) + 1
  /\ reader \in {"start", "idle", "cell", "done", "error"}

\* A sequence with one more element.
LEMMA AppendOf ==
  ASSUME NEW s, IsSeq(s), NEW x
  PROVE  LET t == Append(s, x) IN
         /\ IsSeq(t) /\ Len(t) = Len(s) + 1 /\ Len(s) \in Nat
         /\ \A i \in 1 .. Len(s) : t[i] = s[i]
         /\ t[Len(s) + 1] = x
         /\ ToSet(t) \subseteq ToSet(s) \cup {x}
<1>1. PICK S, t : S = ToSet(s) \cup {x} /\ t = Append(s, x)
  OBVIOUS
<1>2. s \in Seq(S) /\ x \in S
  <2>1. PICK T : T = ToSet(s)
    OBVIOUS
  <2>2. s \in Seq(T) /\ T \subseteq S
    BY <1>1, <2>1 DEF IsSeq
  <2>3. s \in Seq(S)
    BY ONLY <2>2
  <2>. QED BY <1>1, <2>3
<1>3. /\ t \in Seq(S) /\ Len(t) = Len(s) + 1 /\ Len(s) \in Nat
      /\ \A i \in 1 .. Len(s) : t[i] = s[i]
      /\ t[Len(s) + 1] = x
  BY ONLY <1>1, <1>2
<1>4. IsSeq(t) /\ ToSet(t) \subseteq S
  BY ONLY <1>3, SeqTypes
<1>. QED BY <1>1, <1>3, <1>4

\* A cellview with one of its fields changed.
LEMMA Fields ==
  ASSUME NEW c, IsRow(c), NEW x
  PROVE  /\ LET d == [c EXCEPT !.name = x] IN
            IsRow(d) /\ d.name = x /\ d.insts = c.insts /\ d.shapes = c.shapes /\ d.bnds = c.bnds
         /\ LET d == [c EXCEPT !.insts = x] IN
            IsRow(d) /\ d.name = c.name /\ d.insts = x /\ d.shapes = c.shapes /\ d.bnds = c.bnds
         /\ LET d == [c EXCEPT !.shapes = x] IN
            IsRow(d) /\ d.name = c.name /\ d.insts = c.insts /\ d.shapes = x /\ d.bnds = c.bnds
         /\ LET d == [c EXCEPT !.bnds = x] IN
            IsRow(d) /\ d.name = c.name /\ d.insts = c.insts /\ d.shapes = c.shapes /\ d.bnds = x
         /\ LET d == [c EXCEPT !.labels = x] IN
            IsRow(d) /\ d.name = c.name /\ d.insts = c.insts /\ d.shapes = c.shapes /\ d.bnds = c.bnds
<1>1. PICK n, i, s, b, l : c = [name |-> n, insts |-> i, shapes |-> s, bnds |-> b, labels |-> l]
  BY DEF IsRow
<1>2. c.name = n /\ c.insts = i /\ c.shapes = s /\ c.bnds = b /\ c.labels = l
  BY ONLY <1>1
<1>3. [c EXCEPT !.name = x] = [name |-> x, insts |-> i, shapes |-> s, bnds |-> b, labels |-> l]
  BY ONLY <1>1
<1>4. [c EXCEPT !.insts = x] = [name |-> n, insts |-> x, shapes |-> s, bnds |-> b, labels |-> l]
  BY ONLY <1>1
<1>5. [c EXCEPT !.shapes = x] = [name |-> n, insts |-> i, shapes |-> x, bnds |-> b, labels |-> l]
  BY ONLY <1>1
<1>6. [c EXCEPT !.bnds = x] = [name |-> n, insts |-> i, shapes |-> s, bnds |-> x, labels |-> l]
  BY ONLY <1>1
<1>7. [c EXCEPT !.labels = x] = [name |-> n, insts |-> i, shapes |-> s, bnds |-> b, labels |-> x]
  BY ONLY <1>1
<1>. QED BY ONLY <1>2, <1>3, <1>4, <1>5, <1>6, <1>7 DEF IsRow

\* The cellview before anything of it is read.
LEMMA NoCellIs ==
  /\ IsRow(NoCell) /\ NoCell.insts = << >> /\ NoCell.shapes = {} /\ NoCell.bnds = {}
  /\ IsReadCell(NoCell) /\ \A n : IsReadCell([NoCell EXCEPT !.name = n])
<1>1. IsSeq(<< >>) /\ ToSet(<< >>) = {}
  BY DEF IsSeq, ToSet
<1>2. IsRow(NoCell) /\ NoCell.insts = << >> /\ NoCell.shapes = {} /\ NoCell.bnds = {}
  BY DEF IsRow, NoCell
<1>3. ASSUME NEW n PROVE IsRow([NoCell EXCEPT !.name = n]) /\ [NoCell EXCEPT !.name = n].insts = << >>
  <2>1. PICK c : c = [NoCell EXCEPT !.name = n]
    OBVIOUS
  <2>2. c = [name |-> n, insts |-> << >>, shapes |-> {}, bnds |-> {}, labels |-> << >>]
    BY <2>1 DEF NoCell
  <2>3. IsRow(c) /\ c.insts = << >>
    BY ONLY <2>2 DEF IsRow
  <2>. QED BY <2>1, <2>3
<1>. QED BY <1>1, <1>2, <1>3 DEF IsReadCell

\* A cellview with one more instance, shape or boundary is of the right type.
LEMMA AddInst ==
  ASSUME NEW c, IsReadCell(c), NEW inst, IsReadInst(inst)
  PROVE  IsReadCell([c EXCEPT !.insts = Append(@, inst)])
<1>1. PICK s, t, d : s = c.insts /\ t = Append(s, inst) /\ d = [c EXCEPT !.insts = Append(@, inst)]
  OBVIOUS
<1>2. IsSeq(s) /\ \A i \in ToSet(s) : IsReadInst(i)
  BY <1>1 DEF IsReadCell
<1>3. IsSeq(t) /\ ToSet(t) \subseteq ToSet(s) \cup {inst}
  BY ONLY <1>1, <1>2, AppendOf
<1>4. IsRow(d) /\ d.insts = t
  <2>1. IsRow(c) /\ d = [c EXCEPT !.insts = t]
    BY <1>1 DEF IsReadCell
  <2>2. IsRow([c EXCEPT !.insts = t]) /\ [c EXCEPT !.insts = t].insts = t
    BY ONLY <2>1, Fields
  <2>. QED BY ONLY <2>1, <2>2
<1>5. IsReadCell(d)
  BY <1>2, <1>3, <1>4 DEF IsReadCell
<1>. QED BY <1>1, <1>5

LEMMA ObjectTyped ==
  ASSUME NEW c, IsReadCell(c), NEW gds, NEW pts
  PROVE  IsReadCell(AddObject(c, gds, pts))
<1>1. \A x : IsReadCell([c EXCEPT !.shapes = x]) /\ IsReadCell([c EXCEPT !.bnds = x])
  <2>1. SUFFICES ASSUME NEW x PROVE IsReadCell([c EXCEPT !.shapes = x]) /\ IsReadCell([c EXCEPT !.bnds = x])
    OBVIOUS
  <2>2. IsRow(c)
    BY DEF IsReadCell
  <2>3. /\ IsRow([c EXCEPT !.shapes = x]) /\ [c EXCEPT !.shapes = x].insts = c.insts
        /\ IsRow([c EXCEPT !.bnds = x]) /\ [c EXCEPT !.bnds = x].insts = c.insts
    BY ONLY <2>2, Fields
  <2>. QED BY <2>3 DEF IsReadCell
<1>. QED BY <1>1 DEF AddObject

\* What the reader makes of any orientation it accepts.
LEMMA OrientTyped ==
  ASSUME NEW i, OrientOK(i)
  PROVE  OrientAt(i) \in Orientation
<1>1. AngleAt(i) \in {0, 90, 180, 270}
  BY DEF OrientOK
<1>2. PICK m \in BOOLEAN : (IF Val(i) THEN "MX" ELSE "R0") = (IF m THEN "MX" ELSE "R0")
  <2>1. CASE Val(i)
    BY <2>1
  <2>2. CASE ~Val(i)
    BY <2>2
  <2>. QED BY <2>1, <2>2
<1>3. OrientAt(i) = Then(IF m THEN "MX" ELSE "R0", Rotation(AngleAt(i)))
  BY <1>2 DEF OrientAt
<1>4. Then(IF m THEN "MX" ELSE "R0", Rotation(AngleAt(i))) \in Orientation
  BY <1>1, ThenRotation
<1>. QED BY <1>3, <1>4

\* A division of the reader has a result: the counts of an array are not zero.
LEMMA DivInt ==
  ASSUME NEW a \in Int, NEW b \in Nat, b # 0
  PROVE  Div(a, b) \in Int
<1>1. a \div b \in Int /\ (-a) \div b \in Int
  <2>1. \A i \in Int : i \div b \in Int
    OBVIOUS
  <2>. QED BY <2>1
<1>. QED BY <1>1 DEF Div

\* The records that the reader takes points and counts from.
LEMMA RecordsTyped ==
  ASSUME GoodRecs(file), NEW i
  PROVE  /\ i \in DOMAIN file => i \in 1 .. Len(file) /\ Len(file) \in Nat
         /\ Type(i) = "XY" => Val(i) \in Seq(Point)
         /\ Type(i) = "COLROW" => Val(i) \in Counts
<1>1. DOMAIN file = 1 .. Len(file) /\ Len(file) \in Nat /\ \A k \in 1 .. Len(file) : file[k] \in ToSet(file)
  BY SeqHas DEF GoodRecs
<1>2. i \in DOMAIN file => IsRecord(file[i])
  BY <1>1 DEF GoodRecs
<1>3. Type(i) \in {"XY", "COLROW"} => i \in DOMAIN file
  BY TypeIn
<1>. QED BY <1>1, <1>2, <1>3 DEF IsRecord, Type, Val

\* The points of a record of points.
LEMMA PlaceTyped ==
  ASSUME GoodRecs(file), NEW i, NEW n \in Nat, n # 0, Points(i, n)
  PROVE  Val(i) \in Seq(Point) /\ \A k \in 1 .. n : Val(i)[k] \in Point
<1>1. PICK v : v = Val(i)
  OBVIOUS
<1>2. v \in Seq(Point) /\ Len(v) = n
  BY <1>1, RecordsTyped DEF Points
<1>3. \A k \in 1 .. n : v[k] \in Point
  BY ONLY <1>2
<1>. QED BY <1>1, <1>2, <1>3

\* Where the reader looks next is a position.
LEMMA EndTyped ==
  ASSUME NEW i \in Nat
  PROVE  OrientEnd(i) \in Nat /\ NameEnd(i) \in Nat
BY DEF OrientEnd, NameEnd

\* An element ends inside of the file.
LEMMA NameInside ==
  ASSUME GoodRecs(file), NEW j \in Nat, NameOK(j)
  PROVE  NameEnd(j) \in 1 .. Len(file) + 1
<1>1. CASE Type(j) = "ENDEL"
  <2>1. j \in 1 .. Len(file) /\ Len(file) \in Nat
    BY <1>1, TypeIn, RecordsTyped
  <2>. QED BY <1>1, <2>1 DEF NameEnd
<1>2. CASE Type(j) # "ENDEL"
  <2>1. Type(j + 2) = "ENDEL"
    BY <1>2, TypesOf DEF NameOK, NamedAt
  <2>2. j + 2 \in 1 .. Len(file) /\ Len(file) \in Nat
    BY <2>1, TypeIn, RecordsTyped
  <2>. QED BY <1>2, <2>2 DEF NameEnd
<1>. QED BY <1>1, <1>2

\* The reader takes from any file of records cellviews of instances with a place and counts,
\* and it stays inside of the file.
LEMMA TypedStart == ReaderTyped /\ GoodRecs(file) /\ ReadStart => ReaderTyped'
<1>. SUFFICES ASSUME ReaderTyped, GoodRecs(file), ReadStart PROVE ReaderTyped'
  OBVIOUS
<1>1. pos \in Nat /\ Type(pos + 3) = "UNITS"
  <2>1. pos \in Nat
    BY DEF ReaderTyped
  <2>. QED BY <2>1, TypesOf DEF ReadStart
<1>2. pos + 3 \in 1 .. Len(file) /\ Len(file) \in Nat
  BY <1>1, TypeIn, RecordsTyped
<1>3. pos' \in 1 .. Len(file) + 1 /\ file' = file
  BY <1>1, <1>2 DEF ReadStart, writer_vars
<1>. QED BY <1>3 DEF ReaderTyped, ReadStart

LEMMA TypedStruct == ReaderTyped /\ GoodRecs(file) /\ ReadStruct => ReaderTyped'
<1>. SUFFICES ASSUME ReaderTyped, GoodRecs(file), ReadStruct PROVE ReaderTyped'
  OBVIOUS
<1>1. pos \in Nat /\ Type(pos + 1) = "STRNAME"
  <2>1. pos \in Nat
    BY DEF ReaderTyped
  <2>. QED BY <2>1, TypesOf DEF ReadStruct
<1>2. pos + 1 \in 1 .. Len(file) /\ Len(file) \in Nat
  BY <1>1, TypeIn, RecordsTyped
<1>3. pos' \in 1 .. Len(file) + 1 /\ file' = file
  BY <1>1, <1>2 DEF ReadStruct, writer_vars
<1>4. IsReadCell(cur')
  BY NoCellIs DEF ReadStruct
<1>. QED BY <1>3, <1>4 DEF ReaderTyped, ReadStruct

LEMMA TypedText == ReaderTyped /\ GoodRecs(file) /\ ReadText => ReaderTyped'
<1>. SUFFICES ASSUME ReaderTyped, GoodRecs(file), ReadText PROVE ReaderTyped'
  OBVIOUS
<1>1. TextEnd(pos) \in Nat
  <2>1. pos + 4 \in Nat
    BY DEF ReaderTyped
  <2>. QED BY <2>1, EndTyped DEF TextEnd
<1>2. Type((TextEnd(pos) - 2) + 1) = "ENDEL" /\ TextEnd(pos) - 2 \in Int
  BY <1>1, TypesOf DEF ReadText, TextOK
<1>3. (TextEnd(pos) - 2) + 1 \in 1 .. Len(file) /\ Len(file) \in Nat
  BY <1>2, TypeIn, RecordsTyped
<1>4. pos' \in 1 .. Len(file) + 1 /\ file' = file
  BY <1>1, <1>3 DEF ReadText, writer_vars
<1>5. IsReadCell(cur')
  <2>1. PICK x : cur' = [cur EXCEPT !.labels = x]
    BY DEF ReadText
  <2>2. IsRow(cur) /\ IsReadCell(cur)
    BY DEF ReaderTyped, IsReadCell
  <2>3. IsRow([cur EXCEPT !.labels = x]) /\ [cur EXCEPT !.labels = x].insts = cur.insts
    BY ONLY <2>2, Fields
  <2>. QED BY <2>1, <2>2, <2>3 DEF IsReadCell
<1>. QED BY <1>4, <1>5 DEF ReaderTyped, ReadText

LEMMA TypedInstance == ReaderTyped /\ GoodRecs(file) /\ ReadInstance => ReaderTyped'
<1>. SUFFICES ASSUME ReaderTyped, GoodRecs(file), ReadInstance PROVE ReaderTyped'
  OBVIOUS
<1>1. PICK at, inst :
        /\ at = OrientEnd(pos + 2)
        /\ inst = [master |-> MasterAt(pos + 1), n |-> <<1, 1>>, sp |-> <<0, 0>>,
                   xform |-> MakeXform(Val(at)[1], OrientAt(pos + 2))]
  OBVIOUS
<1>2. at \in Nat
  <2>1. pos + 2 \in Nat
    BY DEF ReaderTyped
  <2>. QED BY <1>1, <2>1, EndTyped
<1>3. cur' = [cur EXCEPT !.insts = Append(@, inst)] /\ pos' = NameEnd(at + 1) /\ file' = file
  BY <1>1 DEF ReadInstance, writer_vars
<1>4. RefOK(pos) /\ Points(at, 1) /\ NameOK(at + 1)
  BY <1>1 DEF ReadInstance, InstOK
<1>5. pos' \in 1 .. Len(file) + 1
  BY <1>2, <1>3, <1>4, NameInside
<1>6. IsReadInst(inst)
  <2>1. OrientAt(pos + 2) \in Orientation
    BY <1>4, OrientTyped DEF RefOK
  <2>2. Val(at)[1] \in Point
    BY <1>4, PlaceTyped
  <2>3. inst.xform \in Xform
    BY <1>1, <2>1, <2>2 DEF MakeXform, Xform
  <2>4. inst.n \in Nat \X Nat /\ inst.sp \in Point
    BY <1>1 DEF Point
  <2>. QED BY <2>3, <2>4 DEF IsReadInst
<1>7. IsReadCell(cur')
  <2>1. IsReadCell(cur)
    BY DEF ReaderTyped
  <2>. QED BY ONLY <1>3, <1>6, <2>1, AddInst
<1>. QED BY <1>3, <1>5, <1>7 DEF ReaderTyped, ReadInstance

LEMMA TypedArrInstance == ReaderTyped /\ GoodRecs(file) /\ ReadArrInstance => ReaderTyped'
<1>. SUFFICES ASSUME ReaderTyped, GoodRecs(file), ReadArrInstance PROVE ReaderTyped'
  OBVIOUS
<1>1. PICK at, n, xy : at = OrientEnd(pos + 2) /\ n = Val(at) /\ xy = Val(at + 1)
  OBVIOUS
<1>2. PICK x, sp : x = MakeXform(xy[1], OrientAt(pos + 2)) /\ sp = <<Div(xy[2][1], n[1]), Div(xy[3][2], n[2])>>
  OBVIOUS
<1>3. PICK arr, inst :
        /\ arr = ConvertGdsArray(x, n, sp)
        /\ inst = [master |-> MasterAt(pos + 1), n |-> arr.n, sp |-> arr.sp, xform |-> x]
  OBVIOUS
<1>4. at \in Nat
  <2>1. pos + 2 \in Nat
    BY DEF ReaderTyped
  <2>. QED BY <1>1, <2>1, EndTyped
<1>5. cur' = [cur EXCEPT !.insts = Append(@, inst)] /\ pos' = NameEnd(at + 2) /\ file' = file
  BY <1>1, <1>2, <1>3 DEF ReadArrInstance, writer_vars
<1>6. RefOK(pos) /\ Type(at) = "COLROW" /\ Points(at + 1, 3) /\ NameOK(at + 2)
  BY <1>1 DEF ReadArrInstance, ArrOK
<1>7. pos' \in 1 .. Len(file) + 1
  BY <1>4, <1>5, <1>6, NameInside
<1>8. x \in Xform
  <2>1. OrientAt(pos + 2) \in Orientation
    BY <1>6, OrientTyped DEF RefOK
  <2>2. xy[1] \in Point
    BY <1>1, <1>6, PlaceTyped
  <2>. QED BY <1>2, <2>1, <2>2 DEF MakeXform, Xform
<1>9. n \in Counts /\ n[1] \in Nat /\ n[2] \in Nat /\ n[1] # 0 /\ n[2] # 0
  <2>1. n \in Counts
    BY <1>1, <1>6, RecordsTyped
  <2>. QED BY <2>1 DEF Counts
<1>10. arr.n \in Nat \X Nat
  <2>1. arr.n = Swapped(x.orient, n)
    BY <1>3 DEF ConvertGdsArray
  <2>. QED BY <1>9, <2>1 DEF Swapped, Counts
<1>11. arr.sp \in Point
  <2>1. xy[2] \in Point /\ xy[3] \in Point
    BY <1>1, <1>6, PlaceTyped
  <2>2. xy[2][1] \in Int /\ xy[3][2] \in Int
    BY <2>1 DEF Point
  <2>3. sp \in Point
    BY <1>2, <1>9, <2>2, DivInt DEF Point
  <2>4. arr.sp = Apply(x, sp)
    BY <1>3 DEF ConvertGdsArray
  <2>. QED BY <1>8, <2>3, <2>4, ApplyPoint
<1>12. IsReadInst(inst)
  BY <1>3, <1>8, <1>10, <1>11 DEF IsReadInst
<1>13. IsReadCell(cur')
  <2>1. IsReadCell(cur)
    BY DEF ReaderTyped
  <2>. QED BY ONLY <1>5, <1>12, <2>1, AddInst
<1>. QED BY <1>5, <1>7, <1>13 DEF ReaderTyped, ReadArrInstance

LEMMA TypedShape == ReaderTyped /\ GoodRecs(file) /\ ReadShape => ReaderTyped'
<1>. SUFFICES ASSUME ReaderTyped, GoodRecs(file), ReadShape PROVE ReaderTyped'
  OBVIOUS
<1>1. pos \in Nat /\ Type(pos + 4) = "ENDEL"
  <2>1. pos \in Nat
    BY DEF ReaderTyped
  <2>. QED BY <2>1, TypesOf DEF ReadShape, ShapeOK
<1>2. pos + 4 \in 1 .. Len(file) /\ Len(file) \in Nat
  BY <1>1, TypeIn, RecordsTyped
<1>3. pos' \in 1 .. Len(file) + 1 /\ file' = file
  BY <1>1, <1>2 DEF ReadShape, writer_vars
<1>4. IsReadCell(cur')
  BY ObjectTyped DEF ReadShape, ReaderTyped
<1>. QED BY <1>3, <1>4 DEF ReaderTyped, ReadShape

LEMMA TypedEndStruct == ReaderTyped /\ GoodRecs(file) /\ ReadEndStruct => ReaderTyped'
<1>. SUFFICES ASSUME ReaderTyped, GoodRecs(file), ReadEndStruct PROVE ReaderTyped'
  OBVIOUS
<1>1. pos \in Nat /\ pos \in 1 .. Len(file) /\ Len(file) \in Nat
  <2>1. Type(pos) = "ENDSTR"
    BY DEF ReadEndStruct
  <2>. QED BY <2>1, TypeIn, RecordsTyped
<1>2. pos' \in 1 .. Len(file) + 1 /\ file' = file
  BY <1>1 DEF ReadEndStruct, writer_vars
<1>3. PICK C : C = Append(cells, cur)
  OBVIOUS
<1>4. IsSeq(C) /\ ToSet(C) \subseteq ToSet(cells) \cup {cur}
  <2>1. IsSeq(cells)
    BY DEF ReaderTyped
  <2>. QED BY ONLY <1>3, <2>1, AppendOf
<1>5. cells' = C /\ cur' = NoCell
  BY <1>3 DEF ReadEndStruct
<1>. QED BY <1>2, <1>4, <1>5, NoCellIs DEF ReaderTyped, ReadEndStruct

\* So every step of the reader keeps the types.
LEMMA TypedReader == ReaderTyped /\ GoodRecs(file) /\ NextReader => ReaderTyped'
<1>. SUFFICES ASSUME ReaderTyped, GoodRecs(file), NextReader PROVE ReaderTyped'
  OBVIOUS
<1>1. CASE ReadStop
  BY <1>1 DEF ReaderTyped, ReadStop, writer_vars
<1>2. CASE Refuse
  BY <1>2 DEF ReaderTyped, Refuse, writer_vars
<1>. QED BY <1>1, <1>2, TypedStart, TypedStruct, TypedText, TypedInstance, TypedArrInstance, TypedShape,
            TypedEndStruct DEF NextReader

-----------------------------------------------------------------------------
(***************************************************************************)
(* The steps of the reader: each takes the item it is before.              *)
(***************************************************************************)

\* The reader is before item r of the file.
Before(F, items, start, at, r) ==
  /\ Readable(list, file, writer, F, items, start, at)
  /\ r \in 1 .. Len(items) + 1 /\ pos = start[r] /\ ReadTo(list, cells, cur, reader, at[r])

\* What an item begins with, and where it stands.
LEMMA Kinds ==
  ASSUME NEW l, NEW t, IsItem(l, t)
  PROVE  /\ t.from.at \in {"start", "idle", "cell"}
         /\ t.from.at = "start" => IsHeader(t)
         /\ t.from.at = "idle" => IsStruct(l, t) \/ IsEndLib(l, t)
         /\ t.from.at = "cell" => IsShape(l, t) \/ IsText(l, t) \/ IsInst(l, t) \/ IsEndStruct(l, t)
<1>1. IsHeader(t) => t.from.at = "start"
  BY PlaceAt DEF IsHeader
<1>2. IsStruct(l, t) => t.from.at = "idle"
  BY PlaceAt DEF IsStruct
<1>3. IsEndLib(l, t) => t.from.at = "idle"
  BY PlaceAt DEF IsEndLib
<1>4. IsShape(l, t) => t.from.at = "cell"
  BY PlaceAt DEF IsShape
<1>5. IsText(l, t) => t.from.at = "cell"
  BY PlaceAt DEF IsText
<1>6. IsInst(l, t) => t.from.at = "cell"
  BY PlaceAt DEF IsInst
<1>7. IsEndStruct(l, t) => t.from.at = "cell"
  BY PlaceAt DEF IsEndStruct
<1>. QED BY <1>1, <1>2, <1>3, <1>4, <1>5, <1>6, <1>7 DEF IsItem

HeadIs(r, types) == Len(r) \in Nat /\ 1 \in 1 .. Len(r) /\ r[1].type \in types

\* The first record tells what an item is.
LEMMA Heads ==
  ASSUME NEW l, ListOK(l), NEW t, IsItem(l, t)
  PROVE  /\ IsStruct(l, t) => HeadIs(t.recs, {"BGNSTR"})
         /\ IsEndLib(l, t) => HeadIs(t.recs, {"ENDLIB"})
         /\ IsShape(l, t) => HeadIs(t.recs, {"BOX", "BOUNDARY"})
         /\ IsText(l, t) => HeadIs(t.recs, {"TEXT"})
         /\ IsInst(l, t) => HeadIs(t.recs, {"SREF", "AREF"})
         /\ IsEndStruct(l, t) => HeadIs(t.recs, {"ENDSTR"})
<1>1. ASSUME NEW k, t.recs = StructBegin(l[k].name) PROVE HeadIs(t.recs, {"BGNSTR"})
  <2>1. PICK nm : t.recs = <<Rec("BGNSTR", None)>> \o <<Rec("STRNAME", nm)>>
    BY <1>1 DEF StructBegin, Mark
  <2>2. Len(t.recs) = 2 /\ t.recs[1] = Rec("BGNSTR", None)
    BY ONLY <2>1
  <2>. QED BY <2>2 DEF HeadIs, Rec
<1>2. ASSUME NEW type, t.recs = Mark(type) PROVE HeadIs(t.recs, {type})
  <2>1. Len(t.recs) = 1 /\ t.recs[1] = Rec(type, None)
    BY <1>2 DEF Mark
  <2>. QED BY <2>1 DEF HeadIs, Rec
<1>3. ASSUME NEW gds, NEW pts, IsShapeRecs(t.recs, gds, pts) PROVE HeadIs(t.recs, {"BOX", "BOUNDARY"})
  BY <1>3 DEF IsShapeRecs, HeadIs, Rec
<1>4. ASSUME IsTextRecs(l, t.recs) PROVE HeadIs(t.recs, {"TEXT"})
  <2>1. PICK x \in Xform, mag \in BOOLEAN : \E gds, text : t.recs = TextRecords(gds, text, x, mag)
    BY <1>4 DEF IsTextRecs
  <2>2. PICK gds, text : t.recs = TextRecords(gds, text, x, mag)
    BY <2>1
  <2>3. IsTextOf(t.recs, OrientRecords(x.orient, mag), gds, text, x)
    BY <2>2, TextParts
  <2>. QED BY <2>3 DEF IsTextOf, HeadIs, Rec
<1>5. ASSUME IsInst(l, t) PROVE HeadIs(t.recs, {"SREF", "AREF"})
  <2>1. PICK k, cnt, ref :
          k \in DOMAIN l /\ cnt \in Nat /\ cnt + 1 \in 1 .. Len(SourceOf(l, k).insts) /\ t.recs = InstRecs(ref, SourceOf(l, k).insts[cnt + 1])
    BY <1>5 DEF IsInst
  <2>2. PICK inst : inst = SourceOf(l, k).insts[cnt + 1]
    OBVIOUS
  <2>3. IsInstOf(inst)
    <3>1. IsLayout(SourceOf(l, k))
      BY <2>1, SourceLayout
    <3>. QED BY <2>1, <2>2, <3>1, SeqHas DEF IsLayout, IsInstOf
  <2>4. PICK c, d : IsInstRecs(t.recs, c, d, ref, inst)
    BY <2>1, <2>2, <2>3, InstParts
  <2>. QED BY <2>4 DEF IsInstRecs, HeadIs, Rec
<1>. QED BY <1>1, <1>2, <1>3, <1>4, <1>5 DEF IsStruct, IsEndLib, IsShape, IsText, IsEndStruct

\* The item that the reader takes next, by its first record.
LEMMA NextItem ==
  ASSUME NEW F, NEW items, NEW start, NEW at, NEW r, Before(F, items, start, at, r),
         ListOK(list), reader \notin {"done", "error"}, Type(pos) # "EOF",
         NEW t, t = items[r]
  PROVE  /\ r \in 1 .. Len(items) /\ IsItem(list, t) /\ t.from = at[r] /\ t.to = at[r + 1]
         /\ pos \in Nat /\ pos # 0 /\ IsSeq(file) /\ Shows(pos, t.recs)
         /\ start[r + 1] = pos + Len(t.recs) /\ r + 1 \in 1 .. Len(items) + 1
         /\ reader = "start" => IsHeader(t)
         /\ reader = "idle" => IF Type(pos) = "ENDLIB" THEN IsEndLib(list, t) ELSE IsStruct(list, t)
         /\ reader = "cell" =>
              \/ Type(pos) \in {"BOX", "BOUNDARY"} /\ IsShape(list, t)
              \/ Type(pos) = "TEXT" /\ IsText(list, t)
              \/ Type(pos) \in {"SREF", "AREF"} /\ IsInst(list, t)
              \/ Type(pos) = "ENDSTR" /\ IsEndStruct(list, t)
<1>1. pos \in DOMAIN file
  BY TypeIn
<1>2. Readable(list, file, writer, F, items, start, at) /\ r \in 1 .. Len(items) + 1 /\ pos = start[r]
  BY DEF Before
<1>3. /\ pos \in Nat /\ pos # 0 /\ IsSeq(file) /\ r \in 1 .. Len(items)
      /\ IsItem(list, t) /\ t.from = at[r] /\ t.to = at[r + 1]
      /\ start[r + 1] = pos + Len(t.recs) /\ r + 1 \in 1 .. Len(items) + 1
      /\ Shows(pos, t.recs)
  BY <1>1, <1>2, Peek
<1>4. reader = t.from.at
  BY <1>3 DEF Before, ReadTo
<1>5. ASSUME NEW types, HeadIs(t.recs, types) PROVE Type(pos) \in types
  <2>1. \A k \in 1 .. Len(t.recs) : Type(pos + k - 1) = t.recs[k].type \/ Type(pos + k - 1) = "EOF"
    BY <1>3, Found
  <2>2. pos + 1 - 1 = pos
    BY <1>3
  <2>3. Type(pos) = t.recs[1].type \/ Type(pos) = "EOF"
    BY <1>5, <2>1, <2>2 DEF HeadIs
  <2>. QED BY <1>5, <2>3 DEF HeadIs
<1>6. reader = "start" => IsHeader(t)
  BY <1>3, <1>4, Kinds
<1>7. reader = "idle" => IF Type(pos) = "ENDLIB" THEN IsEndLib(list, t) ELSE IsStruct(list, t)
  <2>1. reader = "idle" => IsStruct(list, t) \/ IsEndLib(list, t)
    BY <1>3, <1>4, Kinds
  <2>2. IsStruct(list, t) => Type(pos) \in {"BGNSTR"}
    BY <1>3, <1>5, Heads
  <2>3. IsEndLib(list, t) => Type(pos) \in {"ENDLIB"}
    BY <1>3, <1>5, Heads
  <2>. QED BY <2>1, <2>2, <2>3
<1>8. ASSUME reader = "cell"
      PROVE  \/ Type(pos) \in {"BOX", "BOUNDARY"} /\ IsShape(list, t)
             \/ Type(pos) = "TEXT" /\ IsText(list, t)
             \/ Type(pos) \in {"SREF", "AREF"} /\ IsInst(list, t)
             \/ Type(pos) = "ENDSTR" /\ IsEndStruct(list, t)
  <2>1. IsShape(list, t) \/ IsText(list, t) \/ IsInst(list, t) \/ IsEndStruct(list, t)
    BY <1>3, <1>4, <1>8, Kinds
  <2>2. IsShape(list, t) => Type(pos) \in {"BOX", "BOUNDARY"}
    BY <1>3, <1>5, Heads
  <2>3. IsText(list, t) => Type(pos) \in {"TEXT"}
    BY <1>3, <1>5, Heads
  <2>4. IsInst(list, t) => Type(pos) \in {"SREF", "AREF"}
    BY <1>3, <1>5, Heads
  <2>5. IsEndStruct(list, t) => Type(pos) \in {"ENDSTR"}
    BY <1>3, <1>5, Heads
  <2>. QED BY <2>1, <2>2, <2>3, <2>4, <2>5
<1>. QED BY <1>3, <1>6, <1>7, <1>8

\* Once the reader has taken the item.
LEMMA Goes ==
  ASSUME Reading, NEW F, NEW items, NEW start, NEW at, NEW r, Before(F, items, start, at, r),
         r \in 1 .. Len(items), r + 1 \in 1 .. Len(items) + 1, UNCHANGED writer_vars,
         pos' = start[r + 1], ReadTo(list, cells', cur', reader', at[r + 1]), reader' \in {"idle", "cell"}
  PROVE  Reading'
<1>1. list' = list /\ file' = file /\ writer' = writer /\ written' = written /\ rename_map' = rename_map
  BY DEF writer_vars
<1>2. ReadingOf(list, file, writer, pos', cells', cur', reader')
  <2>1. Readable(list, file, writer, F, items, start, at)
    BY DEF Before
  <2>2. writer \in {"done", "cut"}
    BY DEF Reading, ReadingOf
  <2>. QED BY <2>1, <2>2 DEF ReadingOf
<1>. QED BY <1>1, <1>2 DEF Reading

\* A reader of a file of the writer is before an item of it.
LEMMA ReadingBefore ==
  ASSUME Reading
  PROVE  \E F, items, start, at, r : Before(F, items, start, at, r)
<1>1. PICK F, items, start, at :
       /\ Readable(list, file, writer, F, items, start, at)
       /\ \E r \in 1 .. Len(items) + 1 : pos = start[r] /\ ReadTo(list, cells, cur, reader, at[r])
  BY DEF Reading, ReadingOf
<1>2. PICK r \in 1 .. Len(items) + 1 : pos = start[r] /\ ReadTo(list, cells, cur, reader, at[r])
  BY <1>1
<1>. QED BY <1>1, <1>2 DEF Before

\* ReadStart takes the header.
LEMMA TakeStart == Reading /\ ReaderTyped /\ ReadStart => Reading'
<1>. SUFFICES ASSUME Reading, ReaderTyped, ReadStart PROVE Reading'
  OBVIOUS
<1>1. PICK F, items, start, at, r : Before(F, items, start, at, r)
  BY ReadingBefore
<1>2. ListOK(list)
  BY ListFacts DEF Reading
<1>3. reader = "start" /\ reader' = "idle" /\ pos' = pos + 4 /\ UNCHANGED writer_vars /\ cells' = cells /\ cur' = cur
  BY DEF ReadStart
<1>4. Type(pos) = "HEADER"
  <2>1. pos \in Int
    BY DEF ReaderTyped
  <2>. QED BY <2>1, TypesOf DEF ReadStart
<1>5. PICK t : t = items[r]
  OBVIOUS
<1>6. /\ r \in 1 .. Len(items) /\ t.from = at[r] /\ t.to = at[r + 1] /\ IsHeader(t)
      /\ start[r + 1] = pos + Len(t.recs) /\ r + 1 \in 1 .. Len(items) + 1
  BY <1>1, <1>2, <1>3, <1>4, <1>5, NextItem
<1>7. Len(t.recs) = 4
  <2>1. t.recs = <<Rec("HEADER", None)>> \o (<<Rec("BGNLIB", None)>> \o <<Rec("LIBNAME", "lib")>>) \o <<Rec("UNITS", None)>>
    BY <1>6 DEF IsHeader, FileHeader, LibBegin, Mark
  <2>. QED BY ONLY <2>1
<1>8. at[r] = Start /\ at[r + 1] = Between(1)
  BY <1>6 DEF IsHeader
<1>9. ReadTo(list, cells, cur, "idle", at[r + 1])
  <2>1. ReadTo(list, cells, cur, "start", Start)
    BY <1>1, <1>3, <1>8 DEF Before
  <2>2. Start.k = 1 /\ Between(1).k = 1 /\ Between(1).at = "idle"
    BY PlaceAt
  <2>. QED BY <1>8, <2>1, <2>2 DEF ReadTo
<1>. QED BY <1>1, <1>3, <1>6, <1>7, <1>9, Goes

\* ReadStruct takes the beginning of a structure.
LEMMA TakeStruct == Reading /\ ReaderTyped /\ ReadStruct => Reading'
<1>. SUFFICES ASSUME Reading, ReaderTyped, ReadStruct PROVE Reading'
  OBVIOUS
<1>1. PICK F, items, start, at, r : Before(F, items, start, at, r)
  BY ReadingBefore
<1>2. ListOK(list)
  BY ListFacts DEF Reading
<1>3. /\ reader = "idle" /\ reader' = "cell" /\ pos' = pos + 2 /\ UNCHANGED writer_vars /\ cells' = cells
      /\ cur' = [NoCell EXCEPT !.name = NameAt(pos + 1)]
  BY DEF ReadStruct
<1>4. Type(pos) = "BGNSTR" /\ Type(pos + 1) = "STRNAME"
  <2>1. pos \in Int
    BY DEF ReaderTyped
  <2>. QED BY <2>1, TypesOf DEF ReadStruct
<1>5. PICK t : t = items[r]
  OBVIOUS
<1>6. /\ r \in 1 .. Len(items) /\ t.from = at[r] /\ t.to = at[r + 1] /\ IsStruct(list, t)
      /\ start[r + 1] = pos + Len(t.recs) /\ r + 1 \in 1 .. Len(items) + 1
      /\ pos \in Nat /\ Shows(pos, t.recs)
  BY <1>1, <1>2, <1>3, <1>4, <1>5, NextItem
<1>7. PICK k \in DOMAIN list : /\ t.recs = StructBegin(list[k].name)
                               /\ t.from = Between(k) /\ t.to = InCell(k, 0, {})
  BY <1>6 DEF IsStruct
<1>8. PICK nm : nm = list[k].name
  OBVIOUS
<1>9. Len(t.recs) = 2 /\ t.recs[2] = Rec("STRNAME", nm)
  <2>1. t.recs = <<Rec("BGNSTR", None)>> \o <<Rec("STRNAME", nm)>>
    BY <1>7, <1>8 DEF StructBegin, Mark
  <2>. QED BY ONLY <2>1
<1>10. NameAt(pos + 1) = NameOf(nm)
  <2>1. pos + 1 \in DOMAIN file
    BY <1>4, TypeIn
  <2>2. 2 \in 1 .. Len(t.recs) /\ pos + 2 - 1 = pos + 1
    BY <1>6, <1>9
  <2>3. file[pos + 1] = t.recs[2]
    BY <1>6, <2>1, <2>2 DEF Shows
  <2>. QED BY <1>9, <2>3 DEF NameAt, NameOf, Val, Rec
<1>11. Holds(list, cur', k, 0, {})
  <2>1. PICK c : c = [NoCell EXCEPT !.name = NameOf(nm)]
    OBVIOUS
  <2>2. IsRow(NoCell) /\ NoCell.insts = << >> /\ NoCell.shapes = {} /\ NoCell.bnds = {}
    BY NoCellIs
  <2>3. c.name = NameOf(nm) /\ c.insts = << >> /\ c.shapes = {} /\ c.bnds = {}
    BY ONLY <2>1, <2>2, Fields
  <2>4. ShapesIn({}) = {} /\ BndsIn({}) = {}
    BY DEF ShapesIn, BndsIn
  <2>5. InstsOf(list, << >>, k, 0)
    <3>1. IsSeq(<< >>) /\ Len(<< >>) = 0 /\ \A i \in 1 .. 0 : FALSE
      BY DEF IsSeq, ToSet
    <3>. QED BY ONLY <3>1 DEF InstsOf
  <2>6. Holds(list, c, k, 0, {})
    BY <1>8, <2>3, <2>4, <2>5 DEF Holds
  <2>. QED BY <1>3, <1>10, <2>1, <2>6
<1>12. ReadTo(list, cells', cur', reader', at[r + 1])
  <2>1. ReadTo(list, cells, cur, "idle", Between(k))
    BY <1>1, <1>3, <1>6, <1>7 DEF Before
  <2>2. at[r + 1] = InCell(k, 0, {})
    BY <1>6, <1>7
  <2>3. /\ Between(k).k = k /\ InCell(k, 0, {}).k = k /\ InCell(k, 0, {}).at = "cell"
        /\ InCell(k, 0, {}).cnt = 0 /\ InCell(k, 0, {}).drawn = {}
    BY PlaceAt
  <2>. QED BY <1>3, <1>11, <2>1, <2>2, <2>3 DEF ReadTo
<1>. QED BY <1>1, <1>3, <1>6, <1>9, <1>12, Goes

\* The reader goes on inside of a cellview.
LEMMA StaysIn ==
  ASSUME NEW l, NEW cs, NEW c, NEW d, NEW k, NEW n, NEW D, NEW m, NEW E,
         ReadTo(l, cs, c, "cell", InCell(k, n, D)),
         Holds(l, c, k, n, D) => Holds(l, d, k, m, E)
  PROVE  ReadTo(l, cs, d, "cell", InCell(k, m, E))
<1>1. /\ \A x, X : /\ InCell(k, x, X).k = k /\ InCell(k, x, X).at = "cell"
                   /\ InCell(k, x, X).cnt = x /\ InCell(k, x, X).drawn = X
  BY PlaceAt
<1>. QED BY <1>1 DEF ReadTo

\* ReadText takes a text, and nothing is drawn.
LEMMA TakeText == Reading /\ ReaderTyped /\ ReadText => Reading'
<1>. SUFFICES ASSUME Reading, ReaderTyped, ReadText PROVE Reading'
  OBVIOUS
<1>1. PICK F, items, start, at, r : Before(F, items, start, at, r)
  BY ReadingBefore
<1>2. ListOK(list)
  BY ListFacts DEF Reading
<1>3. /\ reader = "cell" /\ reader' = "cell" /\ pos' = TextEnd(pos) /\ UNCHANGED writer_vars /\ cells' = cells
      /\ \E x : cur' = [cur EXCEPT !.labels = x]
  BY DEF ReadText
<1>4. Type(pos) = "TEXT" /\ TextOK(pos)
  <2>1. pos \in Int
    BY DEF ReaderTyped
  <2>. QED BY <2>1, TypesOf DEF ReadText, TextOK
<1>5. PICK t : t = items[r]
  OBVIOUS
<1>6. /\ r \in 1 .. Len(items) /\ t.from = at[r] /\ t.to = at[r + 1] /\ IsText(list, t)
      /\ start[r + 1] = pos + Len(t.recs) /\ r + 1 \in 1 .. Len(items) + 1
      /\ pos \in Nat /\ pos # 0 /\ IsSeq(file) /\ Shows(pos, t.recs)
  BY <1>1, <1>2, <1>3, <1>4, <1>5, NextItem
<1>7. PICK k \in DOMAIN list, cnt \in Nat :
        IsTextRecs(list, t.recs) /\ t.from = InCell(k, cnt, t.from.drawn) /\ t.to = t.from
  BY <1>6 DEF IsText
<1>8. TextEnd(pos) = pos + Len(t.recs)
  <2>1. PICK x \in Xform, mag \in BOOLEAN : \E gds, text : t.recs = TextRecords(gds, text, x, mag)
    BY <1>7 DEF IsTextRecs
  <2>2. PICK gds, text : t.recs = TextRecords(gds, text, x, mag)
    BY <2>1
  <2>3. PICK recs : recs = t.recs
    OBVIOUS
  <2>4. pos \in Nat /\ pos # 0 /\ IsSeq(file) /\ recs = TextRecords(gds, text, x, mag) /\ Shows(pos, recs) /\ TextOK(pos)
    BY <1>4, <1>6, <2>2, <2>3
  <2>5. TextEnd(pos) = pos + Len(recs)
    <3>1. x \in Xform /\ mag \in BOOLEAN
      OBVIOUS
    <3>. QED BY ONLY <2>4, <3>1, TextTaken
  <2>. QED BY <2>3, <2>5
<1>9. PICK D : D = t.from.drawn
  OBVIOUS
<1>10. at[r] = InCell(k, cnt, D) /\ at[r + 1] = InCell(k, cnt, D)
  BY <1>6, <1>7, <1>9
<1>11. ReadTo(list, cells, cur, "cell", InCell(k, cnt, D))
  BY <1>1, <1>3, <1>10 DEF Before
<1>12. cur'.name = cur.name /\ cur'.insts = cur.insts /\ cur'.shapes = cur.shapes /\ cur'.bnds = cur.bnds
  <2>1. PICK x : cur' = [cur EXCEPT !.labels = x]
    BY <1>3
  <2>2. IsRow(cur)
    BY DEF ReaderTyped, IsReadCell
  <2>. QED BY ONLY <2>1, <2>2, Fields
<1>13. Holds(list, cur, k, cnt, D) => Holds(list, cur', k, cnt, D)
  BY <1>12 DEF Holds
<1>14. ReadTo(list, cells, cur', "cell", InCell(k, cnt, D))
  BY <1>11, <1>13, StaysIn
<1>. QED BY <1>1, <1>3, <1>6, <1>8, <1>10, <1>14, Goes

\* A shape, or a boundary, is added for what was drawn.
LEMMA Adds ==
  ASSUME NEW c, IsRow(c), NEW gds, NEW pts, NEW D, c.shapes = ShapesIn(D), c.bnds = BndsIn(D)
  PROVE  LET d == AddObject(c, gds, pts) IN
         /\ d.name = c.name /\ d.insts = c.insts
         /\ d.shapes = ShapesIn(D \cup {Drawing(gds, pts)}) /\ d.bnds = BndsIn(D \cup {Drawing(gds, pts)})
<1>1. PICK d, x, D2 : d = AddObject(c, gds, pts) /\ x = Drawing(gds, pts) /\ D2 = D \cup {x}
  OBVIOUS
<1>2. x.gds = gds /\ x.pts = pts
  BY <1>1 DEF Drawing
<1>3. PICK key, bnd : key = ReverseLookup(LayerMap, gds) /\ bnd = ReverseLookup(ObjectMap, gds)
  OBVIOUS
<1>4. Layer(x) = key /\ Object(x) = bnd
  BY <1>2, <1>3 DEF Layer, Object
<1>5. ShapesIn(D2) = ShapesIn(D) \cup (IF key # None THEN {[key |-> key, pts |-> pts]} ELSE {})
  BY <1>1, <1>2, <1>4 DEF ShapesIn
<1>6. BndsIn(D2) = BndsIn(D) \cup (IF key = None /\ bnd # None THEN {[type |-> bnd, pts |-> pts]} ELSE {})
  BY <1>1, <1>2, <1>4 DEF BndsIn
<1>7. CASE key # None
  <2>1. PICK S : S = c.shapes \cup {[key |-> key, pts |-> pts]}
    OBVIOUS
  <2>2. d = [c EXCEPT !.shapes = S]
    BY <1>1, <1>3, <1>7, <2>1 DEF AddObject
  <2>3. d.name = c.name /\ d.insts = c.insts /\ d.shapes = S /\ d.bnds = c.bnds
    BY ONLY <2>2, Fields, IsRow(c)
  <2>. QED BY <1>1, <1>5, <1>6, <1>7, <2>1, <2>3
<1>8. CASE key = None /\ bnd # None
  <2>1. PICK S : S = c.bnds \cup {[type |-> bnd, pts |-> pts]}
    OBVIOUS
  <2>2. d = [c EXCEPT !.bnds = S]
    BY <1>1, <1>3, <1>8, <2>1 DEF AddObject
  <2>3. d.name = c.name /\ d.insts = c.insts /\ d.shapes = c.shapes /\ d.bnds = S
    BY ONLY <2>2, Fields, IsRow(c)
  <2>. QED BY <1>1, <1>5, <1>6, <1>8, <2>1, <2>3
<1>9. CASE key = None /\ bnd = None
  <2>1. d = c
    BY <1>1, <1>3, <1>9 DEF AddObject
  <2>. QED BY <1>1, <1>5, <1>6, <1>9, <2>1
<1>. QED BY <1>7, <1>8, <1>9

\* ReadShape takes a shape, and its drawing with it.
LEMMA TakeShape == Reading /\ ReaderTyped /\ ReadShape => Reading'
<1>. SUFFICES ASSUME Reading, ReaderTyped, ReadShape PROVE Reading'
  OBVIOUS
<1>1. PICK F, items, start, at, r : Before(F, items, start, at, r)
  BY ReadingBefore
<1>2. ListOK(list)
  BY ListFacts DEF Reading
<1>3. /\ reader = "cell" /\ reader' = "cell" /\ pos' = pos + 5 /\ UNCHANGED writer_vars /\ cells' = cells
      /\ cur' = AddObject(cur, GdsAt(pos + 1), ToSet(Val(pos + 3))) /\ ShapeOK(pos)
  BY DEF ReadShape
<1>4. Type(pos) \in {"BOX", "BOUNDARY"}
  <2>1. pos \in Int
    BY DEF ReaderTyped
  <2>. QED BY <1>3, <2>1, TypesOf DEF ShapeOK
<1>5. PICK t : t = items[r]
  OBVIOUS
<1>6. /\ r \in 1 .. Len(items) /\ t.from = at[r] /\ t.to = at[r + 1] /\ IsShape(list, t)
      /\ start[r + 1] = pos + Len(t.recs) /\ r + 1 \in 1 .. Len(items) + 1
      /\ pos \in Nat /\ pos # 0 /\ IsSeq(file) /\ Shows(pos, t.recs)
  BY ONLY <1>1, <1>2, <1>3, <1>4, <1>5, NextItem, SMTT(20)
<1>7. PICK k, cnt, gds, pts :
        /\ k \in DOMAIN list /\ cnt \in Nat /\ IsPair(gds) /\ IsShapeRecs(t.recs, gds, pts)
        /\ t.from = InCell(k, cnt, t.from.drawn)
        /\ t.to = InCell(k, cnt, t.from.drawn \cup {Drawing(gds, pts)})
  BY <1>6 DEF IsShape
<1>8. PICK D : D = t.from.drawn
  OBVIOUS
<1>9. at[r] = InCell(k, cnt, D) /\ at[r + 1] = InCell(k, cnt, D \cup {Drawing(gds, pts)})
  BY <1>6, <1>7, <1>8
<1>10. GdsAt(pos + 1) = gds /\ ToSet(Val(pos + 3)) = pts
  BY <1>3, <1>6, <1>7, ShapeTaken
<1>11. Len(t.recs) = 5
  BY <1>7 DEF IsShapeRecs
<1>12. cur' = AddObject(cur, gds, pts)
  BY <1>3, <1>10
<1>13. ReadTo(list, cells, cur, "cell", InCell(k, cnt, D))
  BY <1>1, <1>3, <1>9 DEF Before
<1>14. ASSUME Holds(list, cur, k, cnt, D)
       PROVE  Holds(list, cur', k, cnt, D \cup {Drawing(gds, pts)})
  <2>1. IsRow(cur) /\ cur.shapes = ShapesIn(D) /\ cur.bnds = BndsIn(D)
    BY <1>14 DEF ReaderTyped, IsReadCell, Holds
  <2>2. /\ cur'.name = cur.name /\ cur'.insts = cur.insts
        /\ cur'.shapes = ShapesIn(D \cup {Drawing(gds, pts)}) /\ cur'.bnds = BndsIn(D \cup {Drawing(gds, pts)})
    BY ONLY <1>12, <2>1, Adds
  <2>. QED BY <1>14, <2>2 DEF Holds
<1>15. ReadTo(list, cells, cur', "cell", InCell(k, cnt, D \cup {Drawing(gds, pts)}))
  BY <1>7, <1>13, <1>14, StaysIn
<1>. QED BY <1>1, <1>3, <1>6, <1>7, <1>9, <1>11, <1>15, Goes

\* One more instance was read.
LEMMA AddsInst ==
  ASSUME NEW l, NEW k, NEW cnt \in Nat, NEW insts, InstsOf(l, insts, k, cnt),
         NEW inst, inst = SourceOf(l, k).insts[cnt + 1],
         NEW x, x.xform = inst.xform, x.n = inst.n,
         OrderedList(l) => \E j \in 1 .. k - 1 : x.master = j /\ l[j].cv = inst.master
  PROVE  InstsOf(l, Append(insts, x), k, cnt + 1)
<1>1. PICK t : t = Append(insts, x)
  OBVIOUS
<1>2. IsSeq(insts) /\ Len(insts) = cnt
  BY DEF InstsOf
<1>3. /\ IsSeq(t) /\ Len(t) = Len(insts) + 1
      /\ \A i \in 1 .. Len(insts) : t[i] = insts[i]
      /\ t[Len(insts) + 1] = x
  BY ONLY <1>1, <1>2, AppendOf
<1>4. IsSeq(t) /\ Len(t) = cnt + 1 /\ (\A i \in 1 .. cnt : t[i] = insts[i]) /\ t[cnt + 1] = x
  BY ONLY <1>2, <1>3
<1>5. \A i \in 1 .. cnt + 1 : i \in 1 .. cnt \/ i = cnt + 1
  OBVIOUS
<1>6. ASSUME NEW i \in 1 .. cnt + 1
      PROVE  LET e == SourceOf(l, k).insts[i] IN
             /\ t[i].xform = e.xform /\ t[i].n = e.n
             /\ OrderedList(l) => \E j \in 1 .. k - 1 : t[i].master = j /\ l[j].cv = e.master
  <2>1. CASE i \in 1 .. cnt
    BY <1>4, <2>1 DEF InstsOf
  <2>2. CASE i = cnt + 1
    BY <1>4, <2>2
  <2>. QED BY <1>5, <2>1, <2>2
<1>. QED BY <1>1, <1>4, <1>6 DEF InstsOf

\* The names in the file tell the cellviews of the list apart.
LEMMA MasterIs ==
  ASSUME ListOK(list), NEW k \in DOMAIN list, IsSeq(cells), Len(cells) = k - 1,
         \A i \in 1 .. k - 1 : IsCell(list, cells[i], i), NEW j \in 1 .. k - 1
  PROVE  Masters(NameOf(list[j].name)) = {j} /\ FirstOf({j}) = j
<1>1. DOMAIN cells = 1 .. k - 1 /\ DOMAIN list = 1 .. Len(list) /\ Len(list) \in Nat
  BY SeqHas DEF ListOK
<1>2. \A i \in 1 .. k - 1 : i \in DOMAIN list
  BY <1>1
<1>3. \A i \in 1 .. k - 1 : cells[i].name = NameOf(list[i].name)
  BY DEF IsCell, Holds
<1>4. \A a, b : NameOf(a) = NameOf(b) => a = b
  BY DEF NameOf
<1>5. \A i \in 1 .. k - 1 : list[i].name = list[j].name => i = j
  BY <1>2 DEF ListOK
<1>6. Masters(NameOf(list[j].name)) = {j}
  BY <1>1, <1>3, <1>4, <1>5 DEF Masters
<1>7. FirstOf({j}) = j
  BY DEF FirstOf
<1>. QED BY <1>6, <1>7

\* An instance of the file, as it was laid out.
InstItem(t, k, cnt, ref, inst) ==
  /\ k \in DOMAIN list /\ cnt \in Nat
  /\ inst = SourceOf(list, k).insts[cnt + 1] /\ IsInstOf(inst)
  /\ t.recs = InstRecs(ref, inst)
  /\ OrderedList(list) => \E j \in 1 .. k - 1 : list[j].cv = inst.master /\ ref = list[j].name
  /\ t.from = InCell(k, cnt, t.from.drawn) /\ t.to = InCell(k, cnt + 1, t.from.drawn)

\* The item of an instance.
LEMMA InstItemIs ==
  ASSUME ListOK(list), NEW t, IsInst(list, t)
  PROVE  \E k, cnt, ref, inst : InstItem(t, k, cnt, ref, inst)
<1>1. PICK k, cnt, ref :
    /\ k \in DOMAIN list /\ cnt \in Nat
    /\ cnt + 1 \in 1 .. Len(SourceOf(list, k).insts)
    /\ t.recs = InstRecs(ref, SourceOf(list, k).insts[cnt + 1])
    /\ OrderedList(list) => \E j \in 1 .. k - 1 : /\ list[j].cv = SourceOf(list, k).insts[cnt + 1].master
                                                  /\ ref = list[j].name
    /\ t.from = InCell(k, cnt, t.from.drawn) /\ t.to = InCell(k, cnt + 1, t.from.drawn)
  BY DEF IsInst
<1>2. PICK inst : inst = SourceOf(list, k).insts[cnt + 1]
  OBVIOUS
<1>3. IsInstOf(inst)
  <2>1. IsLayout(SourceOf(list, k))
    BY <1>1, SourceLayout
  <2>. QED BY <1>1, <1>2, <2>1, SeqHas DEF IsLayout, IsInstOf
<1>4. InstItem(t, k, cnt, ref, inst)
  BY <1>1, <1>2, <1>3 DEF InstItem
<1>. QED BY <1>4

\* The reader takes an instance whatever its kind.
LEMMA TakesInst ==
  ASSUME Reading, ReaderTyped, ListOK(list), NEW F, NEW items, NEW start, NEW at, NEW r,
         Before(F, items, start, at, r), reader = "cell", reader' = "cell", UNCHANGED writer_vars, cells' = cells,
         NEW t, t = items[r], r \in 1 .. Len(items), t.from = at[r], t.to = at[r + 1],
         start[r + 1] = pos + Len(t.recs), r + 1 \in 1 .. Len(items) + 1,
         NEW k \in DOMAIN list, NEW cnt \in Nat, NEW ref, NEW inst, InstItem(t, k, cnt, ref, inst),
         NEW x, x.xform = inst.xform, x.n = inst.n, x.master = FirstOf(Masters(NameOf(ref))),
         cur' = [cur EXCEPT !.insts = Append(@, x)], pos' = pos + Len(t.recs)
  PROVE  Reading'
<1>1. PICK D : D = t.from.drawn
  OBVIOUS
<1>2. at[r] = InCell(k, cnt, D) /\ at[r + 1] = InCell(k, cnt + 1, D)
  BY <1>1 DEF InstItem
<1>3. ReadTo(list, cells, cur, "cell", InCell(k, cnt, D))
  BY <1>2 DEF Before
<1>4. IsSeq(cells) /\ Len(cells) = k - 1 /\ \A i \in 1 .. k - 1 : IsCell(list, cells[i], i)
  <2>1. InCell(k, cnt, D).k = k
    BY PlaceAt
  <2>. QED BY <1>3, <2>1 DEF ReadTo
<1>5. OrderedList(list) => \E j \in 1 .. k - 1 : x.master = j /\ list[j].cv = inst.master
  <2>1. SUFFICES ASSUME OrderedList(list) PROVE \E j \in 1 .. k - 1 : x.master = j /\ list[j].cv = inst.master
    OBVIOUS
  <2>2. PICK j \in 1 .. k - 1 : list[j].cv = inst.master /\ ref = list[j].name
    BY <2>1 DEF InstItem
  <2>3. Masters(NameOf(list[j].name)) = {j} /\ FirstOf({j}) = j
    BY <1>4, MasterIs
  <2>4. x.master = j
    BY <2>2, <2>3
  <2>. QED BY <2>2, <2>4
<1>6. ASSUME Holds(list, cur, k, cnt, D)
      PROVE  Holds(list, cur', k, cnt + 1, D)
  <2>1. PICK s : s = Append(cur.insts, x)
    OBVIOUS
  <2>2. IsRow(cur) /\ cur' = [cur EXCEPT !.insts = s]
    BY <2>1 DEF ReaderTyped, IsReadCell
  <2>3. cur'.name = cur.name /\ cur'.insts = s /\ cur'.shapes = cur.shapes /\ cur'.bnds = cur.bnds
    BY ONLY <2>2, Fields
  <2>4. inst = SourceOf(list, k).insts[cnt + 1] /\ InstsOf(list, cur.insts, k, cnt)
    BY <1>6 DEF InstItem, Holds
  <2>5. InstsOf(list, s, k, cnt + 1)
    BY <1>5, <2>1, <2>4, AddsInst
  <2>. QED BY <1>6, <2>3, <2>5 DEF Holds
<1>7. ReadTo(list, cells, cur', "cell", InCell(k, cnt + 1, D))
  BY <1>3, <1>6, StaysIn
<1>. QED BY <1>2, <1>7, Goes

\* ReadInstance takes an instance that is not an array.
LEMMA TakeInstance == Reading /\ ReaderTyped /\ ReadInstance => Reading'
<1>. SUFFICES ASSUME Reading, ReaderTyped, ReadInstance PROVE Reading'
  OBVIOUS
<1>1. PICK F, items, start, at, r : Before(F, items, start, at, r)
  BY ReadingBefore
<1>2. ListOK(list)
  BY ListFacts DEF Reading
<1>3. PICK i, x :
        /\ i = OrientEnd(pos + 2)
        /\ x = [master |-> MasterAt(pos + 1), n |-> <<1, 1>>, sp |-> <<0, 0>>,
                xform |-> MakeXform(Val(i)[1], OrientAt(pos + 2))]
  OBVIOUS
<1>4. /\ reader = "cell" /\ reader' = "cell" /\ UNCHANGED writer_vars /\ cells' = cells
      /\ cur' = [cur EXCEPT !.insts = Append(@, x)] /\ pos' = NameEnd(i + 1) /\ InstOK(pos)
  BY <1>3 DEF ReadInstance
<1>5. Type(pos) = "SREF"
  BY <1>4 DEF InstOK
<1>6. PICK t : t = items[r]
  OBVIOUS
<1>7. /\ r \in 1 .. Len(items) /\ t.from = at[r] /\ t.to = at[r + 1] /\ IsInst(list, t)
      /\ start[r + 1] = pos + Len(t.recs) /\ r + 1 \in 1 .. Len(items) + 1
      /\ pos \in Nat /\ pos # 0 /\ IsSeq(file) /\ Shows(pos, t.recs)
  BY <1>1, <1>2, <1>4, <1>5, <1>6, NextItem
<1>8. PICK k, cnt, ref, inst : InstItem(t, k, cnt, ref, inst)
  BY <1>2, <1>7, InstItemIs
<1>9. IsInstOf(inst) /\ t.recs = InstRecs(ref, inst)
  BY <1>8 DEF InstItem
<1>10. PICK q, s : InstFacts(pos, t.recs, ref, inst, q, s)
  BY <1>7, <1>9, InstFound
<1>11. /\ ~IsArray(inst.n) /\ NameAt(pos + 1) = NameOf(ref) /\ OrientAt(pos + 2) = inst.xform.orient
       /\ Val(i)[1] = inst.xform.loc /\ NameEnd(i + 1) = pos + Len(t.recs)
  BY <1>3, <1>4, <1>10, InstTaken
<1>12. x.xform = inst.xform
  BY <1>3, <1>9, <1>11 DEF MakeXform, IsInstOf, Xform
<1>13. x.n = inst.n
  BY <1>3, <1>9, <1>11, CountsBack DEF IsInstOf
<1>14. x.master = FirstOf(Masters(NameOf(ref)))
  BY <1>3, <1>11 DEF MasterAt
<1>15. pos' = pos + Len(t.recs)
  BY <1>4, <1>11
<1>16. k \in DOMAIN list /\ cnt \in Nat
  BY <1>8 DEF InstItem
<1>. QED BY <1>1, <1>2, <1>4, <1>6, <1>7, <1>8, <1>12, <1>13, <1>14, <1>15, <1>16, TakesInst

\* ReadArrInstance takes an array.
LEMMA TakeArrInstance == Reading /\ ReaderTyped /\ ReadArrInstance => Reading'
<1>. SUFFICES ASSUME Reading, ReaderTyped, ReadArrInstance PROVE Reading'
  OBVIOUS
<1>1. PICK F, items, start, at, r : Before(F, items, start, at, r)
  BY ReadingBefore
<1>2. ListOK(list)
  BY ListFacts DEF Reading
<1>3. PICK i, n, xy, y, arr, x :
        /\ i = OrientEnd(pos + 2) /\ n = Val(i) /\ xy = Val(i + 1)
        /\ y = MakeXform(xy[1], OrientAt(pos + 2))
        /\ arr = ConvertGdsArray(y, n, <<Div(xy[2][1], n[1]), Div(xy[3][2], n[2])>>)
        /\ x = [master |-> MasterAt(pos + 1), n |-> arr.n, sp |-> arr.sp, xform |-> y]
  OBVIOUS
<1>4. /\ reader = "cell" /\ reader' = "cell" /\ UNCHANGED writer_vars /\ cells' = cells
      /\ cur' = [cur EXCEPT !.insts = Append(@, x)] /\ pos' = NameEnd(i + 2) /\ ArrOK(pos)
  BY <1>3 DEF ReadArrInstance
<1>5. Type(pos) = "AREF"
  BY <1>4 DEF ArrOK
<1>6. PICK t : t = items[r]
  OBVIOUS
<1>7. /\ r \in 1 .. Len(items) /\ t.from = at[r] /\ t.to = at[r + 1] /\ IsInst(list, t)
      /\ start[r + 1] = pos + Len(t.recs) /\ r + 1 \in 1 .. Len(items) + 1
      /\ pos \in Nat /\ pos # 0 /\ IsSeq(file) /\ Shows(pos, t.recs)
  BY <1>1, <1>2, <1>4, <1>5, <1>6, NextItem
<1>8. PICK k, cnt, ref, inst : InstItem(t, k, cnt, ref, inst)
  BY <1>2, <1>7, InstItemIs
<1>9. IsInstOf(inst) /\ t.recs = InstRecs(ref, inst)
  BY <1>8 DEF InstItem
<1>10. PICK q, s : InstFacts(pos, t.recs, ref, inst, q, s)
  BY <1>7, <1>9, InstFound
<1>11. /\ NameAt(pos + 1) = NameOf(ref) /\ OrientAt(pos + 2) = inst.xform.orient
       /\ n = Swapped(inst.xform.orient, inst.n)
       /\ xy[1] = inst.xform.loc /\ NameEnd(i + 2) = pos + Len(t.recs)
  BY <1>3, <1>4, <1>10, ArrTaken
<1>12. x.xform = inst.xform
  BY <1>3, <1>9, <1>11 DEF MakeXform, IsInstOf, Xform
<1>13. x.n = inst.n
  <2>1. x.n = Swapped(x.xform.orient, n)
    BY <1>3 DEF ConvertGdsArray
  <2>2. inst.n \in Counts
    BY <1>9 DEF IsInstOf
  <2>. QED BY <1>11, <1>12, <2>1, <2>2, CountsBack
<1>14. x.master = FirstOf(Masters(NameOf(ref)))
  BY <1>3, <1>11 DEF MasterAt
<1>15. pos' = pos + Len(t.recs)
  BY <1>4, <1>11
<1>16. k \in DOMAIN list /\ cnt \in Nat
  BY <1>8 DEF InstItem
<1>. QED BY <1>1, <1>2, <1>4, <1>6, <1>7, <1>8, <1>12, <1>13, <1>14, <1>15, <1>16, TakesInst

\* ReadEndStruct has read all of the structure.
LEMMA TakeEndStruct == Reading /\ ReaderTyped /\ ReadEndStruct => Reading'
<1>. SUFFICES ASSUME Reading, ReaderTyped, ReadEndStruct PROVE Reading'
  OBVIOUS
<1>1. PICK F, items, start, at, r : Before(F, items, start, at, r)
  BY ReadingBefore
<1>2. ListOK(list)
  BY ListFacts DEF Reading
<1>3. /\ reader = "cell" /\ reader' = "idle" /\ pos' = pos + 1 /\ UNCHANGED writer_vars
      /\ cells' = Append(cells, cur) /\ Type(pos) = "ENDSTR"
  BY DEF ReadEndStruct
<1>4. PICK t : t = items[r]
  OBVIOUS
<1>5. /\ r \in 1 .. Len(items) /\ t.from = at[r] /\ t.to = at[r + 1] /\ IsEndStruct(list, t)
      /\ start[r + 1] = pos + Len(t.recs) /\ r + 1 \in 1 .. Len(items) + 1
  BY <1>1, <1>2, <1>3, <1>4, NextItem
<1>6. PICK k \in DOMAIN list :
        /\ t.recs = Mark("ENDSTR")
        /\ t.from = InCell(k, Len(SourceOf(list, k).insts), Drawings(SourceOf(list, k)))
        /\ t.to = Between(k + 1)
  BY <1>5 DEF IsEndStruct
<1>7. PICK n, D : n = Len(SourceOf(list, k).insts) /\ D = Drawings(SourceOf(list, k))
  OBVIOUS
<1>8. at[r] = InCell(k, n, D) /\ at[r + 1] = Between(k + 1)
  BY <1>5, <1>6, <1>7
<1>9. Len(t.recs) = 1
  BY <1>6 DEF Mark
<1>10. ReadTo(list, cells, cur, "cell", InCell(k, n, D))
  BY <1>1, <1>3, <1>8 DEF Before
<1>11. /\ IsSeq(cells) /\ Len(cells) = k - 1 /\ \A i \in 1 .. k - 1 : IsCell(list, cells[i], i)
       /\ Holds(list, cur, k, n, D)
  <2>1. InCell(k, n, D).k = k /\ InCell(k, n, D).at = "cell" /\ InCell(k, n, D).cnt = n /\ InCell(k, n, D).drawn = D
    BY PlaceAt
  <2>. QED BY <1>10, <2>1 DEF ReadTo
<1>12. IsCell(list, cur, k)
  BY <1>7, <1>11 DEF IsCell
<1>13. PICK C, c : C = Append(cells, cur) /\ c = cur
  OBVIOUS
<1>14. /\ IsSeq(C) /\ Len(C) = Len(cells) + 1 /\ Len(cells) \in Nat
       /\ \A i \in 1 .. Len(cells) : C[i] = cells[i]
       /\ C[Len(cells) + 1] = c
  BY ONLY <1>11, <1>13, AppendOf
<1>15. k \in Nat /\ (k - 1) + 1 = k /\ (k + 1) - 1 = k /\ \A i \in 1 .. k : i \in 1 .. k - 1 \/ i = k
  <2>1. k \in Nat
    BY <1>2, SeqHas DEF ListOK
  <2>. QED BY <2>1
<1>16. IsSeq(C) /\ Len(C) = k /\ (\A i \in 1 .. k - 1 : C[i] = cells[i]) /\ C[k] = c
  BY ONLY <1>11, <1>14, <1>15
<1>17. \A i \in 1 .. k : IsCell(list, C[i], i)
  BY <1>11, <1>12, <1>13, <1>15, <1>16
<1>18. ReadTo(list, C, cur', "idle", Between(k + 1))
  <2>1. Between(k + 1).at = "idle" /\ Between(k + 1).k = k + 1
    BY PlaceAt
  <2>. QED BY <1>15, <1>16, <1>17, <2>1 DEF ReadTo
<1>. QED BY <1>1, <1>3, <1>5, <1>8, <1>9, <1>13, <1>18, Goes

\* No item follows the end of the library.
LEMMA LastItem ==
  ASSUME NEW l, NEW w, NEW F, NEW items, NEW start, NEW at, Readable(l, file, w, F, items, start, at),
         NEW r \in 1 .. Len(items) + 1
  PROVE  /\ Len(items) \in Nat
         /\ at[r].at = "done" => r = Len(items) + 1
         /\ w = "done" /\ r = Len(items) + 1 => at[r].at = "done"
<1>1. Len(items) \in Nat
  BY SeqHas DEF Readable, Tells, Laid
<1>2. r \in 1 .. Len(items) => at[r].at \in {"start", "idle", "cell"}
  <2>1. SUFFICES ASSUME r \in 1 .. Len(items) PROVE at[r].at \in {"start", "idle", "cell"}
    OBVIOUS
  <2>2. IsItem(l, items[r]) /\ items[r].from = at[r]
    BY <2>1, Peek
  <2>. QED BY <2>2, Kinds
<1>. QED BY <1>1, <1>2 DEF Readable

\* ReadStop has read every structure.
LEMMA TakeStop == Reading /\ ReaderTyped /\ ReadStop => Reading'
<1>. SUFFICES ASSUME Reading, ReaderTyped, ReadStop PROVE Reading'
  OBVIOUS
<1>1. PICK F, items, start, at, r : Before(F, items, start, at, r)
  BY ReadingBefore
<1>2. ListOK(list)
  BY ListFacts DEF Reading
<1>3. /\ reader = "idle" /\ reader' = "done" /\ pos' = pos /\ UNCHANGED writer_vars
      /\ cells' = cells /\ cur' = cur /\ Type(pos) = "ENDLIB"
  BY DEF ReadStop
<1>4. PICK t : t = items[r]
  OBVIOUS
<1>5. /\ r \in 1 .. Len(items) /\ t.from = at[r] /\ t.to = at[r + 1] /\ IsEndLib(list, t)
      /\ r + 1 \in 1 .. Len(items) + 1
  BY <1>1, <1>2, <1>3, <1>4, NextItem
<1>6. at[r] = Between(Len(list) + 1) /\ at[r + 1].at = "done"
  BY <1>5 DEF IsEndLib, Place
<1>7. Readable(list, file, writer, F, items, start, at) /\ r \in 1 .. Len(items) + 1 /\ pos = start[r]
      /\ ReadTo(list, cells, cur, "idle", at[r])
  BY <1>1, <1>3 DEF Before
<1>8. writer = "done"
  <2>1. r + 1 = Len(items) + 1
    BY <1>5, <1>6, <1>7, LastItem
  <2>. QED BY <1>6, <1>7, <2>1 DEF Readable
<1>9. ReadTo(list, cells, cur, "done", at[r])
  <2>1. at[r].at = "idle"
    BY <1>6, PlaceAt
  <2>. QED BY <1>6, <1>7, <2>1 DEF ReadTo
<1>10. ReadingOf(list, file, writer, pos, cells, cur, "done")
  BY <1>7, <1>8, <1>9 DEF ReadingOf
<1>. QED BY <1>3, <1>10 DEF Reading, writer_vars

\* A whole item is one that the reader expects.
LEMMA Expected ==
  ASSUME NEW F, NEW items, NEW start, NEW at, NEW r, Before(F, items, start, at, r),
         ListOK(list), OrderedList(list), MappedLabels(list), writer = "done", reader \in {"start", "idle", "cell"}
  PROVE  ~Unexpected
<1>1. PICK t : t = items[r]
  OBVIOUS
<1>2. Readable(list, file, writer, F, items, start, at) /\ r \in 1 .. Len(items) + 1 /\ pos = start[r]
      /\ ReadTo(list, cells, cur, reader, at[r])
  BY DEF Before
<1>3. at[r].at = reader
  BY <1>2 DEF ReadTo
<1>4. r \in 1 .. Len(items)
  <2>1. r # Len(items) + 1 /\ Len(items) \in Nat
    BY <1>2, <1>3, LastItem
  <2>. QED BY <1>2, <2>1
<1>5. /\ pos \in Nat /\ pos # 0 /\ IsSeq(file) /\ IsItem(list, t) /\ t.from = at[r]
      /\ Shows(pos, t.recs) /\ Whole(pos, t.recs)
  BY <1>1, <1>2, <1>4, Peek
<1>6. \A k \in 1 .. Len(t.recs) : Type(pos + k - 1) = t.recs[k].type /\ Val(pos + k - 1) = t.recs[k].val
  BY <1>5, FoundWhole
<1>7. pos + 1 - 1 = pos /\ pos + 2 - 1 = pos + 1 /\ pos + 3 - 1 = pos + 2 /\ pos + 4 - 1 = pos + 3
  BY <1>5
<1>8. CASE reader = "start"
  <2>1. IsHeader(t)
    BY <1>3, <1>5, <1>8, Kinds
  <2>2. t.recs = <<Rec("HEADER", None)>> \o (<<Rec("BGNLIB", None)>> \o <<Rec("LIBNAME", "lib")>>) \o <<Rec("UNITS", None)>>
    BY <2>1 DEF IsHeader, FileHeader, LibBegin, Mark
  <2>3. /\ Len(t.recs) = 4 /\ t.recs[1] = Rec("HEADER", None) /\ t.recs[2] = Rec("BGNLIB", None)
        /\ t.recs[3] = Rec("LIBNAME", "lib") /\ t.recs[4] = Rec("UNITS", None)
    BY ONLY <2>2
  <2>4. /\ Type(pos) = t.recs[1].type /\ Type(pos + 1) = t.recs[2].type /\ Type(pos + 2) = t.recs[3].type
        /\ Type(pos + 3) = t.recs[4].type
    <3>1. 1 \in 1 .. Len(t.recs) /\ 2 \in 1 .. Len(t.recs) /\ 3 \in 1 .. Len(t.recs) /\ 4 \in 1 .. Len(t.recs)
      BY ONLY <2>3
    <3>. QED BY ONLY <1>6, <1>7, <3>1
  <2>5. Type(pos) = "HEADER" /\ Type(pos + 1) = "BGNLIB" /\ Type(pos + 2) = "LIBNAME" /\ Type(pos + 3) = "UNITS"
    BY ONLY <2>3, <2>4 DEF Rec
  <2>6. Types(pos, <<"HEADER", "BGNLIB", "LIBNAME", "UNITS">>)
    BY <1>5, <2>5, TypesOf
  <2>. QED BY <1>8, <2>6 DEF Unexpected
<1>9. CASE reader = "idle"
  <2>1. IsStruct(list, t) \/ IsEndLib(list, t)
    BY <1>3, <1>5, <1>9, Kinds
  <2>2. CASE IsStruct(list, t)
    <3>1. PICK nm : t.recs = <<Rec("BGNSTR", None)>> \o <<Rec("STRNAME", nm)>>
      BY <2>2 DEF IsStruct, StructBegin, Mark
    <3>2. Len(t.recs) = 2 /\ t.recs[1] = Rec("BGNSTR", None) /\ t.recs[2] = Rec("STRNAME", nm)
      BY ONLY <3>1
    <3>3. Type(pos) = t.recs[1].type /\ Type(pos + 1) = t.recs[2].type
      <4>1. 1 \in 1 .. Len(t.recs) /\ 2 \in 1 .. Len(t.recs)
        BY ONLY <3>2
      <4>. QED BY ONLY <1>6, <1>7, <4>1
    <3>4. Types(pos, <<"BGNSTR", "STRNAME">>)
      BY <1>5, <3>2, <3>3, TypesOf DEF Rec
    <3>. QED BY <1>9, <3>4 DEF Unexpected
  <2>3. CASE IsEndLib(list, t)
    <3>1. Len(t.recs) = 1 /\ t.recs[1] = Rec("ENDLIB", None)
      BY <2>3 DEF IsEndLib, Mark
    <3>2. Type(pos) = t.recs[1].type
      <4>1. 1 \in 1 .. Len(t.recs)
        BY ONLY <3>1
      <4>. QED BY ONLY <1>6, <1>7, <4>1
    <3>. QED BY <1>9, <3>1, <3>2 DEF Unexpected, Rec
  <2>. QED BY <2>1, <2>2, <2>3
<1>10. CASE reader = "cell"
  <2>1. IsShape(list, t) \/ IsText(list, t) \/ IsInst(list, t) \/ IsEndStruct(list, t)
    BY <1>3, <1>5, <1>10, Kinds
  <2>2. CASE IsShape(list, t)
    <3>1. PICK gds, pts : IsPair(gds) /\ IsShapeRecs(t.recs, gds, pts)
      BY <2>2 DEF IsShape
    <3>2. ShapeOK(pos)
      BY <1>5, <3>1, ShapeTaken
    <3>. QED BY <1>10, <3>2 DEF Unexpected
  <2>3. CASE IsText(list, t)
    <3>1. IsTextRecs(list, t.recs)
      BY <2>3 DEF IsText
    <3>2. PICK x \in Xform, mag \in BOOLEAN : \E gds, text :
            t.recs = TextRecords(gds, text, x, mag) /\ ReverseLookup(LayerMap, <<gds[1], gds[2]>>) # None
      BY <3>1 DEF IsTextRecs
    <3>3. PICK gds, text :
            t.recs = TextRecords(gds, text, x, mag) /\ ReverseLookup(LayerMap, <<gds[1], gds[2]>>) # None
      BY <3>2
    <3>4. PICK recs : recs = t.recs
      OBVIOUS
    <3>5. /\ pos \in Nat /\ pos # 0 /\ IsSeq(file) /\ recs = TextRecords(gds, text, x, mag)
          /\ Shows(pos, recs) /\ Whole(pos, recs)
      BY <1>5, <3>3, <3>4
    <3>6. x \in Xform /\ mag \in BOOLEAN
      OBVIOUS
    <3>7. TextOK(pos)
      BY ONLY <3>3, <3>5, <3>6, TextTaken
    <3>. QED BY <1>10, <3>7 DEF Unexpected
  <2>4. CASE IsInst(list, t)
    <3>1. PICK k, cnt, ref, inst : InstItem(t, k, cnt, ref, inst)
      BY <2>4, InstItemIs
    <3>2. PICK q, s : InstFacts(pos, t.recs, ref, inst, q, s)
      BY <1>5, <3>1, InstFound DEF InstItem
    <3>3. PICK D : D = t.from.drawn
      OBVIOUS
    <3>4. at[r] = InCell(k, cnt, D) /\ \E j \in 1 .. k - 1 : ref = list[j].name
      BY <1>5, <3>1, <3>3 DEF InstItem
    <3>5. IsSeq(cells) /\ Len(cells) = k - 1 /\ \A i \in 1 .. k - 1 : IsCell(list, cells[i], i)
      <4>1. InCell(k, cnt, D).k = k
        BY PlaceAt
      <4>. QED BY <1>2, <3>1, <3>4, <4>1 DEF ReadTo, InstItem
    <3>6. Masters(NameOf(ref)) # {}
      BY <3>1, <3>4, <3>5, MasterIs DEF InstItem
    <3>7. InstOK(pos) \/ ArrOK(pos)
      BY <1>5, <3>2, <3>6, InstAccepted
    <3>. QED BY <1>10, <3>7 DEF Unexpected
  <2>5. CASE IsEndStruct(list, t)
    <3>1. Len(t.recs) = 1 /\ t.recs[1] = Rec("ENDSTR", None)
      BY <2>5 DEF IsEndStruct, Mark
    <3>2. Type(pos) = t.recs[1].type
      <4>1. 1 \in 1 .. Len(t.recs)
        BY ONLY <3>1
      <4>. QED BY ONLY <1>6, <1>7, <4>1
    <3>. QED BY <1>10, <3>1, <3>2 DEF Unexpected, Rec
  <2>. QED BY <2>1, <2>2, <2>3, <2>4, <2>5
<1>. QED BY <1>8, <1>9, <1>10

\* Refuse throws only where the file was cut, or a master or a layer is not found.
LEMMA TakeRefuse == Reading /\ ReaderTyped /\ Refuse => Reading'
<1>. SUFFICES ASSUME Reading, ReaderTyped, Refuse PROVE Reading'
  OBVIOUS
<1>1. PICK F, items, start, at, r : Before(F, items, start, at, r)
  BY ReadingBefore
<1>2. ListOK(list)
  BY ListFacts DEF Reading
<1>3. /\ reader' = "error" /\ pos' = pos /\ UNCHANGED writer_vars /\ cells' = cells /\ cur' = cur
      /\ writer \in {"done", "cut"} /\ Unexpected
  BY DEF Refuse
<1>4. reader \in {"start", "idle", "cell"}
  BY <1>3 DEF Unexpected, ReaderTyped
<1>5. OrderedList(list) /\ MappedLabels(list) => writer = "cut"
  BY <1>1, <1>2, <1>3, <1>4, Expected
<1>6. Readable(list, file, writer, F, items, start, at) /\ r \in 1 .. Len(items) + 1 /\ pos = start[r]
      /\ ReadTo(list, cells, cur, reader, at[r])
  BY <1>1 DEF Before
<1>7. ReadTo(list, cells, cur, "error", at[r])
  BY <1>4, <1>6 DEF ReadTo
<1>8. ReadingOf(list, file, writer, pos, cells, cur, "error")
  BY <1>3, <1>5, <1>6, <1>7 DEF ReadingOf
<1>. QED BY <1>3, <1>8 DEF Reading, writer_vars

-----------------------------------------------------------------------------
(***************************************************************************)
(* The theorems.                                                           *)
(***************************************************************************)

\* The inductive invariant: the reader is of the right type, and the file is being written,
\* being read after it was written or cut, or one of another writer.
Inv == ReaderTyped /\ (Writing \/ Reading \/ Alien)

\* Every record of the file can be decoded.
LEMMA WritingGood ==
  ASSUME NEW l, NEW f, NEW n, NEW lf, NEW m, NEW w, WritingOf(l, f, n, lf, m, w)
  PROVE  GoodRecs(f)
<1>1. PICK b : Story(l, f, Start, b)
  BY DEF WritingOf
<1>. QED BY <1>1, StoryGood

LEMMA ReadingGood ==
  ASSUME NEW l, NEW f, NEW w, NEW p, NEW cs, NEW c, NEW rd, ReadingOf(l, f, w, p, cs, c, rd)
  PROVE  GoodRecs(f)
<1>1. PICK F, items, start, at : Readable(l, f, w, F, items, start, at)
  BY DEF ReadingOf
<1>2. Story(l, F, Start, at[Len(items) + 1]) /\ Prefix(f, F)
  BY <1>1 DEF Readable, Story
<1>3. GoodRecs(F)
  BY <1>2, StoryGood
<1>4. IsSeq(f) /\ Len(f) <= Len(F) /\ \A i \in 1 .. Len(f) : f[i] = F[i]
  BY <1>2 DEF Prefix
<1>5. Len(f) \in Nat /\ DOMAIN f = 1 .. Len(f) /\ Len(F) \in Nat /\ \A i \in 1 .. Len(F) : F[i] \in ToSet(F)
  BY <1>3, <1>4, SeqHas DEF GoodRecs
<1>6. \A i \in 1 .. Len(f) : i \in 1 .. Len(F)
  BY <1>4, <1>5
<1>7. \A i \in 1 .. Len(f) : IsRecord(f[i])
  BY <1>3, <1>4, <1>5, <1>6 DEF GoodRecs
<1>. QED BY <1>4, <1>5, <1>7 DEF GoodRecs, ToSet

LEMMA FileGood == Inv => GoodRecs(file)
BY WritingGood, ReadingGood DEF Inv, Writing, Reading, Alien

\* The invariant holds at the start, and every step of the writer and of the reader
\* keeps it.
LEMMA InitInv == Init => Inv
<1>. SUFFICES ASSUME Init PROVE Inv
  OBVIOUS
<1>1. pos = 1 /\ cells = << >> /\ cur = NoCell /\ reader = "start" /\ written = 0 /\ rename_map = EmptyDict
  BY DEF Init, InitReader
<1>2. DOMAIN EmptyDict = {}
  BY DEF EmptyDict
<1>3. IsSeq(<< >>) /\ ToSet(<< >>) = {} /\ Len(<< >>) = 0
  BY DEF IsSeq, ToSet
<1>4. ASSUME GoodRecs(file) PROVE ReaderTyped
  <2>1. Len(file) \in Nat
    BY <1>4, SeqHas DEF GoodRecs
  <2>. QED BY <1>1, <1>3, <2>1, NoCellIs DEF ReaderTyped
<1>5. CASE list \in Lists /\ file = << >> /\ writer = "start"
  <2>1. Story(list, << >>, Start, Start)
    BY StoryNone
  <2>2. Renamed(EmptyDict, list, 0)
    <3>1. \A j \in 1 .. 0 : FALSE
      OBVIOUS
    <3>. QED BY <1>2, <3>1 DEF Renamed
  <2>3. 0 \in 0 .. Len(list)
    BY <1>5, ListFacts, SeqHas DEF ListOK
  <2>4. WriterAt(list, 0, left, "start", Start)
    BY DEF WriterAt
  <2>5. WritingOf(list, << >>, 0, left, EmptyDict, "start")
    BY <2>1, <2>2, <2>3, <2>4 DEF WritingOf
  <2>6. Writing
    BY <1>1, <1>5, <2>5 DEF Writing
  <2>7. GoodRecs(file)
    BY <1>3, <1>5 DEF GoodRecs
  <2>. QED BY <1>4, <2>6, <2>7 DEF Inv
<1>6. CASE list = << >> /\ file \in Foreign /\ writer = "done"
  <2>1. GoodRecs(file)
    BY <1>6, LayoutsAssumption DEF GoodRecs
  <2>2. Alien
    BY <1>1, <1>2, <1>6, <2>1 DEF Alien
  <2>. QED BY <1>4, <2>1, <2>2 DEF Inv
<1>. QED BY <1>5, <1>6 DEF Init

LEMMA WriterSteps == Inv /\ NextWriter => Inv'
<1>. SUFFICES ASSUME Inv, NextWriter PROVE Inv'
  OBVIOUS
<1>1. writer \in {"start", "idle", "cell"}
  BY DEF NextWriter, WriteStart, BeginStruct, WriteElement, EndStruct, WriteStop, Cut
<1>2. Writing
  BY <1>1 DEF Inv, Reading, ReadingOf, Alien
<1>3. Writing' \/ Reading'
  BY <1>2, StepStart, StepBegin, StepElement, StepEnd, StepStop, StepCut DEF NextWriter
<1>4. UNCHANGED reader_vars
  BY DEF NextWriter, WriteStart, BeginStruct, WriteElement, EndStruct, WriteStop, Cut
<1>5. GoodRecs(file')
  <2>1. CASE Writing'
    BY <2>1, WritingGood DEF Writing
  <2>2. CASE Reading'
    BY <2>2, ReadingGood DEF Reading
  <2>. QED BY <1>3, <2>1, <2>2
<1>6. Len(file') \in Nat
  BY <1>5, SeqHas DEF GoodRecs
<1>7. pos' = 1 /\ cells' = cells /\ cur' = cur /\ reader' = reader
  BY <1>2, <1>4 DEF Writing, reader_vars
<1>8. ReaderTyped'
  BY <1>6, <1>7 DEF Inv, ReaderTyped
<1>. QED BY <1>3, <1>8 DEF Inv

LEMMA ReaderSteps == Inv /\ NextReader => Inv'
<1>. SUFFICES ASSUME Inv, NextReader PROVE Inv'
  OBVIOUS
<1>1. ReaderTyped /\ GoodRecs(file)
  BY FileGood DEF Inv
<1>2. ReaderTyped'
  BY <1>1, TypedReader
<1>3. UNCHANGED writer_vars
  BY DEF NextReader, ReadStart, ReadStruct, ReadText, ReadInstance, ReadArrInstance, ReadShape,
         ReadEndStruct, ReadStop, Refuse
<1>4. CASE Writing
  <2>1. reader = "start" /\ writer \in {"start", "idle", "cell"}
    BY <1>4 DEF Writing, WritingOf, WriterAt
  <2>. QED BY <2>1 DEF NextReader, ReadStart, ReadStruct, ReadText, ReadInstance, ReadArrInstance, ReadShape,
                       ReadEndStruct, ReadStop, Refuse
<1>5. CASE Reading
  <2>1. Reading'
    BY <1>1, <1>5, TakeStart, TakeStruct, TakeText, TakeInstance, TakeArrInstance, TakeShape, TakeEndStruct,
       TakeStop, TakeRefuse DEF NextReader
  <2>. QED BY <1>2, <2>1 DEF Inv
<1>6. CASE Alien
  <2>1. Alien'
    BY <1>3, <1>6 DEF Alien, writer_vars
  <2>. QED BY <1>2, <2>1 DEF Inv
<1>. QED BY <1>4, <1>5, <1>6 DEF Inv

\* In every reachable state the file is the beginning of what implement_gds writes for
\* the list, or one of another writer, and read_gds has read its cellviews up to where it is.
THEOREM AlwaysInv == Spec => []Inv
<1>1. Init => Inv
  BY InitInv
<1>2. Inv /\ UNCHANGED vars => Inv'
  <2>. SUFFICES ASSUME Inv, UNCHANGED vars PROVE Inv'
    OBVIOUS
  <2>1. /\ list' = list /\ file' = file /\ written' = written /\ left' = left /\ rename_map' = rename_map
        /\ writer' = writer /\ pos' = pos /\ cells' = cells /\ cur' = cur /\ reader' = reader
    BY DEF vars
  <2>. QED BY <2>1 DEF Inv, ReaderTyped, Writing, Reading, Alien
<1>3. Inv /\ [Next]_vars => Inv'
  BY <1>2, WriterSteps, ReaderSteps DEF Next
<1>. QED BY <1>1, <1>3, PTL DEF Spec

\* The types follow from the invariant.
LEMMA InvTypeOK == Inv => TypeOK
<1>. SUFFICES ASSUME Inv PROVE TypeOK
  OBVIOUS
<1>1. GoodRecs(file)
  BY FileGood
<1>2. \A i \in DOMAIN file : DOMAIN file[i] = {"type", "val"}
  <2>1. SUFFICES ASSUME NEW i \in DOMAIN file PROVE DOMAIN file[i] = {"type", "val"}
    OBVIOUS
  <2>2. IsRecord(file[i])
    BY <1>1, SeqHas DEF GoodRecs
  <2>3. PICK a, b : file[i] = [type |-> a, val |-> b]
    BY <2>2 DEF IsRecord
  <2>. QED BY <2>3
<1>3. /\ written \in 0 .. Len(list)
      /\ DOMAIN rename_map \subseteq DOMAIN Cellviews
      /\ writer \in {"start", "idle", "cell", "done", "cut"}
  <2>1. CASE Writing
    <3>1. written \in 0 .. Len(list) /\ Renamed(rename_map, list, written) /\ ListOK(list)
      BY <2>1, ListFacts DEF Writing, WritingOf
    <3>2. writer \in {"start", "idle", "cell"}
      BY <2>1 DEF Writing, WritingOf, WriterAt
    <3>3. DOMAIN rename_map \subseteq DOMAIN Cellviews
      BY <3>1, RenameDomain
    <3>. QED BY <3>1, <3>2, <3>3
  <2>2. CASE Reading
    BY <2>2 DEF Reading, ReadingOf
  <2>3. CASE Alien
    <3>1. Len(<< >>) = 0
      OBVIOUS
    <3>. QED BY <2>3, <3>1 DEF Alien
  <2>. QED BY <2>1, <2>2, <2>3 DEF Inv
<1>4. ASSUME NEW c, IsReadCell(c), NEW k \in DOMAIN c.insts
      PROVE  c.insts[k].xform \in Xform /\ c.insts[k].n \in Nat \X Nat /\ c.insts[k].sp \in Point
  <2>1. c.insts[k] \in ToSet(c.insts)
    BY <1>4, SeqHas DEF IsReadCell
  <2>. QED BY <1>4, <2>1 DEF IsReadCell, IsReadInst
<1>5. \A c \in {cells[i] : i \in DOMAIN cells} \cup {cur} : IsReadCell(c)
  <2>1. \A i \in DOMAIN cells : cells[i] \in ToSet(cells)
    BY SeqHas DEF Inv, ReaderTyped
  <2>. QED BY <2>1 DEF Inv, ReaderTyped
<1>6. pos \in 1 .. Len(file) + 1 /\ reader \in {"start", "idle", "cell", "done", "error"}
  BY DEF Inv, ReaderTyped
<1>. QED BY <1>2, <1>3, <1>4, <1>5, <1>6 DEF TypeOK

\* Every reachable state satisfies the type invariant: read_gds never goes past the end of
\* the file, whatever the file is, and its instances have a place and counts.
THEOREM AlwaysTypeOK == Spec => []TypeOK
BY AlwaysInv, InvTypeOK, PTL

\* What the invariant says of the cellviews that were read.
LEMMA InvCells ==
  ASSUME Inv, NEW i \in DOMAIN cells \cap DOMAIN list
  PROVE  IsCell(list, cells[i], i) /\ IsLayout(SourceOf(list, i))
<1>1. \A k \in DOMAIN << >> : FALSE
  OBVIOUS
<1>2. Reading
  BY <1>1 DEF Inv, Writing, Alien
<1>3. PICK F, items, start, at, r : Before(F, items, start, at, r)
  BY <1>2, ReadingBefore
<1>4. IsSeq(cells) /\ Len(cells) = at[r].k - 1 /\ \A j \in 1 .. at[r].k - 1 : IsCell(list, cells[j], j)
  BY <1>3 DEF Before, ReadTo
<1>5. IsCell(list, cells[i], i)
  BY <1>4, SeqHas
<1>6. IsLayout(SourceOf(list, i))
  BY <1>2, ListFacts, SourceLayout DEF Reading
<1>. QED BY <1>5, <1>6

\* A reader that is done has read every structure; one that has thrown had a reason.
LEMMA InvWhole == Inv => WholeFilesAccepted
<1>. SUFFICES ASSUME Inv, list # << >>
              PROVE  /\ reader = "done" => writer = "done" /\ Len(cells) = Len(list)
                     /\ reader = "error" /\ InOrder /\ LabelsMapped => writer = "cut"
  BY DEF WholeFilesAccepted
<1>1. CASE Writing
  BY <1>1 DEF Writing
<1>2. CASE Reading
  <2>1. InOrder => OrderedList(list)
    BY DEF InOrder, OrderedList, Source, SourceOf
  <2>2. LabelsMapped => MappedLabels(list)
    BY DEF LabelsMapped, MappedLabels, Source, SourceOf
  <2>3. reader = "done" => Len(cells) = Len(list)
    <3>1. SUFFICES ASSUME reader = "done" PROVE Len(cells) = Len(list)
      OBVIOUS
    <3>2. PICK F, items, start, at, r : Before(F, items, start, at, r)
      BY <1>2, ReadingBefore
    <3>3. at[r] = Between(Len(list) + 1) /\ Len(cells) = at[r].k - 1
      BY <3>1, <3>2 DEF Before, ReadTo
    <3>4. Len(list) \in Nat
      BY <1>2, ListFacts, SeqHas DEF Reading, ListOK
    <3>. QED BY <3>3, <3>4, PlaceAt
  <2>. QED BY <1>2, <2>1, <2>2, <2>3 DEF Reading, ReadingOf
<1>3. CASE Alien
  BY <1>3 DEF Alien
<1>. QED BY <1>1, <1>2, <1>3 DEF Inv

\* read_gds accepts a file of implement_gds exactly when it is whole, wherever it was cut.
THEOREM AlwaysWholeFilesAccepted == Spec => []WholeFilesAccepted
BY AlwaysInv, InvWhole, PTL

-----------------------------------------------------------------------------
(***************************************************************************)
(* What is drawn in a file: the shapes and boundaries of the cellview.     *)
(***************************************************************************)

\* A shape whose layer the map knows, as it is drawn; d is drawn for such a shape of S.
Paints(d, s) == Lookup(LayerMap, s.key) # None /\ d = Drawing(Lookup(LayerMap, s.key), s.pts)
Painted(d, S) == \E s \in S : Paints(d, s)

\* What paints a layer and points.
LEMMA PaintsIs ==
  ASSUME NEW key, NEW pts, NEW d
  PROVE  Paints(d, [key |-> key, pts |-> pts]) <=>
           Lookup(LayerMap, key) # None /\ d = Drawing(Lookup(LayerMap, key), pts)
BY DEF Paints

\* The polygons on a layer, and the boxes, draw the shapes they are.
LEMMA PolygonsPaint ==
  ASSUME NEW key, NEW polys, NEW d
  PROVE  d \in OnLayer(key, polys) <=> Painted(d, {[key |-> key, pts |-> ToSet(p)] : p \in polys})
<1>1. d \in OnLayer(key, polys) <=>
        \E p \in polys : Lookup(LayerMap, key) # None /\ d = Drawing(Lookup(LayerMap, key), ToSet(p))
  BY DEF OnLayer, Drawn
<1>2. Painted(d, {[key |-> key, pts |-> ToSet(p)] : p \in polys}) <=>
        \E p \in polys : Paints(d, [key |-> key, pts |-> ToSet(p)])
  BY DEF Painted
<1>. QED BY <1>1, <1>2, PaintsIs

\* The same of boxes.
LEMMA BoxesPaint ==
  ASSUME NEW key, NEW boxes, NEW d
  PROVE  d \in OnLayer(key, Corners(boxes)) <=> Painted(d, BoxShapes(key, boxes))
<1>1. {[key |-> key, pts |-> ToSet(p)] : p \in Corners(boxes)} = BoxShapes(key, boxes)
  BY DEF Corners, BoxShapes
<1>. QED BY <1>1, PolygonsPaint

\* What paints more shapes.
LEMMA PaintsMore ==
  /\ \A d, A, B : Painted(d, A \cup B) <=> Painted(d, A) \/ Painted(d, B)
  /\ \A d : ~Painted(d, {})
BY DEF Painted

\* What an element of a kind draws.
LEMMA DrawsKind ==
  ASSUME NEW x
  PROVE  /\ DrawingsOf(Elem("inst", x)) = {} /\ DrawingsOf(Elem("label", x)) = {}
         /\ DrawingsOf(Elem("geo", x)) = GeoDrawings(x) /\ DrawingsOf(Elem("via", x)) = ViaDrawings(x)
         /\ DrawingsOf(Elem("pin", x)) = PinDrawings(x) /\ DrawingsOf(Elem("bnd", x)) = BoundaryDrawings(x)
BY DEF DrawingsOf, Elem

\* A cellview draws what its elements draw.
LEMMA DrawnElems ==
  ASSUME NEW cv, IsLayout(cv), NEW d
  PROVE  d \in Drawings(cv) <=>
           \/ \E x \in ToSet(cv.geos) : d \in GeoDrawings(x)
           \/ \E x \in ToSet(cv.vias) : d \in ViaDrawings(x)
           \/ \E x \in ToSet(cv.pins) : d \in PinDrawings(x)
           \/ \E x \in ToSet(cv.bnds) : d \in BoundaryDrawings(x)
<1>1. PICK E : E = Elements(cv)
  OBVIOUS
<1>2. IsSeq(E) /\ ToSet(E) = ElemSet("inst", cv.insts) \cup OtherElems(cv)
  BY <1>1, ElementsFacts
<1>3. \A e : e \in ToSet(E) <=> \E i \in 1 .. Len(E) : e = E[i]
  BY <1>2, SeqHas DEF ToSet
<1>4. d \in Drawings(cv) <=> \E i \in 1 .. Len(E) : d \in DrawingsOf(E[i])
  BY <1>1 DEF Drawings, DrawnBy
<1>5. d \in Drawings(cv) <=> \E e \in ToSet(E) : d \in DrawingsOf(e)
  BY ONLY <1>3, <1>4
<1>6. \A e : e \in ToSet(E) <=>
        \/ \E x \in ToSet(cv.insts) : e = Elem("inst", x)
        \/ \E x \in ToSet(cv.geos) : e = Elem("geo", x)
        \/ \E x \in ToSet(cv.vias) : e = Elem("via", x)
        \/ \E x \in ToSet(cv.pins) : e = Elem("pin", x)
        \/ \E x \in ToSet(cv.labels) : e = Elem("label", x)
        \/ \E x \in ToSet(cv.bnds) : e = Elem("bnd", x)
  <2>1. \A e : e \in ToSet(E) <=>
          \/ e \in ElemSet("inst", cv.insts) \/ e \in ElemSet("geo", cv.geos) \/ e \in ElemSet("via", cv.vias)
          \/ e \in ElemSet("pin", cv.pins) \/ e \in ElemSet("label", cv.labels) \/ e \in ElemSet("bnd", cv.bnds)
    BY <1>2 DEF OtherElems
  <2>2. \A e, kind, s : e \in ElemSet(kind, s) <=> \E x \in ToSet(s) : e = Elem(kind, x)
    BY DEF ElemSet
  <2>. QED BY ONLY <2>1, <2>2
<1>7. ASSUME d \in Drawings(cv)
      PROVE  \/ \E x \in ToSet(cv.geos) : d \in GeoDrawings(x)
             \/ \E x \in ToSet(cv.vias) : d \in ViaDrawings(x)
             \/ \E x \in ToSet(cv.pins) : d \in PinDrawings(x)
             \/ \E x \in ToSet(cv.bnds) : d \in BoundaryDrawings(x)
  <2>1. PICK e \in ToSet(E) : d \in DrawingsOf(e)
    BY <1>5, <1>7
  <2>. QED BY ONLY <1>6, <2>1, DrawsKind
<1>8. \A x \in ToSet(cv.geos) : d \in GeoDrawings(x) => d \in Drawings(cv)
  BY ONLY <1>5, <1>6, DrawsKind
<1>9. \A x \in ToSet(cv.vias) : d \in ViaDrawings(x) => d \in Drawings(cv)
  BY ONLY <1>5, <1>6, DrawsKind
<1>10. \A x \in ToSet(cv.pins) : d \in PinDrawings(x) => d \in Drawings(cv)
  BY ONLY <1>5, <1>6, DrawsKind
<1>11. \A x \in ToSet(cv.bnds) : d \in BoundaryDrawings(x) => d \in Drawings(cv)
  BY ONLY <1>5, <1>6, DrawsKind
<1>. QED BY <1>7, <1>8, <1>9, <1>10, <1>11

\* A via and a pin draw the shapes they are.
Boxes3(via) ==
  BoxShapes(via.bot, {via.bot_box}) \cup BoxShapes(via.top, {via.top_box}) \cup BoxShapes(via.cut, ToSet(via.cuts))
PinBox(pin) ==
  IF MakePin /\ Physical(pin.box) THEN BoxShapes(<<pin.lay, PinPurpose>>, {pin.box}) ELSE {}
PolyShapes(geo) == {[key |-> geo.key, pts |-> ToSet(p)] : p \in ToSet(geo.polys)}

\* A via that is mapped, a pin and a geometry draw their shapes.
LEMMA ViaPaints ==
  ASSUME NEW via, NEW d
  PROVE  d \in ViaDrawings(via) <=> ViaMapped(via) /\ Painted(d, Boxes3(via))
<1>1. PICK A, B, C : /\ A = BoxShapes(via.bot, {via.bot_box}) /\ B = BoxShapes(via.top, {via.top_box})
                     /\ C = BoxShapes(via.cut, ToSet(via.cuts))
  OBVIOUS
<1>2. Painted(d, Boxes3(via)) <=> Painted(d, A) \/ Painted(d, B) \/ Painted(d, C)
  <2>1. Boxes3(via) = (A \cup B) \cup C
    BY <1>1 DEF Boxes3
  <2>. QED BY <2>1 DEF Painted
<1>3. /\ Painted(d, A) <=> d \in OnLayer(via.bot, Corners({via.bot_box}))
      /\ Painted(d, B) <=> d \in OnLayer(via.top, Corners({via.top_box}))
      /\ Painted(d, C) <=> d \in OnLayer(via.cut, Corners(ToSet(via.cuts)))
  BY <1>1, BoxesPaint
<1>. QED BY <1>2, <1>3 DEF ViaDrawings

LEMMA PinPaints ==
  ASSUME NEW pin, NEW d
  PROVE  d \in PinDrawings(pin) <=> Painted(d, PinBox(pin))
BY BoxesPaint, PaintsMore DEF PinDrawings, PinBox

LEMMA GeoPaints ==
  ASSUME NEW geo, NEW d
  PROVE  d \in GeoDrawings(geo) <=> Painted(d, PolyShapes(geo))
BY PolygonsPaint DEF GeoDrawings, PolyShapes


\* A cellview draws its shapes and its boundaries.
BoundaryOf(d, bnd) ==
  Lookup(ObjectMap, bnd.type) # None /\ d = Drawing(Lookup(ObjectMap, bnd.type), ToSet(bnd.poly))

\* A cellview draws its shapes on the layers of the map, and its boundaries.
LEMMA DrawnShapes ==
  ASSUME NEW cv, IsLayout(cv), NEW d
  PROVE  d \in Drawings(cv) <=> Painted(d, Shapes(cv)) \/ \E b \in ToSet(cv.bnds) : BoundaryOf(d, b)
<1>1. Painted(d, GeoShapes(cv)) <=> \E x \in ToSet(cv.geos) : d \in GeoDrawings(x)
  <2>1. GeoShapes(cv) = UNION {PolyShapes(g) : g \in ToSet(cv.geos)}
    BY DEF GeoShapes, PolyShapes
  <2>. QED BY <2>1, GeoPaints DEF Painted
<1>2. Painted(d, ViaShapes(cv)) <=> \E x \in ToSet(cv.vias) : d \in ViaDrawings(x)
  <2>1. ViaShapes(cv) = UNION {Boxes3(v) : v \in {w \in ToSet(cv.vias) : ViaMapped(w)}}
    BY DEF ViaShapes, Boxes3
  <2>. QED BY <2>1, ViaPaints DEF Painted
<1>3. Painted(d, PinShapes(cv)) <=> \E x \in ToSet(cv.pins) : d \in PinDrawings(x)
  <2>1. PinShapes(cv) = UNION {PinBox(p) : p \in ToSet(cv.pins)}
    BY DEF PinShapes, PinBox
  <2>. QED BY <2>1, PinPaints DEF Painted
<1>4. \A b : d \in BoundaryDrawings(b) <=> BoundaryOf(d, b)
  BY DEF BoundaryDrawings, BoundaryOf, Drawn
<1>5. Painted(d, Shapes(cv)) <=> Painted(d, GeoShapes(cv)) \/ Painted(d, ViaShapes(cv)) \/ Painted(d, PinShapes(cv))
  BY PaintsMore DEF Shapes
<1>. QED BY ONLY <1>1, <1>2, <1>3, <1>4, <1>5, IsLayout(cv), DrawnElems

\* Each shape is a record of a layer and points.
LEMMA ShapeForm ==
  ASSUME NEW cv, NEW s \in Shapes(cv)
  PROVE  s = [key |-> s.key, pts |-> s.pts]
<1>1. \A key, boxes : \A t \in BoxShapes(key, boxes) : t = [key |-> t.key, pts |-> t.pts]
  BY DEF BoxShapes
<1>2. CASE s \in GeoShapes(cv)
  BY <1>2 DEF GeoShapes
<1>3. CASE s \in ViaShapes(cv)
  <2>1. PICK via : s \in Boxes3(via)
    BY <1>3 DEF ViaShapes, Boxes3
  <2>. QED BY <1>1, <2>1 DEF Boxes3
<1>4. CASE s \in PinShapes(cv)
  <2>1. PICK pin : s \in PinBox(pin)
    BY <1>4 DEF PinShapes, PinBox
  <2>. QED BY <1>1, <2>1 DEF PinBox
<1>. QED BY <1>2, <1>3, <1>4 DEF Shapes

\* What is drawn is kept.
LEMMA DrawingIs ==
  ASSUME NEW gds, NEW pts
  PROVE  Drawing(gds, pts).gds = gds /\ Drawing(gds, pts).pts = pts
BY DEF Drawing

\* A shape on a layer that the maps bring back is read, and so is such a boundary.
LEMMA ShapesKept ==
  ASSUME NEW cv, IsLayout(cv), NEW s \in Shapes(cv), LayerKept(s.key)
  PROVE  s \in ShapesIn(Drawings(cv))
<1>1. PICK d : d = Drawing(Lookup(LayerMap, s.key), s.pts)
  OBVIOUS
<1>2. Lookup(LayerMap, s.key) # None /\ ReverseLookup(LayerMap, Lookup(LayerMap, s.key)) = s.key
  BY DEF LayerKept
<1>3. d.gds = Lookup(LayerMap, s.key) /\ d.pts = s.pts
  BY <1>1, DrawingIs
<1>4. Layer(d) = s.key /\ Layer(d) # None
  BY <1>2, <1>3, MapFacts DEF Layer
<1>5. d \in Drawings(cv)
  BY <1>1, <1>2, DrawnShapes DEF Painted, Paints
<1>6. [key |-> Layer(d), pts |-> d.pts] = s
  BY <1>3, <1>4, ShapeForm
<1>. QED BY ONLY <1>4, <1>5, <1>6 DEF ShapesIn

LEMMA BoundariesKept ==
  ASSUME NEW cv, IsLayout(cv), NEW b \in ToSet(cv.bnds), BoundaryKept(b.type)
  PROVE  [type |-> b.type, pts |-> ToSet(b.poly)] \in BndsIn(Drawings(cv))
<1>1. PICK d : d = Drawing(Lookup(ObjectMap, b.type), ToSet(b.poly))
  OBVIOUS
<1>2. /\ Lookup(ObjectMap, b.type) # None /\ ReverseLookup(LayerMap, Lookup(ObjectMap, b.type)) = None
      /\ ReverseLookup(ObjectMap, Lookup(ObjectMap, b.type)) = b.type
  BY DEF BoundaryKept
<1>3. d.gds = Lookup(ObjectMap, b.type) /\ d.pts = ToSet(b.poly)
  BY <1>1, DrawingIs
<1>4. ReverseLookup(ObjectMap, Lookup(ObjectMap, b.type)) # None
  BY <1>2, GdsAssumption, LookupFacts
<1>5. Object(d) = b.type /\ Object(d) # None /\ Layer(d) = None
  BY <1>2, <1>3, <1>4 DEF Object, Layer
<1>6. d \in Drawings(cv)
  BY <1>1, <1>2, DrawnShapes DEF BoundaryOf
<1>7. [type |-> Object(d), pts |-> d.pts] = [type |-> b.type, pts |-> ToSet(b.poly)]
  BY ONLY <1>3, <1>5
<1>. QED BY ONLY <1>5, <1>6, <1>7 DEF BndsIn

\* A shape that is read comes from a shape, or from a boundary, that was written.
LEMMA ShapesFrom ==
  ASSUME NEW cv, IsLayout(cv), NEW s \in ShapesIn(Drawings(cv))
  PROVE  \/ \E t \in Shapes(cv) : t.pts = s.pts /\ s.key = ReverseLookup(LayerMap, Lookup(LayerMap, t.key))
         \/ \E b \in ToSet(cv.bnds) :
              ToSet(b.poly) = s.pts /\ s.key = ReverseLookup(LayerMap, Lookup(ObjectMap, b.type))
<1>1. PICK d \in Drawings(cv) : s = [key |-> Layer(d), pts |-> d.pts]
  BY DEF ShapesIn
<1>2. s.key = ReverseLookup(LayerMap, d.gds) /\ s.pts = d.pts
  BY <1>1 DEF Layer
<1>3. CASE Painted(d, Shapes(cv))
  <2>1. PICK t \in Shapes(cv) : d = Drawing(Lookup(LayerMap, t.key), t.pts)
    BY <1>3 DEF Painted, Paints
  <2>2. t.pts = s.pts /\ s.key = ReverseLookup(LayerMap, Lookup(LayerMap, t.key))
    BY <1>2, <2>1, DrawingIs
  <2>. QED BY <2>2
<1>4. CASE \E b \in ToSet(cv.bnds) : BoundaryOf(d, b)
  <2>1. PICK b \in ToSet(cv.bnds) : d = Drawing(Lookup(ObjectMap, b.type), ToSet(b.poly))
    BY <1>4 DEF BoundaryOf
  <2>2. ToSet(b.poly) = s.pts /\ s.key = ReverseLookup(LayerMap, Lookup(ObjectMap, b.type))
    BY <1>2, <2>1, DrawingIs
  <2>. QED BY <2>2
<1>. QED BY <1>3, <1>4, DrawnShapes

\* No shape is lost, and none is read that was not written.
LEMMA InvShapes == Inv => ShapesSurvive
<1>. SUFFICES ASSUME Inv, NEW i \in DOMAIN cells \cap DOMAIN list
              PROVE  /\ {s \in Shapes(Source(i)) : LayerKept(s.key)} \subseteq cells[i].shapes
                     /\ \A s \in cells[i].shapes :
                          \/ \E t \in Shapes(Source(i)) :
                               t.pts = s.pts /\ s.key = ReverseLookup(LayerMap, Lookup(LayerMap, t.key))
                          \/ \E b \in ToSet(Source(i).bnds) :
                               ToSet(b.poly) = s.pts /\ s.key = ReverseLookup(LayerMap, Lookup(ObjectMap, b.type))
                     /\ {[type |-> b.type, pts |-> ToSet(b.poly)] :
                           b \in {c \in ToSet(Source(i).bnds) : BoundaryKept(c.type)}} \subseteq cells[i].bnds
  BY DEF ShapesSurvive
<1>1. PICK cv : cv = Source(i)
  OBVIOUS
<1>2. cv = SourceOf(list, i)
  BY <1>1 DEF Source, SourceOf
<1>3. IsLayout(cv) /\ cells[i].shapes = ShapesIn(Drawings(cv)) /\ cells[i].bnds = BndsIn(Drawings(cv))
  BY <1>2, InvCells DEF IsCell, Holds
<1>4. \A s \in Shapes(cv) : LayerKept(s.key) => s \in cells[i].shapes
  BY ONLY <1>3, ShapesKept
<1>5. \A b \in ToSet(cv.bnds) : BoundaryKept(b.type) => [type |-> b.type, pts |-> ToSet(b.poly)] \in cells[i].bnds
  BY ONLY <1>3, BoundariesKept
<1>6. \A s \in cells[i].shapes :
        \/ \E t \in Shapes(cv) : t.pts = s.pts /\ s.key = ReverseLookup(LayerMap, Lookup(LayerMap, t.key))
        \/ \E b \in ToSet(cv.bnds) :
             ToSet(b.poly) = s.pts /\ s.key = ReverseLookup(LayerMap, Lookup(ObjectMap, b.type))
  BY ONLY <1>3, ShapesFrom
<1>7. {s \in Shapes(cv) : LayerKept(s.key)} \subseteq cells[i].shapes
  BY ONLY <1>4
<1>8. {[type |-> b.type, pts |-> ToSet(b.poly)] :
         b \in {c \in ToSet(cv.bnds) : BoundaryKept(c.type)}} \subseteq cells[i].bnds
  BY ONLY <1>5
<1>. QED BY ONLY <1>1, <1>6, <1>7, <1>8

\* The instances are those that were written, with the cellviews of their masters.
LEMMA InvInstances == Inv => InstancesSurvive
<1>. SUFFICES ASSUME Inv, InOrder, NEW i \in DOMAIN cells \cap DOMAIN list
              PROVE  /\ Len(cells[i].insts) = Len(Source(i).insts)
                     /\ \A k \in DOMAIN cells[i].insts :
                          /\ cells[i].insts[k].xform = Source(i).insts[k].xform
                          /\ list[cells[i].insts[k].master].cv = Source(i).insts[k].master
                          /\ cells[i].insts[k].n = Source(i).insts[k].n
  BY DEF InstancesSurvive
<1>1. OrderedList(list)
  BY DEF InOrder, OrderedList, Source, SourceOf
<1>2. Source(i) = SourceOf(list, i)
  BY DEF Source, SourceOf
<1>3. InstsOf(list, cells[i].insts, i, Len(SourceOf(list, i).insts))
  BY InvCells DEF IsCell, Holds
<1>4. IsSeq(cells[i].insts) /\ Len(cells[i].insts) = Len(Source(i).insts)
  BY <1>2, <1>3 DEF InstsOf
<1>5. DOMAIN cells[i].insts = 1 .. Len(Source(i).insts)
  BY <1>4, SeqHas
<1>6. ASSUME NEW k \in DOMAIN cells[i].insts
      PROVE  /\ cells[i].insts[k].xform = Source(i).insts[k].xform
             /\ list[cells[i].insts[k].master].cv = Source(i).insts[k].master
             /\ cells[i].insts[k].n = Source(i).insts[k].n
  BY <1>1, <1>2, <1>3, <1>5 DEF InstsOf
<1>. QED BY <1>4, <1>6

\* Whatever implement_gds was given, a cellview that read_gds has read has the shapes and
\* boundaries whose layers the maps bring back, no shape that was not written, and the
\* instances in order, each with its place, its counts and the cellview of its master.
THEOREM AlwaysCellsSurvive == Spec => []CellsSurvive
<1>1. Inv => CellsSurvive
  BY InvShapes, InvInstances DEF CellsSurvive
<1>. QED BY <1>1, AlwaysInv, PTL

-----------------------------------------------------------------------------
(***************************************************************************)
(* The names of the instances that are read.  read_gds adds each instance  *)
(* to the cellview with add_inst, so Len(cells[i].insts) is the number of  *)
(* instances of the cellview only if add_inst loses none of them: the name *)
(* that its search saves has to be free.  The invariant is that of         *)
(* InstNaming: between low and high the search always keeps a free name,   *)
(* the saved one, at or above the count it began with.                     *)
(***************************************************************************)

\* Halving an interval stays inside it, short of the upper end.
LEMMA Middle ==
  ASSUME NEW l \in Nat, NEW h \in Nat, l <= h
  PROVE  /\ (l + h) \div 2 \in Nat
         /\ l <= (l + h) \div 2 /\ (l + h) \div 2 <= h
         /\ l < h => (l + h) \div 2 < h
  OBVIOUS

\* The invariant of the search holds at the start, and every step keeps it.
LEMMA NamingInitInv ==
  NamingInit => NamingInv
<1> SUFFICES ASSUME NamingInit PROVE NamingInv
  OBVIOUS
<1>1. NamingTypeOK
  <2>1. names = {} /\ inst_name_cnt = 0 /\ added = 0 /\ ~search
    BY DEF NamingInit
  <2>2. low = 0 /\ high = Nullopt /\ current = 0 /\ marker = Nullopt
    BY DEF NamingInit
  <2>3. added \in 0 .. MaxAdds
    BY <2>1, NamingAssumption
  <2>4. search \in BOOLEAN
    BY DEF NamingInit
  <2> QED BY <2>1, <2>2, <2>3, <2>4 DEF NamingTypeOK
<1>2. Bisecting
  BY DEF NamingInit, Bisecting
<1> QED BY <1>1, <1>2 DEF NamingInv

LEMMA NamingNextInv ==
  NamingInv /\ [NamingNext]_naming_vars => NamingInv'
<1> SUFFICES ASSUME NamingInv, [NamingNext]_naming_vars PROVE NamingInv'
  OBVIOUS
<1> USE NamingAssumption DEF NamingInv, NamingTypeOK, Bisecting
<1>1. ASSUME NEW name \in Numbers \cup Others \cup {NoName}, add_inst(name)
      PROVE  NamingInv'
  <2> USE <1>1 DEF add_inst
  <2>1. /\ ~search /\ added' \in 0 .. MaxAdds /\ inst_name_cnt' = inst_name_cnt
    OBVIOUS
  <2>2. CASE name # NoName /\ name \notin names
    <3>1. /\ names' = names \cup {name} /\ search' = search
          /\ low' = low /\ high' = high /\ current' = current /\ marker' = marker
      BY <2>2 DEF iter
    <3>2. name \in Nat \cup Others
      BY <2>2
    <3>3. ~search' /\ search' \in BOOLEAN
      BY <2>1, <3>1
    <3> QED BY <2>1, <3>1, <3>2, <3>3
  <2>3. CASE ~(name # NoName /\ name \notin names)
    <3>1. /\ names' = names /\ search'
          /\ low' = inst_name_cnt /\ current' = inst_name_cnt
          /\ high' = Nullopt /\ marker' = Nullopt
      BY <2>3
    <3>2. search' \in BOOLEAN
      BY <2>3
    <3> QED BY <2>1, <3>1, <3>2
  <2> QED BY <2>2, <2>3
<1>2. CASE Up
  <2> USE <1>2 DEF Up, has_next
  <2>1. search /\ current \in Nat /\ low \in Nat
    OBVIOUS
  <2>2. CASE high = Nullopt
    BY <2>1, <2>2
  <2>3. CASE high # Nullopt
    <3>1. high \in Nat /\ current + 1 \in Nat /\ current + 1 <= high
      BY <2>3
    <3>2. /\ current' \in Nat
          /\ current + 1 <= current' /\ (current + 1 < high => current' < high)
      BY <2>3, <3>1, Middle
    <3> QED BY <2>1, <2>3, <3>1, <3>2
  <2> QED BY <2>2, <2>3
<1>3. CASE Down
  <2> USE <1>3 DEF Down, has_next
  <2>1. /\ current' \in Nat
        /\ low <= current' /\ current' <= current
        /\ low < current => current' < current
    BY Middle
  <2> QED BY <2>1
<1>4. CASE Finish
  BY <1>4 DEF Finish, has_next, iter
<1>5. CASE UNCHANGED naming_vars
  BY <1>5 DEF naming_vars
<1> QED BY <1>1, <1>2, <1>3, <1>4, <1>5 DEF NamingNext, Step

\* Every reachable state satisfies the type invariant, and so no search of add_inst
\* ever looks below the count it began with.
THEOREM AlwaysNamingTypeOK ==
  NamingSpec => []NamingTypeOK
<1>1. NamingInv => NamingTypeOK
  BY DEF NamingInv
<1> QED BY NamingInitInv, NamingNextInv, <1>1, PTL DEF NamingSpec

\* The name add_inst saves is free when it inserts the instance: no instance is lost,
\* whatever names of the form X<n> the callers gave.
THEOREM AlwaysSavedNameFree ==
  NamingSpec => []SavedNameFree
<1>1. NamingInv => SavedNameFree
  BY NamingAssumption DEF NamingInv, NamingTypeOK, Bisecting, SavedNameFree, has_next
<1> QED BY NamingInitInv, NamingNextInv, <1>1, PTL DEF NamingSpec

\* No step of add_inst takes a name away or moves inst_name_cnt back.
THEOREM AlwaysCountGrows ==
  NamingSpec => CountGrows
<1> DEFINE Grows == names \subseteq names' /\ inst_name_cnt <= inst_name_cnt'
<1>1. NamingInv /\ [NamingNext]_naming_vars => [Grows]_naming_vars
  <2> SUFFICES ASSUME NamingInv, [NamingNext]_naming_vars PROVE [Grows]_naming_vars
    OBVIOUS
  <2> USE NamingAssumption DEF NamingInv, NamingTypeOK
  <2>1. ASSUME NEW name \in Numbers \cup Others \cup {NoName}, add_inst(name)
        PROVE  Grows
    BY <2>1 DEF add_inst
  <2>2. CASE Up
    BY <2>2 DEF Up
  <2>3. CASE Down
    BY <2>3 DEF Down
  <2>4. CASE Finish
    BY <2>4 DEF Finish, has_next, Bisecting
  <2>5. CASE UNCHANGED naming_vars
    BY <2>5 DEF naming_vars
  <2> QED BY <2>1, <2>2, <2>3, <2>4, <2>5 DEF NamingNext, Step
<1> QED BY NamingInitInv, NamingNextInv, <1>1, PTL DEF NamingSpec, CountGrows
===============================================================================

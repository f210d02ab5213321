-------------------------- MODULE PaginationProofs --------------------------
(***************************************************************************)
(* Proofs about Pagination, for any data set, identities, page size and    *)
(* page limit, and any changes during a walk.                              *)
(***************************************************************************)
EXTENDS Pagination, SequenceTheorems, FunctionTheorems, FiniteSetTheorems, TLAPS

LEMMA Bounds ==
    /\ PageSize \in Nat /\ PageSize >= 1
    /\ MaxPages \in Nat /\ MaxPages >= 1
    /\ MaxSize \in Nat /\ MaxChanges \in Nat /\ 1..MaxSize \subseteq Records /\ Records \subseteq Nat
    /\ DOMAIN IdentityOf = Records
BY PaginationAssumption

USE Bounds

-----------------------------------------------------------------------------
(* Sequences and pages *)

LEMMA MinOfTwo ==
    ASSUME NEW a \in Int, NEW b \in Int
    PROVE  Min({a, b}) = IF a <= b THEN a ELSE b
<1>1. \E x \in {a, b} : \A y \in {a, b} : x <= y
  OBVIOUS
<1> QED BY <1>1 DEF Min

LEMMA InsertAtProperties ==
    ASSUME NEW S, NEW s \in Seq(S), NEW k \in 1..(Len(s) + 1), NEW e \in S
    PROVE  /\ InsertAt(s, k, e) \in Seq(S)
           /\ Len(InsertAt(s, k, e)) = Len(s) + 1
           /\ InsertAt(s, k, e)[k] = e
           /\ \A i \in 1..Len(s) : /\ i < k => InsertAt(s, k, e)[i] = s[i]
                                   /\ i >= k => InsertAt(s, k, e)[i + 1] = s[i]
<1> DEFINE front == SubSeq(s, 1, k - 1)
           back == SubSeq(s, k, Len(s))
           n == Len(s)
<1>1. n \in Nat /\ k \in Int /\ k - 1 \in Int /\ 1 \in Int /\ \A i \in 1..n : s[i] \in S
  OBVIOUS
<1>2. /\ front \in Seq(S) /\ Len(front) = k - 1
      /\ \A i \in 1..(k - 1) : front[i] = s[i]
  <2>1. \A i \in 1..(k - 1) : s[i] \in S
    BY <1>1
  <2>2. /\ front \in Seq(S) /\ Len(front) = IF 1 <= k - 1 THEN (k - 1) - 1 + 1 ELSE 0
        /\ \A i \in 1..((k - 1) - 1 + 1) : front[i] = s[1 + i - 1]
    BY <1>1, <2>1, SubSeqProperties
  <2> HIDE DEF front
  <2> QED BY <1>1, <2>2
<1>3. /\ back \in Seq(S) /\ Len(back) = n - k + 1
      /\ \A i \in 1..(n - k + 1) : back[i] = s[k + i - 1]
  <2>1. \A i \in k..n : s[i] \in S
    BY <1>1
  <2>2. /\ back \in Seq(S) /\ Len(back) = IF k <= n THEN n - k + 1 ELSE 0
        /\ \A i \in 1..(n - k + 1) : back[i] = s[k + i - 1]
    BY <1>1, <2>1, SubSeqProperties
  <2> HIDE DEF back, n
  <2> QED BY <1>1, <2>2 DEF n
<1> HIDE DEF front, back
<1> DEFINE middle == front \o <<e>>
<1>4. /\ middle \in Seq(S) /\ Len(middle) = k
      /\ middle[k] = e /\ \A i \in 1..(k - 1) : middle[i] = s[i]
  <2>1. <<e>> \in Seq(S) /\ Len(<<e>>) = 1 /\ <<e>>[1] = e
    OBVIOUS
  <2>2. /\ middle \in Seq(S) /\ Len(middle) = Len(front) + 1
        /\ \A i \in 1..(Len(front) + 1) :
             middle[i] = IF i <= Len(front) THEN front[i] ELSE <<e>>[i - Len(front)]
    BY <1>2, <2>1, ConcatProperties
  <2> HIDE DEF middle
  <2>3. Len(middle) = k /\ k \in 1..(Len(front) + 1) /\ ~(k <= Len(front)) /\ k - Len(front) = 1
    BY <1>1, <1>2, <2>2
  <2>4. \A i \in 1..(k - 1) : i \in 1..(Len(front) + 1) /\ i <= Len(front)
    BY <1>1, <1>2
  <2> QED BY <1>2, <2>1, <2>2, <2>3, <2>4
<1> HIDE DEF middle
<1> DEFINE t == middle \o back
<1>5. /\ t \in Seq(S) /\ Len(t) = Len(middle) + Len(back)
      /\ \A i \in 1..(Len(middle) + Len(back)) :
           t[i] = IF i <= Len(middle) THEN middle[i] ELSE back[i - Len(middle)]
  BY <1>3, <1>4, ConcatProperties
<1> HIDE DEF t
<1>6. Len(t) = n + 1 /\ t[k] = e
  BY <1>1, <1>3, <1>4, <1>5
<1>7. ASSUME NEW i \in 1..n
      PROVE  (i < k => t[i] = s[i]) /\ (i >= k => t[i + 1] = s[i])
  <2>1. CASE i < k
    BY <1>1, <1>3, <1>4, <1>5, <2>1
  <2>2. CASE i >= k
    <3>1. i + 1 \in 1..(Len(middle) + Len(back)) /\ ~(i + 1 <= Len(middle))
      BY <1>1, <1>3, <1>4, <2>2
    <3>2. t[i + 1] = back[i + 1 - k]
      BY <1>4, <1>5, <3>1
    <3>3. i + 1 - k \in 1..(n - k + 1) /\ k + (i + 1 - k) - 1 = i
      BY <1>1, <2>2
    <3> QED BY SMTT(40), <1>1, <1>3, <2>2, <3>2, <3>3
  <2> QED BY <1>1, <2>1, <2>2
<1> QED BY <1>5, <1>6, <1>7 DEF InsertAt, t, middle, front, back

LEMMA RemoveAtProperties ==
    ASSUME NEW S, NEW s \in Seq(S), NEW k \in 1..Len(s)
    PROVE  /\ RemoveAt(s, k) \in Seq(S)
           /\ Len(RemoveAt(s, k)) = Len(s) - 1
           /\ \A i \in 1..(Len(s) - 1) :
                RemoveAt(s, k)[i] = IF i < k THEN s[i] ELSE s[i + 1]
<1> DEFINE front == SubSeq(s, 1, k - 1)
           back == SubSeq(s, k + 1, Len(s))
           n == Len(s)
<1>1. n \in Nat /\ k \in Int /\ k - 1 \in Int /\ k + 1 \in Int /\ \A i \in 1..n : s[i] \in S
  OBVIOUS
<1>2. /\ front \in Seq(S) /\ Len(front) = k - 1
      /\ \A i \in 1..(k - 1) : front[i] = s[i]
  <2>1. \A i \in 1..(k - 1) : s[i] \in S
    BY <1>1
  <2>2. /\ front \in Seq(S) /\ Len(front) = IF 1 <= k - 1 THEN (k - 1) - 1 + 1 ELSE 0
        /\ \A i \in 1..((k - 1) - 1 + 1) : front[i] = s[1 + i - 1]
    BY <1>1, <2>1, SubSeqProperties
  <2> HIDE DEF front
  <2> QED BY <1>1, <2>2
<1>3. /\ back \in Seq(S) /\ Len(back) = n - k
      /\ \A i \in 1..(n - k) : back[i] = s[k + i]
  <2>1. \A i \in (k + 1)..n : s[i] \in S
    BY <1>1
  <2>2. /\ back \in Seq(S) /\ Len(back) = IF k + 1 <= n THEN n - (k + 1) + 1 ELSE 0
        /\ \A i \in 1..(n - (k + 1) + 1) : back[i] = s[k + 1 + i - 1]
    BY <1>1, <2>1, SubSeqProperties
  <2> HIDE DEF back, n
  <2> QED BY <1>1, <2>2 DEF n
<1> HIDE DEF front, back
<1> DEFINE t == front \o back
<1>4. /\ t \in Seq(S) /\ Len(t) = Len(front) + Len(back)
      /\ \A i \in 1..(Len(front) + Len(back)) :
           t[i] = IF i <= Len(front) THEN front[i] ELSE back[i - Len(front)]
  BY <1>2, <1>3, ConcatProperties
<1> HIDE DEF t
<1>5. Len(t) = n - 1
  BY <1>1, <1>2, <1>3, <1>4
<1>6. ASSUME NEW i \in 1..(n - 1)
      PROVE  t[i] = IF i < k THEN s[i] ELSE s[i + 1]
  <2>1. CASE i < k
    <3>1. i \in 1..(Len(front) + Len(back)) /\ i <= Len(front) /\ i \in 1..(k - 1)
      BY <1>1, <1>2, <1>3, <2>1
    <3> QED BY <1>2, <1>4, <2>1, <3>1
  <2>2. CASE i >= k
    <3>1. i \in 1..(Len(front) + Len(back)) /\ ~(i <= Len(front))
      BY <1>1, <1>2, <1>3, <2>2
    <3>2. t[i] = back[i - (k - 1)]
      BY <1>2, <1>4, <3>1
    <3>3. i - (k - 1) \in 1..(n - k) /\ k + (i - (k - 1)) = i + 1
      BY <1>1, <2>2
    <3> QED BY <1>1, <1>3, <2>2, <3>2, <3>3
  <2> QED BY <1>1, <2>1, <2>2
<1> QED BY <1>4, <1>5, <1>6 DEF RemoveAt, t, front, back

\* The position before a page.
Offset(p) == IF stuck THEN 0 ELSE (p - 1) * PageSize

\* A page holds what the data set has from its offset on, page_size records at
\* most; a short one ends with the data set.
LEMMA PageProperties ==
    ASSUME dataset \in Seq(Records), NEW p \in Nat \ {0}
    PROVE  /\ Offset(p) \in Nat
           /\ Page(p) \in Seq(Records) /\ Len(Page(p)) \in Nat
           /\ Len(Page(p)) <= PageSize
           /\ Page(p) # <<>> => Offset(p) + Len(Page(p)) <= Len(dataset)
           /\ \A i \in 1..Len(Page(p)) : Page(p)[i] = dataset[Offset(p) + i]
           /\ Len(Page(p)) < PageSize => Offset(p) + Len(Page(p)) >= Len(dataset)
<1> DEFINE n == Len(dataset)
           first == IF stuck THEN 1 ELSE (p - 1) * PageSize + 1
           last == Min({first + PageSize - 1, n})
           off == Offset(p)
<1>1. n \in Nat /\ \A i \in 1..n : dataset[i] \in Records
  OBVIOUS
<1>2. off \in Nat /\ first = off + 1
  <2>1. p - 1 \in Nat
    OBVIOUS
  <2>2. (p - 1) * PageSize \in Nat
    BY <2>1
  <2> QED BY <2>2 DEF Offset
<1> HIDE DEF first, off
<1>3. last = IF off + PageSize <= n THEN off + PageSize ELSE n
  <2>1. first + PageSize - 1 = off + PageSize /\ off + PageSize \in Int
    BY <1>2
  <2> HIDE DEF n
  <2> QED BY <1>1, <2>1, MinOfTwo
<1> HIDE DEF last
<1>4. Page(p) = SubSeq(dataset, first, last)
  BY DEF Page, first, last, n
<1>5. /\ SubSeq(dataset, first, last) \in Seq(Records)
      /\ Len(SubSeq(dataset, first, last)) = IF first <= last THEN last - first + 1 ELSE 0
      /\ \A i \in 1..(last - first + 1) : SubSeq(dataset, first, last)[i] = dataset[first + i - 1]
  <2>1. first \in Int /\ last \in Int /\ \A i \in first..last : dataset[i] \in Records
    <3> HIDE DEF n
    <3>1. first \in Int /\ last \in Int /\ first >= 1 /\ last <= n
      BY <1>1, <1>2, <1>3
    <3> QED BY <1>1, <3>1
  <2> QED BY <2>1, SubSeqProperties
<1> DEFINE result == Page(p)
<1>6. /\ result \in Seq(Records)
      /\ Len(result) = IF first <= last THEN last - first + 1 ELSE 0
      /\ \A i \in 1..(last - first + 1) : result[i] = dataset[first + i - 1]
  BY <1>4, <1>5
<1> HIDE DEF result, n
<1>7. /\ Len(result) \in Nat /\ Len(result) <= PageSize
      /\ Len(result) > 0 => off + Len(result) <= n
      /\ Len(result) < PageSize => off + Len(result) >= n
  BY <1>1, <1>2, <1>3, <1>6
<1>8. \A i \in 1..Len(result) : i \in 1..(last - first + 1) /\ first + i - 1 = off + i
  BY <1>1, <1>2, <1>3, <1>6
<1>9. result # <<>> => Len(result) > 0
  BY <1>6
<1>10. \A i \in 1..Len(result) : result[i] = dataset[off + i]
  BY <1>6, <1>8
<1> QED BY <1>2, <1>6, <1>7, <1>9, <1>10 DEF result, n, off

-----------------------------------------------------------------------------
(* Types and the pages taken *)

LEMMA Types ==
    ASSUME TypeOK
    PROVE  /\ dataset \in Seq(Records) /\ Len(dataset) \in Nat
           /\ records \in Seq(Records) /\ Len(records) \in Nat
           /\ page \in Nat \ {0} /\ page <= MaxPages
           /\ duplicateCount \in Nat /\ duplicateCount <= Len(records)
           /\ previous \in Seq(Records)
           /\ DOMAIN dataset = 1..Len(dataset) /\ DOMAIN records = 1..Len(records)
           /\ changes \in Nat
<1>1. /\ dataset \in Seq(Records) /\ records \in Seq(Records) /\ previous \in Seq(Records)
      /\ page \in 1..MaxPages /\ duplicateCount \in 0..Len(records)
      /\ changes \in 0..MaxChanges
  BY DEF TypeOK
<1>2. Len(dataset) \in Nat /\ Len(records) \in Nat
  BY <1>1
<1> QED BY <1>1, <1>2

\* What Take adds to the records.
LEMMA TakeProperties ==
    ASSUME TypeOK, NEW results \in Seq(Records), Take(results)
    PROVE  /\ records' \in Seq(Records)
           /\ Len(records') = Len(records) + Len(results)
           /\ Len(results) \in Nat
           /\ \A i \in 1..Len(records) : records'[i] = records[i]
           /\ \A i \in 1..Len(results) : records'[Len(records) + i] = results[i]
           /\ \A k \in 1..(Len(records) + Len(results)) :
                k \in 1..Len(records) \/ \E i \in 1..Len(results) : k = Len(records) + i
<1>1. records \in Seq(Records) /\ Len(records) \in Nat /\ Len(results) \in Nat
  BY Types
<1> PICK n \in Nat, m \in Nat : n = Len(records) /\ m = Len(results)
  BY <1>1
<1>2. records' = records \o results
  BY DEF Take
<1>3. /\ records \o results \in Seq(Records) /\ Len(records \o results) = n + m
      /\ \A i \in 1..(n + m) :
           (records \o results)[i] = IF i <= n THEN records[i] ELSE results[i - n]
  BY <1>1, ConcatProperties
<1>4. \A i \in 1..n : i \in 1..(n + m) /\ i <= n
  OBVIOUS
<1>5. \A i \in 1..m : n + i \in 1..(n + m) /\ ~(n + i <= n) /\ (n + i) - n = i
  OBVIOUS
<1>6. ASSUME NEW k \in 1..(n + m)
      PROVE  k \in 1..n \/ \E i \in 1..m : k = n + i
  <2>1. CASE k > n
    <3>1. k - n \in 1..m /\ k = n + (k - n)
      BY <2>1
    <3> QED BY <3>1
  <2> QED BY <2>1
<1> QED BY <1>2, <1>3, <1>4, <1>5, <1>6

LEMMA RepeatedBounded ==
    ASSUME NEW results \in Seq(Records)
    PROVE  /\ Repeated(results) \in Nat /\ Repeated(results) <= Len(results)
<1> DEFINE S == {i \in DOMAIN results : IdentityOf[results[i]] \in seen}
<1>1. Len(results) \in Nat /\ S \in SUBSET (1..Len(results))
  OBVIOUS
<1>2. IsFiniteSet(1..Len(results)) /\ Cardinality(1..Len(results)) = Len(results)
  <2>1. 1 \in Int /\ Len(results) \in Int /\ Len(results) >= 0
    BY <1>1
  <2>2. /\ IsFiniteSet(1..Len(results))
        /\ Cardinality(1..Len(results)) = IF 1 > Len(results) THEN 0 ELSE Len(results) - 1 + 1
    BY <2>1, FS_Interval
  <2> QED BY <2>1, <2>2
<1> HIDE DEF S
<1>3. IsFiniteSet(S) /\ Cardinality(S) <= Len(results) /\ Cardinality(S) \in Nat
  BY <1>1, <1>2, FS_Subset, FS_CardinalityType
<1> QED BY <1>3 DEF Repeated, S

\* NewPage takes a page and walks on only behind a full one.
LEMMA NewPageTakes ==
    ASSUME TypeOK, NewPage
    PROVE  /\ outcome = "walking" /\ Take(Page(page)) /\ UNCHANGED <<server, nulled>>
           /\ Page(page) # <<>> /\ Page(page) # previous
           /\ Page(page) \in Seq(Records) /\ Len(Page(page)) \in Nat
           /\ Len(Page(page)) <= PageSize
           /\ page' = page + 1 \/ page' = page
           /\ page' \in 1..MaxPages
           /\ outcome' = "returned" => Len(Page(page)) < PageSize
           /\ outcome' = "walking" => Len(Page(page)) = PageSize /\ page' = page + 1
           /\ outcome' = "max pages" => Len(Page(page)) = PageSize /\ page = MaxPages
           /\ outcome' \in {"walking", "returned", "max pages"}
<1>1. /\ Page(page) \in Seq(Records) /\ Len(Page(page)) \in Nat /\ Len(Page(page)) <= PageSize
      /\ page \in Nat \ {0} /\ page <= MaxPages
  BY Types, PageProperties
<1>2. /\ outcome = "walking" /\ Take(Page(page)) /\ UNCHANGED <<server, nulled>>
      /\ Page(page) # <<>> /\ Page(page) # previous
      /\ \/ Short(Page(page)) /\ outcome' = "returned" /\ page' = page
         \/ ~Short(Page(page)) /\ page < MaxPages /\ page' = page + 1 /\ outcome' = outcome
         \/ ~Short(Page(page)) /\ page = MaxPages /\ outcome' = "max pages" /\ page' = page
  BY DEF NewPage, Identical
<1>3. Short(Page(page)) <=> Len(Page(page)) < PageSize
  BY DEF Short
<1>4. ~Short(Page(page)) => Len(Page(page)) = PageSize
  BY <1>1, <1>3
<1>5. page' \in 1..MaxPages /\ (page' = page + 1 \/ page' = page)
  <2>1. page + 1 \in 1..MaxPages \/ page >= MaxPages
    BY <1>1
  <2>2. page \in 1..MaxPages
    BY <1>1
  <2>3. page' = page \/ (page' = page + 1 /\ page < MaxPages)
    BY <1>2
  <2>4. page < MaxPages => ~(page >= MaxPages)
    BY <1>1
  <2> QED BY <2>1, <2>2, <2>3, <2>4
<1> QED BY <1>1, <1>2, <1>3, <1>4, <1>5

LEMMA InitTyped == Init => TypeOK
<1> SUFFICES ASSUME Init PROVE TypeOK
  OBVIOUS
<1>1. PICK n \in 0..MaxSize : dataset = [i \in 1..n |-> i]
  BY DEF Init
<1>2. dataset \in Seq(Records) /\ IsInjective(dataset)
  <2>1. \A i \in 1..n : i \in Records
    BY <1>1
  <2>2. n \in Nat
    OBVIOUS
  <2> QED BY <1>1, <2>1, <2>2 DEF IsInjective
<1>3. kept \subseteq Records
  BY <1>2 DEF Init, ToSet
<1>4. seen = {IdentityOf[records[i]] : i \in DOMAIN records} \ {"none"}
  BY DEF Init
<1>5. changes \in 0..MaxChanges /\ page \in 1..MaxPages /\ duplicateCount \in 0..Len(records)
  BY DEF Init
<1>6. records \in Seq(Records) /\ previous \in Seq(Records) /\ Len(previous) <= PageSize
  BY DEF Init
<1> QED BY <1>2, <1>3, <1>4, <1>5, <1>6 DEF Init, TypeOK

LEMMA TypeStep ==
    ASSUME TypeOK, [Next]_vars
    PROVE  TypeOK'
<1>1. /\ dataset \in Seq(Records) /\ IsInjective(dataset) /\ kept \subseteq Records
      /\ changes \in 0..MaxChanges
  BY DEF TypeOK
<1>2. CASE Added
  <2>1. PICK r \in Records \ ToSet(dataset), at \in 1..(Len(dataset) + 1) :
          dataset' = InsertAt(dataset, at, r)
    BY <1>2 DEF Added
  <2>2. /\ dataset' \in Seq(Records) /\ Len(dataset') = Len(dataset) + 1 /\ dataset'[at] = r
        /\ \A i \in 1..Len(dataset) : /\ i < at => dataset'[i] = dataset[i]
                                      /\ i >= at => dataset'[i + 1] = dataset[i]
    BY <1>1, <2>1, InsertAtProperties
  <2>3. Len(dataset) \in Nat /\ \A i \in 1..Len(dataset) : dataset[i] # r
    BY <1>1, <2>1 DEF ToSet
  <2>4. ASSUME NEW k \in 1..(Len(dataset) + 1), k # at
        PROVE  \E i \in 1..Len(dataset) : /\ dataset'[k] = dataset[i]
                                          /\ k = IF i < at THEN i ELSE i + 1
    <3>1. CASE k < at
      <4>1. k \in 1..Len(dataset)
        BY <2>3, <3>1
      <4> QED BY <2>2, <3>1, <4>1
    <3>2. CASE k > at
      <4>1. k - 1 \in 1..Len(dataset) /\ k - 1 >= at /\ (k - 1) + 1 = k /\ ~(k - 1 < at)
        BY <2>3, <3>2
      <4> QED BY <2>2, <4>1
    <3> QED BY <2>4, <3>1, <3>2
  <2>5. IsInjective(dataset')
    <3> SUFFICES ASSUME NEW k \in 1..(Len(dataset) + 1), NEW l \in 1..(Len(dataset) + 1),
                        dataset'[k] = dataset'[l]
                 PROVE  k = l
      BY <2>2 DEF IsInjective
    <3>0. DOMAIN dataset = 1..Len(dataset)
      BY <1>1
    <3>1. CASE k = at \/ l = at
      BY <2>2, <2>3, <2>4, <3>1
    <3>2. CASE k # at /\ l # at
      <4>1. PICK i \in 1..Len(dataset) : /\ dataset'[k] = dataset[i]
                                         /\ k = IF i < at THEN i ELSE i + 1
        BY <2>4, <3>2
      <4>2. PICK j \in 1..Len(dataset) : /\ dataset'[l] = dataset[j]
                                         /\ l = IF j < at THEN j ELSE j + 1
        BY <2>4, <3>2
      <4>3. i = j
        BY <1>1, <3>0, <4>1, <4>2 DEF IsInjective
      <4> QED BY <4>1, <4>2, <4>3
    <3> QED BY <3>1, <3>2
  <2>6. changes' \in 0..MaxChanges
    BY <1>1, <1>2 DEF Added, Change
  <2>7. UNCHANGED <<page, records, seen, duplicateCount, previous, outcome, nulled,
                    stuck, kept, removals>>
    BY <1>2 DEF Added, client
  <2> QED BY ZenonT(60), <2>2, <2>5, <2>6, <2>7 DEF TypeOK
<1>3. CASE Removed
  <2>1. PICK at \in 1..Len(dataset) : /\ dataset' = RemoveAt(dataset, at)
                                      /\ kept' = kept \ {dataset[at]}
    BY <1>1, <1>3 DEF Removed
  <2>2. /\ dataset' \in Seq(Records) /\ Len(dataset') = Len(dataset) - 1
        /\ \A i \in 1..(Len(dataset) - 1) :
             dataset'[i] = IF i < at THEN dataset[i] ELSE dataset[i + 1]
    BY <1>1, <2>1, RemoveAtProperties
  <2>3. Len(dataset) \in Nat
    BY <1>1
  <2>4. IsInjective(dataset')
    <3> SUFFICES ASSUME NEW k \in 1..(Len(dataset) - 1), NEW l \in 1..(Len(dataset) - 1),
                        dataset'[k] = dataset'[l]
                 PROVE  k = l
      BY <2>2 DEF IsInjective
    <3> DEFINE old(i) == IF i < at THEN i ELSE i + 1
    <3>1. /\ old(k) \in 1..Len(dataset) /\ dataset'[k] = dataset[old(k)]
          /\ old(l) \in 1..Len(dataset) /\ dataset'[l] = dataset[old(l)]
      BY <2>2, <2>3
    <3>2. old(k) = old(l)
      <4> HIDE DEF old
      <4>1. DOMAIN dataset = 1..Len(dataset)
        BY <1>1
      <4> QED BY <1>1, <3>1, <4>1 DEF IsInjective
    <3> QED BY <3>2
  <2>5. changes' \in 0..MaxChanges
    BY <1>1, <1>3 DEF Removed, Change
  <2> QED BY <1>3, <2>1, <2>2, <2>4, <2>5 DEF Removed, client, TypeOK
<1>4. CASE EmptyPage
  BY <1>4 DEF EmptyPage, server, TypeOK
<1>5. CASE IdenticalPage
  BY <1>5 DEF IdenticalPage, server, TypeOK
<1>6. CASE NewPage
  <2> DEFINE results == Page(page)
  <2>1. /\ results \in Seq(Records) /\ Take(results) /\ UNCHANGED <<server, nulled>>
        /\ page' \in 1..MaxPages /\ Len(results) <= PageSize
        /\ outcome' \in {"walking", "returned", "max pages"}
    BY <1>6, NewPageTakes
  <2> HIDE DEF results
  <2>2. /\ records' \in Seq(Records)
        /\ Len(records') = Len(records) + Len(results) /\ Len(results) \in Nat
        /\ \A i \in 1..Len(records) : records'[i] = records[i]
        /\ \A i \in 1..Len(results) : records'[Len(records) + i] = results[i]
        /\ \A k \in 1..(Len(records) + Len(results)) :
             k \in 1..Len(records) \/ \E i \in 1..Len(results) : k = Len(records) + i
    BY <2>1, TakeProperties
  <2>3. Len(records) \in Nat /\ duplicateCount \in Nat /\ duplicateCount <= Len(records)
    BY Types
  <2>4. seen' = {IdentityOf[records'[i]] : i \in DOMAIN records'} \ {"none"}
    <3>1. /\ seen = {IdentityOf[records[i]] : i \in 1..Len(records)} \ {"none"}
          /\ seen' = seen \cup ({IdentityOf[r] : r \in ToSet(results)} \ {"none"})
      BY <2>1, Types DEF TypeOK, Take
    <3>2. {IdentityOf[r] : r \in ToSet(results)} = {IdentityOf[results[i]] : i \in 1..Len(results)}
      <4>0. results \in Seq(Records)
        BY <2>1
      <4>1. DOMAIN results = 1..Len(results)
        BY ONLY <4>0
      <4>2. ToSet(results) = {results[i] : i \in 1..Len(results)}
        BY <4>1 DEF ToSet
      <4> QED BY <4>2
    <3>3. DOMAIN records' = 1..(Len(records) + Len(results))
      BY <2>2
    <3>4. {IdentityOf[records'[i]] : i \in 1..(Len(records) + Len(results))} =
              {IdentityOf[records[i]] : i \in 1..Len(records)}
                \cup {IdentityOf[results[i]] : i \in 1..Len(results)}
      <4>1. 1..Len(records) \subseteq 1..(Len(records) + Len(results))
        BY <2>2, <2>3
      <4>2. \A i \in 1..Len(results) : Len(records) + i \in 1..(Len(records) + Len(results))
        BY <2>2, <2>3
      <4>3. ASSUME NEW k \in 1..(Len(records) + Len(results))
            PROVE  \/ \E i \in 1..Len(records) : records'[k] = records[i]
                   \/ \E i \in 1..Len(results) : records'[k] = results[i]
        BY <2>2
      <4>4. \A i \in 1..Len(records) :
              \E k \in 1..(Len(records) + Len(results)) : records'[k] = records[i]
        BY <2>2, <4>1
      <4>5. \A i \in 1..Len(results) :
              \E k \in 1..(Len(records) + Len(results)) : records'[k] = results[i]
        BY <2>2, <4>2
      <4> DEFINE all == {IdentityOf[records'[k]] : k \in 1..(Len(records) + Len(results))}
                 old == {IdentityOf[records[i]] : i \in 1..Len(records)}
                 new == {IdentityOf[results[i]] : i \in 1..Len(results)}
      <4>6. all \subseteq old \cup new
        BY ONLY <4>3
      <4>7. old \subseteq all
        BY ONLY <4>4, Zenon
      <4>8. new \subseteq all
        BY ONLY <4>5, Zenon
      <4> QED BY ONLY <4>6, <4>7, <4>8
    <3> QED BY <3>1, <3>2, <3>3, <3>4
  <2>5. duplicateCount' \in 0..Len(records')
    <3>1. duplicateCount' = duplicateCount + Repeated(results)
      BY <2>1 DEF Take
    <3>2. Repeated(results) \in Nat /\ Repeated(results) <= Len(results)
      BY <2>1, RepeatedBounded
    <3> QED BY <2>2, <2>3, <3>1, <3>2
  <2>6. previous' = results
    BY <2>1 DEF Take
  <2> QED BY <2>1, <2>2, <2>4, <2>5, <2>6 DEF TypeOK, server
<1>7. CASE RequestFails
  BY <1>7 DEF RequestFails, server, TypeOK
<1>8. CASE UNCHANGED vars
  BY <1>8 DEF vars, client, server, TypeOK
<1> QED BY <1>2, <1>3, <1>4, <1>5, <1>6, <1>7, <1>8 DEF Next, Walk

-----------------------------------------------------------------------------
(* The inductive invariant *)

\* While the walk goes on, every page it took was full.
WalkOK ==
    outcome = "walking" => /\ ~nulled
                           /\ Len(records) = (page - 1) * PageSize

\* While the data set stands still, the records are its first ones, and a stuck
\* server repeats its page.
StillOK ==
    changes = 0 =>
        /\ Len(records) <= Len(dataset)
        /\ \A i \in 1..Len(records) : records[i] = dataset[i]
        /\ stuck /\ outcome = "walking" /\ page # 1 =>
            page = 2 /\ previous = Page(1) /\ previous # <<>>

\* While nothing is removed, what was there all along is still there, and the
\* part of it that lies before the next page has been taken; behind a stuck
\* server, a second page is asked for only if the first was full.
KeptOK ==
    ~removals =>
        /\ kept \subseteq ToSet(dataset)
        /\ outcome = "walking" =>
            IF stuck THEN page # 1 => Len(dataset) >= PageSize
                     ELSE \A pos \in 1..Len(dataset) :
                            pos <= Len(records) /\ dataset[pos] \in kept =>
                                dataset[pos] \in ToSet(records)

IInv ==
    /\ TypeOK
    /\ WalkOK
    /\ StillOK /\ StillDatasetIsExact /\ StuckServerIsReported
    /\ KeptOK /\ MissesOnlyAfterRemoval
    /\ DuplicatesAreCounted

LEMMA PageBounds ==
    ASSUME NEW p \in Nat \ {0}
    PROVE  /\ (p - 1) * PageSize \in Nat
           /\ ((p + 1) - 1) * PageSize = (p - 1) * PageSize + PageSize
           /\ p = 1 => (p - 1) * PageSize = 0
<1>1. PICK q \in Nat : q = p - 1
  OBVIOUS
<1>2. q * PageSize \in Nat /\ (q + 1) * PageSize = q * PageSize + PageSize
  OBVIOUS
<1>3. (p + 1) - 1 = q + 1
  BY <1>1
<1>4. p = 1 => q = 0
  BY <1>1
<1>5. q = 0 => q * PageSize = 0
  OBVIOUS
<1> QED BY <1>1, <1>2, <1>3, <1>4, <1>5

LEMMA WalkStep ==
    ASSUME TypeOK, WalkOK, [Next]_vars
    PROVE  WalkOK'
<1>1. CASE NewPage
  <2> SUFFICES ASSUME outcome' = "walking"
               PROVE  ~nulled' /\ Len(records') = (page' - 1) * PageSize
    BY DEF WalkOK
  <2>1. /\ outcome = "walking" /\ Take(Page(page)) /\ nulled' = nulled
        /\ Page(page) \in Seq(Records) /\ Len(Page(page)) = PageSize /\ page' = page + 1
    BY <1>1, NewPageTakes
  <2>2. Len(records') = Len(records) + Len(Page(page))
    BY <2>1, TakeProperties
  <2>3. ~nulled /\ Len(records) = (page - 1) * PageSize
    BY <2>1 DEF WalkOK
  <2>4. ((page + 1) - 1) * PageSize = (page - 1) * PageSize + PageSize
    BY Types, PageBounds
  <2>5. Len(records') = (page' - 1) * PageSize
    BY ONLY <2>1, <2>2, <2>3, <2>4
  <2> QED BY <2>1, <2>3, <2>5
<1>2. CASE Added \/ Removed
  BY <1>2 DEF Added, Removed, client, WalkOK
<1>3. CASE EmptyPage \/ IdenticalPage \/ RequestFails
  BY <1>3 DEF EmptyPage, IdenticalPage, RequestFails, WalkOK
<1>4. CASE UNCHANGED vars
  BY <1>4 DEF vars, client, WalkOK
<1> QED BY <1>1, <1>2, <1>3, <1>4 DEF Next, Walk

\* The next page of a walk over a data set that stands still begins behind the
\* records, unless it is the page of a stuck server once more.
LEMMA NextOffset ==
    ASSUME TypeOK, WalkOK, StillOK, changes = 0, outcome = "walking",
           Page(page) = <<>> \/ Page(page) # previous
    PROVE  Offset(page) = Len(records) /\ (stuck => page = 1)
<1>1. Len(records) = (page - 1) * PageSize /\ page \in Nat \ {0}
  BY Types DEF WalkOK
<1>2. CASE stuck
  <2>1. Page(page) = Page(1)
    BY <1>2 DEF Page
  <2>2. page = 1
    BY <1>2, <2>1 DEF StillOK
  <2>3. Len(records) = 0
    BY <1>1, <2>2, PageBounds
  <2> QED BY <1>2, <2>2, <2>3 DEF Offset
<1>3. CASE ~stuck
  BY <1>1, <1>3 DEF Offset
<1> QED BY <1>2, <1>3

\* What the walk has after a page of a data set that stands still.
LEMMA StillPage ==
    ASSUME TypeOK, WalkOK, StillOK, changes = 0, NewPage
    PROVE  /\ Len(records') <= Len(dataset')
           /\ \A i \in 1..Len(records') : records'[i] = dataset'[i]
           /\ outcome' = "returned" => Len(records') = Len(dataset')
           /\ stuck => page = 1 /\ Len(records') <= PageSize
<1>1. /\ outcome = "walking" /\ Take(Page(page)) /\ UNCHANGED server
      /\ Page(page) # <<>> /\ Page(page) # previous
      /\ Page(page) \in Seq(Records) /\ Len(Page(page)) \in Nat /\ Len(Page(page)) <= PageSize
      /\ outcome' = "returned" => Len(Page(page)) < PageSize
  BY NewPageTakes
<1>2. Offset(page) = Len(records) /\ (stuck => page = 1)
  BY <1>1, NextOffset
<1>3. /\ Len(records') = Len(records) + Len(Page(page))
      /\ \A i \in 1..Len(records) : records'[i] = records[i]
      /\ \A i \in 1..Len(Page(page)) : records'[Len(records) + i] = Page(page)[i]
      /\ \A k \in 1..(Len(records) + Len(Page(page))) :
           k \in 1..Len(records) \/ \E i \in 1..Len(Page(page)) : k = Len(records) + i
  BY <1>1, TakeProperties
<1>4. /\ Offset(page) + Len(Page(page)) <= Len(dataset)
      /\ \A i \in 1..Len(Page(page)) : Page(page)[i] = dataset[Offset(page) + i]
      /\ Len(Page(page)) < PageSize => Offset(page) + Len(Page(page)) >= Len(dataset)
  BY <1>1, Types, PageProperties
<1>5. dataset' = dataset /\ \A i \in 1..Len(records) : records[i] = dataset[i]
  BY <1>1 DEF server, StillOK
<1>6. ASSUME NEW k \in 1..Len(records')
      PROVE  records'[k] = dataset[k]
  <2>1. CASE k \in 1..Len(records)
    BY <1>3, <1>5, <2>1
  <2>2. CASE \E i \in 1..Len(Page(page)) : k = Len(records) + i
    BY <1>2, <1>3, <1>4, <2>2
  <2> QED BY <1>3, <2>1, <2>2
<1>7. Len(records') <= Len(dataset)
  BY <1>2, <1>3, <1>4
<1>8. outcome' = "returned" => Len(records') = Len(dataset)
  <2> SUFFICES ASSUME outcome' = "returned" PROVE Len(records') = Len(dataset)
    OBVIOUS
  <2>1. Len(Page(page)) < PageSize
    BY <1>1
  <2>2. Len(dataset) \in Nat /\ Len(records) \in Nat /\ Len(Page(page)) \in Nat
    BY <1>1, Types
  <2>3. /\ Len(records) + Len(Page(page)) <= Len(dataset)
        /\ Len(records) + Len(Page(page)) >= Len(dataset)
    BY <1>1, <1>2, <1>4, <2>1
  <2> QED BY ONLY <1>3, <2>2, <2>3
<1>9. stuck => Len(records') <= PageSize
  <2> SUFFICES ASSUME stuck PROVE Len(records') <= PageSize
    OBVIOUS
  <2>1. Len(records) = 0
    BY <1>2 DEF Offset
  <2> QED BY <1>1, <1>3, <2>1
<1> QED BY <1>2, <1>5, <1>6, <1>7, <1>8, <1>9

LEMMA StillStep ==
    ASSUME TypeOK, WalkOK, StillOK, [Next]_vars
    PROVE  StillOK'
<1>1. CASE NewPage
  <2> SUFFICES ASSUME changes' = 0 PROVE StillOK'
    BY DEF StillOK
  <2>1. changes = 0 /\ dataset' = dataset /\ stuck' = stuck
    BY <1>1 DEF NewPage, server
  <2>2. /\ Len(records') <= Len(dataset')
        /\ \A i \in 1..Len(records') : records'[i] = dataset'[i]
        /\ stuck => page = 1
    BY <1>1, <2>1, StillPage
  <2>3. ASSUME stuck', outcome' = "walking"
        PROVE  page' = 2 /\ previous' = Page(1)' /\ previous' # <<>>
    <3>1. page' = page + 1 /\ Take(Page(page)) /\ Page(page) # <<>>
      BY <1>1, <2>3, NewPageTakes
    <3>2. page = 1
      BY <2>1, <2>2, <2>3
    <3>3. previous' = Page(page)
      BY <3>1 DEF Take
    <3>4. Page(1)' = Page(1)
      BY <2>1 DEF Page
    <3> QED BY <3>1, <3>2, <3>3, <3>4
  <2> QED BY <2>2, <2>3 DEF StillOK
<1>2. CASE Added \/ Removed
  <2>1. changes' = changes + 1 /\ changes \in Nat
    BY <1>2, Types DEF Added, Removed, Change
  <2>2. changes' # 0
    BY <2>1
  <2> QED BY <2>2 DEF StillOK
<1>3. CASE EmptyPage \/ IdenticalPage \/ RequestFails
  BY <1>3 DEF EmptyPage, IdenticalPage, RequestFails, server, StillOK
<1>4. CASE UNCHANGED vars
  <2>1. Page(1)' = Page(1)
    BY <1>4 DEF vars, server, Page
  <2> QED BY <1>4, <2>1 DEF vars, client, server, StillOK
<1> QED BY <1>1, <1>2, <1>3, <1>4 DEF Next, Walk

LEMMA EqualSequences ==
    ASSUME NEW S, NEW s \in Seq(S), NEW t \in Seq(S), Len(s) = Len(t),
           \A i \in 1..Len(s) : s[i] = t[i]
    PROVE  s = t
BY SeqEqual

LEMMA PrefixOfEqualEntries ==
    ASSUME NEW S, NEW s \in Seq(S), NEW t \in Seq(S), Len(s) <= Len(t),
           \A i \in 1..Len(s) : s[i] = t[i]
    PROVE  IsPrefix(s, t)
<1>1. Len(s) \in Nat /\ Len(t) \in Nat /\ 1 \in Int
  OBVIOUS
<1>2. \A i \in 1..Len(s) : s[i] \in S /\ t[i] \in S
  BY <1>1
<1>3. /\ SubSeq(s, 1, Len(s)) \in Seq(S)
      /\ Len(SubSeq(s, 1, Len(s))) = IF 1 <= Len(s) THEN Len(s) - 1 + 1 ELSE 0
      /\ \A i \in 1..(Len(s) - 1 + 1) : SubSeq(s, 1, Len(s))[i] = s[1 + i - 1]
  BY <1>1, <1>2, SubSeqProperties
<1>4. /\ SubSeq(t, 1, Len(s)) \in Seq(S)
      /\ Len(SubSeq(t, 1, Len(s))) = IF 1 <= Len(s) THEN Len(s) - 1 + 1 ELSE 0
      /\ \A i \in 1..(Len(s) - 1 + 1) : SubSeq(t, 1, Len(s))[i] = t[1 + i - 1]
  BY <1>1, <1>2, SubSeqProperties
<1>5. PICK a, b : a = SubSeq(s, 1, Len(s)) /\ b = SubSeq(t, 1, Len(s))
  OBVIOUS
<1>6. a \in Seq(S) /\ b \in Seq(S) /\ Len(a) = Len(s) /\ Len(b) = Len(s)
  BY <1>1, <1>3, <1>4, <1>5
<1>7. \A i \in 1..Len(s) : a[i] = b[i]
  <2> TAKE i \in 1..Len(s)
  <2>1. i \in 1..(Len(s) - 1 + 1) /\ 1 + i - 1 = i
    BY <1>1
  <2> QED BY <1>3, <1>4, <1>5, <2>1
<1>8. a = b
  BY <1>6, <1>7, EqualSequences
<1> QED BY <1>5, <1>8 DEF IsPrefix

LEMMA StillDatasetStep ==
    ASSUME TypeOK, WalkOK, StillOK, StillDatasetIsExact, TypeOK', StillOK', [Next]_vars
    PROVE  StillDatasetIsExact'
<1> SUFFICES ASSUME outcome' = "returned", changes' = 0
             PROVE  IF nulled' THEN IsPrefix(records', dataset') ELSE records' = dataset'
  BY DEF StillDatasetIsExact
<1>1. /\ records' \in Seq(Records) /\ dataset' \in Seq(Records)
      /\ Len(records') <= Len(dataset') /\ \A i \in 1..Len(records') : records'[i] = dataset'[i]
  BY DEF TypeOK, StillOK
<1>2. IsPrefix(records', dataset')
  BY <1>1, PrefixOfEqualEntries
<1>3. SUFFICES ASSUME ~nulled' PROVE records' = dataset'
  BY <1>2
<1>4. SUFFICES ASSUME Len(records') # Len(dataset') PROVE FALSE
  BY <1>1, EqualSequences
<1>5. CASE NewPage
  <2>1. changes = 0
    BY <1>5 DEF NewPage, server
  <2> QED BY <1>4, <1>5, <2>1, StillPage
<1>6. CASE EmptyPage
  <2>1. /\ outcome = "walking" /\ changes = 0 /\ records' = records /\ dataset' = dataset
        /\ Page(page) = <<>>
    BY <1>3, <1>6 DEF EmptyPage, server
  <2>2. Offset(page) = Len(records)
    BY <2>1, NextOffset
  <2>3. Len(Page(page)) < PageSize => Offset(page) + Len(Page(page)) >= Len(dataset)
    BY Types, PageProperties
  <2>4. Len(Page(page)) = 0 /\ Len(records) \in Nat /\ Len(dataset) \in Nat
    BY <2>1, Types
  <2>5. Len(records) >= Len(dataset)
    BY <2>2, <2>3, <2>4
  <2> QED BY ONLY <1>1, <1>4, <2>1, <2>4, <2>5
<1>7. CASE Added \/ Removed
  <2>1. changes' = changes + 1 /\ changes \in Nat
    BY <1>7, Types DEF Added, Removed, Change
  <2>2. changes' # 0
    BY <2>1
  <2> QED BY <2>2
<1>8. CASE IdenticalPage \/ RequestFails
  BY <1>8 DEF IdenticalPage, RequestFails
<1>9. CASE UNCHANGED vars
  BY <1>3, <1>4, <1>9 DEF vars, client, server, StillDatasetIsExact
<1> QED BY <1>5, <1>6, <1>7, <1>8, <1>9 DEF Next, Walk

LEMMA StuckStep ==
    ASSUME TypeOK, WalkOK, StillOK, StuckServerIsReported, [Next]_vars
    PROVE  StuckServerIsReported'
<1> SUFFICES ASSUME stuck', changes' = 0
             PROVE  Len(records') <= PageSize /\ (outcome' # "max pages" \/ MaxPages = 1)
  BY DEF StuckServerIsReported
<1>1. CASE NewPage
  <2>1. changes = 0 /\ stuck
    BY <1>1 DEF NewPage, server
  <2>2. page = 1 /\ Len(records') <= PageSize
    BY <1>1, <2>1, StillPage
  <2>3. outcome' = "max pages" => page = MaxPages
    BY <1>1, NewPageTakes
  <2> QED BY <2>2, <2>3
<1>2. CASE Added \/ Removed
  <2>1. changes' = changes + 1 /\ changes \in Nat
    BY <1>2, Types DEF Added, Removed, Change
  <2>2. changes' # 0
    BY <2>1
  <2> QED BY <2>2
<1>3. CASE EmptyPage \/ IdenticalPage \/ RequestFails
  BY <1>3 DEF EmptyPage, IdenticalPage, RequestFails, server, StuckServerIsReported
<1>4. CASE UNCHANGED vars
  BY <1>4 DEF vars, client, server, StuckServerIsReported
<1> QED BY <1>1, <1>2, <1>3, <1>4 DEF Next, Walk

LEMMA KeptStep ==
    ASSUME TypeOK, WalkOK, KeptOK, [Next]_vars
    PROVE  KeptOK'
<1> SUFFICES ASSUME ~removals' PROVE KeptOK'
  BY DEF KeptOK
<1>0. /\ dataset \in Seq(Records) /\ Len(dataset) \in Nat
      /\ records \in Seq(Records) /\ Len(records) \in Nat
      /\ DOMAIN dataset = 1..Len(dataset) /\ DOMAIN records = 1..Len(records)
  BY Types
<1>1. CASE Added
  <2>1. PICK r \in Records \ ToSet(dataset), at \in 1..(Len(dataset) + 1) :
          dataset' = InsertAt(dataset, at, r)
    BY <1>1 DEF Added
  <2>2. /\ dataset' \in Seq(Records) /\ Len(dataset') = Len(dataset) + 1 /\ dataset'[at] = r
        /\ \A i \in 1..Len(dataset) : /\ i < at => dataset'[i] = dataset[i]
                                      /\ i >= at => dataset'[i + 1] = dataset[i]
    BY <1>0, <2>1, InsertAtProperties
  <2>3. /\ kept' = kept /\ records' = records /\ outcome' = outcome /\ stuck' = stuck
        /\ page' = page /\ ~removals
    BY <1>1 DEF Added, client
  <2>4. kept \subseteq ToSet(dataset) /\ r \notin kept
    BY <2>1, <2>3 DEF KeptOK
  <2>5. kept' \subseteq ToSet(dataset')
    <3> SUFFICES ASSUME NEW x \in kept PROVE x \in ToSet(dataset')
      BY <2>3
    <3>1. PICK i \in 1..Len(dataset) : dataset[i] = x
      BY <1>0, <2>4 DEF ToSet
    <3>2. i \in 1..Len(dataset') /\ i + 1 \in 1..Len(dataset')
      BY <1>0, <2>2
    <3>3. dataset'[i] = x \/ dataset'[i + 1] = x
      BY <2>2, <3>1
    <3>4. DOMAIN dataset' = 1..Len(dataset')
      BY <2>2
    <3> QED BY <3>2, <3>3, <3>4 DEF ToSet
  <2>6. ASSUME outcome = "walking", stuck, page # 1
        PROVE  Len(dataset') >= PageSize
    <3>1. Len(dataset) >= PageSize
      BY <2>3, <2>6 DEF KeptOK
    <3> QED BY ONLY <1>0, <2>2, <3>1, Bounds
  <2>7. ASSUME outcome = "walking", ~stuck, NEW pos \in 1..Len(dataset'),
               pos <= Len(records), dataset'[pos] \in kept
        PROVE  dataset'[pos] \in ToSet(records)
    <3>1. \A i \in 1..Len(dataset) :
            i <= Len(records) /\ dataset[i] \in kept => dataset[i] \in ToSet(records)
      BY <2>3, <2>7 DEF KeptOK
    <3>2. PICK i \in 1..Len(dataset) : i <= pos /\ dataset[i] = dataset'[pos]
      <4>1. pos # at
        BY <2>2, <2>4, <2>7
      <4>2. CASE pos < at
        <5>1. pos \in 1..Len(dataset) /\ pos <= pos
          BY <1>0, <4>2
        <5> QED BY <2>2, <4>2, <5>1
      <4>3. CASE pos > at
        <5>1. pos - 1 \in 1..Len(dataset) /\ pos - 1 <= pos /\ pos - 1 >= at /\ (pos - 1) + 1 = pos
          BY <1>0, <2>2, <4>3
        <5> QED BY <2>2, <5>1
      <4> QED BY <4>1, <4>2, <4>3
    <3>3. i <= Len(records)
      BY <1>0, <2>7, <3>2
    <3> QED BY <2>7, <3>1, <3>2, <3>3
  <2> QED BY <2>3, <2>5, <2>6, <2>7 DEF KeptOK
<1>2. CASE Removed
  BY <1>2 DEF Removed
<1>3. CASE NewPage
  <2>1. /\ outcome = "walking" /\ Take(Page(page)) /\ page' \in 1..MaxPages
        /\ Page(page) \in Seq(Records) /\ Len(Page(page)) \in Nat
        /\ Page(page) # <<>>
        /\ outcome' = "walking" => Len(Page(page)) = PageSize
    BY <1>3, NewPageTakes
  <2>2. /\ dataset' = dataset /\ kept' = kept /\ stuck' = stuck /\ ~removals
    BY <1>3 DEF NewPage, server
  <2>3. /\ Offset(page) + Len(Page(page)) <= Len(dataset) /\ Offset(page) \in Nat
        /\ \A i \in 1..Len(Page(page)) : Page(page)[i] = dataset[Offset(page) + i]
    BY <2>1, Types, PageProperties
  <2>4. /\ records' \in Seq(Records)
        /\ Len(records') = Len(records) + Len(Page(page))
        /\ \A i \in 1..Len(records) : records'[i] = records[i]
        /\ \A i \in 1..Len(Page(page)) : records'[Len(records) + i] = Page(page)[i]
        /\ \A k \in 1..(Len(records) + Len(Page(page))) :
             k \in 1..Len(records) \/ \E i \in 1..Len(Page(page)) : k = Len(records) + i
    BY <2>1, TakeProperties
  <2>5. ASSUME outcome' = "walking" PROVE Len(dataset) >= PageSize
    <3>1. Len(Page(page)) = PageSize
      BY <2>1, <2>5
    <3> QED BY ONLY <1>0, <2>3, <3>1, Bounds
  <2>6. ASSUME ~stuck, NEW pos \in 1..Len(dataset), pos <= Len(records'), dataset[pos] \in kept
        PROVE  dataset[pos] \in ToSet(records')
    <3>1. \A i \in 1..Len(dataset) :
            i <= Len(records) /\ dataset[i] \in kept => dataset[i] \in ToSet(records)
      BY <2>1, <2>2, <2>6 DEF KeptOK
    <3>2. DOMAIN records' = 1..Len(records')
      BY <2>4
    <3>3. CASE pos \in 1..Len(records)
      <4>1. dataset[pos] \in ToSet(records)
        BY <1>0, <2>6, <3>1, <3>3
      <4>2. PICK k \in 1..Len(records) : records[k] = dataset[pos]
        BY <1>0, <4>1 DEF ToSet
      <4>3. k \in 1..Len(records') /\ records'[k] = dataset[pos]
        BY <1>0, <2>1, <2>4, <4>2
      <4> QED BY <3>2, <4>3 DEF ToSet
    <3>4. CASE \E i \in 1..Len(Page(page)) : pos = Len(records) + i
      <4>1. PICK i \in 1..Len(Page(page)) : pos = Len(records) + i
        BY <3>4
      <4>2. Offset(page) = Len(records)
        BY <2>1, <2>6 DEF Offset, WalkOK
      <4>3. records'[pos] = dataset[pos]
        BY <2>3, <2>4, <4>1, <4>2
      <4>4. pos \in 1..Len(records')
        BY <2>6
      <4> QED BY <3>2, <4>3, <4>4 DEF ToSet
    <3>5. pos \in 1..(Len(records) + Len(Page(page)))
      BY <2>4, <2>6
    <3> QED BY <2>4, <3>3, <3>4, <3>5
  <2>7. kept \subseteq ToSet(dataset)
    BY <2>2 DEF KeptOK
  <2> QED BY <2>2, <2>5, <2>6, <2>7 DEF KeptOK
<1>4. CASE EmptyPage \/ IdenticalPage \/ RequestFails
  BY <1>4 DEF EmptyPage, IdenticalPage, RequestFails, server, KeptOK
<1>5. CASE UNCHANGED vars
  BY <1>5 DEF vars, client, server, KeptOK
<1> QED BY <1>1, <1>2, <1>3, <1>4, <1>5 DEF Next, Walk

LEMMA MissesStep ==
    ASSUME TypeOK, WalkOK, KeptOK, MissesOnlyAfterRemoval, TypeOK', KeptOK', [Next]_vars
    PROVE  MissesOnlyAfterRemoval'
<1> SUFFICES ASSUME outcome' = "returned", ~removals', ~nulled', NEW x \in kept'
             PROVE  x \in ToSet(records')
  BY DEF MissesOnlyAfterRemoval
<1>0. /\ dataset \in Seq(Records) /\ Len(dataset) \in Nat
      /\ records \in Seq(Records) /\ Len(records) \in Nat
      /\ DOMAIN dataset = 1..Len(dataset) /\ DOMAIN records = 1..Len(records)
      /\ page \in Nat \ {0}
  BY Types
<1>1. CASE EmptyPage
  <2>1. /\ outcome = "walking" /\ records' = records /\ dataset' = dataset /\ kept' = kept
        /\ ~removals /\ Page(page) = <<>>
    BY <1>1 DEF EmptyPage, server
  <2>2. Len(Page(page)) = 0
    BY <2>1
  <2>3. Offset(page) \in Nat /\ Offset(page) >= Len(dataset)
    BY SMTT(40), <1>0, <2>2, PageProperties
  <2>4. PICK pos \in 1..Len(dataset) : dataset[pos] = x
    BY <1>0, <2>1 DEF KeptOK, ToSet
  <2>5. CASE stuck
    <3>1. Len(dataset) = 0 
      BY <1>0, <2>3, <2>5 DEF Offset
    <3> QED BY <2>4, <3>1
  <2>6. CASE ~stuck
    <3>1. Offset(page) = Len(records)
      BY <2>1, <2>6 DEF Offset, WalkOK
    <3>2. pos <= Len(records)
      BY <1>0, <2>3, <3>1
    <3> QED BY <2>1, <2>4, <2>6, <3>2 DEF KeptOK
  <2> QED BY <2>5, <2>6
<1>2. CASE NewPage
  <2>1. /\ outcome = "walking" /\ Take(Page(page))
        /\ Page(page) \in Seq(Records) /\ Len(Page(page)) \in Nat
        /\ Len(Page(page)) < PageSize
    BY <1>2, NewPageTakes
  <2>2. /\ dataset' = dataset /\ kept' = kept /\ stuck' = stuck /\ ~removals
    BY <1>2 DEF NewPage, server
  <2>3. /\ Offset(page) + Len(Page(page)) >= Len(dataset) /\ Offset(page) \in Nat
        /\ \A i \in 1..Len(Page(page)) : Page(page)[i] = dataset[Offset(page) + i]
    BY <1>0, <2>1, PageProperties
  <2>4. /\ records' \in Seq(Records)
        /\ Len(records') = Len(records) + Len(Page(page))
        /\ \A i \in 1..Len(records) : records'[i] = records[i]
        /\ \A i \in 1..Len(Page(page)) : records'[Len(records) + i] = Page(page)[i]
    BY <2>1, TakeProperties
  <2>5. PICK pos \in 1..Len(dataset) : dataset[pos] = x
    BY <1>0, <2>2 DEF KeptOK, ToSet
  <2>6. DOMAIN records' = 1..(Len(records) + Len(Page(page)))
    BY <2>4
  <2>7. Offset(page) = Len(records)
    <3>1. CASE stuck
      <4>1. ~(Len(dataset) >= PageSize)
        BY ONLY <1>0, <2>1, <2>3, <3>1, Bounds DEF Offset
      <4>2. page = 1
        BY <2>1, <2>2, <3>1, <4>1 DEF KeptOK
      <4>3. Len(records) = 0
        BY <1>0, <2>1, <4>2, PageBounds DEF WalkOK
      <4> QED BY <3>1, <4>3 DEF Offset
    <3>2. CASE ~stuck
      BY <2>1, <3>2 DEF Offset, WalkOK
    <3> QED BY <3>1, <3>2
  <2>8. CASE pos > Len(records)
    <3>1. pos - Len(records) \in 1..Len(Page(page)) /\ pos = Len(records) + (pos - Len(records))
      BY <1>0, <2>1, <2>3, <2>7, <2>8
    <3>2. records'[pos] = x
      BY <2>3, <2>4, <2>5, <2>7, <3>1
    <3>3. pos \in 1..(Len(records) + Len(Page(page)))
      BY <1>0, <2>1, <3>1
    <3> QED BY <2>6, <3>2, <3>3 DEF ToSet
  <2>9. CASE pos <= Len(records)
    <3>1. ~stuck
      <4> SUFFICES ASSUME stuck PROVE FALSE
        OBVIOUS
      <4>1. Len(records) = 0
        BY <2>7 DEF Offset
      <4> QED BY <2>9, <4>1
    <3>2. x \in ToSet(records)
      BY <2>1, <2>2, <2>5, <2>9, <3>1 DEF KeptOK
    <3>3. PICK k \in 1..Len(records) : records[k] = x
      BY <1>0, <3>2 DEF ToSet
    <3>4. k \in 1..(Len(records) + Len(Page(page))) /\ records'[k] = x
      BY <1>0, <2>1, <2>4, <3>3
    <3> QED BY <2>6, <3>4 DEF ToSet
  <2>10. pos > Len(records) \/ pos <= Len(records)
    BY <1>0
  <2> QED BY <2>8, <2>9, <2>10
<1>3. CASE Added \/ Removed
  BY <1>3 DEF Added, Removed, Change, client
<1>4. CASE IdenticalPage \/ RequestFails
  BY <1>4 DEF IdenticalPage, RequestFails
<1>5. CASE UNCHANGED vars
  BY <1>5 DEF vars, client, server, MissesOnlyAfterRemoval
<1> QED BY <1>1, <1>2, <1>3, <1>4, <1>5 DEF Next, Walk

-----------------------------------------------------------------------------
(* Duplicates *)

LEMMA Division ==
    ASSUME NEW x \in Nat, NEW n \in Nat, n >= 1
    PROVE  x \div n \in Nat /\ n * (x \div n) <= x /\ x < n * (x \div n) + n
OBVIOUS

LEMMA Quotients ==
    ASSUME NEW d \in Nat, NEW q \in Nat, NEW n \in Nat, n >= 1
    PROVE  /\ d >= q + 1 => n * d >= q * n + n
           /\ d >= q => n * d >= q * n
           /\ d <= q => n * d <= q * n
           /\ d + 1 <= q => n * d + n <= q * n
<1>1. ASSUME d >= q PROVE n * d >= q * n /\ (d >= q + 1 => n * d >= q * n + n)
  <2>1. PICK k \in Nat : d = q + k
    <3>1. d - q \in Nat /\ d = q + (d - q)
      BY <1>1
    <3> QED BY <3>1
  <2>2. n * d = q * n + n * k
    BY <2>1
  <2>3. n * k \in Nat /\ (k >= 1 => n * k >= n)
    OBVIOUS
  <2>4. d >= q + 1 => k >= 1
    BY <2>1
  <2>5. n * d \in Nat /\ q * n \in Nat
    OBVIOUS
  <2> QED BY <2>2, <2>3, <2>4, <2>5
<1>2. ASSUME d <= q PROVE n * d <= q * n /\ (d + 1 <= q => n * d + n <= q * n)
  <2>1. PICK k \in Nat : q = d + k
    <3>1. q - d \in Nat /\ q = d + (q - d)
      BY <1>2
    <3> QED BY <3>1
  <2>2. q * n = n * d + n * k
    BY <2>1
  <2>3. n * k \in Nat /\ (k >= 1 => n * k >= n)
    OBVIOUS
  <2>4. d + 1 <= q => k >= 1
    BY <2>1
  <2>5. n * d \in Nat /\ q * n \in Nat
    OBVIOUS
  <2> QED BY <2>2, <2>3, <2>4, <2>5
<1> QED BY <1>1, <1>2

\* The page a record came from, when every page before the last was full.
LEMMA PageOfRecord ==
    ASSUME NEW i \in Nat \ {0}, NEW q \in Nat
    PROVE  /\ PageOf(i) \in Nat
           /\ i <= q * PageSize => PageOf(i) < q
           /\ q * PageSize < i /\ i <= q * PageSize + PageSize => PageOf(i) = q
<1>1. PICK d \in Nat : /\ d = PageOf(i)
                       /\ PageSize * d <= i - 1 /\ i - 1 < PageSize * d + PageSize
  <2>1. i - 1 \in Nat
    OBVIOUS
  <2> QED BY <2>1, Division DEF PageOf
<1>2. PICK a \in Nat, b \in Nat : a = PageSize * d /\ b = q * PageSize
  OBVIOUS
<1>3. /\ d >= q + 1 => a >= b + PageSize
      /\ d >= q => a >= b
      /\ d <= q => a <= b
      /\ d + 1 <= q => a + PageSize <= b
  BY <1>2, Quotients
<1>4. a <= i - 1 /\ i - 1 < a + PageSize
  BY <1>1, <1>2
<1>5. (i <= b => d < q) /\ (b < i /\ i <= b + PageSize => d = q)
  BY ONLY <1>3, <1>4, Bounds, PaginationAssumption
<1> QED BY <1>1, <1>2, <1>5

\* C is A, of the first n numbers, and B, of the next m, counted from n on.
Behind(n, m, A, B, C) ==
    /\ n \in Nat /\ m \in Nat
    /\ A \in SUBSET (1..n) /\ B \in SUBSET (1..m)
    /\ \A i : i \in C <=> i \in A \/ \E k \in B : i = n + k

LEMMA CountBehind ==
    ASSUME NEW n, NEW m, NEW A, NEW B, NEW C, Behind(n, m, A, B, C)
    PROVE  Cardinality(C) = Cardinality(A) + Cardinality(B)
<1>0. /\ n \in Nat /\ m \in Nat
      /\ A \in SUBSET (1..n) /\ B \in SUBSET (1..m)
      /\ \A i : i \in C <=> i \in A \/ \E k \in B : i = n + k
  BY DEF Behind
<1> USE <1>0
<1>1. IsFiniteSet(A) /\ IsFiniteSet(B)
  <2>1. IsFiniteSet(1..n) /\ IsFiniteSet(1..m)
    BY FS_Interval
  <2> QED BY <2>1, FS_Subset
<1> DEFINE D == {n + k : k \in B}
           f == [k \in B |-> n + k]
<1>2. f \in Bijection(B, D)
  <2>1. f \in [B -> D]
    OBVIOUS
  <2>2. \A k, l \in B : f[k] = f[l] => k = l
    <3> TAKE k, l \in B
    <3>1. k \in Int /\ l \in Int /\ f[k] = n + k /\ f[l] = n + l
      OBVIOUS
    <3> QED BY <3>1
  <2>3. \A d \in D : \E k \in B : f[k] = d
    OBVIOUS
  <2> HIDE DEF f, D
  <2> QED BY <2>1, <2>2, <2>3, Fun_IsBij
<1>3. IsFiniteSet(D) /\ Cardinality(D) = Cardinality(B)
  BY <1>1, <1>2, FS_Bijection DEF ExistsBijection
<1>4. A \cap D = {}
  <2> SUFFICES ASSUME NEW i \in A, NEW k \in B, i = n + k PROVE FALSE
    OBVIOUS
  <2>1. i \in 1..n /\ k \in 1..m
    OBVIOUS
  <2> QED BY <2>1
<1>5. C = A \cup D
  OBVIOUS
<1> HIDE DEF D
<1>6. Cardinality(A \cup D) = Cardinality(A) + Cardinality(D) - Cardinality(A \cap D)
  BY <1>1, <1>3, FS_Union
<1>7. Cardinality({}) = 0
  BY FS_EmptySet
<1>8. Cardinality(A) \in Nat /\ Cardinality(D) \in Nat
  BY <1>1, <1>3, FS_CardinalityType
<1> QED BY <1>3, <1>4, <1>5, <1>6, <1>7, <1>8

\* The positions DuplicatesAreCounted counts.
IsRepeat(i) ==
    /\ IdentityOf[records[i]] # "none"
    /\ \E j \in DOMAIN records : /\ PageOf(j) < PageOf(i)
                                 /\ IdentityOf[records[j]] = IdentityOf[records[i]]
Repeats == {i \in DOMAIN records : IsRepeat(i)}

\* Of a walk whose pages were all full, an earlier record is one of an earlier
\* page, and the records of the page just taken are the last ones.
LEMMA RepeatsGrow ==
    ASSUME TypeOK, WalkOK, NewPage
    PROVE  \A i : i \in Repeats' <=>
             \/ i \in Repeats
             \/ \E k \in {l \in DOMAIN Page(page) : IdentityOf[Page(page)[l]] \in seen} :
                  i = Len(records) + k
<1> DEFINE results == Page(page)
<1>1. /\ outcome = "walking" /\ Take(results) /\ results \in Seq(Records)
      /\ Len(results) \in Nat /\ Len(results) <= PageSize
  BY NewPageTakes
<1>2. page - 1 \in Nat /\ Len(records) \in Nat /\ DOMAIN records = 1..Len(records)
  BY Types
<1>3. PICK q \in Nat, n \in Nat, m \in Nat :
        q = page - 1 /\ n = Len(records) /\ m = Len(results)
  BY <1>1, <1>2
<1>4. n = q * PageSize
  BY <1>1, <1>3 DEF WalkOK
<1>5. DOMAIN results = 1..m
  <2>1. results \in Seq(Records)
    BY <1>1
  <2> HIDE DEF results
  <2> QED BY <1>3, <2>1
<1> HIDE DEF results
<1>6. /\ \A i \in 1..n : records'[i] = records[i]
      /\ \A k \in 1..m : records'[n + k] = results[k]
      /\ DOMAIN records' = 1..(n + m)
      /\ \A i \in 1..(n + m) : i \in 1..n \/ \E k \in 1..m : i = n + k
  <2>1. /\ records' \in Seq(Records) /\ Len(records') = Len(records) + Len(results)
        /\ \A i \in 1..Len(records) : records'[i] = records[i]
        /\ \A i \in 1..Len(results) : records'[Len(records) + i] = results[i]
        /\ \A k \in 1..(Len(records) + Len(results)) :
             k \in 1..Len(records) \/ \E i \in 1..Len(results) : k = Len(records) + i
    BY <1>1, TakeProperties
  <2> QED BY <1>3, <2>1
<1>7. \A i \in 1..n : PageOf(i) \in Nat /\ PageOf(i) < q
  BY <1>4, PageOfRecord
<1>8. \A k \in 1..m : PageOf(n + k) = q
  <2> TAKE k \in 1..m
  <2>1. n + k \in Nat \ {0} /\ q * PageSize < n + k /\ n + k <= q * PageSize + PageSize
    BY <1>1, <1>3, <1>4
  <2> QED BY <2>1, PageOfRecord
<1>9. \A i \in 1..n, k \in 1..m : ~(PageOf(n + k) < PageOf(i)) /\ PageOf(i) < PageOf(n + k)
  BY <1>7, <1>8
<1>10. \A k, l \in 1..m : ~(PageOf(n + l) < PageOf(n + k))
  BY <1>8
<1>11. 1..n \subseteq 1..(n + m) /\ \A k \in 1..m : n + k \in 1..(n + m) /\ n + k \notin 1..n
  BY <1>3
<1>12. \A id : id \in seen <=> id # "none" /\ \E j \in 1..n : IdentityOf[records[j]] = id
  <2>1. seen = {IdentityOf[records[i]] : i \in 1..n} \ {"none"}
    BY <1>2, <1>3 DEF TypeOK
  <2> QED BY ONLY <2>1
<1>13. ASSUME NEW i \in 1..n
       PROVE  i \in Repeats' <=> i \in Repeats
  <2>1. i \in Repeats <=>
          /\ IdentityOf[records[i]] # "none"
          /\ \E j \in 1..n : /\ PageOf(j) < PageOf(i)
                             /\ IdentityOf[records[j]] = IdentityOf[records[i]]
    BY <1>2, <1>3 DEF Repeats, IsRepeat
  <2>2. i \in Repeats' <=>
          /\ IdentityOf[records'[i]] # "none"
          /\ \E j \in 1..(n + m) : /\ PageOf(j) < PageOf(i)
                                   /\ IdentityOf[records'[j]] = IdentityOf[records'[i]]
    BY <1>6, <1>11 DEF Repeats, IsRepeat, PageOf
  <2> HIDE DEF Repeats, IsRepeat
  <2> QED BY ONLY <1>6, <1>9, <1>11, <2>1, <2>2
<1>14. ASSUME NEW k \in 1..m
       PROVE  n + k \in Repeats' <=> IdentityOf[results[k]] \in seen
  <2>1. n + k \in Repeats' <=>
          /\ IdentityOf[records'[n + k]] # "none"
          /\ \E j \in 1..(n + m) : /\ PageOf(j) < PageOf(n + k)
                                   /\ IdentityOf[records'[j]] = IdentityOf[records'[n + k]]
    BY <1>6, <1>11 DEF Repeats, IsRepeat, PageOf
  <2> QED BY ONLY SMTT(40), <1>6, <1>9, <1>10, <1>11, <1>12, <2>1
<1>15. \A i : i \in Repeats => i \in 1..n
  BY <1>2, <1>3 DEF Repeats
<1>16. \A i : i \in Repeats' => i \in 1..(n + m)
  BY <1>6 DEF Repeats
<1>17. ASSUME NEW i
       PROVE  i \in Repeats' <=>
                i \in Repeats \/ \E k \in 1..m : IdentityOf[results[k]] \in seen /\ i = n + k
  BY ONLY <1>6, <1>11, <1>13, <1>14, <1>15, <1>16
<1> QED BY <1>3, <1>5, <1>17 DEF results

LEMMA DuplicatesStep ==
    ASSUME TypeOK, WalkOK, DuplicatesAreCounted, [Next]_vars
    PROVE  DuplicatesAreCounted'
<1>1. DuplicatesAreCounted <=> duplicateCount = Cardinality(Repeats)
  BY DEF DuplicatesAreCounted, Repeats, IsRepeat
<1>2. DuplicatesAreCounted' <=> duplicateCount' = Cardinality(Repeats')
  BY DEF DuplicatesAreCounted, Repeats, IsRepeat, PageOf
<1>3. CASE NewPage
  <2>1. /\ Take(Page(page)) /\ Page(page) \in Seq(Records) /\ Len(Page(page)) \in Nat
    BY <1>3, NewPageTakes
  <2>2. duplicateCount' = duplicateCount + Repeated(Page(page))
    BY <2>1 DEF Take
  <2>3. PICK n \in Nat, m \in Nat : n = Len(records) /\ m = Len(Page(page))
    BY <2>1, Types
  <2>4. PICK B : B = {l \in DOMAIN Page(page) : IdentityOf[Page(page)[l]] \in seen}
    OBVIOUS
  <2>5. B \in SUBSET (1..m) /\ Cardinality(B) = Repeated(Page(page))
    <3>1. DOMAIN Page(page) = 1..m
      BY <2>1, <2>3
    <3> QED BY <2>4, <3>1 DEF Repeated
  <2>6. Repeats \in SUBSET (1..n)
    BY <2>3, Types DEF Repeats
  <2>7. \A i : i \in Repeats' <=> i \in Repeats \/ \E k \in B : i = n + k
    BY <1>3, <2>3, <2>4, RepeatsGrow
  <2>8. PICK A, C : A = Repeats /\ C = Repeats'
    OBVIOUS
  <2>9. Cardinality(C) = Cardinality(A) + Cardinality(B)
    <3>1. Behind(n, m, A, B, C)
      BY <2>3, <2>5, <2>6, <2>7, <2>8 DEF Behind
    <3> QED BY ONLY <3>1, CountBehind
  <2> QED BY <1>1, <1>2, <2>2, <2>5, <2>8, <2>9
<1>4. CASE Added \/ Removed \/ EmptyPage \/ IdenticalPage \/ RequestFails
  BY <1>4 DEF Added, Removed, EmptyPage, IdenticalPage, RequestFails, client,
              DuplicatesAreCounted, PageOf
<1>5. CASE UNCHANGED vars
  BY <1>5 DEF vars, client, DuplicatesAreCounted, PageOf
<1> QED BY <1>3, <1>4, <1>5 DEF Next, Walk

-----------------------------------------------------------------------------
(* Theorems *)

LEMMA InitInvariant == Init => IInv
<1> SUFFICES ASSUME Init PROVE IInv
  OBVIOUS
<1>1. TypeOK
  BY InitTyped
<1>2. /\ outcome = "walking" /\ ~nulled /\ page = 1 /\ records = <<>> /\ kept = ToSet(dataset)
      /\ duplicateCount = 0
  BY DEF Init
<1>3. Len(records) = 0 /\ DOMAIN records = {}
  BY <1>2
<1>4. WalkOK
  <2>1. Len(records) = (page - 1) * PageSize
    BY <1>2, <1>3, PageBounds
  <2> QED BY <1>2, <2>1 DEF WalkOK
<1>5. StillOK
  <2>1. Len(dataset) >= 0
    BY <1>1, Types
  <2> QED BY <1>2, <1>3, <2>1 DEF StillOK
<1>6. KeptOK
  <2>1. \A pos \in 1..Len(dataset) : ~(pos <= Len(records))
    BY <1>1, <1>3, Types
  <2> QED BY <1>2, <2>1 DEF KeptOK
<1>7. StillDatasetIsExact /\ MissesOnlyAfterRemoval
  BY <1>2 DEF StillDatasetIsExact, MissesOnlyAfterRemoval
<1>8. StuckServerIsReported
  <2>1. Len(records) <= PageSize
    BY <1>3
  <2> QED BY <1>2, <2>1 DEF StuckServerIsReported
<1>9. DuplicatesAreCounted
  <2>1. Repeats = {}
    BY <1>3 DEF Repeats
  <2>2. Cardinality(Repeats) = 0
    BY <2>1, FS_EmptySet
  <2> QED BY <1>2, <2>2 DEF DuplicatesAreCounted, Repeats, IsRepeat
<1> QED BY <1>1, <1>4, <1>5, <1>6, <1>7, <1>8, <1>9 DEF IInv

LEMMA StepInvariant == IInv /\ [Next]_vars => IInv'
<1> SUFFICES ASSUME IInv, [Next]_vars PROVE IInv'
  OBVIOUS
<1>1. /\ TypeOK /\ WalkOK /\ StillOK /\ StillDatasetIsExact /\ StuckServerIsReported
      /\ KeptOK /\ MissesOnlyAfterRemoval /\ DuplicatesAreCounted
  BY DEF IInv
<1>2. TypeOK'
  BY <1>1, TypeStep
<1>3. WalkOK'
  BY <1>1, WalkStep
<1>4. StillOK'
  BY <1>1, StillStep
<1>5. StillDatasetIsExact'
  BY <1>1, <1>2, <1>4, StillDatasetStep
<1>6. StuckServerIsReported'
  BY <1>1, StuckStep
<1>7. KeptOK'
  BY <1>1, KeptStep
<1>8. MissesOnlyAfterRemoval'
  BY <1>1, <1>2, <1>7, MissesStep
<1>9. DuplicatesAreCounted'
  BY <1>1, DuplicatesStep
<1> QED BY <1>2, <1>3, <1>4, <1>5, <1>6, <1>7, <1>8, <1>9 DEF IInv

LEMMA Invariance == Spec => []IInv
<1>1. Init => IInv
  BY InitInvariant
<1>2. IInv /\ [Next]_vars => IInv'
  BY StepInvariant
<1> QED BY <1>1, <1>2, PTL DEF Spec

\* Every variable of the walk stays in its type, and previous_page_keys is the
\* set of the identities of the records taken so far (client.py:284, 320).
THEOREM WalkTyped == Spec => []TypeOK
<1>1. IInv => TypeOK
  BY DEF IInv
<1> QED BY <1>1, Invariance, PTL

\* A walk over a data set that stands still returns exactly the data set, in
\* its order; a null page can only cut it short.
THEOREM StillWalksAreExact == Spec => []StillDatasetIsExact
<1>1. IInv => StillDatasetIsExact
  BY DEF IInv
<1> QED BY <1>1, Invariance, PTL

\* Additions during a walk make it repeat records, never miss one that was
\* there all along; that takes a removal.
THEOREM AdditionsHideNothing == Spec => []MissesOnlyAfterRemoval
<1>1. IInv => MissesOnlyAfterRemoval
  BY DEF IInv
<1> QED BY <1>1, Invariance, PTL

\* duplicate_count, kept page by page with the identities of all earlier pages,
\* is the number of records an earlier page already had.
THEOREM DuplicateCountIsExact == Spec => []DuplicatesAreCounted
<1>1. IInv => DuplicatesAreCounted
  BY DEF IInv
<1> QED BY <1>1, Invariance, PTL

\* A server that ignores the page number is found out on the second page.
THEOREM StuckServersAreReported == Spec => []StuckServerIsReported
<1>1. IInv => StuckServerIsReported
  BY DEF IInv
<1> QED BY <1>1, Invariance, PTL

=============================================================================

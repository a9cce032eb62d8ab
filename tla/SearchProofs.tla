----------------------------- MODULE SearchProofs ------------------------------
(***************************************************************************)
(* The search index of the hot file and of a sidecar, and what a search    *)
(* finds with them, for any texts, terms, packets and searchable kinds.    *)
(*                                                                         *)
(* The index is built by recursion over the texts, and find_iter goes over *)
(* the occurrences of a term by recursion.  What they compute is proved    *)
(* with Induction, which is about sets of numbers, and Recursion, which is *)
(* about functions: they take no operator.                                 *)
(***************************************************************************)
EXTENDS LoadingProofs, SequenceTheorems, WellFoundedInduction

(***************************************************************************)
(* Induction and recursion over numbers, of sets and functions.            *)
(***************************************************************************)
\* Every set of numbers has a least one.
LEMMA Least ==
  ASSUME NEW T \in SUBSET Nat, T # {}
  PROVE  \E m \in T : \A k \in T : m <= k
  <1>1. PICK m \in T : \A k \in T : <<k, m>> \notin OpToRel(<, Nat)
    BY NatLessThanWellFounded, WFMin
  <1>2. ASSUME NEW k \in T, ~(m <= k) PROVE FALSE
    <2>1. k \in Nat /\ m \in Nat /\ k < m
      BY <1>2
    <2>2. <<k, m>> \in OpToRel(<, Nat)
      BY <2>1, Zenon DEF OpToRel
    <2> QED BY <1>1, <2>2
  <1> QED BY <1>2

LEMMA Induction ==
  ASSUME NEW T, 0 \in T, \A n \in Nat : n \in T => n + 1 \in T
  PROVE  Nat \subseteq T
  <1> SUFFICES ASSUME Nat \ T # {} PROVE FALSE
    OBVIOUS
  <1>1. PICK m \in Nat \ T : \A k \in Nat \ T : m <= k
    BY Least
  <1>2. m - 1 \in Nat /\ ~(m <= m - 1) /\ (m - 1) + 1 = m
    BY <1>1
  <1> QED BY <1>1, <1>2

\* f applies the functions of step in turn, from 1 to n, and begins with a.
Iterates(f, a, step, n) == f[0] = a /\ \A i \in 1..n : f[i] = step[i][f[i - 1]]

LEMMA Recursion ==
  ASSUME NEW A, NEW a \in A, NEW step \in [Nat -> [A -> A]], NEW n \in Nat
  PROVE  \E f \in [0..n -> A] : Iterates(f, a, step, n)
  <1> DEFINE Follows(f, m) == Iterates(f, a, step, m)
             T == {m \in Nat : \E f \in [0..m -> A] : Follows(f, m)}
  <1>1. 0 \in T
    <2>1. [i \in 0..0 |-> a] \in [0..0 -> A] /\ Follows([i \in 0..0 |-> a], 0)
      BY DEF Iterates
    <2> QED BY <2>1
  <1>2. ASSUME NEW m \in Nat, m \in T PROVE m + 1 \in T
    <2>1. PICK f \in [0..m -> A] : Follows(f, m)
      BY <1>2
    <2> DEFINE g == [i \in 0..(m + 1) |-> IF i <= m THEN f[i] ELSE step[m + 1][f[m]]]
    <2>2. \A i \in 0..m : f[i] \in A
      OBVIOUS
    <2>3. step[m + 1][f[m]] \in A
      BY <2>2
    <2>4. g \in [0..(m + 1) -> A]
      BY <2>2, <2>3
    <2>5. Follows(g, m + 1)
      <3>1. g[0] = a
        BY <2>1 DEF Iterates
      <3>2. ASSUME NEW i \in 1..(m + 1) PROVE g[i] = step[i][g[i - 1]]
        <4>1. CASE i <= m
          <5>1. i \in 1..m /\ i \in 0..(m + 1) /\ i - 1 \in 0..(m + 1) /\ i - 1 <= m
            BY <4>1
          <5>2. g[i] = f[i] /\ g[i - 1] = f[i - 1]
            BY <4>1, <5>1
          <5> QED BY <2>1, <5>1, <5>2 DEF Iterates
        <4>2. CASE ~(i <= m)
          <5>1. i = m + 1 /\ i - 1 = m
            BY <4>2
          <5>2. g[m + 1] = step[m + 1][f[m]] /\ g[m] = f[m]
            OBVIOUS
          <5> QED BY <5>1, <5>2
        <4> QED BY <4>1, <4>2
      <3> QED BY <3>1, <3>2 DEF Iterates
    <2> HIDE DEF g, Follows
    <2> QED BY <2>4, <2>5
  <1> HIDE DEF T
  <1>3. n \in T
    BY <1>1, <1>2, Induction
  <1> QED BY <1>3 DEF T

(***************************************************************************)
(* The index of a sequence of texts.                                       *)
(***************************************************************************)
LEMMA Ends ==
  ASSUME NEW S, NEW texts \in Seq(Seq(S))
  PROVE  \E end \in [0..Len(texts) -> Nat] :
           /\ end[0] = 0
           /\ \A i \in 1..Len(texts) : end[i] = end[i - 1] + Len(texts[i])
           /\ Offsets(texts) = [i \in 1..(Len(texts) + 1) |-> end[i - 1]]
  <1> DEFINE n == Len(texts)
             len(i) == IF i \in 1..n THEN Len(texts[i]) ELSE 0
             step == [i \in Nat |-> [x \in Nat |-> x + len(i)]]
             Ending(e) == e = [r \in 0..n |-> IF r = 0 THEN 0 ELSE e[r - 1] + Len(texts[r])]
  <1>1. n \in Nat /\ \A i \in 1..n : texts[i] \in Seq(S) /\ Len(texts[i]) \in Nat
    BY ElementOfSeq, LenProperties
  <1>2. \A x \in Nat, i \in Nat : step[i][x] = x + len(i) /\ len(i) \in Nat
    BY <1>1
  <1>3. step \in [Nat -> [Nat -> Nat]]
    BY <1>2
  <1> HIDE DEF step
  <1>4. PICK f \in [0..n -> Nat] : Iterates(f, 0, step, n)
    <2>1. 0 \in Nat
      OBVIOUS
    <2> HIDE DEF n
    <2> QED BY <1>1, <1>3, <2>1, Recursion, Zenon
  <1>5. \A i \in 1..n : f[i - 1] \in Nat /\ f[i] = f[i - 1] + Len(texts[i])
    <2> TAKE i \in 1..n
    <2>1. i - 1 \in 0..n /\ i \in Nat
      BY <1>1
    <2> QED BY <1>2, <1>4, <2>1 DEF Iterates
  <1>6. Ending(f)
    <2>1. f = [r \in 0..n |-> f[r]]
      OBVIOUS
    <2>2. \A r \in 0..n : f[r] = IF r = 0 THEN 0 ELSE f[r - 1] + Len(texts[r])
      BY <1>4, <1>5 DEF Iterates
    <2> QED BY <2>1, <2>2
  <1> DEFINE e == CHOOSE x : Ending(x)
  <1>7. Ending(e)
    BY <1>6
  <1>8. Offsets(texts) = [i \in 1..(n + 1) |-> e[i - 1]]
    BY DEF Offsets
  <1> HIDE DEF e
  <1>9. \A r \in 0..n : e[r] = IF r = 0 THEN 0 ELSE e[r - 1] + Len(texts[r])
    BY <1>7
  <1>10. \A r \in Nat : r \in 0..n => e[r] = f[r]
    <2> DEFINE T == {r \in Nat : r \in 0..n => e[r] = f[r]}
    <2>1. 0 \in T
      BY <1>4, <1>9 DEF Iterates
    <2>2. ASSUME NEW r \in Nat, r \in T PROVE r + 1 \in T
      <3> SUFFICES ASSUME r + 1 \in 0..n PROVE e[r + 1] = f[r + 1]
        OBVIOUS
      <3>1. r \in 0..n /\ r + 1 \in 1..n /\ (r + 1) - 1 = r /\ r + 1 # 0
        BY <1>1
      <3> QED BY <1>5, <1>9, <2>2, <3>1
    <2> HIDE DEF T
    <2>3. Nat \subseteq T
      BY <2>1, <2>2, Induction
    <2> QED BY <2>3 DEF T
  <1>11. Offsets(texts) = [i \in 1..(n + 1) |-> f[i - 1]]
    <2>1. \A i \in 1..(n + 1) : e[i - 1] = f[i - 1]
      BY <1>1, <1>10
    <2> QED BY <1>8, <2>1
  <1> QED BY <1>4, <1>5, <1>11 DEF Iterates

LEMMA Flattened ==
  ASSUME NEW S, NEW texts \in Seq(Seq(S))
  PROVE  \E flat \in [0..Len(texts) -> Seq(S)] :
           /\ flat[0] = <<>>
           /\ \A i \in 1..Len(texts) : flat[i] = flat[i - 1] \o texts[i]
           /\ FlattenSeq(texts) = flat[Len(texts)]
  <1> DEFINE n == Len(texts)
             text(i) == IF i \in 1..n THEN texts[i] ELSE <<>>
             step == [i \in Nat |-> [x \in Seq(S) |-> x \o text(i)]]
             Joining(e) == e = [r \in 1..n |-> IF r = 1 THEN texts[r] ELSE e[r - 1] \o texts[r]]
  <1>1. n \in Nat /\ \A i \in 1..n : texts[i] \in Seq(S)
    BY ElementOfSeq, LenProperties
  <1>2. \A x \in Seq(S), i \in Nat : step[i][x] = x \o text(i) /\ text(i) \in Seq(S)
    BY <1>1
  <1>3. step \in [Nat -> [Seq(S) -> Seq(S)]]
    BY <1>2
  <1> HIDE DEF step
  <1>4. PICK f \in [0..n -> Seq(S)] : Iterates(f, <<>>, step, n)
    <2>1. <<>> \in Seq(S)
      OBVIOUS
    <2> HIDE DEF n
    <2> QED BY <1>1, <1>3, <2>1, Recursion, Zenon
  <1>5. \A i \in 1..n : f[i - 1] \in Seq(S) /\ f[i] = f[i - 1] \o texts[i]
    <2> TAKE i \in 1..n
    <2>1. i - 1 \in 0..n /\ i \in Nat
      BY <1>1
    <2>2. f[i - 1] \in Seq(S)
      BY <2>1
    <2> QED BY <1>2, <1>4, <2>1, <2>2 DEF Iterates
  <1>6. CASE n = 0
    <2>1. texts = <<>>
      BY <1>6
    <2>2. FlattenSeq(texts) = texts
      BY <1>6 DEF FlattenSeq
    <2> QED BY <1>4, <1>5, <1>6, <2>1, <2>2 DEF Iterates
  <1>7. CASE n # 0
    <2> DEFINE g == [r \in 1..n |-> f[r]]
               e == CHOOSE x : Joining(x)
    <2>1. Joining(g)
      <3>1. ASSUME NEW r \in 1..n PROVE f[r] = IF r = 1 THEN texts[r] ELSE g[r - 1] \o texts[r]
        <4>1. CASE r = 1
          <5>1. f[1] = <<>> \o texts[1] /\ texts[1] \in Seq(S)
            <6>1. 1 \in 1..n /\ 1 - 1 = 0
              BY <4>1
            <6> QED BY <1>1, <1>4, <1>5, <6>1 DEF Iterates
          <5>2. <<>> \o texts[1] = texts[1]
            BY <5>1, ConcatEmptySeq
          <5> QED BY <4>1, <5>1, <5>2
        <4>2. CASE r # 1
          <5>1. r - 1 \in 1..n
            BY <1>1, <4>2
          <5>2. g[r - 1] = f[r - 1]
            BY <5>1
          <5> QED BY <1>5, <4>2, <5>2
        <4> QED BY <4>1, <4>2
      <3> QED BY <3>1
    <2>2. Joining(e)
      BY <2>1
    <2>3. FlattenSeq(texts) = e[n]
      BY <1>7 DEF FlattenSeq
    <2> HIDE DEF e
    <2>4. \A r \in 1..n : e[r] = IF r = 1 THEN texts[r] ELSE e[r - 1] \o texts[r]
      BY <2>2
    <2>5. \A r \in 1..n : f[r] = IF r = 1 THEN texts[r] ELSE f[r - 1] \o texts[r]
      <3> TAKE r \in 1..n
      <3>1. r # 1 => r - 1 \in 1..n
        BY <1>1
      <3> QED BY <2>1, <3>1
    <2>6. \A r \in Nat : r \in 1..n => e[r] = f[r]
      <3> DEFINE T == {r \in Nat : r \in 1..n => e[r] = f[r]}
      <3>1. 0 \in T
        OBVIOUS
      <3>2. ASSUME NEW r \in Nat, r \in T PROVE r + 1 \in T
        <4> SUFFICES ASSUME r + 1 \in 1..n PROVE e[r + 1] = f[r + 1]
          OBVIOUS
        <4>1. CASE r = 0
          BY <2>4, <2>5, <4>1
        <4>2. CASE r # 0
          <5>1. r \in 1..n /\ (r + 1) - 1 = r /\ r + 1 # 1
            BY <1>1, <4>2
          <5> QED BY <2>4, <2>5, <3>2, <5>1
        <4> QED BY <4>1, <4>2
      <3> HIDE DEF T
      <3>3. Nat \subseteq T
        BY <3>1, <3>2, Induction
      <3> QED BY <3>3 DEF T
    <2>7. FlattenSeq(texts) = f[n]
      BY <1>1, <1>7, <2>3, <2>6
    <2> QED BY <1>4, <1>5, <2>7 DEF Iterates
  <1> QED BY <1>6, <1>7

\* The index holds the texts one after the other, and knows where each begins.
Represents(ix, texts) ==
  /\ ix.text \in Seq(Characters) /\ ix.offsets \in Seq(Nat)
  /\ Len(ix.offsets) = Len(texts) + 1
  /\ ix.offsets[1] = 0 /\ ix.offsets[Len(texts) + 1] = Len(ix.text)
  /\ \A r \in 1..Len(texts) :
       /\ ix.offsets[r + 1] = ix.offsets[r] + Len(texts[r])
       /\ \A i \in 1..Len(texts[r]) : ix.text[ix.offsets[r] + i] = texts[r][i]

LEMMA Joining ==
  ASSUME NEW S, NEW a \in Seq(S), NEW b \in Seq(S)
  PROVE  /\ a \o b \in Seq(S) /\ Len(a \o b) = Len(a) + Len(b)
         /\ \A i \in 1..Len(a) : (a \o b)[i] = a[i]
         /\ \A i \in 1..Len(b) : (a \o b)[Len(a) + i] = b[i]
  OBVIOUS

LEMMA Within ==
  ASSUME NEW lo \in Nat, NEW m \in Nat, NEW hi \in Nat, lo + m <= hi, NEW i \in 1..m
  PROVE  lo + i \in 1..hi
  OBVIOUS

LEMMA EmptyRepresents == Represents(EmptyIndex, <<>>)
  BY DEF Represents, EmptyIndex

\* No record begins before an earlier one.
LEMMA Monotone ==
  ASSUME NEW ix, NEW texts \in Seq(Seq(Characters)), Represents(ix, texts)
  PROVE  /\ Len(texts) \in Nat /\ \A r \in 1..Len(texts) : Len(texts[r]) \in Nat
         /\ \A i \in 1..(Len(texts) + 1) : ix.offsets[i] \in Nat
         /\ \A i, j \in 1..(Len(texts) + 1) : i <= j => ix.offsets[i] <= ix.offsets[j]
  <1> DEFINE n == Len(texts)
             Upto(j) == j \in 1..(n + 1) => \A i \in 1..j : ix.offsets[i] <= ix.offsets[j]
             T == {j \in Nat : Upto(j)}
  <1>1. n \in Nat /\ \A r \in 1..n : texts[r] \in Seq(Characters) /\ Len(texts[r]) \in Nat
    BY ElementOfSeq, LenProperties
  <1>2. \A i \in 1..(n + 1) : ix.offsets[i] \in Nat
    BY ElementOfSeq DEF Represents
  <1>3. \A r \in 1..n : ix.offsets[r + 1] = ix.offsets[r] + Len(texts[r])
    BY DEF Represents
  <1>4. 0 \in T
    OBVIOUS
  <1>5. ASSUME NEW j \in Nat, j \in T PROVE j + 1 \in T
    <2>1. ASSUME j + 1 \in 1..(n + 1), NEW i \in 1..(j + 1)
          PROVE  ix.offsets[i] <= ix.offsets[j + 1]
      <3>1. ix.offsets[j + 1] \in Nat
        BY <1>2, <2>1
      <3>2. CASE i = j + 1
        BY <3>1, <3>2
      <3>3. CASE i # j + 1
        <4>1. j \in 1..n /\ j \in 1..(n + 1) /\ i \in 1..j /\ i \in 1..(n + 1)
          BY <1>1, <2>1, <3>3
        <4>2. ix.offsets[i] <= ix.offsets[j]
          BY <1>5, <4>1
        <4>3. ix.offsets[j + 1] = ix.offsets[j] + Len(texts[j]) /\ Len(texts[j]) \in Nat
          BY <1>1, <1>3, <4>1
        <4> QED BY <1>2, <4>1, <4>2, <4>3
      <3> QED BY <3>2, <3>3
    <2>2. Upto(j + 1)
      BY <2>1
    <2> HIDE DEF Upto
    <2> QED BY <2>2
  <1> HIDE DEF T
  <1>6. Nat \subseteq T
    BY <1>4, <1>5, Induction
  <1>7. \A i, j \in 1..(n + 1) : i <= j => ix.offsets[i] <= ix.offsets[j]
    <2> TAKE i, j \in 1..(n + 1)
    <2>1. j \in T /\ (i <= j => i \in 1..j)
      BY <1>1, <1>6
    <2> QED BY <2>1 DEF T
  <1> QED BY <1>1, <1>2, <1>7

\* RecordText yields the texts that the index was made of.
LEMMA RecordTexts ==
  ASSUME NEW ix, NEW texts \in Seq(Seq(Characters)), Represents(ix, texts)
  PROVE  /\ Records(ix) = 1..Len(texts)
         /\ \A r \in 1..Len(texts) : RecordText(ix, r) = texts[r]
  <1>1. Records(ix) = 1..Len(texts)
    BY Monotone DEF Records, Represents
  <1>2. ASSUME NEW r \in 1..Len(texts) PROVE RecordText(ix, r) = texts[r]
    <2> DEFINE lo == ix.offsets[r]
               m == Len(texts[r])
               record == SubSeq(ix.text, lo + 1, lo + m)
    <2>1. /\ lo \in Nat /\ m \in Nat /\ ix.offsets[r + 1] = lo + m
          /\ texts[r] \in Seq(Characters)
      <3>1. r \in 1..(Len(texts) + 1)
        BY Monotone
      <3>2. lo \in Nat /\ m \in Nat
        BY <3>1, Monotone
      <3>3. texts[r] \in Seq(Characters)
        BY ElementOfSeq
      <3> QED BY <3>2, <3>3 DEF Represents
    <2>2. lo + m <= Len(ix.text) /\ Len(ix.text) \in Nat
      <3>1. r + 1 \in 1..(Len(texts) + 1) /\ Len(texts) + 1 \in 1..(Len(texts) + 1)
            /\ r + 1 <= Len(texts) + 1
        BY Monotone
      <3>2. ix.offsets[r + 1] <= ix.offsets[Len(texts) + 1]
        BY <3>1, Monotone
      <3> QED BY <2>1, <3>2, LenProperties DEF Represents
    <2>3. ix.text \in Seq(Characters) /\ \A i \in 1..m : ix.text[lo + i] = texts[r][i]
      BY DEF Represents
    <2> HIDE DEF lo, m
    <2>4. /\ record \in Seq(Characters) /\ Len(record) = m
          /\ \A i \in 1..m : record[i] = ix.text[lo + i]
      <3>1. lo + 1 \in 1..(Len(ix.text) + 1) /\ lo + m \in lo..Len(ix.text)
        BY <2>1, <2>2
      <3>2. \A i \in (lo + 1)..(lo + m) : ix.text[i] \in Characters
        BY <2>1, <2>2, <2>3, ElementOfSeq
      <3> QED BY <2>1, <2>2, <2>3, <3>1, <3>2
    <2>5. record = texts[r]
      <3>1. Len(texts[r]) = m
        BY DEF m
      <3>2. \A i \in 1..m : record[i] = texts[r][i]
        BY <2>3, <2>4
      <3> QED BY <2>1, <2>4, <3>1, <3>2, SeqEqual
    <2> QED BY <2>1, <2>5 DEF RecordText, lo
  <1> QED BY <1>1, <1>2

\* append_to_search_index keeps the index that of its records.
LEMMA Extending ==
  ASSUME NEW ix, NEW texts \in Seq(Seq(Characters)), NEW text \in Seq(Characters),
         Represents(ix, texts)
  PROVE  /\ Append(texts, text) \in Seq(Seq(Characters))
         /\ Represents(Extend(ix, text), Append(texts, text))
  <1> DEFINE n == Len(texts)
             new == Extend(ix, text)
             longer == Append(texts, text)
  <1>1. /\ n \in Nat /\ longer \in Seq(Seq(Characters)) /\ Len(longer) = n + 1
        /\ \A r \in 1..n : longer[r] = texts[r]
        /\ longer[n + 1] = text
    BY LenProperties
  <1>2. /\ ix.text \in Seq(Characters) /\ ix.offsets \in Seq(Nat) /\ Len(ix.offsets) = n + 1
        /\ ix.offsets[1] = 0 /\ ix.offsets[n + 1] = Len(ix.text)
        /\ Len(ix.text) \in Nat /\ Len(text) \in Nat
    BY LenProperties DEF Represents
  <1>3. /\ new.text = ix.text \o text /\ new.text \in Seq(Characters)
        /\ Len(new.text) = Len(ix.text) + Len(text)
        /\ \A i \in 1..Len(ix.text) : new.text[i] = ix.text[i]
        /\ \A i \in 1..Len(text) : new.text[Len(ix.text) + i] = text[i]
    <2>1. new.text = ix.text \o text
      BY DEF Extend
    <2> HIDE DEF new
    <2>2. PICK head \in Seq(Characters) : head = ix.text
      BY <1>2
    <2>3. PICK whole : whole = head \o text
      OBVIOUS
    <2>4. /\ whole \in Seq(Characters) /\ Len(whole) = Len(head) + Len(text)
          /\ \A i \in 1..Len(head) : whole[i] = head[i]
          /\ \A i \in 1..Len(text) : whole[Len(head) + i] = text[i]
      BY <2>3, Joining
    <2> QED BY <2>1, <2>2, <2>3, <2>4
  <1>4. /\ new.offsets \in Seq(Nat) /\ Len(new.offsets) = n + 2
        /\ \A r \in 1..(n + 1) : new.offsets[r] = ix.offsets[r]
        /\ new.offsets[n + 2] = Len(ix.text) + Len(text)
    <2>1. new.offsets = Append(ix.offsets, Len(ix.text) + Len(text))
      BY <1>3 DEF Extend
    <2>2. Len(ix.text) + Len(text) \in Nat
      BY <1>2
    <2> HIDE DEF new
    <2> QED BY <1>1, <1>2, <2>1, <2>2, AppendProperties
  <1> HIDE DEF new, longer
  <1>5. ASSUME NEW r \in 1..(n + 1)
        PROVE  /\ new.offsets[r + 1] = new.offsets[r] + Len(longer[r])
               /\ \A i \in 1..Len(longer[r]) : new.text[new.offsets[r] + i] = longer[r][i]
    <2>1. CASE r = n + 1
      <3>1. r + 1 = n + 2 /\ longer[r] = text /\ new.offsets[r] = Len(ix.text)
        BY <1>1, <1>2, <1>4, <2>1
      <3> QED BY <1>3, <1>4, <3>1
    <2>2. CASE r # n + 1
      <3>1. r \in 1..n /\ r \in 1..(n + 1) /\ r + 1 \in 1..(n + 1) /\ n + 1 \in 1..(n + 1)
            /\ r + 1 <= n + 1
        BY <1>1, <2>2
      <3>2. /\ longer[r] = texts[r] /\ new.offsets[r] = ix.offsets[r]
            /\ new.offsets[r + 1] = ix.offsets[r + 1]
        BY <1>1, <1>4, <3>1
      <3>3. ix.offsets[r + 1] = ix.offsets[r] + Len(texts[r])
        BY <3>1 DEF Represents
      <3>4. ix.offsets[r] \in Nat /\ Len(texts[r]) \in Nat /\ ix.offsets[r + 1] <= Len(ix.text)
        BY <1>2, <3>1, Monotone
      <3>5. ASSUME NEW i \in 1..Len(texts[r])
            PROVE  new.text[ix.offsets[r] + i] = texts[r][i]
        <4>1. ix.offsets[r] + i \in 1..Len(ix.text)
          <5>1. ix.offsets[r] + Len(texts[r]) <= Len(ix.text)
            BY <3>3, <3>4
          <5>2. Len(ix.text) \in Nat
            BY <1>2
          <5> QED BY <3>4, <5>1, <5>2, Within
        <4>2. ix.text[ix.offsets[r] + i] = texts[r][i]
          BY <3>1 DEF Represents
        <4> QED BY <1>3, <4>1, <4>2
      <3> QED BY <3>2, <3>3, <3>5
    <2> QED BY <2>1, <2>2
  <1>6. new.offsets[1] = 0 /\ new.offsets[Len(longer) + 1] = Len(new.text)
    <2>1. 1 \in 1..(n + 1) /\ Len(longer) + 1 = n + 2
      BY <1>1
    <2> QED BY <1>2, <1>3, <1>4, <2>1
  <1>7. Represents(new, longer)
    <2>1. Len(new.offsets) = Len(longer) + 1 /\ 1..Len(longer) = 1..(n + 1)
      BY <1>1, <1>4
    <2>2. \A r \in 1..Len(longer) :
            /\ new.offsets[r + 1] = new.offsets[r] + Len(longer[r])
            /\ \A i \in 1..Len(longer[r]) : new.text[new.offsets[r] + i] = longer[r][i]
      BY <1>5, <2>1
    <2> QED BY <1>3, <1>4, <1>6, <2>1, <2>2 DEF Represents
  <1> QED BY <1>1, <1>7 DEF new, longer

\* So does an index that is built at once.
LEMMA AppendedRepresents ==
  ASSUME NEW texts \in Seq(Seq(Characters))
  PROVE  Represents(Appended(texts), texts)
  <1> DEFINE n == Len(texts)
  <1>1. n \in Nat /\ \A i \in 1..n : texts[i] \in Seq(Characters) /\ Len(texts[i]) \in Nat
    BY ElementOfSeq, LenProperties
  <1>2. PICK end \in [0..n -> Nat] :
          /\ end[0] = 0
          /\ \A i \in 1..n : end[i] = end[i - 1] + Len(texts[i])
          /\ Offsets(texts) = [i \in 1..(n + 1) |-> end[i - 1]]
    BY Ends
  <1>3. PICK flat \in [0..n -> Seq(Characters)] :
          /\ flat[0] = <<>>
          /\ \A i \in 1..n : flat[i] = flat[i - 1] \o texts[i]
          /\ FlattenSeq(texts) = flat[n]
    BY Flattened
  <1> DEFINE Holds(m) == /\ Len(flat[m]) = end[m]
                         /\ \A r \in 1..m : end[r] <= end[m]
                         /\ \A r \in 1..m : \A i \in 1..Len(texts[r]) :
                              flat[m][end[r - 1] + i] = texts[r][i]
             T == {m \in Nat : m \in 0..n => Holds(m)}
  <1>4. 0 \in T
    BY <1>2, <1>3
  <1>5. ASSUME NEW m \in Nat, m \in T PROVE m + 1 \in T
    <2>1. ASSUME m + 1 \in 0..n PROVE Holds(m + 1)
      <3>1. m \in 0..n /\ m + 1 \in 1..n /\ (m + 1) - 1 = m /\ Holds(m)
        BY <1>1, <1>5, <2>1
      <3>2. /\ flat[m] \in Seq(Characters) /\ texts[m + 1] \in Seq(Characters)
            /\ end[m] \in Nat /\ Len(texts[m + 1]) \in Nat /\ end[m + 1] \in Nat
            /\ Len(flat[m]) = end[m]
        BY <1>1, <1>2, <1>3, <2>1, <3>1
      <3>3. /\ end[m + 1] = end[m] + Len(texts[m + 1])
            /\ flat[m + 1] = flat[m] \o texts[m + 1]
        <4>1. /\ end[m + 1] = end[(m + 1) - 1] + Len(texts[m + 1])
              /\ flat[m + 1] = flat[(m + 1) - 1] \o texts[m + 1]
          BY <1>2, <1>3, <3>1
        <4> QED BY <3>1, <4>1
      <3>4. /\ Len(flat[m + 1]) = end[m + 1]
            /\ \A i \in 1..end[m] : flat[m + 1][i] = flat[m][i]
            /\ \A i \in 1..Len(texts[m + 1]) : flat[m + 1][end[m] + i] = texts[m + 1][i]
        <4> DEFINE x == flat[m]
                   y == texts[m + 1]
        <4>1. x \in Seq(Characters) /\ y \in Seq(Characters)
          BY <3>2
        <4> HIDE DEF x, y
        <4>2. /\ Len(x \o y) = Len(x) + Len(y)
              /\ \A i \in 1..Len(x) : (x \o y)[i] = x[i]
              /\ \A i \in 1..Len(y) : (x \o y)[Len(x) + i] = y[i]
          BY <4>1, Joining
        <4> QED BY <3>2, <3>3, <4>2 DEF x, y
      <3>5. ASSUME NEW r \in 1..(m + 1) PROVE end[r] <= end[m + 1]
        <4>1. CASE r = m + 1
          BY <3>2, <4>1
        <4>2. CASE r # m + 1
          <5>1. r \in 1..m /\ r \in 0..n
            BY <1>1, <3>1, <4>2
          <5>2. end[r] <= end[m] /\ end[r] \in Nat
            BY <3>1, <5>1
          <5> QED BY <3>2, <3>3, <5>2
        <4> QED BY <4>1, <4>2
      <3>6. ASSUME NEW r \in 1..(m + 1), NEW i \in 1..Len(texts[r])
            PROVE  flat[m + 1][end[r - 1] + i] = texts[r][i]
        <4>1. CASE r = m + 1
          BY <3>1, <3>4, <4>1
        <4>2. CASE r # m + 1
          <5>1. r \in 1..m /\ r \in 1..n /\ r - 1 \in 0..n
            BY <1>1, <3>1, <4>2
          <5>2. end[r] = end[r - 1] + Len(texts[r]) /\ end[r] <= end[m] /\ end[r - 1] \in Nat
            BY <1>2, <3>1, <5>1
          <5>3. end[r - 1] + i \in 1..end[m]
            <6>1. Len(texts[r]) \in Nat /\ end[m] \in Nat
              BY <1>1, <3>2, <5>1
            <6>2. end[r - 1] + Len(texts[r]) <= end[m]
              BY <5>2
            <6> QED BY <5>2, <6>1, <6>2, Within
          <5>4. flat[m][end[r - 1] + i] = texts[r][i]
            BY <3>1, <5>1
          <5> QED BY <3>4, <5>3, <5>4
        <4> QED BY <4>1, <4>2
      <3> QED BY <3>4, <3>5, <3>6
    <2> HIDE DEF Holds
    <2> QED BY <2>1
  <1> HIDE DEF T
  <1>6. Nat \subseteq T
    BY <1>4, <1>5, Induction
  <1>7. Holds(n)
    <2>1. n \in T /\ n \in 0..n
      BY <1>1, <1>6
    <2> HIDE DEF Holds
    <2> QED BY <2>1 DEF T
  <1> DEFINE ix == Appended(texts)
  <1>8. /\ ix.text = flat[n] /\ ix.text \in Seq(Characters)
        /\ ix.offsets = [i \in 1..(n + 1) |-> end[i - 1]]
    <2>1. n \in 0..n
      BY <1>1
    <2> QED BY <1>2, <1>3, <2>1 DEF Appended
  <1> HIDE DEF ix
  <1>9. /\ ix.offsets \in Seq(Nat) /\ Len(ix.offsets) = n + 1
        /\ \A i \in 1..(n + 1) : ix.offsets[i] = end[i - 1]
    <2>1. \A i \in 1..(n + 1) : end[i - 1] \in Nat
      <3> TAKE i \in 1..(n + 1)
      <3>1. i - 1 \in 0..n
        BY <1>1
      <3> QED BY <3>1
    <2> QED BY <1>1, <1>8, <2>1
  <1>10. ix.offsets[1] = 0 /\ ix.offsets[n + 1] = Len(ix.text)
    <2>1. 1 \in 1..(n + 1) /\ n + 1 \in 1..(n + 1) /\ 1 - 1 = 0 /\ (n + 1) - 1 = n
      BY <1>1
    <2>2. ix.offsets[1] = end[1 - 1] /\ ix.offsets[n + 1] = end[(n + 1) - 1]
      BY <1>9, <2>1
    <2> QED BY <1>2, <1>7, <1>8, <2>1, <2>2
  <1>11. ASSUME NEW r \in 1..n
         PROVE  /\ ix.offsets[r + 1] = ix.offsets[r] + Len(texts[r])
                /\ \A i \in 1..Len(texts[r]) : ix.text[ix.offsets[r] + i] = texts[r][i]
    <2>1. r \in 1..(n + 1) /\ r + 1 \in 1..(n + 1) /\ (r + 1) - 1 = r
      BY <1>1
    <2>2. ix.offsets[r] = end[r - 1] /\ ix.offsets[r + 1] = end[(r + 1) - 1]
      BY <1>9, <2>1
    <2> QED BY <1>2, <1>7, <1>8, <2>1, <2>2
  <1>12. Represents(ix, texts)
    BY <1>8, <1>9, <1>10, <1>11 DEF Represents
  <1> QED BY <1>12 DEF ix

LEMMA BuildRepresents ==
  ASSUME NEW texts \in Seq(Seq(Characters))
  PROVE  Represents(Build(texts), texts)
  <1>1. Build(texts).text = Appended(texts).text /\ Build(texts).offsets = Appended(texts).offsets
    BY DEF Build, Appended
  <1> QED BY <1>1, AppendedRepresents DEF Represents

(***************************************************************************)
(* The packets of a file and their texts.                                  *)
(***************************************************************************)
LEMMA SetOfAppended ==
  ASSUME NEW S, NEW seq \in Seq(S), NEW x \in S
  PROVE  ToSet(Append(seq, x)) = ToSet(seq) \cup {x}
  <1>1. /\ ToSet(Append(seq, x)) = {Append(seq, x)[i] : i \in 1..(Len(seq) + 1)}
        /\ ToSet(seq) = {seq[i] : i \in 1..Len(seq)}
    BY DEF ToSet
  <1>2. /\ \A i \in 1..Len(seq) : Append(seq, x)[i] = seq[i]
        /\ Append(seq, x)[Len(seq) + 1] = x
    OBVIOUS
  <1> QED BY <1>1, <1>2

LEMMA ReadsPackets ==
  ASSUME NEW file \in Seq(Pieces), ReadFile(file).ok
  PROVE  ReadFile(file).packets \in Seq(Packets)
  <1> DEFINE packets == ReadFile(file).packets
  <1>1. packets \in Seq(Pieces) /\ ToSet(packets) \subseteq Packets
    BY ReadsAll DEF Held
  <1> HIDE DEF packets
  <1>2. \A i \in 1..Len(packets) : packets[i] \in ToSet(packets)
    BY <1>1 DEF ToSet
  <1>3. packets \in Seq(Packets)
    BY <1>1, <1>2
  <1> QED BY <1>3 DEF packets

LEMMA UpTo ==
  ASSUME NEW file \in Seq(Pieces), NEW i \in 0..Len(file),
         Cuts(file) \cap 1..i = {}, i < Len(file) => i + 1 \in Cuts(file)
  PROVE  UpToCut(file) = SubSeq(file, 1, i)
  <1> DEFINE End(j) == /\ Cuts(file) \cap 1..j = {}
                       /\ j < Len(file) => j + 1 \in Cuts(file)
             end == CHOOSE j \in 0..Len(file) : End(j)
  <1>1. Len(file) \in Nat
    BY LenProperties
  <1>2. end \in 0..Len(file) /\ End(end)
    OBVIOUS
  <1>3. UpToCut(file) = SubSeq(file, 1, end)
    BY DEF UpToCut
  <1> HIDE DEF end
  <1>4. ~(end < i)
    <2> SUFFICES ASSUME end < i PROVE FALSE
      OBVIOUS
    <2>1. end + 1 \in 1..i /\ end < Len(file)
      BY <1>1, <1>2
    <2> QED BY <1>2, <2>1
  <1>5. ~(i < end)
    <2> SUFFICES ASSUME i < end PROVE FALSE
      OBVIOUS
    <2>1. i + 1 \in 1..end /\ i < Len(file)
      BY <1>1, <1>2
    <2> QED BY <1>2, <2>1
  <1>6. end = i
    BY <1>1, <1>2, <1>4, <1>5
  <1> QED BY <1>3, <1>6

\* A file that nothing cuts short is read as it is.
LEMMA WholeFile ==
  ASSUME NEW file \in Seq(Pieces), Cuts(file) = {}
  PROVE  ReadFile(file).packets = file /\ ReadFile(file).ok
  <1>1. Len(file) \in 0..Len(file) /\ SubSeq(file, 1, Len(file)) = file
    OBVIOUS
  <1> QED BY <1>1, UpTo DEF ReadFile

\* Whatever a file ends with, it can only be read if nothing before is cut short.
LEMMA LastPiece ==
  ASSUME NEW file \in Seq(Pieces), NEW x \in Pieces, ReadFile(Append(file, x)).ok
  PROVE  /\ ReadFile(file).ok /\ ReadFile(file).packets = file
         /\ ReadFile(Append(file, x)).packets = IF x \in Packets THEN Append(file, x) ELSE file
  <1> DEFINE longer == Append(file, x)
  <1>1. /\ longer \in Seq(Pieces) /\ Len(longer) = Len(file) + 1 /\ Len(file) \in Nat
        /\ \A i \in 1..Len(file) : longer[i] = file[i]
        /\ longer[Len(file) + 1] = x
    OBVIOUS
  <1>2. \A i \in Cuts(longer) : i = Len(file) + 1
    BY <1>1 DEF ReadFile
  <1> HIDE DEF longer
  <1>3. Cuts(file) = {}
    <2> SUFFICES ASSUME NEW i \in Cuts(file) PROVE FALSE
      OBVIOUS
    <2>1. i \in 1..Len(file) /\ file[i] \in Parts
      BY DEF Cuts
    <2>2. i \in Cuts(longer) /\ i # Len(file) + 1
      BY <1>1, <2>1 DEF Cuts
    <2> QED BY <1>2, <2>2
  <1>4. ReadFile(file).ok /\ ReadFile(file).packets = file
    BY <1>3, WholeFile
  <1>5. CASE x \in Packets
    <2>1. Cuts(longer) = {}
      <3> SUFFICES ASSUME NEW i \in Cuts(longer) PROVE FALSE
        OBVIOUS
      <3>1. x \in Parts
        BY <1>1, <1>2 DEF Cuts
      <3> QED BY <1>5, <3>1, PiecesAssumption
    <2>2. ReadFile(longer).packets = longer
      BY <1>1, <2>1, WholeFile
    <2> QED BY <1>4, <1>5, <2>2 DEF longer
  <1>6. CASE x \notin Packets
    <2>1. Len(file) + 1 \in Cuts(longer)
      BY <1>1, <1>6 DEF Cuts, Pieces
    <2>2. Cuts(longer) \cap 1..Len(file) = {}
      BY <1>1, <1>2
    <2>3. UpToCut(longer) = SubSeq(longer, 1, Len(file))
      BY <1>1, <2>1, <2>2, UpTo
    <2>4. SubSeq(longer, 1, Len(file)) = file
      BY DEF longer
    <2>5. ReadFile(longer).packets = file
      BY <2>3, <2>4 DEF ReadFile
    <2> QED BY <1>4, <1>6, <2>5 DEF longer
  <1> QED BY <1>5, <1>6

LEMMA TextsType ==
  ASSUME NEW packets \in Seq(Packets), NEW k \in KindSets
  PROVE  /\ Texts(packets, k) \in Seq(Seq(Characters))
         /\ Len(Texts(packets, k)) = Len(packets) /\ Len(packets) \in Nat
         /\ \A r \in 1..Len(packets) : Texts(packets, k)[r] = TextOf[k][packets[r]]
         /\ \A p \in Packets : /\ TextOf[k][p] \in Seq(Characters)
                               /\ Texts(Append(packets, p), k) = Append(Texts(packets, k), TextOf[k][p])
  <1> DEFINE texts == Texts(packets, k)
  <1>1. Len(packets) \in Nat /\ \A r \in 1..Len(packets) : packets[r] \in Packets
    BY LenProperties, ElementOfSeq
  <1>2. \A p \in Packets : TextOf[k][p] \in Seq(Characters)
    BY TextsAssumption
  <1>3. texts = [r \in 1..Len(packets) |-> TextOf[k][packets[r]]]
    BY DEF Texts
  <1>4. /\ texts \in Seq(Seq(Characters)) /\ Len(texts) = Len(packets)
        /\ \A r \in 1..Len(packets) : texts[r] = TextOf[k][packets[r]]
    BY <1>1, <1>2, <1>3
  <1>5. ASSUME NEW p \in Packets
        PROVE  Texts(Append(packets, p), k) = Append(texts, TextOf[k][p])
    <2> DEFINE more == Append(packets, p)
               n == Len(packets)
               left == Texts(more, k)
               right == Append(texts, TextOf[k][p])
    <2>1. /\ Len(more) = n + 1 /\ DOMAIN more = 1..(n + 1) /\ more[n + 1] = p
          /\ \A r \in 1..n : more[r] = packets[r]
      OBVIOUS
    <2>2. left = [r \in 1..(n + 1) |-> TextOf[k][more[r]]]
      BY <2>1 DEF Texts
    <2>3. /\ \A r \in 1..n : right[r] = texts[r]
          /\ right[n + 1] = TextOf[k][p]
          /\ DOMAIN right = 1..(n + 1) /\ right = [r \in 1..(n + 1) |-> right[r]]
      BY <1>1, <1>2, <1>4
    <2>4. \A r \in 1..(n + 1) : TextOf[k][more[r]] = right[r]
      <3> TAKE r \in 1..(n + 1)
      <3>1. CASE r = n + 1
        BY <2>1, <2>3, <3>1
      <3>2. CASE r # n + 1
        <4>1. r \in 1..n
          BY <1>1, <3>2
        <4> QED BY <1>4, <2>1, <2>3, <4>1
      <3> QED BY <3>1, <3>2
    <2> HIDE DEF left, right, more
    <2>5. left = right
      BY <2>2, <2>3, <2>4
    <2> QED BY <2>5 DEF left, right, more
  <1> QED BY <1>1, <1>2, <1>4, <1>5

LEMMA NoTexts == ASSUME NEW k PROVE Texts(<<>>, k) = <<>>
  BY DEF Texts

\* The packets of the partition in their order.
LEMMA SortedHas ==
  ASSUME NEW S, S \subseteq Packets
  PROVE  Sorted(S) \in Seq(S) /\ ToSet(Sorted(S)) = S
  <1> DEFINE n == Len(Order)
             step == [i \in Nat |-> [x \in Seq(S) |->
                       IF i \in 1..n /\ Order[i] \in S THEN Append(x, Order[i]) ELSE x]]
             Keeping(e) == e = [i \in 0..n |-> IF i = 0 THEN <<>>
                                              ELSE IF Order[i] \in S THEN Append(e[i - 1], Order[i])
                                              ELSE e[i - 1]]
  <1>1. n \in Nat /\ Order \in Seq(Packets) /\ <<>> \in Seq(S)
    BY PiecesAssumption, LenProperties
  <1>2. \A x \in Seq(S), i \in Nat :
          /\ step[i][x] = IF i \in 1..n /\ Order[i] \in S THEN Append(x, Order[i]) ELSE x
          /\ step[i][x] \in Seq(S)
    OBVIOUS
  <1>3. step \in [Nat -> [Seq(S) -> Seq(S)]]
    BY <1>2
  <1> HIDE DEF step
  <1>4. PICK f \in [0..n -> Seq(S)] : Iterates(f, <<>>, step, n)
    <2> HIDE DEF n
    <2> QED BY <1>1, <1>3, Recursion, Zenon
  <1>5. Keeping(f)
    <2>1. f = [i \in 0..n |-> f[i]]
      OBVIOUS
    <2>2. ASSUME NEW i \in 0..n
          PROVE  f[i] = IF i = 0 THEN <<>>
                        ELSE IF Order[i] \in S THEN Append(f[i - 1], Order[i])
                        ELSE f[i - 1]
      <3>1. CASE i = 0
        BY <1>4, <3>1 DEF Iterates
      <3>2. CASE i # 0
        <4>1. i \in 1..n /\ i \in Nat /\ i - 1 \in 0..n
          BY <1>1, <3>2
        <4>2. f[i - 1] \in Seq(S) /\ f[i] = step[i][f[i - 1]]
          BY <1>4, <4>1 DEF Iterates
        <4> QED BY <1>2, <3>2, <4>1, <4>2
      <3> QED BY <3>1, <3>2
    <2> QED BY <2>1, <2>2
  <1> DEFINE e == CHOOSE x : Keeping(x)
  <1>6. Keeping(e)
    BY <1>5
  <1>7. Sorted(S) = e[n]
    BY DEF Sorted
  <1> HIDE DEF e
  <1>8. \A i \in 0..n : e[i] = IF i = 0 THEN <<>>
                               ELSE IF Order[i] \in S THEN Append(e[i - 1], Order[i])
                               ELSE e[i - 1]
    BY <1>6
  <1> DEFINE Upto(i) == i \in 0..n => /\ e[i] \in Seq(S)
                                      /\ ToSet(e[i]) = {Order[j] : j \in 1..i} \cap S
             T == {i \in Nat : Upto(i)}
  <1>9. Upto(0)
    <2>1. e[0] = <<>>
      BY <1>1, <1>8
    <2>2. ToSet(<<>>) = {}
      BY DEF ToSet
    <2> QED BY <2>1, <2>2
  <1>10. ASSUME NEW i \in Nat, Upto(i) PROVE Upto(i + 1)
    <2> SUFFICES ASSUME i + 1 \in 0..n
                 PROVE  /\ e[i + 1] \in Seq(S)
                        /\ ToSet(e[i + 1]) = {Order[j] : j \in 1..(i + 1)} \cap S
      OBVIOUS
    <2>1. /\ i \in 0..n /\ i + 1 # 0 /\ (i + 1) - 1 = i
          /\ e[i] \in Seq(S) /\ ToSet(e[i]) = {Order[j] : j \in 1..i} \cap S
      BY <1>1, <1>10
    <2>2. e[i + 1] = IF Order[i + 1] \in S THEN Append(e[i], Order[i + 1]) ELSE e[i]
      BY <1>8, <2>1
    <2>3. {Order[j] : j \in 1..(i + 1)} = {Order[j] : j \in 1..i} \cup {Order[i + 1]}
      OBVIOUS
    <2>4. CASE Order[i + 1] \in S
      <3>1. ToSet(Append(e[i], Order[i + 1])) = ToSet(e[i]) \cup {Order[i + 1]}
        BY <2>1, <2>4, SetOfAppended
      <3> QED BY <2>1, <2>2, <2>3, <2>4, <3>1
    <2>5. CASE Order[i + 1] \notin S
      BY <2>1, <2>2, <2>3, <2>5
    <2> QED BY <2>4, <2>5
  <1>11. Upto(n)
    <2> HIDE DEF Upto
    <2>1. 0 \in T /\ \A i \in Nat : i \in T => i + 1 \in T
      BY <1>9, <1>10
    <2> HIDE DEF T
    <2>2. Nat \subseteq T
      BY <2>1, Induction
    <2> QED BY <1>1, <2>2 DEF T
  <1>12. {Order[j] : j \in 1..n} = Packets
    BY DEF Packets, ToSet
  <1>13. n \in 0..n
    BY <1>1
  <1>14. ToSet(e[n]) = S /\ e[n] \in Seq(S)
    BY <1>11, <1>12, <1>13
  <1> QED BY <1>7, <1>14

(***************************************************************************)
(* The index in memory and the sidecar.                                    *)
(***************************************************************************)

\* The index in memory is that of the packets of the hot file.
IndexInv ==
  session = "up" /\ ReadFile(hot).ok => Represents(index, Texts(ReadFile(hot).packets, kinds))

\* The sidecar was appended to or built, from the packets that are in the partition.
SidecarInv ==
  sidecar # NoSidecar =>
    \E texts \in {Texts(Sorted(partition), sidecar.kinds)} :
      sidecar.index \in {Appended(texts), Build(texts)}

SearchInv == IndexInv /\ SidecarInv

LEMMA InitSearch == Init => SearchInv
  <1> SUFFICES ASSUME Init PROVE SearchInv
    OBVIOUS
  <1>1. hot = <<>> /\ index = EmptyIndex /\ sidecar = NoSidecar
    BY DEF Init
  <1>2. Cuts(<<>>) = {} /\ <<>> \in Seq(Pieces)
    BY DEF Cuts
  <1>3. ReadFile(hot).packets = <<>>
    BY <1>1, <1>2, WholeFile
  <1> QED BY <1>1, <1>3, NoTexts, EmptyRepresents DEF SearchInv, IndexInv, SidecarInv

LEMMA StoreSearch ==
  ASSUME FilesInv, SearchInv, NEW p \in Packets, Store(p)
  PROVE  SearchInv'
  <1>1. /\ hot' = Append(hot, p) /\ index' = Extend(index, TextOf[kinds][p])
        /\ session = "up" /\ UNCHANGED <<partition, sidecar, kinds, session>>
    BY DEF Store
  <1>2. hot \in Seq(Pieces) /\ p \in Pieces /\ kinds \in KindSets
    BY DEF FilesInv, TypeOK, Pieces
  <1>3. ASSUME ReadFile(hot').ok
        PROVE  Represents(index', Texts(ReadFile(hot').packets, kinds))
    <2>1. /\ ReadFile(hot).ok /\ ReadFile(hot).packets = hot
          /\ ReadFile(hot').packets = Append(hot, p)
      BY <1>1, <1>2, <1>3, LastPiece
    <2>2. hot \in Seq(Packets)
      BY <1>2, <2>1, ReadsPackets
    <2>3. Represents(index, Texts(hot, kinds))
      BY <1>1, <2>1 DEF SearchInv, IndexInv
    <2>4. /\ Texts(hot, kinds) \in Seq(Seq(Characters)) /\ TextOf[kinds][p] \in Seq(Characters)
          /\ Texts(Append(hot, p), kinds) = Append(Texts(hot, kinds), TextOf[kinds][p])
      BY <1>2, <2>2, TextsType
    <2>5. Represents(Extend(index, TextOf[kinds][p]), Append(Texts(hot, kinds), TextOf[kinds][p]))
      BY <2>3, <2>4, Extending
    <2> QED BY <1>1, <2>1, <2>4, <2>5
  <1>4. IndexInv'
    BY <1>1, <1>3 DEF IndexInv
  <1>5. SidecarInv'
    BY <1>1 DEF SearchInv, SidecarInv
  <1> QED BY <1>4, <1>5 DEF SearchInv

LEMMA CutSearch ==
  ASSUME FilesInv, SearchInv, NEW part \in Parts, CutShort(part),
         UNCHANGED <<index, partition, sidecar, kinds, session>>
  PROVE  SearchInv'
  <1>1. hot' = Append(hot, part)
    BY DEF CutShort
  <1>2. hot \in Seq(Pieces) /\ part \in Pieces /\ part \notin Packets
    BY PiecesAssumption DEF FilesInv, Pieces
  <1>3. ASSUME ReadFile(hot').ok
        PROVE  ReadFile(hot).ok /\ ReadFile(hot').packets = ReadFile(hot).packets
    BY <1>1, <1>2, <1>3, LastPiece
  <1>4. IndexInv'
    BY <1>3 DEF SearchInv, IndexInv
  <1>5. SidecarInv'
    BY DEF SearchInv, SidecarInv
  <1> QED BY <1>4, <1>5 DEF SearchInv

LEMMA MergeSearch ==
  ASSUME FilesInv, SearchInv, NEW k \in KindSets, MergeFile(compacting, k)
  PROVE  SidecarInv'
  <1> DEFINE packets == ReadFile(compacting).packets
  <1>1. CASE packets = <<>>
    <2>1. ToSet(packets) = {}
      BY <1>1 DEF ToSet
    <2>2. UNCHANGED <<partition, sidecar>>
      BY <1>1, <2>1 DEF MergeFile
    <2> QED BY <2>2 DEF SearchInv, SidecarInv
  <1>2. CASE packets # <<>>
    <2>1. sidecar' = [kinds |-> k, index |-> Appended(Texts(Sorted(partition'), k))]
      BY <1>2 DEF MergeFile
    <2>2. sidecar'.kinds = k /\ sidecar'.index = Appended(Texts(Sorted(partition'), k))
      BY <2>1
    <2>3. sidecar'.index = Appended(Texts(Sorted(partition'), sidecar'.kinds))
      BY <2>2
    <2> QED BY <2>3 DEF SidecarInv
  <1> QED BY <1>1, <1>2

LEMMA NextSearch ==
  ASSUME FilesInv, SearchInv, [Next]_vars
  PROVE  SearchInv'
  <1>1. ASSUME NEW p \in Packets, Accept(p) PROVE SearchInv'
    BY <1>1, StoreSearch DEF Accept
  <1>2. ASSUME NEW p \in Packets, AppendFails(p) PROVE SearchInv'
    <2>1. CASE RotationFails(p)
      BY <2>1, StoreSearch DEF RotationFails
    <2>2. ASSUME NEW part \in Parts, WriteFails(p, part) PROVE SearchInv'
      BY <2>2, CutSearch DEF WriteFails
    <2> QED BY <1>2, <2>1, <2>2 DEF AppendFails
  <1>3. CASE Rotate
    <2>1. hot' = <<>> /\ index' = EmptyIndex /\ UNCHANGED <<partition, sidecar>>
      BY <1>3 DEF Rotate
    <2>2. Cuts(<<>>) = {} /\ <<>> \in Seq(Pieces)
      BY DEF Cuts
    <2>3. ReadFile(hot').packets = <<>>
      BY <2>1, <2>2, WholeFile
    <2>4. IndexInv'
      BY <2>1, <2>3, NoTexts, EmptyRepresents DEF IndexInv
    <2> QED BY <2>1, <2>4 DEF SearchInv, SidecarInv
  <1>4. CASE Merge
    <2>1. MergeFile(compacting, kinds) /\ kinds \in KindSets
          /\ UNCHANGED <<hot, index, kinds, session>>
      BY <1>4 DEF Merge, FilesInv, TypeOK
    <2>2. SidecarInv'
      BY <2>1, MergeSearch
    <2> QED BY <2>1, <2>2 DEF SearchInv, IndexInv
  <1>5. CASE Rebuild
    <2>1. /\ sidecar' = [kinds |-> kinds, index |-> Build(Texts(Sorted(partition), kinds))]
          /\ UNCHANGED <<hot, index, partition, kinds, session>>
      BY <1>5 DEF Rebuild
    <2>2. sidecar'.kinds = kinds /\ sidecar'.index = Build(Texts(Sorted(partition), kinds))
      BY <2>1
    <2>3. sidecar'.index = Build(Texts(Sorted(partition'), sidecar'.kinds))
      BY <2>1, <2>2
    <2>4. SidecarInv'
      BY <2>3 DEF SidecarInv
    <2> QED BY <2>1, <2>4 DEF SearchInv, IndexInv
  <1>6. CASE Crash
    BY <1>6 DEF Crash, SearchInv, IndexInv, SidecarInv
  <1>7. ASSUME NEW k \in KindSets, Open(k) PROVE SearchInv'
    <2>1. /\ kinds' = k /\ hot' = hot /\ ReadFile(hot).ok /\ MergeFile(compacting, k)
          /\ index' = Build(Texts(ReadFile(hot).packets, k))
      BY <1>7 DEF Open
    <2>2. ReadFile(hot).packets \in Seq(Packets)
      BY <2>1, ReadsPackets DEF FilesInv
    <2>3. Represents(index', Texts(ReadFile(hot).packets, k))
      BY <2>1, <2>2, TextsType, BuildRepresents
    <2>4. IndexInv'
      BY <2>1, <2>3 DEF IndexInv
    <2> QED BY <2>1, <2>4, MergeSearch DEF SearchInv
  <1>8. CASE UNCHANGED vars
    BY <1>8 DEF vars, SearchInv, IndexInv, SidecarInv
  <1> QED BY <1>1, <1>2, <1>3, <1>4, <1>5, <1>6, <1>7, <1>8 DEF Next

\* A load takes no step that the files do not know.
LEMMA LoadSteps ==
  ASSUME FilesInv, LoadInv, [LoadNext]_<<vars, loadVars>>
  PROVE  [Next]_vars
  <1>1. ASSUME Inserting, dump.records[next] # Bad PROVE dump.records[next] \in Packets
    <2>1. dump \in Dumps /\ batchEnd \in 0..Count /\ next \in 1..batchEnd
      BY <1>1 DEF LoadInv, Inserting
    <2>2. next \in 1..Count
      BY <2>1, DumpType
    <2> QED BY <1>1, <2>1, <2>2, DumpType
  <1>2. CASE StartLoad \/ ReadBatch \/ SkipRecord \/ Beside \/ UNCHANGED <<vars, loadVars>>
    BY <1>2 DEF StartLoad, ReadBatch, SkipRecord, Beside
  <1>3. CASE InsertRecord
    BY <1>1, <1>3 DEF InsertRecord, Next
  <1>4. CASE InsertFails
    BY <1>1, <1>4 DEF InsertFails, Next
  <1> QED BY <1>2, <1>3, <1>4 DEF LoadNext

LEMMA SearchAlways == LoadSpec => [](FilesInv /\ LoadInv /\ SearchInv)
  <1>1. LoadInit => FilesInv /\ LoadInv /\ SearchInv
    BY InitLoad, InitSearch DEF LoadInit
  <1>2. FilesInv /\ LoadInv /\ SearchInv /\ [LoadNext]_<<vars, loadVars>>
          => (FilesInv /\ LoadInv /\ SearchInv)'
    BY NextLoad, LoadSteps, NextSearch
  <1> QED BY <1>1, <1>2, PTL DEF LoadSpec

(***************************************************************************)
(* Occurrences of a term.                                                  *)
(***************************************************************************)
Terms == Seq(Characters \ {Space}) \ {<<>>}

LEMMA TermType ==
  ASSUME NEW term \in Terms
  PROVE  /\ term \in Seq(Characters) /\ Len(term) \in Nat /\ Len(term) >= 1
         /\ \A i \in 1..Len(term) : term[i] # Space
  <1>1. term \in Seq(Characters \ {Space}) /\ term # <<>>
    BY DEF Terms
  <1>2. Len(term) \in Nat /\ \A i \in 1..Len(term) : term[i] \in Characters \ {Space}
    BY <1>1, ElementOfSeq, LenProperties
  <1> QED BY <1>1, <1>2

LEMMA PieceType ==
  ASSUME NEW text \in Seq(Characters), NEW at \in Nat, NEW length \in Nat,
         at >= 1, at + length - 1 <= Len(text)
  PROVE  /\ Piece(text, at, length) \in Seq(Characters)
         /\ Len(Piece(text, at, length)) = length
         /\ \A i \in 1..length : Piece(text, at, length)[i] = text[at + i - 1]
  <1>1. Len(text) \in Nat /\ \A i \in 1..Len(text) : text[i] \in Characters
    BY ElementOfSeq, LenProperties
  <1>2. at \in Int /\ at + length - 1 \in Int
    OBVIOUS
  <1>3. \A i \in at..(at + length - 1) : text[i] \in Characters
    BY <1>1
  <1>4. /\ Piece(text, at, length) \in Seq(Characters)
        /\ Len(Piece(text, at, length))
             = IF at <= at + length - 1 THEN at + length - 1 - at + 1 ELSE 0
        /\ \A i \in 1..(at + length - 1 - at + 1) : Piece(text, at, length)[i] = text[at + i - 1]
    BY <1>2, <1>3, SubSeqProperties DEF Piece
  <1> QED BY <1>4

LEMMA OccursAt ==
  ASSUME NEW text \in Seq(Characters), NEW term \in Terms, NEW at \in Nat
  PROVE  at \in Occurrences(text, term) <=>
           /\ at >= 1 /\ at + Len(term) - 1 <= Len(text)
           /\ \A i \in 1..Len(term) : text[at + i - 1] = term[i]
  <1> DEFINE fits == at >= 1 /\ at + Len(term) - 1 <= Len(text)
             piece == Piece(text, at, Len(term))
  <1>1. Len(term) \in Nat /\ Len(term) >= 1 /\ Len(text) \in Nat /\ term \in Seq(Characters)
    BY TermType, LenProperties
  <1>2. fits => at \in DOMAIN text
    BY <1>1
  <1>3. at \in Occurrences(text, term) <=> fits /\ piece = term
    BY <1>2 DEF Occurrences
  <1>4. ASSUME fits
        PROVE  piece = term <=> \A i \in 1..Len(term) : text[at + i - 1] = term[i]
    <2>1. /\ piece \in Seq(Characters) /\ Len(piece) = Len(term)
          /\ \A i \in 1..Len(term) : piece[i] = text[at + i - 1]
      BY <1>1, <1>4, PieceType
    <2> HIDE DEF piece
    <2>2. piece = term <=> \A i \in 1..Len(term) : piece[i] = term[i]
      BY <1>1, <2>1, SeqEqual
    <2> QED BY <2>1, <2>2
  <1> QED BY <1>3, <1>4

\* What occurs in a record occurs in the whole text, within the record's bounds.
LEMMA OccursInRecord ==
  ASSUME NEW ix, NEW texts \in Seq(Seq(Characters)), Represents(ix, texts),
         NEW r \in 1..Len(texts), NEW term \in Terms, NEW at \in Nat
  PROVE  at \in Occurrences(texts[r], term) <=>
           /\ at >= 1
           /\ ix.offsets[r] + at \in Occurrences(ix.text, term)
           /\ ix.offsets[r] + at - 1 + Len(term) <= ix.offsets[r + 1]
  <1> DEFINE lo == ix.offsets[r]
             m == Len(texts[r])
             l == Len(term)
             all == Len(ix.text)
  <1>1. l \in Nat /\ l >= 1
    BY TermType
  <1>2. /\ lo \in Nat /\ m \in Nat /\ texts[r] \in Seq(Characters)
        /\ ix.offsets[r + 1] = lo + m /\ all \in Nat /\ lo + m <= all
        /\ ix.text \in Seq(Characters)
    <2>1. Len(texts) \in Nat /\ r \in 1..(Len(texts) + 1) /\ r + 1 \in 1..(Len(texts) + 1)
          /\ Len(texts) + 1 \in 1..(Len(texts) + 1) /\ r + 1 <= Len(texts) + 1
      BY Monotone
    <2>2. ix.offsets[r + 1] <= ix.offsets[Len(texts) + 1]
      BY <2>1, Monotone
    <2>3. lo \in Nat /\ m \in Nat
      BY <2>1, Monotone
    <2>4. ix.offsets[r + 1] = lo + m /\ ix.offsets[Len(texts) + 1] = all
      BY DEF Represents
    <2> QED BY <2>2, <2>3, <2>4, ElementOfSeq, LenProperties DEF Represents
  <1>3. \A i \in 1..m : ix.text[lo + i] = texts[r][i]
    BY DEF Represents
  <1>4. at \in Occurrences(texts[r], term) <=>
          at >= 1 /\ at + l - 1 <= m /\ \A i \in 1..l : texts[r][at + i - 1] = term[i]
    BY <1>2, OccursAt
  <1>5. lo + at \in Occurrences(ix.text, term) <=>
          /\ lo + at >= 1 /\ lo + at + l - 1 <= all
          /\ \A i \in 1..l : ix.text[lo + at + i - 1] = term[i]
    <2>1. lo + at \in Nat
      BY <1>2
    <2> QED BY <1>2, <2>1, OccursAt
  <1> HIDE DEF lo, m, l, all
  <1>6. ASSUME at >= 1, at + l - 1 <= m, NEW i \in 1..l
        PROVE  ix.text[lo + at + i - 1] = texts[r][at + i - 1]
    <2>1. at + i - 1 \in 1..m /\ lo + (at + i - 1) = lo + at + i - 1
      BY <1>1, <1>2, <1>6
    <2> QED BY <1>3, <2>1
  <1>7. lo + at - 1 + l <= lo + m <=> at + l - 1 <= m
    BY <1>1, <1>2
  <1>8. at >= 1 /\ at + l - 1 <= m => lo + at >= 1 /\ lo + at + l - 1 <= all
    BY <1>1, <1>2
  <1>9. CASE at >= 1 /\ at + l - 1 <= m
    <2>1. (\A i \in 1..l : texts[r][at + i - 1] = term[i])
            <=> \A i \in 1..l : ix.text[lo + at + i - 1] = term[i]
      BY <1>6, <1>9
    <2>2. at \in Occurrences(texts[r], term) <=> lo + at \in Occurrences(ix.text, term)
      BY <1>4, <1>5, <1>8, <1>9, <2>1
    <2> QED BY <1>2, <1>7, <1>9, <2>2 DEF lo, l
  <1>10. CASE ~(at >= 1 /\ at + l - 1 <= m)
    BY <1>2, <1>4, <1>7, <1>10 DEF lo, l
  <1> QED BY <1>9, <1>10

LEMMA QueryTerms == ASSUME NEW terms \in Queries PROVE terms \subseteq Terms
  BY TextsAssumption DEF Terms

(***************************************************************************)
(* Searching a partition.                                                  *)
(***************************************************************************)

\* The grams of a term are among those of a text that it occurs in, unless it is
\* a single character.
LEMMA GramsOfTerm ==
  ASSUME NEW text \in Seq(Characters), NEW term \in Terms, Len(term) # 1,
         NEW at \in Nat, at \in Occurrences(text, term)
  PROVE  TermGrams(term) \subseteq TextGrams(text)
  <1>1. /\ term \in Seq(Characters) /\ Len(term) \in Nat /\ Len(term) >= 1
        /\ \A i \in 1..Len(term) : term[i] # Space
        /\ Len(text) \in Nat
    BY TermType, LenProperties
  <1>2. /\ at >= 1 /\ at + Len(term) - 1 <= Len(text)
        /\ \A i \in 1..Len(term) : text[at + i - 1] = term[i]
    BY OccursAt
  <1> SUFFICES ASSUME NEW gram \in TermGrams(term) PROVE gram \in TextGrams(text)
    OBVIOUS
  <1>3. PICK length \in {2, 3}, b \in DOMAIN term :
          b + length - 1 <= Len(term) /\ gram = Piece(term, b, length)
    BY DEF TermGrams
  <1> DEFINE c == at + b - 1
  <1>4. /\ b \in Nat /\ b >= 1 /\ length \in Nat /\ c \in Nat /\ c >= 1
        /\ c + length - 1 <= Len(text) /\ c \in DOMAIN text
    BY <1>1, <1>2, <1>3, SMTT(30)
  <1>5. \A i \in 1..length : text[c + i - 1] = term[b + i - 1] /\ b + i - 1 \in 1..Len(term)
    <2> TAKE i \in 1..length
    <2>1. b + i - 1 \in 1..Len(term) /\ at + (b + i - 1) - 1 = c + i - 1
      <3>1. i \in Nat /\ i >= 1 /\ i <= length /\ length \in Nat /\ b \in Nat /\ b >= 1
        BY <1>4
      <3>2. b + length - 1 <= Len(term) /\ Len(term) \in Nat
        BY <1>1, <1>3
      <3> QED BY <3>1, <3>2
    <2> QED BY <1>2, <2>1
  <1> HIDE DEF c
  <1>6. Piece(text, c, length) = gram
    <2>1. /\ Piece(text, c, length) \in Seq(Characters) /\ Len(Piece(text, c, length)) = length
          /\ \A i \in 1..length : Piece(text, c, length)[i] = text[c + i - 1]
      BY <1>4, PieceType
    <2>2. /\ gram \in Seq(Characters) /\ Len(gram) = length
          /\ \A i \in 1..length : gram[i] = term[b + i - 1]
      <3>1. /\ Piece(term, b, length) \in Seq(Characters) /\ Len(Piece(term, b, length)) = length
            /\ \A i \in 1..length : Piece(term, b, length)[i] = term[b + i - 1]
        <4>1. term \in Seq(Characters) /\ b \in Nat /\ length \in Nat /\ b >= 1
              /\ b + length - 1 <= Len(term)
          BY <1>1, <1>3, <1>4
        <4> QED BY <4>1, PieceType, Zenon
      <3> QED BY <1>3, <3>1
    <2>3. \A i \in 1..length : Piece(text, c, length)[i] = gram[i]
      BY <1>5, <2>1, <2>2
    <2> QED BY <2>1, <2>2, <2>3, SeqEqual
  <1>7. IsWord(text, c, length)
    <2> SUFFICES ASSUME NEW i \in c..(c + length - 1) PROVE text[i] # Space
      BY DEF IsWord
    <2>1. i - c + 1 \in 1..length /\ c + (i - c + 1) - 1 = i
      BY <1>4
    <2>2. text[i] = term[b + (i - c + 1) - 1] /\ b + (i - c + 1) - 1 \in 1..Len(term)
      BY <1>5, <2>1
    <2> QED BY <1>1, <2>2
  <1> QED BY <1>3, <1>4, <1>6, <1>7 DEF TextGrams

\* The Bloom filter of a sidecar, appended to or built, passes every packet it has.
LEMMA BloomPasses ==
  ASSUME NEW texts \in Seq(Seq(Characters)), NEW ix \in {Appended(texts), Build(texts)},
         NEW r \in 1..Len(texts), NEW terms \in SUBSET Terms,
         \A term \in terms : Len(term) # 1, TextMatches(texts[r], terms)
  PROVE  BloomMayMatch(ix, terms)
  <1> SUFFICES ASSUME NEW term \in terms PROVE TermGrams(term) \subseteq ix.grams
    BY DEF BloomMayMatch
  <1>1. PICK at \in Occurrences(texts[r], term) : TRUE
    BY DEF TextMatches
  <1>2. at \in Nat /\ texts[r] \in Seq(Characters) /\ term \in Terms /\ Len(term) # 1
    BY <1>1, ElementOfSeq DEF Occurrences
  <1>3. CASE ix = Appended(texts)
    <2>1. TermGrams(term) \subseteq TextGrams(texts[r])
      BY <1>1, <1>2, GramsOfTerm
    <2>2. ix.grams = UNION {TextGrams(texts[i]) : i \in DOMAIN texts} /\ r \in DOMAIN texts
      BY <1>3 DEF Appended
    <2> QED BY <2>1, <2>2
  <1>4. CASE ix = Build(texts)
    <2>1. Represents(ix, texts)
      BY <1>4, BuildRepresents
    <2>2. ix.grams = TextGrams(FlattenSeq(texts)) /\ ix.text = FlattenSeq(texts)
      BY <1>4 DEF Build, Appended
    <2>3. ix.offsets[r] + at \in Occurrences(ix.text, term)
      BY <1>1, <1>2, <2>1, OccursInRecord
    <2>4. ix.offsets[r] + at \in Nat /\ ix.text \in Seq(Characters)
      <3>1. r \in 1..(Len(texts) + 1)
        BY LenProperties
      <3>2. ix.offsets[r] \in Nat
        BY <2>1, <3>1, Monotone
      <3>3. ix.text \in Seq(Characters)
        BY <2>1 DEF Represents
      <3>4. at \in Nat
        BY <1>2
      <3> HIDE DEF Represents
      <3> QED BY <3>2, <3>3, <3>4
    <2>5. TermGrams(term) \subseteq TextGrams(ix.text)
      BY <1>2, <2>3, <2>4, GramsOfTerm
    <2> QED BY <2>2, <2>5
  <1> QED BY <1>3, <1>4

(***************************************************************************)
(* Searching the hot file.                                                 *)
(***************************************************************************)

\* find_iter passes over an occurrence only behind one that it has found.
LEMMA PassedOver ==
  ASSUME NEW top \in Nat, NEW occurrences \in SUBSET (1..top), NEW length \in Nat
  PROVE  /\ WithoutOverlap(occurrences, length) \subseteq occurrences
         /\ \A at \in occurrences \ WithoutOverlap(occurrences, length) :
              \E before \in WithoutOverlap(occurrences, length) :
                before < at /\ at < before + length
  <1> DEFINE Free(at, X) == \A b \in occurrences : b < at /\ at < b + length => b \notin X
             step == [i \in Nat |-> [X \in SUBSET occurrences |->
                       IF i \in occurrences /\ Free(i, X) THEN X \cup {i} ELSE X]]
             Right(e) == e = [at \in occurrences |->
                                \A b \in occurrences : b < at /\ at < b + length => ~e[b]]
  <1>1. \A X \in SUBSET occurrences, i \in Nat :
          /\ step[i][X] = IF i \in occurrences /\ Free(i, X) THEN X \cup {i} ELSE X
          /\ step[i][X] \in SUBSET occurrences
    OBVIOUS
  <1>2. step \in [Nat -> [SUBSET occurrences -> SUBSET occurrences]]
    BY <1>1
  <1> HIDE DEF step
  <1>3. PICK f \in [0..top -> SUBSET occurrences] : Iterates(f, {}, step, top)
    <2>1. {} \in SUBSET occurrences
      OBVIOUS
    <2> QED BY <1>2, <2>1, Recursion, Zenon
  <1> DEFINE Upto(m) == m \in 0..top =>
                          /\ f[m] \subseteq 1..m
                          /\ \A at \in occurrences : at <= m => (at \in f[m] <=> Free(at, f[m]))
             T == {m \in Nat : Upto(m)}
  <1>4. Upto(0)
    BY <1>3 DEF Iterates
  <1>5. ASSUME NEW m \in Nat, Upto(m) PROVE Upto(m + 1)
    <2>1. ASSUME m + 1 \in 0..top
          PROVE  /\ f[m + 1] \subseteq 1..(m + 1)
                 /\ \A at \in occurrences :
                      at <= m + 1 => (at \in f[m + 1] <=> Free(at, f[m + 1]))
      <3>1. m \in 0..top /\ m + 1 \in 1..top /\ (m + 1) - 1 = m
        BY <2>1
      <3>2. /\ f[m] \in SUBSET occurrences /\ f[m] \subseteq 1..m
            /\ \A at \in occurrences : at <= m => (at \in f[m] <=> Free(at, f[m]))
        BY <1>5, <3>1
      <3>3. f[m + 1] = IF m + 1 \in occurrences /\ Free(m + 1, f[m])
                       THEN f[m] \cup {m + 1} ELSE f[m]
        <4>1. f[m + 1] = step[m + 1][f[(m + 1) - 1]]
          BY <1>3, <3>1 DEF Iterates
        <4>2. f[m + 1] = step[m + 1][f[m]] /\ m + 1 \in Nat
          BY <3>1, <4>1
        <4> HIDE DEF Free
        <4> QED BY <1>1, <3>2, <4>2, Zenon
      <3>4. f[m + 1] \subseteq 1..(m + 1)
        BY <3>2, <3>3
      <3>5. ASSUME NEW at \in occurrences, at <= m + 1
            PROVE  at \in f[m + 1] <=> Free(at, f[m + 1])
        <4>1. at \in Nat /\ (at = m + 1 \/ at <= m)
          BY <3>5
        <4>2. \A b \in occurrences : b < at => (b \in f[m + 1] <=> b \in f[m])
          BY <3>3, <4>1
        <4>3. Free(at, f[m + 1]) <=> Free(at, f[m])
          BY <4>2
        <4>4. CASE at = m + 1
          <5>1. at \notin f[m]
            BY <3>2, <4>4
          <5> HIDE DEF Free
          <5> QED BY <3>3, <4>3, <4>4, <5>1
        <4>5. CASE at <= m
          <5>1. at \in f[m + 1] <=> at \in f[m]
            BY <3>3, <4>1, <4>5
          <5> HIDE DEF Free
          <5> QED BY <3>2, <4>3, <4>5, <5>1
        <4> QED BY <4>1, <4>4, <4>5
      <3> QED BY <3>4, <3>5
    <2> QED BY <2>1
  <1>6. Upto(top)
    <2> HIDE DEF Upto
    <2>1. 0 \in T /\ \A m \in Nat : m \in T => m + 1 \in T
      BY <1>4, <1>5
    <2> HIDE DEF T
    <2>2. Nat \subseteq T
      BY <2>1, Induction
    <2> QED BY <2>2 DEF T
  <1>7. \A at \in occurrences : at \in f[top] <=> Free(at, f[top])
    BY <1>6
  <1> DEFINE g == [at \in occurrences |-> at \in f[top]]
             e == CHOOSE x : Right(x)
  <1>8. Right(g)
    <2>1. ASSUME NEW at \in occurrences
          PROVE  (at \in f[top])
                   = \A b \in occurrences : b < at /\ at < b + length => ~g[b]
      <3>1. \A b \in occurrences : g[b] = (b \in f[top])
        OBVIOUS
      <3> HIDE DEF g
      <3>2. (at \in f[top]) <=> \A b \in occurrences : b < at /\ at < b + length => ~g[b]
        BY <1>7, <3>1, Zenon
      <3>3. CASE at \in f[top]
        BY <3>2, <3>3
      <3>4. CASE at \notin f[top]
        <4>1. PICK b \in occurrences : b < at /\ at < b + length /\ g[b]
          BY <3>2, <3>4, Zenon
        <4>2. ~\A c \in occurrences : c < at /\ at < c + length => ~g[c]
          BY <4>1, Zenon
        <4>3. (at \in f[top]) = FALSE
          BY <3>4
        <4> QED BY <4>2, <4>3
      <3> QED BY <3>3, <3>4
    <2> QED BY <2>1
  <1>9. Right(e)
    BY <1>8
  <1>10. WithoutOverlap(occurrences, length) = {at \in occurrences : e[at]}
    BY DEF WithoutOverlap
  <1> HIDE DEF e
  <1>11. \A at \in occurrences :
           e[at] = \A b \in occurrences : b < at /\ at < b + length => ~e[b]
    BY <1>9
  <1>12. ASSUME NEW at \in occurrences, ~e[at]
         PROVE  \E b \in {i \in occurrences : e[i]} : b < at /\ at < b + length
    BY <1>11, <1>12, Zenon
  <1> QED BY <1>10, <1>12

\* search_index_event_at finds the record that a position lies in.
LEMMA EventAtIs ==
  ASSUME NEW ix, NEW texts \in Seq(Seq(Characters)), Represents(ix, texts),
         NEW r \in 1..Len(texts), NEW position \in Nat,
         ix.offsets[r] <= position, position < ix.offsets[r + 1]
  PROVE  EventAt(ix, position) = r
  <1> DEFINE n == Len(texts)
  <1>1. /\ n \in Nat /\ \A i \in 1..(n + 1) : ix.offsets[i] \in Nat
        /\ \A i, j \in 1..(n + 1) : i <= j => ix.offsets[i] <= ix.offsets[j]
    BY Monotone
  <1>2. DOMAIN ix.offsets = 1..(n + 1)
    BY DEF Represents
  <1>3. \A i \in 1..(n + 1) : ix.offsets[i] <= position <=> i <= r
    <2> TAKE i \in 1..(n + 1)
    <2>1. r \in 1..(n + 1) /\ r + 1 \in 1..(n + 1) /\ (i <= r \/ r + 1 <= i)
      BY <1>1
    <2>2. i <= r => ix.offsets[i] <= ix.offsets[r]
      BY <1>1, <2>1
    <2>3. r + 1 <= i => ix.offsets[r + 1] <= ix.offsets[i]
      BY <1>1, <2>1
    <2>4. /\ ix.offsets[i] \in Nat /\ ix.offsets[r] \in Nat /\ ix.offsets[r + 1] \in Nat
          /\ i \in Nat /\ r \in Nat
      BY <1>1, <2>1
    <2>5. CASE i <= r
      BY <2>2, <2>4, <2>5, SMTT(30)
    <2>6. CASE r + 1 <= i
      BY <2>3, <2>4, <2>6
    <2> QED BY <2>1, <2>5, <2>6
  <1>4. {i \in DOMAIN ix.offsets : ix.offsets[i] <= position} = 1..r
    BY <1>1, <1>2, <1>3
  <1>5. Cardinality(1..r) = r
    BY FS_Interval
  <1> QED BY <1>4, <1>5 DEF EventAt

\* Every position of the text lies in a record.
LEMMA EventExists ==
  ASSUME NEW ix, NEW texts \in Seq(Seq(Characters)), Represents(ix, texts),
         NEW position \in Nat, position < Len(ix.text)
  PROVE  \E r \in 1..Len(texts) : ix.offsets[r] <= position /\ position < ix.offsets[r + 1]
  <1> DEFINE n == Len(texts)
             Behind == {i \in 1..(n + 1) : ix.offsets[i] > position}
  <1>1. n \in Nat /\ \A i \in 1..(n + 1) : ix.offsets[i] \in Nat
    BY Monotone
  <1>2. ix.offsets[1] = 0 /\ ix.offsets[n + 1] = Len(ix.text)
    BY DEF Represents
  <1>3. n + 1 \in Behind
    BY <1>1, <1>2
  <1>4. Behind \in SUBSET Nat /\ Behind # {}
    BY <1>1, <1>3
  <1>5. PICK i \in Behind : \A j \in Behind : i <= j
    BY <1>4, Least
  <1>6. i # 1 /\ i \in 1..(n + 1)
    BY <1>2, <1>5
  <1>7. i - 1 \in 1..n /\ i - 1 \in 1..(n + 1) /\ (i - 1) + 1 = i /\ ~(i <= i - 1)
    BY <1>1, <1>6
  <1>8. ~(ix.offsets[i - 1] > position) /\ position < ix.offsets[i]
    BY <1>1, <1>5, <1>6, <1>7
  <1>9. ix.offsets[i - 1] <= position
    <2>1. ix.offsets[i - 1] \in Nat
      BY <1>1, <1>7
    <2> QED BY <1>8, <2>1
  <1> QED BY <1>7, <1>8, <1>9

LEMMA FoundOnly ==
  ASSUME NEW text \in Seq(Characters), NEW term \in Terms
  PROVE  /\ Found(text, term) \subseteq Occurrences(text, term)
         /\ \A at \in Occurrences(text, term) \ Found(text, term) :
              \E before \in Found(text, term) : before < at /\ at < before + Len(term)
  <1>1. Found(text, term) = WithoutOverlap(Occurrences(text, term), Len(term))
    BY DEF Found
  <1>2. Occurrences(text, term) \in SUBSET (1..Len(text)) /\ Len(text) \in Nat /\ Len(term) \in Nat
    BY TermType, LenProperties DEF Occurrences
  <1> DEFINE all == Occurrences(text, term)
             length == Len(term)
             top == Len(text)
  <1>3. all \in SUBSET (1..top) /\ top \in Nat /\ length \in Nat
    BY <1>2
  <1> HIDE DEF all, length, top
  <1>4. /\ WithoutOverlap(all, length) \subseteq all
        /\ \A at \in all \ WithoutOverlap(all, length) :
             \E before \in WithoutOverlap(all, length) : before < at /\ at < before + length
    BY <1>3, PassedOver
  <1> QED BY <1>1, <1>4 DEF all, length

\* A record is a match for a term iff an occurrence that was found fits in it.
LEMMA TermMatchesAre ==
  ASSUME NEW ix, NEW texts \in Seq(Seq(Characters)), Represents(ix, texts),
         NEW r \in 1..Len(texts), NEW term \in Terms
  PROVE  r \in TermMatches(ix, term) <=>
           \E at \in Found(ix.text, term) : /\ ix.offsets[r] <= at - 1
                                            /\ at - 1 + Len(term) <= ix.offsets[r + 1]
  <1>1. Len(term) \in Nat /\ Len(term) >= 1
    BY TermType
  <1>2. ix.text \in Seq(Characters) /\ Len(ix.text) \in Nat
    BY LenProperties DEF Represents
  <1>3. \A at \in Found(ix.text, term) : at \in Nat /\ at >= 1 /\ at <= Len(ix.text)
    BY <1>2, FoundOnly DEF Occurrences
  <1>4. \A i \in 1..Len(texts) : ix.offsets[i] \in Nat /\ ix.offsets[i + 1] \in Nat
    <2> TAKE i \in 1..Len(texts)
    <2>1. i \in 1..(Len(texts) + 1) /\ i + 1 \in 1..(Len(texts) + 1)
      BY LenProperties
    <2> QED BY <2>1, Monotone
  <1>5. ASSUME NEW at \in Found(ix.text, term), EventAt(ix, at - 1) = r,
               FitsIn(ix, at, Len(term))
        PROVE  ix.offsets[r] <= at - 1 /\ at - 1 + Len(term) <= ix.offsets[r + 1]
    <2>1. at - 1 \in Nat /\ at - 1 < Len(ix.text)
      BY <1>2, <1>3
    <2>2. PICK i \in 1..Len(texts) : ix.offsets[i] <= at - 1 /\ at - 1 < ix.offsets[i + 1]
      BY <2>1, EventExists
    <2>3. i = r
      BY <1>5, <2>1, <2>2, EventAtIs
    <2>4. at - 1 + Len(term) <= ix.offsets[r + 1]
      BY <1>5 DEF FitsIn
    <2> QED BY <2>2, <2>3, <2>4
  <1>6. ASSUME NEW at \in Found(ix.text, term), ix.offsets[r] <= at - 1,
               at - 1 + Len(term) <= ix.offsets[r + 1]
        PROVE  EventAt(ix, at - 1) = r /\ FitsIn(ix, at, Len(term))
    <2>1. at - 1 \in Nat /\ ix.offsets[r + 1] \in Nat
      BY <1>3, <1>4
    <2>2. at - 1 < ix.offsets[r + 1]
      BY <1>1, <1>6, <2>1
    <2>3. EventAt(ix, at - 1) = r
      BY <1>6, <2>1, <2>2, EventAtIs
    <2> QED BY <1>6, <2>3 DEF FitsIn
  <1> QED BY <1>5, <1>6 DEF TermMatches

LEMMA HotCandidates ==
  ASSUME NEW ix, NEW texts \in Seq(Seq(Characters)), Represents(ix, texts),
         NEW r \in 1..Len(texts), NEW terms \in SUBSET Terms
  PROVE  IF r \in Candidates(ix, terms) THEN TextMatches(texts[r], terms)
         ELSE TextMatches(texts[r], terms) => \E term \in terms : Straddles(ix, r, term)
  <1> DEFINE lo == ix.offsets[r]
             hi == ix.offsets[r + 1]
  <1>1. lo \in Nat /\ hi \in Nat
    <2>1. r \in 1..(Len(texts) + 1) /\ r + 1 \in 1..(Len(texts) + 1)
      BY LenProperties
    <2> QED BY <2>1, Monotone
  <1>2. ix.text \in Seq(Characters)
    BY DEF Represents
  <1>3. r \in Candidates(ix, terms) <=> \A term \in terms : r \in TermMatches(ix, term)
    BY RecordTexts DEF Candidates
  <1>4. ASSUME NEW term \in terms, r \in TermMatches(ix, term)
        PROVE  Occurrences(texts[r], term) # {}
    <2>1. PICK at \in Found(ix.text, term) : lo <= at - 1 /\ at - 1 + Len(term) <= hi
      BY <1>4, TermMatchesAre
    <2>2. at \in Occurrences(ix.text, term) /\ at \in Nat
      BY <1>2, <2>1, FoundOnly DEF Occurrences
    <2>3. at - lo \in Nat /\ at - lo >= 1 /\ lo + (at - lo) = at
          /\ lo + (at - lo) - 1 + Len(term) = at - 1 + Len(term)
      <3>1. Len(term) \in Nat
        BY TermType
      <3>2. lo \in Nat /\ at \in Nat /\ lo <= at - 1
        BY <1>1, <2>1, <2>2
      <3> HIDE DEF lo
      <3> QED BY <3>1, <3>2
    <2>4. at - lo \in Occurrences(texts[r], term)
      <3>1. lo + (at - lo) \in Occurrences(ix.text, term)
        BY <2>2, <2>3
      <3>2. lo + (at - lo) - 1 + Len(term) <= hi
        BY <2>1, <2>3
      <3> QED BY <2>3, <3>1, <3>2, OccursInRecord
    <2> QED BY <2>4
  <1>5. ASSUME NEW term \in terms, r \notin TermMatches(ix, term), Occurrences(texts[r], term) # {}
        PROVE  Straddles(ix, r, term)
    <2>1. PICK x \in Occurrences(texts[r], term) : x \in Nat
      BY <1>5 DEF Occurrences
    <2> DEFINE at == lo + x
    <2>2. x >= 1 /\ at \in Occurrences(ix.text, term) /\ at - 1 + Len(term) <= hi
      <3>1. term \in Terms /\ x \in Nat /\ x \in Occurrences(texts[r], term)
        BY <2>1
      <3>2. /\ x >= 1 /\ ix.offsets[r] + x \in Occurrences(ix.text, term)
            /\ ix.offsets[r] + x - 1 + Len(term) <= ix.offsets[r + 1]
        BY <3>1, OccursInRecord
      <3>3. x >= 1
        BY <3>2
      <3>4. at \in Occurrences(ix.text, term)
        BY <3>2
      <3>5. at - 1 + Len(term) <= hi
        <4>1. lo \in Nat /\ x \in Nat /\ Len(term) \in Nat
          BY <1>1, <2>1, TermType
        <4>2. at - 1 + Len(term) = lo + x - 1 + Len(term)
          <5> DEFINE l == Len(term)
          <5>1. lo \in Nat /\ x \in Nat /\ l \in Nat
            BY <4>1
          <5> HIDE DEF lo, l
          <5>2. lo + x - 1 + l = (lo + x) - 1 + l
            BY <5>1
          <5> QED BY <5>2 DEF l
        <4> QED BY <3>2, <4>2
      <3> QED BY <3>3, <3>4, <3>5
    <2>3. at \in Nat /\ lo <= at - 1 /\ Len(term) \in Nat
      <3>1. Len(term) \in Nat
        BY TermType
      <3>2. lo \in Nat /\ x \in Nat /\ x >= 1
        BY <1>1, <2>1, <2>2
      <3> HIDE DEF lo
      <3> QED BY <3>1, <3>2
    <2> HIDE DEF at
    <2>4. at \notin Found(ix.text, term)
      BY <1>5, <2>2, <2>3, TermMatchesAre
    <2>5. PICK before \in Found(ix.text, term) : before < at /\ at < before + Len(term)
      BY <1>2, <2>2, <2>4, FoundOnly
    <2>6. before \in Occurrences(ix.text, term) /\ before \in Nat
      BY <1>2, <2>5, FoundOnly, SMTT(30) DEF Occurrences
    <2>7. before - 1 + Len(term) <= hi
      BY <1>1, <2>2, <2>3, <2>5, <2>6, SMTT(30)
    <2>8. ~(lo <= before - 1)
      BY <1>5, <2>5, <2>7, TermMatchesAre
    <2>9. before - 1 < lo /\ before - 1 + Len(term) > lo
      BY <1>1, <2>3, <2>5, <2>6, <2>8, SMTT(30)
    <2> QED BY <2>6, <2>9 DEF Straddles
  <1> QED BY <1>3, <1>4, <1>5 DEF TextMatches

(***************************************************************************)
(* What holds.                                                             *)
(***************************************************************************)
LEMMA SnapshotRepresented ==
  ASSUME FilesInv, SearchInv, session = "up", Readable
  PROVE  Snapshot \in Seq(Packets) /\ Represents(SnapshotIndex, Texts(Snapshot, kinds))
  <1> DEFINE h == ReadFile(hot).packets
             c == ReadFile(compacting).packets
  <1>1. h \in Seq(Packets) /\ c \in Seq(Packets) /\ kinds \in KindSets
    BY ReadsPackets DEF FilesInv, TypeOK, Readable
  <1>2. Snapshot = h \o c
    BY DEF Snapshot
  <1>3. Represents(index, Texts(h, kinds))
    BY DEF SearchInv, IndexInv, Readable
  <1>4. SnapshotIndex = IF c = <<>> THEN index ELSE Build(Texts(Snapshot, kinds))
    BY DEF SnapshotIndex
  <1> HIDE DEF h, c
  <1>5. Snapshot \in Seq(Packets)
    BY <1>1, <1>2, Joining
  <1>6. CASE c = <<>>
    <2>1. Snapshot = h
      BY <1>1, <1>2, <1>6, ConcatEmptySeq
    <2> QED BY <1>3, <1>4, <1>5, <1>6, <2>1
  <1>7. CASE c # <<>>
    <2>1. Represents(Build(Texts(Snapshot, kinds)), Texts(Snapshot, kinds))
      BY <1>1, <1>5, TextsType, BuildRepresents
    <2> QED BY <1>4, <1>5, <1>7, <2>1
  <1> QED BY <1>6, <1>7

\* Whatever appends failed and whatever the file was when it was opened, the index
\* in memory has the text of each packet at its place, and no other.
THEOREM IndexCorrect == LoadSpec => []IndexMatchesFile
  <1>1. FilesInv /\ LoadInv /\ SearchInv => IndexMatchesFile
    <2> SUFFICES ASSUME FilesInv, SearchInv, session = "up", ReadFile(hot).ok,
                        NEW packets, packets = ReadFile(hot).packets
                 PROVE  /\ Len(index.offsets) = Len(packets) + 1
                        /\ \A r \in DOMAIN packets :
                             RecordText(index, r) = TextOf[kinds][packets[r]]
      BY DEF IndexMatchesFile
    <2>1. packets \in Seq(Packets) /\ kinds \in KindSets
      BY ReadsPackets DEF FilesInv, TypeOK
    <2>2. Represents(index, Texts(packets, kinds))
      BY DEF SearchInv, IndexInv
    <2> DEFINE texts == Texts(packets, kinds)
    <2>3. /\ texts \in Seq(Seq(Characters)) /\ Len(texts) = Len(packets)
          /\ \A r \in 1..Len(packets) : texts[r] = TextOf[kinds][packets[r]]
      BY <2>1, TextsType
    <2> HIDE DEF texts
    <2>4. \A r \in 1..Len(texts) : RecordText(index, r) = texts[r]
      BY <2>2, <2>3, RecordTexts DEF texts
    <2>5. Len(index.offsets) = Len(texts) + 1
      BY <2>2 DEF Represents, texts
    <2>6. DOMAIN packets = 1..Len(packets)
      BY <2>1
    <2> QED BY <2>3, <2>4, <2>5, <2>6
  <1> QED BY <1>1, SearchAlways, PTL

\* The search of the hot file yields packets with all the terms only, and what it
\* misses is hidden by an occurrence that reaches into the packet from before.
THEOREM HotSearchesAccounted == LoadSpec => []HotSearchAccounted
  <1>1. FilesInv /\ LoadInv /\ SearchInv => HotSearchAccounted
    <2> SUFFICES ASSUME FilesInv, SearchInv, session = "up", Readable,
                        NEW terms \in Queries, NEW r \in DOMAIN Snapshot
                 PROVE  IF r \in Candidates(SnapshotIndex, terms)
                        THEN PacketMatches(Snapshot[r], terms)
                        ELSE PacketMatches(Snapshot[r], terms) =>
                               \E term \in terms : Straddles(SnapshotIndex, r, term)
      BY DEF HotSearchAccounted
    <2>1. /\ Snapshot \in Seq(Packets) /\ Represents(SnapshotIndex, Texts(Snapshot, kinds))
          /\ kinds \in KindSets /\ terms \in SUBSET Terms
      BY SnapshotRepresented, QueryTerms DEF FilesInv, TypeOK
    <2> DEFINE texts == Texts(Snapshot, kinds)
    <2>2. /\ texts \in Seq(Seq(Characters)) /\ r \in 1..Len(texts)
          /\ texts[r] = TextOf[kinds][Snapshot[r]]
      BY <2>1, TextsType
    <2>3. PacketMatches(Snapshot[r], terms) <=> TextMatches(texts[r], terms)
      BY <2>2 DEF PacketMatches
    <2>4. IF r \in Candidates(SnapshotIndex, terms) THEN TextMatches(texts[r], terms)
          ELSE TextMatches(texts[r], terms) =>
                 \E term \in terms : Straddles(SnapshotIndex, r, term)
      BY <2>1, <2>2, HotCandidates
    <2> HIDE DEF texts
    <2> QED BY <2>3, <2>4
  <1> QED BY <1>1, SearchAlways, PTL

\* A search in a partition is exact, whatever merges and rebuilds its sidecar comes
\* from, but for a term of one character that the Bloom filter does not know.
THEOREM PartitionSearchesExact == LoadSpec => []PartitionSearchExact
  <1>1. FilesInv /\ LoadInv /\ SearchInv => PartitionSearchExact
    <2> SUFFICES ASSUME FilesInv, SearchInv, session = "up", IsCurrent, NEW terms \in Queries
                 PROVE  \/ PartitionSearch(terms) = {p \in partition : PacketMatches(p, terms)}
                        \/ PartitionSearch(terms) = {} /\ \E term \in terms : Len(term) = 1
      BY DEF PartitionSearchExact
    <2> DEFINE packets == Sorted(partition)
               texts == Texts(packets, kinds)
               ix == sidecar.index
    <2>1. /\ packets \in Seq(partition) /\ ToSet(packets) = partition
          /\ partition \subseteq Packets /\ kinds \in KindSets
      BY SortedHas DEF FilesInv, TypeOK
    <2>2. packets \in Seq(Packets) /\ terms \in SUBSET Terms
      BY <2>1, QueryTerms
    <2>3. ix \in {Appended(texts), Build(texts)}
      BY DEF SearchInv, SidecarInv, IsCurrent
    <2> HIDE DEF packets
    <2>4. /\ texts \in Seq(Seq(Characters)) /\ Len(texts) = Len(packets)
          /\ \A r \in 1..Len(packets) : texts[r] = TextOf[kinds][packets[r]]
      BY <2>1, <2>2, TextsType
    <2>5. partition = {packets[r] : r \in 1..Len(packets)}
      BY <2>1, <2>2 DEF ToSet
    <2> HIDE DEF texts, ix
    <2>6. Represents(ix, texts)
      BY <2>3, <2>4, AppendedRepresents, BuildRepresents
    <2>7. \A r \in 1..Len(packets) : TextMatches(texts[r], terms) <=> PacketMatches(packets[r], terms)
      BY <2>4 DEF PacketMatches
    <2>8. RecordsMatching(ix, terms) = {r \in 1..Len(packets) : PacketMatches(packets[r], terms)}
      <3>1. Records(ix) = 1..Len(texts) /\ \A r \in 1..Len(texts) : RecordText(ix, r) = texts[r]
        BY <2>4, <2>6, RecordTexts
      <3> QED BY <2>4, <2>7, <3>1 DEF RecordsMatching
    <2> DEFINE matching == {p \in partition : PacketMatches(p, terms)}
    <2>9. PartitionSearch(terms) = IF BloomMayMatch(ix, terms) THEN matching ELSE {}
      <3>1. {packets[r] : r \in RecordsMatching(ix, terms)} = matching
        BY <2>5, <2>8
      <3>2. {p \in matching : PacketMatches(p, terms)} = matching
        OBVIOUS
      <3> QED BY <3>1, <3>2 DEF PartitionSearch, packets, ix
    <2>10. ASSUME \A term \in terms : Len(term) # 1, NEW p \in matching
           PROVE  BloomMayMatch(ix, terms)
      <3>1. PICK r \in 1..Len(packets) : p = packets[r] /\ PacketMatches(packets[r], terms)
        BY <2>5
      <3>2. TextMatches(texts[r], terms) /\ r \in 1..Len(texts)
        BY <2>4, <2>7, <3>1
      <3> QED BY <2>2, <2>3, <2>4, <2>10, <3>2, BloomPasses
    <2> HIDE DEF matching
    <2>11. BloomMayMatch(ix, terms) \/ matching = {} \/ \E term \in terms : Len(term) = 1
      BY <2>10
    <2> QED BY <2>9, <2>11 DEF matching
  <1> QED BY <1>1, SearchAlways, PTL
=============================================================================

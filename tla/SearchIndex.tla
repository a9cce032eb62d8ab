------------------------------ MODULE SearchIndex ------------------------------
(***************************************************************************)
(* The search index of an events file (storage/search.rs) and the ways in  *)
(* which it is searched: by the streaming query in the hot file, by both   *)
(* queries in a partition, and by the test of a live event                 *)
(* (matches_search, storage/event.rs).                                     *)
(*                                                                         *)
(* A text is the normalized text of a note, as a sequence of characters;   *)
(* terms are texts without a space, and a query is a set of them.  An      *)
(* index holds the texts of all records in one piece, the offset at which  *)
(* each begins (and one at which the last ends), and the grams that were   *)
(* put into the Bloom filter.  What a Bloom filter admits by accident is   *)
(* left out: it costs a reader time and changes no answer.                 *)
(***************************************************************************)
EXTENDS Naturals, FiniteSets, SequencesExt

Space == " "

Piece(text, at, length) == SubSeq(text, at, at + length - 1)

\* Where the term occurs in the text, overlapping itself or not.
Occurrences(text, term) ==
  {at \in DOMAIN text : at + Len(term) - 1 <= Len(text) /\ Piece(text, at, Len(term)) = term}

\* The test of one text: windows(), and the overlapping search of a batch.
TextMatches(text, terms) == \A term \in terms : Occurrences(text, term) # {}

(***************************************************************************)
(* The grams of the Bloom filter.                                          *)
(***************************************************************************)
IsWord(text, at, length) == \A i \in at..(at + length - 1) : text[i] # Space

\* A single character is a gram only where it is a word of its own.
Alone(text, at) ==
  /\ text[at] # Space
  /\ at > 1 => text[at - 1] = Space
  /\ at < Len(text) => text[at + 1] = Space

\* insert_search_bloom_text_grams
TextGrams(text) ==
  {<<text[at]>> : at \in {i \in DOMAIN text : Alone(text, i)}}
  \cup UNION {{Piece(text, at, length) :
                 at \in {i \in DOMAIN text : /\ i + length - 1 <= Len(text)
                                             /\ IsWord(text, i, length)}} :
               length \in {2, 3}}

\* Fault: grams of one character only for terms of two.
TermGramsOfShortest(term) ==
  UNION {{Piece(term, at, length) : at \in {i \in DOMAIN term : i + length - 1 <= Len(term)}} :
           length \in 1..3}

\* append_search_bloom_grams
TermGrams(term) ==
  IF Len(term) = 1 THEN {term}
  ELSE UNION {{Piece(term, at, length) :
                 at \in {i \in DOMAIN term : i + length - 1 <= Len(term)}} :
               length \in {2, 3}}

\* search_bloom_may_match, may_match_terms
BloomMayMatch(index, terms) == \A term \in terms : TermGrams(term) \subseteq index.grams

(***************************************************************************)
(* The index.                                                              *)
(***************************************************************************)
EmptyIndex == [text |-> <<>>, offsets |-> <<0>>, grams |-> {}]

\* append_to_search_index
Extend(index, text) ==
  [text    |-> index.text \o text,
   offsets |-> Append(index.offsets, Len(index.text \o text)),
   grams   |-> index.grams \cup TextGrams(text)]

\* Where each record begins, and where the last one ends.
Offsets(texts) ==
  LET end[r \in 0..Len(texts)] == IF r = 0 THEN 0 ELSE end[r - 1] + Len(texts[r])
  IN [i \in 1..(Len(texts) + 1) |-> end[i - 1]]

\* What Extend makes of the texts, one after the other.
Appended(texts) ==
  [text    |-> FlattenSeq(texts),
   offsets |-> Offsets(texts),
   grams   |-> UNION {TextGrams(texts[r]) : r \in DOMAIN texts}]

\* build_search_index: the grams are those of the text in one piece, where the
\* last word of a record and the first of the next one are one word.
Build(texts) ==
  [Appended(texts) EXCEPT !.grams = UNION {TextGrams(text) : text \in {FlattenSeq(texts)}}]

Records(index) == 1..(Len(index.offsets) - 1)
RecordText(index, r) == SubSeq(index.text, index.offsets[r] + 1, index.offsets[r + 1])

(***************************************************************************)
(* Searching a partition: record_matches_terms, record by record.          *)
(***************************************************************************)
RecordsMatching(index, terms) == {r \in Records(index) : TextMatches(RecordText(index, r), terms)}

(***************************************************************************)
(* Searching the hot file: search_candidate_indexes.                       *)
(***************************************************************************)

\* search_index_event_at: the last record that begins at the position or before
\* it.  Empty records that begin where it does come before it.
\* Fault: the last record that begins before the position.
EventBefore(index, position) ==
  Cardinality({i \in DOMAIN index.offsets : index.offsets[i] < position})

EventAt(index, position) ==
  Cardinality({i \in DOMAIN index.offsets : index.offsets[i] <= position})

\* find_iter: from left to right, without overlap.
WithoutOverlap(occurrences, length) ==
  LET found[at \in occurrences] ==
        \A before \in occurrences :
          before < at /\ at < before + length => ~found[before]
  IN {at \in occurrences : found[at]}

Found(text, term) ==
  UNION {WithoutOverlap(all, Len(term)) : all \in {Occurrences(text, term)}}

\* search_index_term_matches: what reaches into the next record is no match.
FitsIn(index, at, length) == at - 1 + length <= index.offsets[EventAt(index, at - 1) + 1]

TermMatches(index, term) ==
  {EventAt(index, at - 1) :
     at \in {i \in Found(index.text, term) : FitsIn(index, i, Len(term))}}

Candidates(index, terms) ==
  {r \in Records(index) : \A term \in terms : r \in TermMatches(index, term)}
=============================================================================

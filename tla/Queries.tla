------------------------------- MODULE Queries -------------------------------
(***************************************************************************)
(* What a client's filters become (nostr/nip01/filter.rs, db/mod.rs), and  *)
(* what the two queries answer (storage/query.rs, cursor.rs,               *)
(* streaming_query.rs, batched_query.rs), as functions of one state of the *)
(* storage: snapshot, the packets of the hot file and of the compacting    *)
(* files; index, VisibilityIndex::from_packets of them; partition, the     *)
(* packets of each day's partition; store, the visibility store.  What may *)
(* change while a query reads is StoreReaders; that a search sidecar finds *)
(* every packet with the terms is assumed here.                            *)
(*                                                                         *)
(* A filter is a record [ids, authors, kinds, since, until, terms, tags,   *)
(* limit]; nothing in a field stands for all, no terms for a filter        *)
(* without a search.  tags has pairs of a tag's name and values for it.    *)
(* As a client writes it, a filter has other keys in place of the tags.    *)
(***************************************************************************)
EXTENDS Visibility, SequencesExt

CONSTANTS
  Days,           \* the Unix days in question
  SecondsPerDay,
  TagName,        \* the keys of the form "#t" and the tags they name
  NotStrings,     \* the value of a key that is no list of strings
  NoLimit,        \* a number in place of no limit
  DefaultLimit, MaxLimit

ASSUME LimitsAssumption == {NoLimit, DefaultLimit, MaxLimit} \subseteq 0..NoLimit

DayOf(n) == note[n].created_at \div SecondsPerDay

\* sort_packets: a set of packets in the order of the files.
Sorted(S) ==
  [i \in 1..Cardinality(S) |->
     CHOOSE n \in S : Cardinality({m \in S : Before(m, n)}) = i - 1]

\* The first of them.
Newest(limit, S) == {n \in S : Cardinality({m \in S : Before(m, n)}) < limit}

\* What start becomes with the elements of seq in turn.  The bound variables are
\* for TLC: it evaluates them once, and what it passes by name whenever it is used.
Loop(step(_, _), start, seq) ==
  LET after[i \in 0..Len(seq)] ==
        IF i = 0 THEN start
        ELSE CHOOSE next \in {step(r, x) : r \in {after[i - 1]}, x \in {seq[i]}} : TRUE
  IN after[Len(seq)]

Descending(S) == [i \in 1..Cardinality(S) |->
                    CHOOSE d \in S : Cardinality({e \in S : e > d}) = i - 1]

-----------------------------------------------------------------------------
(***************************************************************************)
(* From a client's filters to those of the storage.                        *)
(***************************************************************************)

\* validate_tag_queries, from_raw: other fields, and tags of more than a letter
\* or with other values than strings, are an error for the whole query.
Understood(raws) ==
  \A i \in DOMAIN raws : \A key \in DOMAIN raws[i].extra :
    key \in DOMAIN TagName /\ raws[i].extra[key] # NotStrings

\* effective_limit: the client's or the default one, and never above MaxLimit.
EffectiveLimit(provided) ==
  Min({IF provided = NoLimit THEN DefaultLimit ELSE provided, MaxLimit})

\* from_raw and normalize_filter.  A tag without a value selects nothing.
Normalize(raw) ==
  [ids   |-> raw.ids,   authors |-> raw.authors, kinds |-> raw.kinds,
   since |-> raw.since, until   |-> raw.until,   terms |-> raw.terms,
   limit |-> EffectiveLimit(raw.limit),
   tags  |-> {<<TagName[key], raw.extra[key]>> :
                key \in {k \in DOMAIN raw.extra : raw.extra[k] # {}}}]

\* normalized_filters_or_default: no filter is the one that every note matches.
NormalizedFilters(raws, always) ==
  IF raws = <<>> THEN <<Normalize(always)>> ELSE [i \in DOMAIN raws |-> Normalize(raws[i])]

-----------------------------------------------------------------------------
IsSearch(f) == f.terms # {}

\* matches_tags: tags without a value are passed over.
MatchesTags(f, n) ==
  \A t \in f.tags : \E i \in DOMAIN note[n].tags :
    LET tag == note[n].tags[i] IN Len(tag) >= 2 /\ tag[1] = t[1] /\ tag[2] \in t[2]

\* matches_filter_without_search
MatchesWithoutSearch(f, n) ==
  /\ f.ids = {} \/ n \in f.ids
  /\ MatchesTags(f, n)
  /\ f.kinds = {} \/ note[n].kind \in f.kinds
  /\ f.authors = {} \/ note[n].pubkey \in f.authors
  /\ f.since <= note[n].created_at /\ note[n].created_at <= f.until

Matches(f, n) == MatchesWithoutSearch(f, n) /\ f.terms \subseteq note[n].terms

\* Fault: a day that begins before the filter does is left out.
PartitionDayWithin(d, f) ==
  f.since <= d * SecondsPerDay /\ d * SecondsPerDay <= f.until

PartitionDayOverlaps(d, f) ==
  f.since <= (d + 1) * SecondsPerDay - 1 /\ d * SecondsPerDay <= f.until

(***************************************************************************)
(* query_streaming, for a sequence of filters.                             *)
(***************************************************************************)

\* The hot packets that match, which are tested against their own index only.
HotMatches(f, snapshot, index) ==
  {n \in snapshot : Matches(f, n) /\ (IsSearch(f) => VisibleInIndex(index, n))}

\* Fault: partitions are tested against the store only.
PartitionMatchesByStore(f, d, index, partition, store) ==
  {n \in partition[d] : Matches(f, n) /\ VisibleInStore(store, n)}

\* Fault: the store is asked for searches only.
PartitionMatchesUnhidden(f, d, index, partition, store) ==
  {n \in partition[d] :
     /\ Matches(f, n)
     /\ IsSearch(f) => VisibleInIndex(index, n) /\ VisibleInStore(store, n)}

\* packet_is_visible: a partition is tested against the store, and by a search
\* against the hot index too.
PartitionMatches(f, d, index, partition, store) ==
  {n \in partition[d] :
     /\ Matches(f, n)
     /\ IsSearch(f) => VisibleInIndex(index, n)
     /\ VisibleInStore(store, n)}

\* What a filter's cursor of a day yields, without the limit.
Found(f, d, snapshot, index, partition, store) ==
  {n \in HotMatches(f, snapshot, index) : DayOf(n) = d}
  \cup (IF PartitionDayOverlaps(d, f)
        THEN PartitionMatches(f, d, index, partition, store) ELSE {})

\* Fault: the limit holds for each day.
StreamDayPerDay(filters, d, so_far, found) ==
  LET taken == UNION {{i} \X Newest(filters[i].limit, found[i]) : i \in DOMAIN filters}
  IN [taken |-> taken, out |-> so_far.out \o Sorted({t[2] : t \in taken})]

\* One day, where found[i] is what the cursor of filter i yields: each filter
\* takes what its limit leaves, and the cursors of all filters are merged; what
\* several yield is emitted once but counts for each.
StreamDay(filters, d, so_far, found) ==
  LET left(i) == filters[i].limit - Cardinality({t \in so_far.taken : t[1] = i})
      taken == UNION {{i} \X Newest(left(i), found[i]) : i \in DOMAIN filters}
  IN [taken |-> so_far.taken \cup taken,
      out   |-> so_far.out \o Sorted({t[2] : t \in taken})]

Streaming(filters, snapshot, index, partition, store) ==
  LET step(so_far, d) ==
        StreamDay(filters, d, so_far,
                  [i \in DOMAIN filters |->
                     Found(filters[i], d, snapshot, index, partition, store)])
  IN Loop(step, [taken |-> {}, out |-> <<>>], Descending(Days)).out

(***************************************************************************)
(* query_streaming_batch, for a sequence of queries, each a sequence of    *)
(* filters.  room[q] is how many packets the receiver of query q takes: it *)
(* fails the next one, and the query is not active any more.               *)
(***************************************************************************)

\* matches_filter_without_search and what follows it: whether filter f shows the
\* candidate n.  One of a partition is tested against the store, by searches.
Accepts(f, n, snapshot, index, store) ==
  /\ Matches(f, n)
  /\ IsSearch(f) => /\ VisibleInIndex(index, n)
                    /\ n \notin snapshot => VisibleInStore(store, n)

\* The filters <<q, i>> that show each of the candidates.
Accepting(queries, candidates, snapshot, index, store) ==
  LET slots == UNION {{q} \X DOMAIN queries[q] : q \in DOMAIN queries}
  IN [n \in candidates |->
        {s \in slots : Accepts(queries[s[1]][s[2]], n, snapshot, index, store)}]

\* Fault: a query that fails ends the others.
EmitCandidateEndingAll(queries, room, so_far, n, accepting) ==
  LET left(s) == queries[s[1]][s[2]].limit - Cardinality({t \in so_far.taken : t[1] = s})
      taking == {s \in accepting[n] : s[1] \in so_far.active /\ left(s) > 0}
      given == {s[1] : s \in taking}
      full == {q \in given : Cardinality({e \in so_far.out : e[1] = q}) >= room[q]}
  IN [taken  |-> so_far.taken \cup (taking \X {n}),
      active |-> IF full = {} THEN so_far.active ELSE {},
      out    |-> so_far.out \cup ((given \ full) \X {n})]

\* emit_candidate: it goes to every active query that has a filter left for it,
\* once, and the queries that fail to take it are not active any more.
EmitCandidate(queries, room, so_far, n, accepting) ==
  LET left(s) == queries[s[1]][s[2]].limit - Cardinality({t \in so_far.taken : t[1] = s})
      taking == {s \in accepting[n] : s[1] \in so_far.active /\ left(s) > 0}
      given == {s[1] : s \in taking}
      full == {q \in given : Cardinality({e \in so_far.out : e[1] = q}) >= room[q]}
  IN [taken  |-> so_far.taken \cup (taking \X {n}),
      active |-> so_far.active \ full,
      out    |-> so_far.out \cup ((given \ full) \X {n})]

\* The days follow one another, newest first, and each merges its candidates
\* of the hot file and of the partition; of two copies the hot one comes first.
\* Each query has its packets in the order of the candidates.
Batched(queries, room, accepting) ==
  LET step(so_far, n) == EmitCandidate(queries, room, so_far, n, accepting)
      end == Loop(step, [taken |-> {}, active |-> DOMAIN queries, out |-> {}],
                  Sorted(DOMAIN accepting))
  IN [q \in DOMAIN queries |-> Sorted({e[2] : e \in {o \in end.out : o[1] = q}})]
=============================================================================

---------------------------- MODULE MCVisibleEvents ----------------------------
(***************************************************************************)
(* VisibleEvents with the notes of one author, on two days: two versions   *)
(* of a profile with the same time, an article with a "d" tag and its      *)
(* older version of another day, and a deletion of the article's address   *)
(* and of the newer profile (by its id, which does not bring the older one *)
(* back).                                                                  *)
(***************************************************************************)
EXTENDS VisibleEvents

Fields(kind, at, tags, terms) ==
  [pubkey |-> "alice", kind |-> kind, created_at |-> at, tags |-> tags, terms |-> terms]
Article == [kind |-> 30023, pubkey |-> "alice", d |-> "post"]

MCNote == <<
  Fields(0, 1, <<>>, {"a"}),
  Fields(0, 1, << <<"t", "x">> >>, {"a", "b"}),
  Fields(30023, 0, << <<"t">>, <<"d", "post">> >>, {"a"}),
  Fields(30023, 3, << <<"d", "post">>, <<"t", "x">> >>, {"a", "b"}),
  Fields(5, 2, << <<"e", 1>>, <<"a", Article>>, <<"e">> >>, {"a"}) >>

NoFilter ==
  [ids |-> {}, authors |-> {}, kinds |-> {}, since |-> 0, until |-> 3, terms |-> {},
   limit |-> 99, extra |-> <<>>]
Filter(kinds, since, terms, limit) ==
  [NoFilter EXCEPT !.kinds = kinds, !.since = since, !.terms = terms, !.limit = limit]
With(filter, key, values) == [filter EXCEPT !.extra = [k \in {key} |-> values]]

MCTagName == [k \in {"#t"} |-> "t"]

MCAsked == <<
  << Filter({}, 0, {"a"}, 99) >>,
  << Filter({}, 1, {"a"}, 1), With(Filter({0, 30023}, 0, {"a", "b"}, 2), "#t", {"x"}) >>,
  << Filter({0, 30023}, 1, {}, 2), With(Filter({}, 0, {}, 9), "#t", {}) >>,
  <<>>,
  << With([NoFilter EXCEPT !.ids = {1, 2, 4}], "#t", {"x", "y"}) >>,
  << With(NoFilter, "#t", NotStrings) >>,
  << NoFilter, With(NoFilter, "tags", {"x"}) >> >>
=============================================================================

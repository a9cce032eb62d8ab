------------------------------- MODULE MCLoading -------------------------------
(***************************************************************************)
(* Two packets.  The text of the first ends as that of the second begins,  *)
(* and has words of one character; the second is of a kind that is not     *)
(* always searchable.  The dump has one batch and a rest.                  *)
(***************************************************************************)
EXTENDS Loading

MCOrder == <<"p1", "p2">>
MCTexts == [p1 |-> <<"b", " ", "a">>, p2 |-> <<"a", "a">>]
MCTextOf == [all |-> MCTexts, some |-> [MCTexts EXCEPT !.p2 = <<>>]]
MCQueries == {{<<"a", "a">>}, {<<"a">>}, {<<"b">>, <<"a">>}}
MCDumps == [records : {<<"p1", "bad", "p2">>}, cut : BOOLEAN]
=============================================================================

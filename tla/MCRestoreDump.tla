--------------------------- MODULE MCRestoreDump ----------------------------
(* RestoreDump on dumps of up to three document records: a document dumped
   twice because it was edited meanwhile, one in conflict, a deletion, and
   attachments that fill, overfill or exceed a request. *)
EXTENDS RestoreDump

Doc(id, rev, del) == [kind |-> "doc", id |-> id, rev |-> rev, dead |-> del, len |-> 1]

(* A document record and, after it, attachments of these lengths. *)
Group(id, rev, lens) ==
  <<Doc(id, rev, FALSE)>> \o
  [k \in 1..Len(lens) |-> [kind |-> "att", id |-> id, rev |-> rev,
                           name |-> 10 + k, len |-> lens[k]]]

Lens   == {<<>>, <<3, 3>>, <<3, 3, 3>>, <<6, 3>>}
Firsts == {Group("a", <<1>>, l) : l \in {<<3>>, <<6>>}}
Seconds ==
  {Group("a", rev, l) : rev \in {<<1, 1>>, <<2>>}, l \in {<<>>, <<6, 3>>}}
    \cup {Group("b", <<1>>, l) : l \in Lens} \cup {<<Doc("b", <<1, 1>>, TRUE)>>}
Long   == Group("a", <<1>>, <<3, 3>>) \o Group("b", <<1>>, <<3>>) \o Group("c", <<1>>, <<3>>)

(* A revision that is dumped twice, its document having gained a conflict. *)
Again  == Group("a", <<1>>, <<3>>) \o Group("a", <<2>>, <<>>) \o Group("a", <<1>>, <<3>>)

Contents == {<<>>, Long, Again} \cup {f \o s : f \in Firsts, s \in Seconds}

Count(recs, k) == Cardinality({i \in 1..Len(recs) : recs[i].kind = k})
Totals(recs) ==
  [docs |-> Count(recs, "doc"), atts |-> Count(recs, "att"),
   deleted |-> Cardinality({i \in 1..Len(recs) : recs[i].kind = "doc" /\ recs[i].dead})]
Whole(recs) == [recs |-> recs, complete |-> TRUE, footer |-> Totals(recs)]

Damaged ==
  {[Whole(Group("a", <<1>>, <<3>>)) EXCEPT !.footer[f] = @ + 1] : f \in {"docs", "atts", "deleted"}}
    \cup {Whole(<<Doc("a", <<1>>, FALSE)>> \o Tail(Group("b", <<1>>, <<3>>)))}
Torn ==
  {[Whole(Group("a", <<1>>, <<3>>)) EXCEPT !.complete = FALSE]}

MCDumps == {Whole(r) : r \in Contents} \cup Damaged \cup Torn

Empty == [exists |-> FALSE, revs |-> {}, dead |-> {}, stored |-> {}]
Other == [exists |-> TRUE, revs |-> {<<"y", <<1>>>>, <<"z", <<1>>>>},
          dead |-> {<<"y", <<1>>>>}, stored |-> {}]
Part  == [exists |-> TRUE, revs |-> {<<"a", <<1>>>>}, dead |-> {},
          stored |-> {<<"a", <<1>>, 11>>, <<"a", <<1>>, 12>>}]
MCTargets == {Empty, Other, Part}
=============================================================================

--------------------------- MODULE MCWebsocketHub ---------------------------
(* WebsocketHub with two connections and two messages for TLC.              *)
EXTENDS WebsocketHub, TLC
CONSTANTS c1, c2, s1, s2, m1

\* s1 is a score of user 1, s2 one of user 2, who is restricted.
MCScoreUser(m) == IF m = s1 THEN 1 ELSE 2
MCScoreMode(m) == 0
MCRestricted(m) == m = s2

\* Every score; users 1 and 2 in every mode; user 2 in mode 1 and then in mode
\* 0, where the first entry decides.
AllScores == {<<>>}
FewFilters == {<<[user |-> 1, modes |-> {}], [user |-> 2, modes |-> {}]>>,
               <<[user |-> 2, modes |-> {1}], [user |-> 2, modes |-> {0}]>>}

Symmetry == Permutations(Conns)
=============================================================================

------------------------------ MODULE MCSubDb -------------------------------
(* Two items, two pipes and two topics: two packets of one pipe, or of two *)
(* pipes, meet in every order, each with up to two topics.                 *)
EXTENDS SubDb, TLC

CONSTANTS w1, w2, p1, p2, t1, t2

MCWorks  == {w1, w2}
MCPipes  == {p1, p2}
MCTopics == {t1, t2}
=============================================================================

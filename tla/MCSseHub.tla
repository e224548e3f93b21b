----------------------------- MODULE MCSseHub -----------------------------
(* A small hub for TLC.  The prefix of one target is a prefix of the other's, *)
(* as in config.yaml, and here also of the text of a channel: "notify:a" cuts *)
(* into the first recipient and not into the second.                          *)
EXTENDS SseHub

CONSTANTS c1, c2

MCLetters == {"notify:", "a", "b", "1"}
MCTargets == {"admin", "main"}
MCPrefix == [t \in MCTargets |->
    IF t = "admin" THEN <<"notify:">> ELSE <<"notify:", "a">>]
MCSubjects == {<<"a", "1">>, <<"b", "1">>}
MCClients == {c1, c2}
=============================================================================

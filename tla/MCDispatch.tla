---------------------------- MODULE MCDispatch ----------------------------
(* A small world for TLC.  Alice has no preference rows; Bob has enabled web *)
(* push and Telegram.  n1 carries an ID and goes to everyone on every        *)
(* channel, twice if need be; n2 has none and follows Alice's preferences.   *)
EXTENDS Dispatch

CONSTANTS n1, n2, alice, bob, e1

MCNotes == {n1, n2}
MCUsers == {alice, bob}
MCEndpoints == {e1}
MCOwner == [e \in MCEndpoints |-> bob]

MCPrefs == [u \in MCUsers |->
    IF u = alice THEN [c \in Channels |-> "none"]
    ELSE [c \in Channels |-> IF c \in {"telegram", "web_push"} THEN "on" ELSE "none"]]

MCProviders == {"site", "telegram", "web_push"}
MCAsked == [n \in MCNotes |-> IF n = n1 THEN Channels ELSE {}]
MCAudience == [n \in MCNotes |-> IF n = n1 THEN MCUsers ELSE {alice}]
MCBroadcast == {n1}
MCTries == [n \in MCNotes |-> IF n = n1 THEN 2 ELSE 1]
=============================================================================

---------------------------- MODULE MCConsumer ----------------------------
(* Small queues for TLC.  In the first, message 1 keeps failing or succeeds, *)
(* message 2 does not decode, message 3 came back from the dead-letter queue *)
(* once and succeeds, and message 4 fails permanently on web push.           *)
EXTENDS Consumer

MCMsgs == 1..4
MCUndecodable == {2}
MCVerdicts ==
    [m \in MCMsgs |-> CASE m = 1 -> {"ok", "retry"}
                        [] m = 2 -> {}
                        [] m = 3 -> {"ok"}
                        [] m = 4 -> {"permanent"}]
MCDeaths == [m \in MCMsgs |-> IF m = 3 THEN 1 ELSE 0]

\* One message whose dispatch always fails.
MCNone == {}
MCOne == {1}
MCOneFails == [m \in MCOne |-> {"retry"}]
MCOneNoDeaths == [m \in MCOne |-> 0]
=============================================================================

------------------------------ MODULE MCWebPush ------------------------------
(* Two recipients, one with two browsers of the same push service.           *)
EXTENDS WebPush

CONSTANTS u1, u2, e1, e2, e3, a1, a2

MCEndpoints == {e1, e2, e3}
MCAudiences == {a1, a2}
MCAudience == [e \in MCEndpoints |-> IF e = e3 THEN a2 ELSE a1]
MCRecipients == {u1, u2}
MCSubs == [u \in MCRecipients |-> IF u = u1 THEN {e1, e2} ELSE {e3}]
MCStatuses == {201, 403, 410, 429, 500}
=============================================================================

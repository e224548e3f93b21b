------------------------------- MODULE MCInbox -------------------------------
(* Four notifications, pages of one to three.                                *)
EXTENDS Inbox

MCNotes == 1..4
=============================================================================

------------------------------- MODULE MCSms -------------------------------
(* Instances of SmsOutbox for TLC.                                          *)
EXTENDS SmsOutbox

CONSTANTS m1, m2, m3, m4, m5, card1, card2, f1, f2, f3

\* m1 is an ordinary message; m2, m3 and m4 are the first and the second
\* fragment of a business card, and the second again; m5 is the first of
\* another card.
DatagramA == [m \in Incoming |-> IF m = m1 THEN NULL ELSE IF m = m5 THEN card2 ELSE card1]
SeqNoA == [m \in Incoming |-> IF m \in {m2, m5} THEN 1 ELSE 2]
FragsA == [x \in Datagrams |-> 2]

\* A message and a business card of two segments, and a card of one.
SegsA == [f \in Files |-> IF f = f3 THEN 1 ELSE 2]
=============================================================================

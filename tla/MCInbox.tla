------------------------------- MODULE MCInbox -------------------------------
(***************************************************************************)
(* An instance of Inbox for TLC: three requests on two ids, so that the    *)
(* counter wraps around, one of them with a retry, and two subscribers of  *)
(* which one accepts everything and the other nothing.                     *)
(***************************************************************************)
EXTENDS Inbox

CONSTANTS s1, s2

MCRetries == <<1, 0, 0>>
MCAccepts == [s \in {s1, s2} |-> IF s = s1 THEN Requests ELSE {}]

=============================================================================

------------------------- MODULE MCAuditWritePlane -------------------------
(* AuditWritePlane on a small instance. *)
EXTENDS AuditWritePlane, TLC

CONSTANTS t1, t2, tel

OneTicket == {t1}
TwoTickets == {t1, t2}
OneTelemetry == {tel}
CloseOf(t) == [ticket |-> t, kind |-> "CLOSE"]
Malformed == {CloseOf(t2)}
None == {}
=============================================================================

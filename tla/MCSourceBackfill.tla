-------------------------- MODULE MCSourceBackfill --------------------------
\* A backfill of two pages, and an inbox refresh that sees the newer message.
EXTENDS SourceBackfill

CONSTANTS m1, m2, backfill, inbox

MailboxPages == [r \in Runners |-> IF r = backfill THEN <<{m1, m2}, {}>> ELSE <<{m2}, {m1}>>]
PageLimits == [r \in Runners |-> IF r = backfill THEN 0 ELSE 1]
=============================================================================

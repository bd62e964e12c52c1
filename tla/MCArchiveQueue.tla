--------------------------- MODULE MCArchiveQueue ---------------------------
(***************************************************************************)
(* Archive roots r1 and r2.  The walk of r1 meets the two mails of the     *)
(* mbox r1/a/inbox and then r1/a.eml, whose path sorts before "r1/a/";     *)
(* r2/b.eml does not parse.                                                *)
(***************************************************************************)
EXTENDS ArchiveQueue

CONSTANTS inbox0, inbox1, eml, bad

MCWalk == <<inbox0, inbox1, eml, bad>>
MCRoot == [m \in {inbox0, inbox1, eml, bad} |-> IF m = bad THEN 2 ELSE 1]
MCPath == [m \in {inbox0, inbox1, eml, bad} |-> IF m = eml THEN 1 ELSE IF m = bad THEN 3 ELSE 2]
MCOffset == [m \in {inbox0, inbox1, eml, bad} |-> IF m = inbox1 THEN 7 ELSE 0]
MCProcOf == [w \in Workers |-> CHOOSE p \in Procs : TRUE]
=============================================================================

-------------------------- MODULE MCContactIdentity --------------------------
(***************************************************************************)
(* Two files: a card with an email and a name and one with the email alone *)
(* and a valid time; and a card with the email at another time.            *)
(***************************************************************************)
EXTENDS ContactIdentity

CONSTANTS email, name, file1, file2

ContactCards ==
  file1 :> <<(email :> Unbounded @@ name :> Unbounded), (email :> [from |-> 1, until |-> 2])>>
  @@ file2 :> <<(email :> [from |-> 3, until |-> 4])>>
=============================================================================

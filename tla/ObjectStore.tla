---------------------------- MODULE ObjectStore ----------------------------
(***************************************************************************)
(* What the data tier promises its callers: a listing of objects, every    *)
(* one of which can be read back whole.  A committed write lists one       *)
(* object, a delete drops one; crashes, failed writes and maintenance are  *)
(* invisible.                                                              *)
(***************************************************************************)
CONSTANT Digests
VARIABLES
    listed,     \* the objects the store says it has
    stored      \* the objects whose content can be rebuilt

Init == listed = {} /\ stored = {}

Store(d) ==
    /\ listed' = listed \cup {d}
    /\ stored' = stored \cup {d}

Remove(d) ==
    /\ listed' = listed \ {d}
    /\ stored' = stored \ {d}

Next == \E d \in Digests : Store(d) \/ Remove(d)

Spec == Init /\ [][Next]_<<listed, stored>>
=============================================================================

---------------------------- MODULE MCJmapState ----------------------------
(***************************************************************************)
(* Instances of JmapState for TLC: clients move mail into a mailbox, or    *)
(* replace its mailboxes and mark it unseen.                               *)
(***************************************************************************)
EXTENDS JmapState, TLC

CONSTANTS e1, h1, h2, inbox, seenKw, na, nb

patch(on, off, replace) == [on |-> on, off |-> off, replace |-> replace]
ClientPatches ==
    {patch({m}, {inbox}, {}) : m \in Custom} \cup {patch({inbox}, {seenKw}, {Boxes})}
MovesOnly == {patch({m}, {}, {}) : m \in Custom}
OneMailbox == [m \in Custom |-> IF m = 1 THEN [name |-> na, parent |-> Top] ELSE NoEntry]
HandlerSymmetry == Permutations(Handlers)
=============================================================================

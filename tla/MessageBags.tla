---------------------------- MODULE MessageBags ----------------------------
(***************************************************************************)
(* The messages a broker has, as a bag: a function from the messages to    *)
(* the number of copies there are.  A queue hands its messages over in any *)
(* order.                                                                  *)
(***************************************************************************)
EXTENDS Naturals

\* A bag with one copy of m more, with one less, and with none.
Plus(bag, m) ==
    [x \in DOMAIN bag \cup {m} |-> IF x # m THEN bag[x] ELSE IF m \in DOMAIN bag THEN bag[m] + 1 ELSE 1]
Minus(bag, m) ==
    [x \in IF bag[m] = 1 THEN DOMAIN bag \ {m} ELSE DOMAIN bag |-> IF x = m THEN bag[m] - 1 ELSE bag[x]]
Without(bag, m) == [x \in DOMAIN bag \ {m} |-> bag[x]]

copies(bag, m) == IF m \in DOMAIN bag THEN bag[m] ELSE 0
Join(bag, other) == [x \in DOMAIN bag \cup DOMAIN other |-> copies(bag, x) + copies(other, x)]
=============================================================================

------------------------------ MODULE MCStores ------------------------------
(***************************************************************************)
(* Instances for TLC of two components that share no state: the chunk      *)
(* store and the mailbox state of JMAP.  Each behaviour is of one of them, *)
(* the subject, and the other stays in its initial state.                  *)
(***************************************************************************)
EXTENDS MCChunkStore, MCJmapState

VARIABLE subject

StoresInit ==
    /\ Init /\ JmapInit
    /\ subject \in {"chunks", "jmap"}

chunksStep ==
    /\ subject = "chunks"
    /\ storeStep
    /\ UNCHANGED <<jmapVars, subject>>

jmapStep ==
    /\ subject = "jmap"
    /\ JmapNext
    /\ UNCHANGED <<storeVars, subject>>

\* Neither the writers nor the handlers have an order; one permutation for both
\* is enough, as only the subject's are ever anywhere but at rest.
Interchangeable ==
    {p \in Permutations(Handlers \cup Writers) :
        /\ \A h \in Handlers : p[h] \in Handlers
        /\ p[h1] = h1 <=> p[w1] = w1}

StoresSpec == StoresInit /\ [][chunksStep \/ jmapStep]_<<storeVars, jmapVars, subject>>
=============================================================================

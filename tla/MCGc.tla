-------------------------------- MODULE MCGc --------------------------------
(***************************************************************************)
(* Instances for TLC of the two views of what is deleted from a store,     *)
(* which share no state: ChunkMaintenance, with the chunks and recipes     *)
(* that Gc collects, and ObjectRecords, with the records of the objects    *)
(* that are written and deleted.  Each behaviour is of one of the two.     *)
(***************************************************************************)
EXTENDS MCChunkMaintenance, ObjectRecords

CONSTANTS k1, m1, m2, a1, a2, b1, x1, x2, idA, idB, srcA, srcB

\* Two versions of one mail, and something from another source.
RefSources == a1 :> srcA @@ a2 :> srcA @@ b1 :> srcB
RefIds == a1 :> idA @@ a2 :> idA @@ b1 :> idB

manifestOf(refs, parts) == [prov |-> refs, parts |-> parts, over |-> {}, seen |-> {}, at |-> 0]
storedAs(d, ref, record) ==
    <<"m", d>> :> record @@ <<"r", d>> :> d @@ <<"si", ref>> :> d @@ <<"sa", RefIds[ref]>> :> d
    @@ <<"pc", d, 0>> :> 0 @@ <<"pc-latest", d>> :> 0

\* A message m1 with the part k1, each of one source; and the message with
\* the reference of its part as a second one.
OneMessage ==
    storedAs(m1, a1, manifestOf({a1}, {k1})) @@ storedAs(k1, b1, manifestOf({b1}, {}))
    @@ <<"cp", k1>> :> {m1}
SharedMessage ==
    storedAs(m1, b1, manifestOf({a1, b1}, {k1})) @@ OneMessage
\* Nothing stored yet.
EmptyStore == <<>>
Opened == {EmptyStore, OneMessage, SharedMessage}
ClientSymmetry == Permutations(Clients)

VARIABLE subject    \* which of the two takes the steps

GcInit ==
    /\ MaintInit /\ RecordsInit
    /\ subject \in {"chunks", "records"}
    /\ subject = "chunks" => rows = EmptyStore

collectStep ==
    /\ subject = "chunks"
    /\ MaintNext
    /\ UNCHANGED <<recordsVars, subject>>

recordsStep ==
    /\ subject = "records"
    /\ RecordsNext
    /\ UNCHANGED <<vars, subject>>

GcSpec == GcInit /\ [][collectStep \/ recordsStep]_<<vars, recordsVars, subject>>
=============================================================================

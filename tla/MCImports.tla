------------------------------ MODULE MCImports ------------------------------
(***************************************************************************)
(* Instances for TLC of two imports that share no state: of the versions of*)
(* a mail, and of contacts.  Each behaviour is of one of them, the subject,*)
(* and the other stays in its initial state.                               *)
(***************************************************************************)
EXTENDS MCMailVersions, MCContactIdentity

VARIABLE subject

ImportsInit ==
  /\ Init /\ ContactsInit
  /\ subject \in {"versions", "contacts"}
  /\ subject = "contacts" => ~lowNoise /\ \A v, w \in Workers : procOf[v] = procOf[w]

versionsStep ==
  /\ subject = "versions"
  /\ Next
  /\ UNCHANGED <<contactVars, subject>>

contactsStep ==
  /\ subject = "contacts"
  /\ ContactsNext
  /\ UNCHANGED <<vars, subject>>

ImportsSpec == ImportsInit /\ [][versionsStep \/ contactsStep]_<<vars, contactVars, subject>>
=============================================================================

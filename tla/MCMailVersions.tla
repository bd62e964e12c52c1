--------------------------- MODULE MCMailVersions ---------------------------
(***************************************************************************)
(* A short mail with an attachment, a longer one under the same headers, a *)
(* mail with other headers and the short body, and one Gmail message.      *)
(***************************************************************************)
EXTENDS MailVersions, TLC

CONSTANTS m1, m2, m3, g1

MCContent == (m1 :> [head |-> "h1", body |-> "short", att |-> "a1"])
          @@ (m2 :> [head |-> "h1", body |-> "long", att |-> None])
          @@ (m3 :> [head |-> "h2", body |-> "short", att |-> None])
          @@ (g1 :> [head |-> "h1", body |-> "gmail", att |-> "a1"])
MCSize == [body \in {"short", "long", "gmail"} |->
             CASE body = "short" -> 1 [] body = "long" -> 3 [] OTHER -> 2]

\* Every property but the types is about behaviours without an unseen
\* overwrite, so those that had one are not followed further.
NoOverlapYet == ~overlapped

\* Workers are alike, and so are processes.
Interchangeable == Permutations(Workers) \cup Permutations(Procs)
=============================================================================

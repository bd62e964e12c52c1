----------------------------- MODULE MCServices -----------------------------
(***************************************************************************)
(* Instances for TLC of components that share no state.  In a behaviour    *)
(* one of them, the subject, runs, and the others stay in their initial    *)
(* states; so the graph is the union of the graphs of the components.      *)
(***************************************************************************)
EXTENDS ObjectChanges, SelfHeal, Operations, BackendPool

VARIABLE subject

Corpus == 1 .. 4

Init ==
    /\ ChangesInit /\ HealInit /\ OperationsInit /\ BackendPoolInit
    /\ subject \in {"changes", "heal", "operations", "pool"}

changesStep ==
    /\ subject = "changes"
    /\ ChangesNext
    /\ UNCHANGED <<healVars, opsVars, poolVars, subject>>

healStep ==
    /\ subject = "heal"
    /\ HealNext
    /\ UNCHANGED <<changesVars, opsVars, poolVars, subject>>

operationsStep ==
    /\ subject = "operations"
    /\ OperationsNext
    /\ UNCHANGED <<changesVars, healVars, poolVars, subject>>

poolStep ==
    /\ subject = "pool"
    /\ BackendPoolNext
    /\ UNCHANGED <<changesVars, healVars, opsVars, subject>>

Next == changesStep \/ healStep \/ operationsStep \/ poolStep

\* The handlers, the batcher and the worker are loops that block only on each
\* other, so each of them goes on; writes, failures and crashes need not happen.
ChangesFairness ==
    /\ WF_changesVars(subject = "changes" /\ handlerStep)
    /\ WF_changesVars(subject = "changes" /\ batcherStep)
    /\ WF_changesVars(subject = "changes" /\ notifyStep)
    /\ WF_changesVars(subject = "changes" /\ workerStep)

\* The loop's ticker never stops and workers keep draining.
HealFairness ==
    /\ WF_healVars(subject = "heal" /\ tick)
    /\ WF_healVars(subject = "heal" /\ drain)

\* A request and an executor, once started, are goroutines that go on; new
\* requests, faults and crashes need not happen, nor need a caller give up.
OperationsFairness ==
    /\ \A c \in Callers : WF_opsVars(subject = "operations" /\ requestStep(c))
    /\ \A i \in 1 .. MaxOperations :
          WF_opsVars(subject = "operations" /\ i \in DOMAIN executor /\ executeOperation(i))

\* Readiness and requests have timeouts, so every Run goes on, and so do the
\* reaper and Close; goroutines blocked on a channel are served in the order
\* they came, so a call that waits is not passed over for ever.
BackendPoolFairness ==
    /\ \A c \in Clients : WF_poolVars(subject = "pool" /\ runStep(c))
    /\ \A c \in Clients : SF_poolVars(subject = "pool" /\ acquire(c))
    /\ WF_poolVars(subject = "pool" /\ reapStep)
    /\ WF_poolVars(subject = "pool" /\ closeStep)

Spec ==
    /\ Init
    /\ [][Next]_<<changesVars, healVars, opsVars, poolVars, subject>>
    /\ ChangesFairness /\ HealFairness /\ OperationsFairness /\ BackendPoolFairness
=============================================================================

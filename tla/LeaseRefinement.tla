-------------------------- MODULE LeaseRefinement ---------------------------
(***************************************************************************)
(* StreamLease implements WriterPromise: a stream's writer is the live     *)
(* lease that covers it, and writers are numbered as grants are.           *)
(***************************************************************************)
EXTENDS StreamLease

\* The lease a push to stream s must present: fence_decision's set of latest
\* unreleased leases that cover s, read as a single lease.
WriterOf(s) ==
    LET live == {l \in LeaseIds : Covers(l, s) /\ Live(l)}
    IN  IF live = {} THEN 0 ELSE CHOOSE l \in live : TRUE

Writers == [s \in Streams |-> WriterOf(s)]

AuthorsOf(records) == [i \in 1..Len(records) |-> records[i].by]

Authors == [s \in Streams |-> AuthorsOf(log[s])]

W == INSTANCE WriterPromise
     WITH writer <- Writers, stream <- Authors, issued <- Len(leases)

\* Write authority moved, never multiplied: under every interleaving of the
\* authority's transactions with the endpoint's two-step requests, a grant
\* gives its lease all the streams its predecessor wrote or streams nobody
\* wrote, a release gives up exactly its own, renewals, credentials and the
\* clock move nothing, and each record comes from its stream's one writer.
ImplementsWriterPromise == W!Spec
=============================================================================

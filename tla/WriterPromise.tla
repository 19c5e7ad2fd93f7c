---------------------------- MODULE WriterPromise ---------------------------
(***************************************************************************)
(* What the lease authority promises of write authority, with no scopes,   *)
(* generations, credentials, deadlines or requests in sight: a stream has  *)
(* at most one writer, writers are numbered in the order they are made,    *)
(* authority moves from one writer to its successor or starts where nobody *)
(* held it, and only the writer of the moment adds to a stream.            *)
(***************************************************************************)
EXTENDS Naturals, Sequences

CONSTANT Streams

VARIABLES writer,  \* the writer of each stream, 0 when there is none
          stream,  \* the writers of each stream's records, in order
          issued   \* how many writers have been made

Held(w) == {s \in Streams : writer[s] = w}

Init ==
    /\ writer = [s \in Streams |-> 0]
    /\ stream = [s \in Streams |-> <<>>]
    /\ issued = 0

\* A new writer takes over everything one writer held, or streams that
\* nobody holds; it never takes a part, and never from two.
Authorize(S) ==
    /\ issued' = issued + 1
    /\ writer' = [s \in Streams |-> IF s \in S THEN issued' ELSE writer[s]]
    /\ S \subseteq Held(0) \/ \E w \in 1..issued : S = Held(w)
    /\ UNCHANGED stream

\* A writer gives up everything it holds.
Retire(w) ==
    /\ UNCHANGED << issued, stream >>
    /\ writer' = [s \in Streams |-> IF writer[s] = w THEN 0 ELSE writer[s]]

Write(s) ==
    /\ stream' = [stream EXCEPT ![s] = Append(@, writer[s])]
    /\ writer[s] # 0
    /\ UNCHANGED << writer, issued >>

Next ==
    \/ \E S \in SUBSET Streams : Authorize(S)
    \/ \E w \in 1..issued : Retire(w)
    \/ \E s \in Streams : Write(s)

Spec == Init /\ [][Next]_<<writer, stream, issued>>
=============================================================================

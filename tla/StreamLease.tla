---------------------------- MODULE StreamLease -----------------------------
(***************************************************************************)
(* Single-writer stream leases, their write credentials, and the daemon    *)
(* endpoint that pushes and renews under them.                             *)
(*                                                                         *)
(* Every operation of the authority is one SQLite transaction, so it is    *)
(* one action here.  The endpoint is not: a push or a renewal resolves its *)
(* bearer token in one transaction and uses the lease in a second one, and *)
(* grants, releases, revocations and clock steps fall in between.          *)
(*                                                                         *)
(* A lease is named by its position in the grant table, a credential by    *)
(* its position in the credential table.  A scope or a stream id is the    *)
(* sequence of its colon-delimited segments.  A stream's record carries    *)
(* the lease that wrote it and how many grants existed at that moment:     *)
(* neither is stored by the code, both are for the properties.             *)
(***************************************************************************)
EXTENDS Naturals, FiniteSets, Sequences, SequencesExt

CONSTANTS Segments,    \* the segments scopes and stream ids are made of
          Scopes,      \* prefix scopes a lease may be granted for
          Streams,     \* event streams of the parent's store
          TTL,         \* lease_ttl_ms
          MaxTime,     \* bound on the wall clock
          MaxLeases,   \* bound on the number of grants
          MaxCreds,    \* bound on the number of credentials
          MaxRecords,  \* bound on the length of a stream
          MaxPending   \* bound on the requests between their transactions

ASSUME LeaseAssumption ==
    /\ Scopes \subseteq Seq(Segments) \ {<<>>}
    /\ Streams \subseteq Seq(Segments)
    /\ TTL \in Nat /\ MaxTime \in Nat /\ MaxLeases \in Nat
    /\ MaxCreds \in Nat /\ MaxRecords \in Nat /\ MaxPending \in Nat

VARIABLES now,      \* the daemon clock, a wall clock that may step back
          leases,   \* cooldis_stream_leases, in grant order
          creds,    \* cooldis_stream_write_credentials, in mint order
          pending,  \* requests whose token is verified and not yet used
          log       \* the event streams

vars == << now, leases, creds, pending, log >>

LeaseIds == 1..Len(leases)
CredIds == 1..Len(creds)

(***************************************************************************)
(* Scopes.                                                                 *)
(***************************************************************************)
\* prefix_contains and StreamPrefixScope::authorizes: the prefix itself or a
\* descendant below a colon; the empty prefix contains nothing.
Authorizes(prefix, id) == prefix # <<>> /\ IsPrefix(prefix, id)

Overlap(a, b) == Authorizes(a, b) \/ Authorizes(b, a)

Covers(l, s) == Authorizes(leases[l].scope, s)

(***************************************************************************)
(* The grant table.                                                        *)
(***************************************************************************)
\* latest_lease_for_scope: the grant of the scope's greatest generation.
IsLatest(l) ==
    \A m \in LeaseIds :
        leases[m].scope = leases[l].scope => leases[m].gen <= leases[l].gen

\* latest_unreleased_leases.
Live(l) == l \in LeaseIds /\ ~leases[l].released /\ IsLatest(l)

\* fence_decision for a presented lease and a stream.
FenceDecision(l, s) ==
    IF l \notin LeaseIds THEN "unknown"
    ELSE IF ~Covers(l, s) THEN "unknown"
    ELSE IF ~Live(l) \/ {m \in LeaseIds : Live(m) /\ Covers(m, s)} # {l}
    THEN "superseded"
    ELSE IF now >= leases[l].expires THEN "expired"
    ELSE "current"

Init ==
    /\ now = 0
    /\ leases = <<>>
    /\ creds = <<>>
    /\ pending = {}
    /\ log = [s \in Streams |-> <<>>]

\* Mutant: any earlier grant of the scope is accepted as predecessor.
LineageMatchesAny(scope, named) ==
    IF named = 0 THEN \A m \in LeaseIds : leases[m].scope # scope
    ELSE named \in LeaseIds /\ leases[named].scope = scope

\* The lineage names the immediately preceding grant of the scope, or
\* nothing (0) when the scope was never granted.
LineageMatches(scope, named) ==
    IF named = 0 THEN \A m \in LeaseIds : leases[m].scope # scope
    ELSE named \in LeaseIds /\ leases[named].scope = scope /\ IsLatest(named)

\* Mutant: only the exact scope is looked up, so overlaps go unnoticed.
NoOverlapExact(scope) == TRUE

NoOverlap(scope) ==
    \A m \in LeaseIds :
        Live(m) /\ leases[m].scope # scope => ~Overlap(leases[m].scope, scope)

\* Mutant: only the oldest credential of the lease is revoked.
RevokedFirst(l) ==
    [c \in CredIds |->
        [creds[c] EXCEPT !.revoked =
            @ \/ /\ creds[c].lease = l
                 /\ \A d \in 1..(c - 1) : creds[d].lease # l]]

\* revoke_lease_credentials.
Revoked(l) ==
    [c \in CredIds |-> [creds[c] EXCEPT !.revoked = @ \/ creds[c].lease = l]]

\* Mutant: generations count from zero.
GrantFromZero(scope, named) ==
    /\ Len(leases) < MaxLeases
    /\ LineageMatches(scope, named)
    /\ NoOverlap(scope)
    /\ leases' = Append(leases,
          [scope |-> scope,
           gen |-> IF named = 0 THEN 0 ELSE leases[named].gen + 1,
           prev |-> named, expires |-> now + TTL, released |-> FALSE])
    /\ creds' = Revoked(named)
    /\ UNCHANGED << now, pending, log >>

\* grant_lease: a replacement retires its predecessor in the same commit.
Grant(scope, named) ==
    /\ Len(leases) < MaxLeases
    /\ LineageMatches(scope, named)
    /\ NoOverlap(scope)
    /\ leases' = Append(leases,
          [scope |-> scope,
           gen |-> IF named = 0 THEN 1 ELSE leases[named].gen + 1,
           prev |-> named, expires |-> now + TTL, released |-> FALSE])
    /\ creds' = Revoked(named)
    /\ UNCHANGED << now, pending, log >>

\* release_lease: a no-op for a lease that is superseded or released.
Release(l) ==
    /\ Live(l)
    /\ leases' = [leases EXCEPT ![l].released = TRUE]
    /\ creds' = Revoked(l)
    /\ UNCHANGED << now, pending, log >>

\* mint_credential: only for the scope's latest, unreleased grant.
Mint(l) ==
    /\ Len(creds) < MaxCreds
    /\ Live(l)
    /\ creds' = Append(creds, [lease |-> l, revoked |-> FALSE])
    /\ UNCHANGED << now, leases, pending, log >>

RevokeCredential(c) ==
    /\ c \in CredIds
    /\ creds' = [creds EXCEPT ![c].revoked = TRUE]
    /\ UNCHANGED << now, leases, pending, log >>

(***************************************************************************)
(* The endpoint: verify a token, then use the lease it stands for.         *)
(***************************************************************************)
\* verify_token: expiry is not looked at.
Verified(c) == ~creds[c].revoked /\ Live(creds[c].lease)

Push(l, s, tail) == [kind |-> "push", lease |-> l, stream |-> s, tail |-> tail]
Renewal(l) == [kind |-> "renew", lease |-> l, stream |-> <<>>, tail |-> 0]

\* validate_push_request has found the batch well formed: the request waits
\* for its second transaction.
Accept(r) ==
    /\ Cardinality(pending) < MaxPending
    /\ pending' = pending \cup {r}
    /\ UNCHANGED << now, leases, creds, log >>

\* push, first half: the token is known, its scope authorizes the stream, and
\* the request presents the lease the token is bound to.
ReceivePush(c, l, s, tail) ==
    /\ Verified(c)
    /\ Authorizes(leases[creds[c].lease].scope, s)
    /\ creds[c].lease = l
    /\ Accept(Push(l, s, tail))

ReceiveRenewal(c) ==
    /\ Verified(c)
    /\ Accept(Renewal(creds[c].lease))

\* Mutant: the verified token is trusted and only the tail is checked.
AppendIfTail(r) ==
    /\ r \in pending /\ r.kind = "push"
    /\ pending' = pending \ {r}
    /\ log' = IF Len(log[r.stream]) = r.tail
              THEN [log EXCEPT ![r.stream] =
                       Append(@, [by |-> r.lease, at |-> Len(leases)])]
              ELSE log
    /\ UNCHANGED << now, leases, creds >>

\* append_if_current: lease fence, expected tail and append are one commit.
\* Anything but a current lease at the expected tail is rejected.
AppendIfCurrent(r) ==
    /\ r \in pending /\ r.kind = "push"
    /\ pending' = pending \ {r}
    /\ log' = IF /\ FenceDecision(r.lease, r.stream) = "current"
                 /\ Len(log[r.stream]) = r.tail
              THEN [log EXCEPT ![r.stream] =
                       Append(@, [by |-> r.lease, at |-> Len(leases)])]
              ELSE log
    /\ UNCHANGED << now, leases, creds >>

\* renew_lease: a deadline never moves back, and one that has passed can
\* still be extended by the latest, unreleased grant.
Renew(r) ==
    /\ r \in pending /\ r.kind = "renew"
    /\ pending' = pending \ {r}
    /\ leases' = IF Live(r.lease)
                 THEN [leases EXCEPT ![r.lease].expires =
                          IF now + TTL > @ THEN now + TTL ELSE @]
                 ELSE leases
    /\ UNCHANGED << now, creds, log >>

\* A request is cancelled, or the daemon dies, between the transactions.
Lose(r) ==
    /\ r \in pending
    /\ pending' = pending \ {r}
    /\ UNCHANGED << now, leases, creds, log >>

\* The wall clock moves, forward or back.
SetClock(t) ==
    /\ t # now
    /\ now' = t
    /\ UNCHANGED << leases, creds, pending, log >>

Next ==
    \/ \E scope \in Scopes, named \in 0..Len(leases) : Grant(scope, named)
    \/ \E l \in LeaseIds : Release(l) \/ Mint(l)
    \/ \E c \in CredIds : RevokeCredential(c) \/ ReceiveRenewal(c)
    \/ \E c \in CredIds, l \in LeaseIds, s \in Streams :
          \E tail \in 0..(MaxRecords - 1) : ReceivePush(c, l, s, tail)
    \/ \E r \in pending : AppendIfCurrent(r) \/ Renew(r) \/ Lose(r)
    \/ \E t \in 0..MaxTime : SetClock(t)

Spec == Init /\ [][Next]_vars

(***************************************************************************)
(* Properties.                                                             *)
(***************************************************************************)
LeaseRows == [scope : Scopes, gen : Nat \ {0}, prev : Nat, expires : Nat,
              released : BOOLEAN]
CredRows == [lease : Nat, revoked : BOOLEAN]
Requests == [kind : {"push", "renew"}, lease : Nat,
             stream : Streams \cup {<<>>}, tail : Nat]
StreamRecords == [by : Nat, at : Nat]

\* The type invariant; rows point into the tables they refer to.
TypeOK ==
    /\ now \in Nat
    /\ leases \in Seq(LeaseRows)
    /\ creds \in Seq(CredRows)
    /\ \A c \in CredIds : creds[c].lease \in LeaseIds
    /\ pending \subseteq Requests
    /\ \A r \in pending :
          r.lease \in LeaseIds /\ (r.kind = "push" => r.stream \in Streams)
    /\ log \in [Streams -> Seq(StreamRecords)]

\* "At most one live propagator per stream", from the durable rows alone: no
\* two live grants, of whatever scopes, cover one stream.
OneLiveWriter ==
    \A s \in Streams : \A l, m \in LeaseIds :
        Live(l) /\ Live(m) /\ Covers(l, s) /\ Covers(m, s) => l = m

\* "After the grant commits, a push bearing the old lease is rejected": every
\* newer grant that covers a stream was made after the record was appended,
\* however long ago the writer's token was verified.
NoStaleWriter ==
    \A s \in Streams : \A i \in 1..Len(log[s]) : \A m \in LeaseIds :
        m > log[s][i].by /\ Covers(m, s) => m > log[s][i].at

\* Release and supersession retire the credentials minted for a lease: a
\* credential that is not revoked belongs to a live grant.
NoOrphanCredential ==
    \A c \in CredIds : ~creds[c].revoked => Live(creds[c].lease)

\* "The chain of supersessions is the durable proof that write authority
\* moved, not multiplied": a grant names the grant of its scope just before
\* it, each grant has at most one successor, and generations count the chain.
LineageIsChain ==
    \A l \in LeaseIds :
        LET earlier == {m \in 1..(l - 1) : leases[m].scope = leases[l].scope}
        IN  /\ leases[l].gen = Cardinality(earlier) + 1
            /\ IF earlier = {} THEN leases[l].prev = 0
               ELSE /\ leases[l].prev \in earlier
                    /\ \A m \in earlier : m <= leases[l].prev

(***************************************************************************)
(* Why they hold: the inductive strengthening.                             *)
(***************************************************************************)
GenerationsGrow ==
    \A l, m \in LeaseIds :
        l < m /\ leases[l].scope = leases[m].scope =>
            leases[l].gen < leases[m].gen

\* Nothing granted after a live lease overlaps it.
LiveIsNewest ==
    \A l, m \in LeaseIds :
        l < m /\ Live(l) => ~Overlap(leases[l].scope, leases[m].scope)

RecordsCovered ==
    \A s \in Streams : \A i \in 1..Len(log[s]) :
        /\ log[s][i].by \in LeaseIds /\ Covers(log[s][i].by, s)
        /\ log[s][i].at \in 0..Len(leases)

\* The grant table orders all authority: generations grow along a scope, a
\* live lease is the newest grant of whatever it overlaps, and records and
\* credentials hang off that order.
LeaseInv ==
    /\ GenerationsGrow /\ LiveIsNewest /\ RecordsCovered
    /\ NoStaleWriter /\ NoOrphanCredential
=============================================================================

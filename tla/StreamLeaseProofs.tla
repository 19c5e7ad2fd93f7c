------------------------- MODULE StreamLeaseProofs --------------------------
(***************************************************************************)
(* Proofs about StreamLease for any scopes, streams and bounds.  The       *)
(* argument rests on one order: position in the grant table.  A live lease *)
(* is the newest grant of everything it overlaps (LiveIsNewest), two       *)
(* scopes that cover one stream overlap (PrefixesCompare), so no two live  *)
(* leases cover a stream and no record is written under a lease once a     *)
(* newer grant covers its stream.                                          *)
(***************************************************************************)
EXTENDS LeaseRefinement, TLAPS, SequenceTheorems, FiniteSetTheorems

\* A prefix, element by element.
LEMMA PrefixElements ==
    ASSUME NEW p \in Seq(Segments), NEW s \in Seq(Segments)
    PROVE  IsPrefix(p, s) <=>
             Len(p) <= Len(s) /\ \A i \in 1..Len(p) : p[i] = s[i]
<1>1. Len(p) \in Nat /\ Len(s) \in Nat
  BY LenProperties
<1>2. SubSeq(p, 1, Len(p)) = p
  BY SubSeqFull
<1> SUFFICES ASSUME Len(p) <= Len(s)
             PROVE  p = SubSeq(s, 1, Len(p)) <=>
                      \A i \in 1..Len(p) : p[i] = s[i]
  BY <1>2 DEF IsPrefix
<1> DEFINE q == SubSeq(s, 1, Len(p))
<1>3. \A i \in 1..Len(p) : s[i] \in Segments
  BY <1>1, ElementOfSeq
<1>4. /\ q \in Seq(Segments) /\ Len(q) = Len(p)
      /\ \A i \in 1..Len(p) : q[i] = s[i]
  BY <1>1, <1>3, SubSeqProperties
<1> HIDE DEF q
<1>5. (\A i \in 1..Len(p) : p[i] = q[i]) => p = q
  BY <1>4, SeqEqual
<1> QED
  BY <1>4, <1>5 DEF q

\* Two scopes that authorize one stream overlap, whatever their lengths.
LEMMA PrefixesCompare ==
    ASSUME NEW a \in Seq(Segments), NEW b \in Seq(Segments),
           NEW s \in Seq(Segments), Authorizes(a, s), Authorizes(b, s)
    PROVE  Overlap(a, b)
<1>1. Len(a) \in Nat /\ Len(b) \in Nat /\ Len(s) \in Nat
  BY LenProperties
<1>2. /\ \A i \in 1..Len(a) : a[i] = s[i]
      /\ \A i \in 1..Len(b) : b[i] = s[i]
  BY PrefixElements DEF Authorizes
<1>3. CASE Len(a) <= Len(b)
  <2>1. IsPrefix(a, b)
    BY <1>1, <1>2, <1>3, PrefixElements
  <2> QED
    BY <2>1 DEF Overlap, Authorizes
<1>4. CASE Len(b) <= Len(a)
  <2>1. IsPrefix(b, a)
    BY <1>1, <1>2, <1>4, PrefixElements
  <2> QED
    BY <2>1 DEF Overlap, Authorizes
<1> QED
  BY <1>1, <1>3, <1>4

(***************************************************************************)
(* Types.                                                                  *)
(***************************************************************************)
LEMMA TableTypes ==
    ASSUME TypeOK
    PROVE  /\ Len(leases) \in Nat /\ Len(creds) \in Nat
           /\ \A l \in LeaseIds : leases[l] \in LeaseRows
           /\ \A c \in CredIds : creds[c] \in CredRows
           /\ \A l \in LeaseIds : leases[l].scope \in Seq(Segments)
           /\ \A s \in Streams : s \in Seq(Segments)
<1>1. leases \in Seq(LeaseRows) /\ creds \in Seq(CredRows)
  BY DEF TypeOK
<1>2. /\ Len(leases) \in Nat /\ Len(creds) \in Nat
      /\ \A l \in LeaseIds : leases[l] \in LeaseRows
      /\ \A c \in CredIds : creds[c] \in CredRows
  BY <1>1, LenProperties, ElementOfSeq DEF LeaseIds, CredIds
<1> QED
  BY <1>2, LeaseAssumption DEF LeaseRows, LeaseAssumption

LEMMA RevokedType ==
    ASSUME TypeOK, NEW l \in Nat
    PROVE  /\ Revoked(l) \in Seq(CredRows) /\ Len(Revoked(l)) = Len(creds)
           /\ \A c \in CredIds :
                 /\ Revoked(l)[c].lease = creds[c].lease
                 /\ Revoked(l)[c].revoked =
                       (creds[c].revoked \/ creds[c].lease = l)
<1>1. Len(creds) \in Nat /\ \A c \in CredIds : creds[c] \in CredRows
  BY TableTypes
<1>2. Revoked(l) \in [1..Len(creds) -> CredRows]
  BY <1>1, Zenon DEF Revoked, CredIds, CredRows
<1>3. Revoked(l) \in Seq(CredRows) /\ Len(Revoked(l)) = Len(creds)
  BY <1>1, <1>2
<1>4. \A c \in CredIds :
         /\ Revoked(l)[c].lease = creds[c].lease
         /\ Revoked(l)[c].revoked = (creds[c].revoked \/ creds[c].lease = l)
  BY <1>1, Zenon DEF Revoked, CredRows
<1> QED
  BY <1>3, <1>4

LEMMA GrantType ==
    ASSUME TypeOK, NEW scope \in Scopes, NEW named \in 0..Len(leases),
           Grant(scope, named)
    PROVE  TypeOK'
<1>1. /\ leases \in Seq(LeaseRows) /\ Len(leases) \in Nat /\ now \in Nat
      /\ TTL \in Nat /\ \A l \in LeaseIds : leases[l] \in LeaseRows
  BY TableTypes, LeaseAssumption DEF TypeOK, LeaseAssumption
<1> DEFINE row == [scope |-> scope,
                   gen |-> IF named = 0 THEN 1 ELSE leases[named].gen + 1,
                   prev |-> named, expires |-> now + TTL, released |-> FALSE]
<1>2. row \in LeaseRows
  <2>1. named # 0 => leases[named].gen \in Nat
    BY <1>1 DEF LeaseIds, LeaseRows
  <2>2. (IF named = 0 THEN 1 ELSE leases[named].gen + 1) \in Nat \ {0}
    BY <2>1
  <2>3. named \in Nat /\ now + TTL \in Nat
    BY <1>1
  <2> QED
    BY <2>2, <2>3, Zenon DEF LeaseRows
<1>3. leases' = Append(leases, row)
  BY DEF Grant
<1> HIDE DEF row
<1>4. leases' \in Seq(LeaseRows) /\ Len(leases') = Len(leases) + 1
  BY <1>1, <1>2, <1>3
<1>5. creds' \in Seq(CredRows) /\ \A c \in CredIds' : creds'[c].lease \in LeaseIds'
  <2>1. creds' = Revoked(named) /\ named \in Nat
    BY <1>1 DEF Grant
  <2>2. /\ Revoked(named) \in Seq(CredRows)
        /\ Len(Revoked(named)) = Len(creds)
        /\ \A c \in CredIds : Revoked(named)[c].lease = creds[c].lease
    BY <2>1, RevokedType
  <2>3. \A c \in CredIds : creds[c].lease \in 1..(Len(leases) + 1)
    BY <1>1 DEF TypeOK, LeaseIds
  <2>4. CredIds' = CredIds /\ LeaseIds' = 1..(Len(leases) + 1)
    BY <1>4, <2>1, <2>2 DEF CredIds, LeaseIds
  <2> QED
    BY <2>1, <2>2, <2>3, <2>4
<1> QED
  BY <1>1, <1>4, <1>5 DEF Grant, TypeOK, LeaseIds

LEMMA ReleaseType ==
    ASSUME TypeOK, NEW l \in LeaseIds, Release(l)
    PROVE  TypeOK' /\ Len(leases') = Len(leases)
<1>1. /\ leases \in Seq(LeaseRows) /\ Len(leases) \in Nat
      /\ leases[l] \in LeaseRows /\ l \in 1..Len(leases)
  BY TableTypes DEF TypeOK, LeaseIds
<1>2. [leases[l] EXCEPT !.released = TRUE] \in LeaseRows
  BY <1>1 DEF LeaseRows
<1>3. leases' \in Seq(LeaseRows) /\ Len(leases') = Len(leases)
  BY <1>1, <1>2, ExceptSeq DEF Release
<1>4. creds' \in Seq(CredRows) /\ \A c \in CredIds' : creds'[c].lease \in LeaseIds'
  <2>1. creds' = Revoked(l) /\ l \in Nat
    BY <1>1 DEF Release
  <2>2. /\ Revoked(l) \in Seq(CredRows) /\ Len(Revoked(l)) = Len(creds)
        /\ \A c \in CredIds : Revoked(l)[c].lease = creds[c].lease
    BY <2>1, RevokedType
  <2> QED
    BY <1>1, <1>3, <2>1, <2>2 DEF TypeOK, CredIds, LeaseIds
<1> QED
  BY <1>3, <1>4 DEF Release, TypeOK, LeaseIds

LEMMA CredentialType ==
    ASSUME TypeOK,
           \/ \E l \in LeaseIds : Mint(l)
           \/ \E c \in CredIds : RevokeCredential(c)
    PROVE  TypeOK'
<1>1. creds \in Seq(CredRows) /\ Len(creds) \in Nat
  BY TableTypes DEF TypeOK
<1>2. ASSUME NEW l \in LeaseIds, Mint(l)
      PROVE  TypeOK'
  <2>1. [lease |-> l, revoked |-> FALSE] \in CredRows
    BY TableTypes DEF CredRows, LeaseIds
  <2> DEFINE row == [lease |-> l, revoked |-> FALSE]
  <2>2. creds' = Append(creds, row) /\ row.lease = l /\ row \in CredRows
    BY <1>2, <2>1 DEF Mint
  <2> HIDE DEF row
  <2>3. /\ creds' \in Seq(CredRows) /\ Len(creds') = Len(creds) + 1
        /\ \A c \in 1..Len(creds) : creds'[c] = creds[c]
        /\ creds'[Len(creds) + 1] = row
    BY <1>1, <2>2
  <2>4. \A c \in CredIds' : creds'[c].lease \in LeaseIds
    BY <1>1, <2>2, <2>3 DEF TypeOK, CredIds
  <2> QED
    BY <1>2, <2>3, <2>4 DEF Mint, TypeOK, LeaseIds
<1>3. ASSUME NEW c \in CredIds, RevokeCredential(c)
      PROVE  TypeOK'
  <2>1. creds[c] \in CredRows
    BY TableTypes
  <2>2. [creds[c] EXCEPT !.revoked = TRUE] \in CredRows
    BY <2>1 DEF CredRows
  <2>3. /\ creds' \in Seq(CredRows) /\ Len(creds') = Len(creds)
        /\ \A d \in 1..Len(creds) : creds'[d] =
              IF d = c THEN [creds[c] EXCEPT !.revoked = TRUE] ELSE creds[d]
    BY <1>1, <1>3, <2>2, ExceptSeq DEF RevokeCredential, CredIds
  <2>4. \A d \in CredIds' : creds'[d].lease = creds[d].lease
    BY <2>1, <2>3 DEF CredIds, CredRows
  <2> QED
    BY <1>3, <2>3, <2>4 DEF RevokeCredential, TypeOK, CredIds, LeaseIds
<1> QED
  BY <1>2, <1>3

LEMMA AcceptType ==
    ASSUME TypeOK,
           \/ \E c \in CredIds : ReceiveRenewal(c)
           \/ \E c \in CredIds, l \in LeaseIds, s \in Streams :
                 \E tail \in 0..(MaxRecords - 1) : ReceivePush(c, l, s, tail)
    PROVE  TypeOK'
<1>1. ASSUME NEW r \in Requests, r.lease \in LeaseIds,
             r.kind = "push" => r.stream \in Streams, Accept(r)
      PROVE  TypeOK'
  BY <1>1 DEF Accept, TypeOK, LeaseIds, CredIds
<1>2. ASSUME NEW c \in CredIds, ReceiveRenewal(c)
      PROVE  TypeOK'
  <2>1. creds[c].lease \in LeaseIds /\ creds[c].lease \in Nat
    BY TableTypes DEF TypeOK, LeaseIds
  <2>2. /\ Renewal(creds[c].lease) \in Requests
        /\ Renewal(creds[c].lease).lease \in LeaseIds
        /\ Renewal(creds[c].lease).kind # "push"
    BY <2>1 DEF Renewal, Requests
  <2> QED
    BY <1>1, <1>2, <2>2 DEF ReceiveRenewal
<1>3. ASSUME NEW c \in CredIds, NEW l \in LeaseIds, NEW s \in Streams,
             NEW tail \in 0..(MaxRecords - 1), ReceivePush(c, l, s, tail)
      PROVE  TypeOK'
  <2>1. l \in Nat /\ tail \in Nat
    BY TableTypes, LeaseAssumption DEF LeaseIds, LeaseAssumption
  <2>2. /\ Push(l, s, tail) \in Requests /\ Push(l, s, tail).lease \in LeaseIds
        /\ Push(l, s, tail).stream \in Streams
    BY <2>1 DEF Push, Requests
  <2> QED
    BY <1>1, <1>3, <2>2 DEF ReceivePush
<1> QED
  BY <1>2, <1>3

LEMMA AppendType ==
    ASSUME TypeOK, NEW r \in pending, AppendIfCurrent(r)
    PROVE  TypeOK'
<1>1. /\ r.stream \in Streams /\ r.lease \in Nat /\ Len(leases) \in Nat
      /\ log \in [Streams -> Seq(StreamRecords)]
  BY TableTypes DEF AppendIfCurrent, TypeOK, LeaseIds
<1>2. [by |-> r.lease, at |-> Len(leases)] \in StreamRecords
  BY <1>1 DEF StreamRecords
<1>3. log' \in [Streams -> Seq(StreamRecords)]
  BY <1>1, <1>2 DEF AppendIfCurrent
<1> QED
  BY <1>3 DEF AppendIfCurrent, TypeOK, LeaseIds, CredIds

LEMMA RenewType ==
    ASSUME TypeOK, NEW r \in pending, Renew(r)
    PROVE  /\ TypeOK' /\ Len(leases') = Len(leases)
           /\ \A m \in LeaseIds : /\ leases'[m].scope = leases[m].scope
                                  /\ leases'[m].gen = leases[m].gen
                                  /\ leases'[m].released = leases[m].released
<1>1. /\ leases \in Seq(LeaseRows) /\ Len(leases) \in Nat /\ now \in Nat
      /\ TTL \in Nat /\ r.lease \in 1..Len(leases)
      /\ leases[r.lease] \in LeaseRows
  BY TableTypes, LeaseAssumption DEF TypeOK, LeaseIds, LeaseAssumption
<1> DEFINE e == IF now + TTL > leases[r.lease].expires THEN now + TTL
                ELSE leases[r.lease].expires
           row == [leases[r.lease] EXCEPT !.expires = e]
<1>2. e \in Nat
  BY <1>1 DEF LeaseRows
<1>3. leases' = leases \/ leases' = [leases EXCEPT ![r.lease] = row]
  BY <1>1 DEF Renew
<1> HIDE DEF e
<1>5. /\ row \in LeaseRows /\ row.scope = leases[r.lease].scope
      /\ row.gen = leases[r.lease].gen
      /\ row.released = leases[r.lease].released
  BY <1>1, <1>2 DEF LeaseRows
<1> HIDE DEF row
<1>4. /\ leases' \in Seq(LeaseRows) /\ Len(leases') = Len(leases)
      /\ \A m \in LeaseIds : /\ leases'[m].scope = leases[m].scope
                             /\ leases'[m].gen = leases[m].gen
                             /\ leases'[m].released = leases[m].released
  <2>1. CASE leases' = leases
    BY <1>1, <2>1
  <2>2. CASE leases' = [leases EXCEPT ![r.lease] = row]
    <3>1. /\ leases' \in Seq(LeaseRows) /\ Len(leases') = Len(leases)
          /\ \A m \in 1..Len(leases) :
                leases'[m] = IF m = r.lease THEN row ELSE leases[m]
      BY <1>1, <1>5, <2>2, ExceptSeq
    <3> QED
      BY <1>5, <3>1 DEF LeaseIds
  <2> QED
    BY <1>3, <2>1, <2>2
<1> QED
  BY <1>4 DEF Renew, TypeOK, LeaseIds, CredIds

LEMMA ClockType ==
    ASSUME TypeOK,
           \/ \E r \in pending : Lose(r)
           \/ \E t \in 0..MaxTime : SetClock(t)
    PROVE  TypeOK'
BY LeaseAssumption
   DEF LeaseAssumption, Lose, SetClock, TypeOK, LeaseIds, CredIds

(***************************************************************************)
(* The grant table.                                                        *)
(***************************************************************************)
\* A step that leaves scopes and generations alone and only ever sets
\* released marks no lease live that was not.
LEMMA SameGrants ==
    ASSUME LeaseInv, Len(leases') = Len(leases),
           \A m \in LeaseIds : /\ leases'[m].scope = leases[m].scope
                               /\ leases'[m].gen = leases[m].gen
                               /\ leases[m].released => leases'[m].released
    PROVE  /\ LeaseIds' = LeaseIds
           /\ \A m \in LeaseIds : IsLatest(m)' <=> IsLatest(m)
           /\ \A m \in LeaseIds : \A s : Covers(m, s)' <=> Covers(m, s)
           /\ GenerationsGrow' /\ LiveIsNewest'
<1>1. LeaseIds' = LeaseIds
  BY DEF LeaseIds
<1>2. \A m \in LeaseIds : IsLatest(m)' <=> IsLatest(m)
  BY <1>1 DEF IsLatest
<1>3. \A m \in LeaseIds : \A s : Covers(m, s)' <=> Covers(m, s)
  BY DEF Covers
<1>4. GenerationsGrow'
  BY <1>1 DEF LeaseInv, GenerationsGrow
<1>5. \A m \in LeaseIds : Live(m)' => Live(m)
  BY <1>1, <1>2 DEF Live
<1>6. LiveIsNewest'
  BY <1>1, <1>5 DEF LeaseInv, LiveIsNewest
<1> QED
  BY <1>1, <1>2, <1>3, <1>4, <1>6

\* Records stay covered and fresh when neither they nor the grants change.
LEMMA SameRecords ==
    ASSUME LeaseInv, Len(leases') = Len(leases), LeaseIds' = LeaseIds,
           \A m \in LeaseIds : \A s : Covers(m, s)' <=> Covers(m, s),
           log' = log
    PROVE  RecordsCovered' /\ NoStaleWriter'
<1>1. RecordsCovered'
  BY DEF LeaseInv, RecordsCovered
<1>2. NoStaleWriter'
  BY DEF LeaseInv, NoStaleWriter
<1> QED
  BY <1>1, <1>2

\* Of two grants of one scope that are both the latest, there is one.
LEMMA OneLatest ==
    ASSUME TypeOK, GenerationsGrow, NEW l \in LeaseIds, NEW m \in LeaseIds,
           leases[l].scope = leases[m].scope, IsLatest(l), IsLatest(m)
    PROVE  l = m
<1>1. /\ l \in Nat /\ m \in Nat
      /\ leases[l].gen \in Nat /\ leases[m].gen \in Nat
  BY TableTypes DEF LeaseIds, LeaseRows
<1>2. leases[l].gen <= leases[m].gen /\ leases[m].gen <= leases[l].gen
  BY DEF IsLatest
<1>3. ~(l < m) /\ ~(m < l)
  BY <1>1, <1>2 DEF GenerationsGrow
<1> QED
  BY <1>1, <1>3

LEMMA GrantInv ==
    ASSUME TypeOK, LeaseInv, NEW scope \in Scopes,
           NEW named \in 0..Len(leases), Grant(scope, named)
    PROVE  LeaseInv'
<1>1. /\ leases \in Seq(LeaseRows) /\ Len(leases) \in Nat
      /\ \A l \in LeaseIds : leases[l] \in LeaseRows
      /\ \A l \in LeaseIds : l \in Nat /\ leases[l].gen \in Nat
  BY TableTypes DEF TypeOK, LeaseIds, LeaseRows
<1> DEFINE n == Len(leases) + 1
           g == IF named = 0 THEN 1 ELSE leases[named].gen + 1
           row == [scope |-> scope, gen |-> g, prev |-> named,
                   expires |-> now + TTL, released |-> FALSE]
<1>2. /\ leases' = Append(leases, row) /\ row.scope = scope /\ row.gen = g
      /\ row.released = FALSE
  BY DEF Grant
<1> HIDE DEF row
<1>3. /\ Len(leases') = n /\ LeaseIds' = 1..n /\ LeaseIds = 1..(n - 1)
      /\ \A m \in LeaseIds : leases'[m] = leases[m]
      /\ leases'[n] = row
  BY <1>1, <1>2 DEF LeaseIds
<1>4. \A m \in LeaseIds : leases[m].scope = scope => leases[m].gen < g
  <2>1. CASE named = 0
    BY <2>1 DEF Grant, LineageMatches
  <2>2. CASE named # 0
    <3>1. /\ named \in LeaseIds /\ leases[named].scope = scope
          /\ IsLatest(named)
      BY <2>2 DEF Grant, LineageMatches
    <3> QED
      BY <1>1, <2>2, <3>1 DEF IsLatest
  <2> QED
    BY <2>1, <2>2
<1> HIDE DEF g
<1>5. n \in Nat /\ n \in LeaseIds' /\ \A m \in LeaseIds : m \in LeaseIds' /\ m < n
  BY <1>1, <1>3
<1>6. \A m \in LeaseIds' : m \in LeaseIds \/ m = n
  BY <1>1, <1>3
<1>7. GenerationsGrow'
  <2> SUFFICES ASSUME NEW l \in LeaseIds', NEW m \in LeaseIds', l < m,
                      leases'[l].scope = leases'[m].scope
               PROVE  leases'[l].gen < leases'[m].gen
    BY DEF GenerationsGrow
  <2>1. l \in LeaseIds
    BY <1>1, <1>3
  <2>2. CASE m \in LeaseIds
    BY <1>3, <2>1, <2>2 DEF LeaseInv, GenerationsGrow
  <2>3. CASE m = n
    BY <1>2, <1>3, <1>4, <2>1, <2>3
  <2> QED
    BY <1>6, <2>2, <2>3
<1>8. \A m \in LeaseIds : Live(m)' => Live(m) /\ leases[m].scope # scope
  <2> SUFFICES ASSUME NEW m \in LeaseIds, Live(m)'
               PROVE  Live(m) /\ leases[m].scope # scope
    OBVIOUS
  <2>1. ~leases[m].released /\ IsLatest(m)'
    BY <1>3 DEF Live
  <2>2. IsLatest(m)
    BY <1>3, <1>5, <2>1 DEF IsLatest
  <2>3. leases[m].scope = scope => g <= leases[m].gen
    BY <1>2, <1>3, <1>5, <2>1 DEF IsLatest
  <2>4. g \in Nat
    BY <1>1, <1>3 DEF g, LeaseIds
  <2> QED
    BY <1>1, <1>4, <2>1, <2>2, <2>3, <2>4 DEF Live
<1>9. LiveIsNewest'
  <2> SUFFICES ASSUME NEW l \in LeaseIds', NEW m \in LeaseIds', l < m, Live(l)'
               PROVE  ~Overlap(leases'[l].scope, leases'[m].scope)
    BY DEF LiveIsNewest
  <2>1. l \in LeaseIds
    BY <1>1, <1>3
  <2>2. Live(l) /\ leases[l].scope # scope
    BY <1>8, <2>1
  <2>3. CASE m \in LeaseIds
    BY <1>3, <2>1, <2>2, <2>3 DEF LeaseInv, LiveIsNewest
  <2>4. CASE m = n
    <3>1. ~Overlap(leases[l].scope, scope)
      BY <2>1, <2>2 DEF Grant, NoOverlap
    <3> QED
      BY <1>2, <1>3, <2>1, <2>4, <3>1
  <2> QED
    BY <1>6, <2>3, <2>4
<1>10. \A m \in LeaseIds : \A s : Covers(m, s)' <=> Covers(m, s)
  BY <1>3 DEF Covers
<1>11. log' = log
  BY DEF Grant
<1>12. RecordsCovered'
  <2> SUFFICES ASSUME NEW s \in Streams, NEW i \in 1..Len(log[s])
               PROVE  /\ log[s][i].by \in LeaseIds' /\ Covers(log[s][i].by, s)'
                      /\ log[s][i].at \in 0..Len(leases')
    BY <1>11 DEF RecordsCovered
  <2>1. /\ log[s][i].by \in LeaseIds /\ Covers(log[s][i].by, s)
        /\ log[s][i].at \in 0..Len(leases)
    BY DEF LeaseInv, RecordsCovered
  <2>2. PICK b \in LeaseIds : b = log[s][i].by
    BY <2>1
  <2>3. b \in LeaseIds' /\ Covers(b, s)'
    BY <1>5, <1>10, <2>1, <2>2
  <2>4. Len(leases') = Len(leases) + 1
    BY <1>3
  <2> QED
    BY <1>1, <1>11, <2>1, <2>2, <2>3, <2>4
<1>13. NoStaleWriter'
  <2> SUFFICES ASSUME NEW s \in Streams, NEW i \in 1..Len(log[s]),
                      NEW m \in LeaseIds', m > log[s][i].by, Covers(m, s)'
               PROVE  m > log[s][i].at
    BY <1>11 DEF NoStaleWriter
  <2>1. log[s][i].at \in 0..Len(leases)
    BY DEF LeaseInv, RecordsCovered
  <2>2. CASE m \in LeaseIds
    BY <1>10, <2>2 DEF LeaseInv, NoStaleWriter
  <2>3. CASE m = n
    BY <1>1, <2>1, <2>3
  <2> QED
    BY <1>6, <2>2, <2>3
<1>14. NoOrphanCredential'
  <2>1. creds' = Revoked(named) /\ named \in Nat
    BY <1>1 DEF Grant
  <2>2. /\ CredIds' = CredIds
        /\ \A c \in CredIds : /\ creds'[c].lease = creds[c].lease
                              /\ ~creds'[c].revoked =>
                                    ~creds[c].revoked /\ creds[c].lease # named
    BY <2>1, RevokedType DEF CredIds
  <2> SUFFICES ASSUME NEW c \in CredIds, NEW l, l = creds[c].lease,
                      ~creds[c].revoked, l # named
               PROVE  Live(l)'
    BY <2>2 DEF NoOrphanCredential
  <2>3. l \in LeaseIds /\ Live(l) /\ IsLatest(l) /\ ~leases[l].released
    BY DEF LeaseInv, NoOrphanCredential, TypeOK, Live
  <2>4. leases[l].scope # scope
    <3>1. CASE named = 0
      BY <2>3, <3>1 DEF Grant, LineageMatches
    <3>2. CASE named # 0
      <4>1. named \in LeaseIds /\ leases[named].scope = scope /\ IsLatest(named)
        BY <3>2 DEF Grant, LineageMatches
      <4> QED
        BY <2>3, <4>1, OneLatest DEF LeaseInv
    <3> QED
      BY <3>1, <3>2
  <2>5. IsLatest(l)'
    <3> SUFFICES ASSUME NEW m \in LeaseIds', leases'[m].scope = leases'[l].scope
                 PROVE  leases'[m].gen <= leases'[l].gen
      BY DEF IsLatest
    <3>1. m \in LeaseIds
      BY <1>2, <1>3, <1>6, <2>3, <2>4
    <3> QED
      BY <1>3, <2>3, <3>1 DEF IsLatest
  <2> QED
    BY <1>3, <1>5, <2>3, <2>5 DEF Live
<1> QED
  BY <1>7, <1>9, <1>12, <1>13, <1>14 DEF LeaseInv

LEMMA ReleaseInv ==
    ASSUME TypeOK, LeaseInv, NEW l \in LeaseIds, Release(l)
    PROVE  LeaseInv'
<1>1. /\ leases \in Seq(LeaseRows) /\ l \in 1..Len(leases)
      /\ leases[l] \in LeaseRows /\ l \in Nat
  BY TableTypes DEF TypeOK, LeaseIds
<1> DEFINE row == [leases[l] EXCEPT !.released = TRUE]
<1>2. /\ leases' = [leases EXCEPT ![l] = row] /\ row \in LeaseRows
      /\ row.scope = leases[l].scope /\ row.gen = leases[l].gen
      /\ row.released
  BY <1>1 DEF Release, LeaseRows
<1> HIDE DEF row
<1>3. /\ Len(leases') = Len(leases)
      /\ \A m \in LeaseIds : leases'[m] = IF m = l THEN row ELSE leases[m]
  BY <1>1, <1>2, ExceptSeq DEF LeaseIds
<1>4. \A m \in LeaseIds : /\ leases'[m].scope = leases[m].scope
                          /\ leases'[m].gen = leases[m].gen
                          /\ leases[m].released => leases'[m].released
  BY <1>2, <1>3
<1>5. /\ LeaseIds' = LeaseIds
      /\ \A m \in LeaseIds : IsLatest(m)' <=> IsLatest(m)
      /\ \A m \in LeaseIds : \A s : Covers(m, s)' <=> Covers(m, s)
      /\ GenerationsGrow' /\ LiveIsNewest'
  BY <1>3, <1>4, SameGrants
<1>6. RecordsCovered' /\ NoStaleWriter'
  BY <1>3, <1>5, SameRecords DEF Release
<1>7. NoOrphanCredential'
  <2>1. creds' = Revoked(l)
    BY DEF Release
  <2>2. /\ CredIds' = CredIds
        /\ \A c \in CredIds : /\ creds'[c].lease = creds[c].lease
                              /\ ~creds'[c].revoked =>
                                    ~creds[c].revoked /\ creds[c].lease # l
    BY <1>1, <2>1, RevokedType DEF CredIds
  <2> SUFFICES ASSUME NEW c \in CredIds, NEW m, m = creds[c].lease,
                      ~creds[c].revoked, m # l
               PROVE  Live(m)'
    BY <2>2 DEF NoOrphanCredential
  <2>3. m \in LeaseIds /\ IsLatest(m) /\ ~leases[m].released
    BY DEF LeaseInv, NoOrphanCredential, TypeOK, Live
  <2> QED
    BY <1>3, <1>5, <2>3 DEF Live
<1> QED
  BY <1>5, <1>6, <1>7 DEF LeaseInv

LEMMA RenewInv ==
    ASSUME TypeOK, LeaseInv, NEW r \in pending, Renew(r)
    PROVE  LeaseInv'
<1>1. /\ Len(leases') = Len(leases)
      /\ \A m \in LeaseIds : /\ leases'[m].scope = leases[m].scope
                             /\ leases'[m].gen = leases[m].gen
                             /\ leases'[m].released = leases[m].released
  BY RenewType
<1>2. /\ LeaseIds' = LeaseIds
      /\ \A m \in LeaseIds : IsLatest(m)' <=> IsLatest(m)
      /\ \A m \in LeaseIds : \A s : Covers(m, s)' <=> Covers(m, s)
      /\ GenerationsGrow' /\ LiveIsNewest'
  BY <1>1, SameGrants
<1>3. RecordsCovered' /\ NoStaleWriter'
  BY <1>1, <1>2, SameRecords DEF Renew
<1>4. creds' = creds
  BY DEF Renew
<1>5. NoOrphanCredential'
  <2> SUFFICES ASSUME NEW c \in CredIds, NEW m, m = creds[c].lease,
                      ~creds[c].revoked
               PROVE  Live(m)'
    BY <1>4 DEF NoOrphanCredential, CredIds
  <2>1. m \in LeaseIds /\ IsLatest(m) /\ ~leases[m].released
    BY DEF LeaseInv, NoOrphanCredential, TypeOK, Live
  <2> QED
    BY <1>1, <1>2, <2>1 DEF Live
<1> QED
  BY <1>2, <1>3, <1>5 DEF LeaseInv

\* The steps that leave the grant table and the streams alone.
LEMMA CredentialInv ==
    ASSUME TypeOK, LeaseInv, leases' = leases, log' = log,
           Len(creds) \in Nat, Len(creds') \in Nat,
           \A c \in CredIds' :
              ~creds'[c].revoked =>
                 \/ /\ c \in CredIds /\ ~creds[c].revoked
                    /\ creds'[c].lease = creds[c].lease
                 \/ Live(creds'[c].lease)
    PROVE  LeaseInv'
<1>1. /\ LeaseIds' = LeaseIds
      /\ \A m \in LeaseIds : IsLatest(m)' <=> IsLatest(m)
      /\ \A m \in LeaseIds : \A s : Covers(m, s)' <=> Covers(m, s)
      /\ GenerationsGrow' /\ LiveIsNewest'
  BY SameGrants
<1>2. RecordsCovered' /\ NoStaleWriter'
  BY <1>1, SameRecords
<1>3. \A m : Live(m) => Live(m)'
  BY <1>1 DEF Live
<1>4. NoOrphanCredential'
  <2> SUFFICES ASSUME NEW c \in CredIds', NEW m, m = creds'[c].lease,
                      ~creds'[c].revoked
               PROVE  Live(m)'
    BY DEF NoOrphanCredential
  <2>1. Live(m)
    BY DEF LeaseInv, NoOrphanCredential
  <2> QED
    BY <1>3, <2>1
<1> QED
  BY <1>1, <1>2, <1>4 DEF LeaseInv

\* The fence admits a lease only while no newer grant covers the stream.
LEMMA FenceIsFresh ==
    ASSUME TypeOK, LeaseInv, NEW l \in LeaseIds, NEW s \in Streams,
           FenceDecision(l, s) = "current"
    PROVE  /\ Covers(l, s) /\ Live(l)
           /\ \A m \in LeaseIds : m > l => ~Covers(m, s)
<1>1. Covers(l, s) /\ Live(l)
  BY DEF FenceDecision
<1>2. ASSUME NEW m \in LeaseIds, m > l, Covers(m, s)
      PROVE  FALSE
  <2>1. /\ leases[l].scope \in Seq(Segments)
        /\ leases[m].scope \in Seq(Segments) /\ s \in Seq(Segments)
        /\ l \in Nat /\ m \in Nat
    BY TableTypes DEF LeaseIds
  <2>2. Overlap(leases[l].scope, leases[m].scope)
    BY <1>1, <1>2, <2>1, PrefixesCompare DEF Covers
  <2> QED
    BY <1>1, <1>2, <2>1, <2>2 DEF LeaseInv, LiveIsNewest
<1> QED
  BY <1>1, <1>2

LEMMA AppendInv ==
    ASSUME TypeOK, LeaseInv, NEW r \in pending, AppendIfCurrent(r)
    PROVE  LeaseInv'
<1>1. leases' = leases /\ creds' = creds
  BY DEF AppendIfCurrent
<1>2. /\ LeaseIds' = LeaseIds
      /\ \A m \in LeaseIds : IsLatest(m)' <=> IsLatest(m)
      /\ \A m \in LeaseIds : \A s : Covers(m, s)' <=> Covers(m, s)
      /\ GenerationsGrow' /\ LiveIsNewest'
  BY <1>1, SameGrants
<1>3. NoOrphanCredential'
  BY <1>1, <1>2
     DEF LeaseInv, NoOrphanCredential, CredIds, Live
<1>4. CASE log' = log
  <2>1. RecordsCovered' /\ NoStaleWriter'
    BY <1>1, <1>2, <1>4, SameRecords
  <2> QED
    BY <1>2, <1>3, <2>1 DEF LeaseInv
<1>5. CASE log' # log
  <2>1. PICK l \in LeaseIds, t \in Streams : l = r.lease /\ t = r.stream
    BY DEF AppendIfCurrent, TypeOK
  <2> DEFINE n == Len(leases)
             rec == [by |-> l, at |-> n]
  <2>2. /\ FenceDecision(l, t) = "current"
        /\ log' = [log EXCEPT ![t] = Append(log[t], rec)]
    BY <1>5, <2>1 DEF AppendIfCurrent
  <2>3. rec.by = l /\ rec.at = n /\ n \in Nat /\ l \in Nat
    BY TableTypes DEF LeaseIds
  <2> HIDE DEF rec
  <2>4. Covers(l, t) /\ \A m \in LeaseIds : m > l => ~Covers(m, t)
    BY <2>2, FenceIsFresh
  <2>5. log \in [Streams -> Seq(StreamRecords)] /\ rec \in StreamRecords
    BY <2>3 DEF TypeOK, rec, StreamRecords
  <2>6. /\ \A s \in Streams : s # t => log'[s] = log[s]
        /\ Len(log'[t]) = Len(log[t]) + 1 /\ Len(log[t]) \in Nat
        /\ \A i \in 1..Len(log[t]) : log'[t][i] = log[t][i]
        /\ log'[t][Len(log[t]) + 1] = rec
    BY <2>2, <2>5
  <2>7. ASSUME NEW s \in Streams, NEW i \in 1..Len(log'[s])
        PROVE  \/ i \in 1..Len(log[s]) /\ log'[s][i] = log[s][i]
               \/ s = t /\ log'[s][i] = rec
    BY <2>6
  <2>8. RecordsCovered'
    <3> SUFFICES ASSUME NEW s \in Streams, NEW i \in 1..Len(log'[s]),
                        NEW b, b = log'[s][i].by
                 PROVE  /\ b \in LeaseIds' /\ Covers(b, s)'
                        /\ log'[s][i].at \in 0..Len(leases')
      BY DEF RecordsCovered
    <3>1. CASE i \in 1..Len(log[s]) /\ log'[s][i] = log[s][i]
      <4>1. b \in LeaseIds /\ Covers(b, s) /\ log[s][i].at \in 0..n
        BY <3>1 DEF LeaseInv, RecordsCovered
      <4> QED
        BY <1>1, <1>2, <3>1, <4>1
    <3>2. CASE s = t /\ log'[s][i] = rec
      <4>1. b = l /\ log'[s][i].at = n /\ n \in 0..n
        BY <2>3, <3>2
      <4>2. Covers(b, s)'
        BY <1>2, <2>4, <3>2, <4>1
      <4> QED
        BY <1>1, <1>2, <4>1, <4>2
    <3> QED
      BY <2>7, <3>1, <3>2
  <2>9. NoStaleWriter'
    <3> SUFFICES ASSUME NEW s \in Streams, NEW i \in 1..Len(log'[s]),
                        NEW m \in LeaseIds, m > log'[s][i].by, Covers(m, s)
                 PROVE  m > log'[s][i].at
      BY <1>2 DEF NoStaleWriter
    <3>1. CASE i \in 1..Len(log[s]) /\ log'[s][i] = log[s][i]
      BY <3>1 DEF LeaseInv, NoStaleWriter
    <3>2. CASE s = t /\ log'[s][i] = rec
      BY <2>3, <2>4, <3>2
    <3> QED
      BY <2>7, <3>1, <3>2
  <2> QED
    BY <1>2, <1>3, <2>8, <2>9 DEF LeaseInv
<1> QED
  BY <1>4, <1>5

(***************************************************************************)
(* The theorems.                                                           *)
(***************************************************************************)
LEMMA InitInv == Init => TypeOK /\ LeaseInv
<1> SUFFICES ASSUME Init PROVE TypeOK /\ LeaseInv
  OBVIOUS
<1>1. /\ Len(leases) = 0 /\ Len(creds) = 0 /\ LeaseIds = {} /\ CredIds = {}
      /\ \A s \in Streams : log[s] = <<>> /\ Len(log[s]) = 0
  BY DEF Init, LeaseIds, CredIds
<1>2. TypeOK
  BY <1>1 DEF Init, TypeOK
<1>3. LeaseInv
  BY <1>1 DEF LeaseInv, GenerationsGrow, LiveIsNewest, RecordsCovered,
              NoStaleWriter, NoOrphanCredential
<1> QED
  BY <1>2, <1>3

LEMMA StepInv == TypeOK /\ LeaseInv /\ [Next]_vars => TypeOK' /\ LeaseInv'
<1> SUFFICES ASSUME TypeOK, LeaseInv, [Next]_vars
             PROVE  TypeOK' /\ LeaseInv'
  OBVIOUS
<1>1. creds \in Seq(CredRows) /\ Len(creds) \in Nat
      /\ \A c \in CredIds : creds[c] \in CredRows
  BY TableTypes DEF TypeOK
<1>2. ASSUME NEW scope \in Scopes, NEW named \in 0..Len(leases),
             Grant(scope, named)
      PROVE  TypeOK' /\ LeaseInv'
  BY <1>2, GrantType, GrantInv
<1>3. ASSUME NEW l \in LeaseIds, Release(l)
      PROVE  TypeOK' /\ LeaseInv'
  BY <1>3, ReleaseType, ReleaseInv
<1>4. ASSUME NEW l \in LeaseIds, Mint(l)
      PROVE  TypeOK' /\ LeaseInv'
  <2>1. TypeOK'
    BY <1>4, CredentialType
  <2> DEFINE row == [lease |-> l, revoked |-> FALSE]
  <2>2. creds' = Append(creds, row) /\ row.lease = l /\ row \in CredRows
    BY <1>4, TableTypes DEF Mint, CredRows, LeaseIds
  <2> HIDE DEF row
  <2>3. /\ Len(creds') = Len(creds) + 1
        /\ \A c \in 1..Len(creds) : creds'[c] = creds[c]
        /\ creds'[Len(creds) + 1] = row
    BY <1>1, <2>2
  <2>4. \A c \in CredIds' : \/ c \in CredIds /\ creds'[c] = creds[c]
                            \/ creds'[c].lease = l
    BY <1>1, <2>2, <2>3 DEF CredIds
  <2>5. Live(l) /\ leases' = leases /\ log' = log
    BY <1>4 DEF Mint
  <2>6. LeaseInv'
    BY <1>1, <2>3, <2>4, <2>5, CredentialInv
  <2> QED
    BY <2>1, <2>6
<1>5. ASSUME NEW c \in CredIds, RevokeCredential(c)
      PROVE  TypeOK' /\ LeaseInv'
  <2>1. TypeOK'
    BY <1>5, CredentialType
  <2>2. [creds[c] EXCEPT !.revoked = TRUE] \in CredRows
        /\ [creds[c] EXCEPT !.revoked = TRUE].revoked
    BY <1>1 DEF CredRows
  <2>3. /\ Len(creds') = Len(creds)
        /\ \A d \in 1..Len(creds) : creds'[d] =
              IF d = c THEN [creds[c] EXCEPT !.revoked = TRUE] ELSE creds[d]
    BY <1>1, <1>5, <2>2, ExceptSeq DEF RevokeCredential, CredIds
  <2>4. \A d \in CredIds' : ~creds'[d].revoked =>
           d \in CredIds /\ creds'[d] = creds[d]
    BY <2>2, <2>3 DEF CredIds
  <2>5. leases' = leases /\ log' = log
    BY <1>5 DEF RevokeCredential
  <2>6. LeaseInv'
    BY <1>1, <2>3, <2>4, <2>5, CredentialInv
  <2> QED
    BY <2>1, <2>6
<1>6. ASSUME leases' = leases, creds' = creds, log' = log
      PROVE  LeaseInv'
  BY <1>1, <1>6, CredentialInv DEF CredIds
<1>7. ASSUME \/ \E c \in CredIds : ReceiveRenewal(c)
             \/ \E c \in CredIds, l \in LeaseIds, s \in Streams :
                   \E tail \in 0..(MaxRecords - 1) : ReceivePush(c, l, s, tail)
      PROVE  TypeOK' /\ LeaseInv'
  <2>1. leases' = leases /\ creds' = creds /\ log' = log
    BY <1>7 DEF ReceiveRenewal, ReceivePush, Accept
  <2> QED
    BY <1>6, <1>7, <2>1, AcceptType
<1>8. ASSUME NEW r \in pending, AppendIfCurrent(r)
      PROVE  TypeOK' /\ LeaseInv'
  BY <1>8, AppendType, AppendInv
<1>9. ASSUME NEW r \in pending, Renew(r)
      PROVE  TypeOK' /\ LeaseInv'
  BY <1>9, RenewType, RenewInv
<1>10. ASSUME \/ \E r \in pending : Lose(r)
              \/ \E t \in 0..MaxTime : SetClock(t)
       PROVE  TypeOK' /\ LeaseInv'
  <2>1. leases' = leases /\ creds' = creds /\ log' = log
    BY <1>10 DEF Lose, SetClock
  <2> QED
    BY <1>6, <1>10, <2>1, ClockType
<1>11. CASE UNCHANGED vars
  <2>1. TypeOK'
    BY <1>11 DEF vars, TypeOK, LeaseIds, CredIds
  <2> QED
    BY <1>6, <1>11, <2>1 DEF vars
<1> QED
  BY <1>2, <1>3, <1>4, <1>5, <1>7, <1>8, <1>9, <1>10, <1>11 DEF Next

\* The lease, credential and stream tables of remote_store/lease.rs keep
\* their types, and every row refers to rows that exist.
THEOREM LeaseTypes == Spec => []TypeOK
<1>1. Init => TypeOK /\ LeaseInv
  BY InitInv
<1>2. TypeOK /\ LeaseInv /\ [Next]_vars => (TypeOK /\ LeaseInv)'
  BY StepInv
<1> QED
  BY <1>1, <1>2, PTL DEF Spec

\* The order of grants governs all authority: the inductive invariant of
\* grant_lease, renew_lease, release_lease, mint_credential and
\* append_if_current under any interleaving with the endpoint.
THEOREM LeaseInvariant == Spec => [](TypeOK /\ LeaseInv)
<1>1. Init => TypeOK /\ LeaseInv
  BY InitInv
<1>2. TypeOK /\ LeaseInv /\ [Next]_vars => (TypeOK /\ LeaseInv)'
  BY StepInv
<1> QED
  BY <1>1, <1>2, PTL DEF Spec

\* At most one live grant covers a stream, whatever scopes are granted:
\* the single-writer law of remote_store/lease.rs.
THEOREM SingleWriter == Spec => []OneLiveWriter
<1>1. TypeOK /\ LeaseInv => OneLiveWriter
  <2> SUFFICES ASSUME TypeOK, LeaseInv, NEW s \in Streams,
                      NEW l \in LeaseIds, NEW m \in LeaseIds,
                      Live(l), Live(m), Covers(l, s), Covers(m, s)
               PROVE  l = m
    BY DEF OneLiveWriter
  <2>1. /\ leases[l].scope \in Seq(Segments)
        /\ leases[m].scope \in Seq(Segments) /\ s \in Seq(Segments)
        /\ l \in Nat /\ m \in Nat
    BY TableTypes DEF LeaseIds
  <2>2. /\ Overlap(leases[l].scope, leases[m].scope)
        /\ Overlap(leases[m].scope, leases[l].scope)
    BY <2>1, PrefixesCompare DEF Covers
  <2>3. ~(l < m) /\ ~(m < l)
    BY <2>2 DEF LeaseInv, LiveIsNewest
  <2> QED
    BY <2>1, <2>3
<1> QED
  BY <1>1, LeaseInvariant, PTL

\* No record is appended under a lease once a newer grant covers its stream,
\* however the token check of push and its append interleave with grants.
THEOREM StaleWriterFenced == Spec => []NoStaleWriter
<1>1. LeaseInv => NoStaleWriter
  BY DEF LeaseInv
<1> QED
  BY <1>1, LeaseInvariant, PTL

\* A credential that is not revoked belongs to a live grant.
THEOREM CredentialsRetired == Spec => []NoOrphanCredential
<1>1. LeaseInv => NoOrphanCredential
  BY DEF LeaseInv
<1> QED
  BY <1>1, LeaseInvariant, PTL
(***************************************************************************)
(* The lineage.                                                            *)
(***************************************************************************)
EarlierOf(t, l) == {m \in 1..(l - 1) : t[m].scope = t[l].scope}

\* Grant l of table t counts and names the grants of its scope before it.
Chained(t, l) ==
    /\ t[l].gen = Cardinality(EarlierOf(t, l)) + 1
    /\ IF EarlierOf(t, l) = {} THEN t[l].prev = 0
       ELSE /\ t[l].prev \in EarlierOf(t, l)
            /\ \A m \in EarlierOf(t, l) : m <= t[l].prev

LEMMA ChainByGrant == LineageIsChain <=> \A l \in LeaseIds : Chained(leases, l)
BY DEF LineageIsChain, Chained, EarlierOf

\* A table that keeps scopes, generations and predecessors keeps the chain.
LEMMA ChainKept ==
    ASSUME NEW t, NEW u, NEW l \in Nat, Chained(t, l),
           \A m \in 1..l : u[m].scope = t[m].scope,
           l \in 1..l, u[l].gen = t[l].gen, u[l].prev = t[l].prev
    PROVE  Chained(u, l)
<1>1. \A m \in 1..(l - 1) : m \in 1..l
  OBVIOUS
<1>2. EarlierOf(u, l) = EarlierOf(t, l)
  BY <1>1 DEF EarlierOf
<1> QED
  BY <1>2 DEF Chained

\* A grant that names the head of its scope's chain lengthens the chain.
LEMMA ChainGrows ==
    ASSUME NEW t, NEW n \in Nat, NEW p \in 1..n, Chained(t, p),
           t[n + 1].scope = t[p].scope, t[n + 1].prev = p,
           t[n + 1].gen = t[p].gen + 1,
           \A m \in 1..n : t[m].scope = t[p].scope => m <= p
    PROVE  Chained(t, n + 1)
<1> DEFINE old == EarlierOf(t, p)
           new == EarlierOf(t, n + 1)
<1>1. new = old \cup {p}
  <2>1. (n + 1) - 1 = n
    OBVIOUS
  <2>2. \A m \in 1..n : t[m].scope = t[p].scope => m \in 1..(p - 1) \/ m = p
    OBVIOUS
  <2>3. \A m \in 1..(p - 1) : m \in 1..n
    OBVIOUS
  <2> QED
    BY <2>1, <2>2, <2>3 DEF EarlierOf
<1>2. IsFiniteSet(old) /\ Cardinality(old) \in Nat
  <2>1. old \in SUBSET Nat /\ \A m \in old : m <= p
    BY DEF EarlierOf
  <2>2. IsFiniteSet(old)
    BY <2>1, FS_BoundedSetOfNaturals
  <2> QED
    BY <2>2, FS_CardinalityType
<1>3. p \notin old /\ \A m \in old : m <= p
  BY DEF EarlierOf
<1> HIDE DEF old, new
<1>4. Cardinality(new) = Cardinality(old) + 1
  BY <1>1, <1>2, <1>3, FS_AddElement
<1>5. t[p].gen = Cardinality(old) + 1
  BY DEF Chained, old
<1>6. t[n + 1].gen = Cardinality(new) + 1
  BY <1>4, <1>5
<1>7. p \in new /\ \A m \in new : m <= p
  BY <1>1, <1>3
<1> QED
  BY <1>6, <1>7 DEF Chained, new

LEMMA GrantChain ==
    ASSUME TypeOK, LeaseInv, LineageIsChain, NEW scope \in Scopes,
           NEW named \in 0..Len(leases), Grant(scope, named)
    PROVE  LineageIsChain'
<1> DEFINE n == Len(leases)
           row == [scope |-> scope,
                   gen |-> IF named = 0 THEN 1 ELSE leases[named].gen + 1,
                   prev |-> named, expires |-> now + TTL, released |-> FALSE]
<1>1. /\ leases \in Seq(LeaseRows) /\ n \in Nat
      /\ \A l \in 1..n : leases[l] \in LeaseRows /\ leases[l].gen \in Nat
  BY TableTypes DEF TypeOK, LeaseIds, LeaseRows
<1>2. /\ row.scope = scope /\ row.prev = named
      /\ row.gen = IF named = 0 THEN 1 ELSE leases[named].gen + 1
  OBVIOUS
<1>3. leases' = Append(leases, row)
  BY DEF Grant
<1> HIDE DEF row
<1>4. /\ Len(leases') = n + 1
      /\ \A l \in 1..n : leases'[l] = leases[l]
      /\ leases'[n + 1] = row
  BY <1>1, <1>3
<1> HIDE DEF n
<1>5. ASSUME NEW l \in 1..n PROVE Chained(leases', l)
  <2>1. Chained(leases, l)
    BY ChainByGrant DEF LeaseIds, n
  <2>2. l \in Nat /\ l \in 1..l /\ \A m \in 1..l : m \in 1..n
    BY <1>1
  <2>3. \A m \in 1..l : leases'[m].scope = leases[m].scope
    BY <1>4, <2>2
  <2> QED
    BY <1>4, <2>1, <2>2, <2>3, ChainKept
<1>6. Chained(leases', n + 1)
  <2>1. CASE named = 0
    <3>1. \A m \in 1..n : leases[m].scope # scope
      BY <2>1 DEF Grant, LineageMatches, LeaseIds, n
    <3>2. (n + 1) - 1 = n
      BY <1>1
    <3>3. EarlierOf(leases', n + 1) = {}
      BY <1>2, <1>4, <3>1, <3>2 DEF EarlierOf
    <3>4. leases'[n + 1].gen = Cardinality({}) + 1 /\ leases'[n + 1].prev = 0
      BY <1>2, <1>4, <2>1, FS_EmptySet
    <3> QED
      BY <3>3, <3>4 DEF Chained
  <2>2. CASE named # 0
    <3>1. named \in 1..n
      BY <1>1, <2>2 DEF n
    <3>2. leases[named].scope = scope /\ IsLatest(named)
      BY <2>2 DEF Grant, LineageMatches
    <3>3. ASSUME NEW m \in 1..n, leases[m].scope = scope PROVE m <= named
      <4>1. leases[m].gen <= leases[named].gen
        BY <3>2, <3>3 DEF IsLatest, LeaseIds, n
      <4>2. named < m => leases[named].gen < leases[m].gen
        BY <3>1, <3>2, <3>3 DEF LeaseInv, GenerationsGrow, LeaseIds, n
      <4> QED
        BY <1>1, <3>1, <4>1, <4>2
    <3>4. /\ leases'[named] = leases[named] /\ Chained(leases', named)
          /\ \A m \in 1..n : leases'[m].scope = leases'[named].scope => m <= named
      BY <1>4, <1>5, <3>1, <3>2, <3>3
    <3>5. /\ leases'[n + 1].scope = leases'[named].scope
          /\ leases'[n + 1].prev = named
          /\ leases'[n + 1].gen = leases'[named].gen + 1
      BY <1>2, <1>4, <2>2, <3>2, <3>4
    <3> QED
      BY <1>1, <3>1, <3>4, <3>5, ChainGrows
  <2> QED
    BY <2>1, <2>2
<1>7. \A l \in 1..(n + 1) : l \in 1..n \/ l = n + 1
  BY <1>1
<1>8. \A l \in LeaseIds' : Chained(leases', l)
  BY <1>4, <1>5, <1>6, <1>7 DEF LeaseIds
<1> QED
  BY <1>8 DEF LineageIsChain, Chained, EarlierOf

\* Every other step keeps scopes, generations and predecessors.
LEMMA SameChain ==
    ASSUME TypeOK, LineageIsChain, Len(leases') = Len(leases),
           \A m \in LeaseIds : /\ leases'[m].scope = leases[m].scope
                               /\ leases'[m].gen = leases[m].gen
                               /\ leases'[m].prev = leases[m].prev
    PROVE  LineageIsChain'
<1>1. Len(leases) \in Nat
  BY TableTypes
<1>2. ASSUME NEW l \in LeaseIds PROVE Chained(leases', l)
  <2>1. Chained(leases, l)
    BY ChainByGrant
  <2>2. l \in Nat /\ l \in 1..l /\ \A m \in 1..l : m \in LeaseIds
    BY <1>1 DEF LeaseIds
  <2> QED
    BY <2>1, <2>2, ChainKept
<1>3. \A l \in LeaseIds' : Chained(leases', l)
  BY <1>2 DEF LeaseIds
<1> QED
  BY <1>3 DEF LineageIsChain, Chained, EarlierOf

LEMMA ChainStep ==
    TypeOK /\ LeaseInv /\ LineageIsChain /\ [Next]_vars => LineageIsChain'
<1> SUFFICES ASSUME TypeOK, LeaseInv, LineageIsChain, [Next]_vars
             PROVE  LineageIsChain'
  OBVIOUS
<1>1. /\ leases \in Seq(LeaseRows) /\ Len(leases) \in Nat
      /\ \A l \in LeaseIds : leases[l] \in LeaseRows
  BY TableTypes DEF TypeOK
<1>2. ASSUME NEW scope \in Scopes, NEW named \in 0..Len(leases), Grant(scope, named)
      PROVE  LineageIsChain'
  BY <1>2, GrantChain
<1>3. ASSUME leases' = leases PROVE LineageIsChain'
  BY <1>3, SameChain
<1>4. ASSUME NEW l \in LeaseIds, NEW row \in LeaseRows,
             leases' = [leases EXCEPT ![l] = row],
             row.scope = leases[l].scope, row.gen = leases[l].gen,
             row.prev = leases[l].prev
      PROVE  LineageIsChain'
  <2>1. Len(leases') = Len(leases)
    BY <1>1, <1>4, ExceptSeq DEF LeaseIds
  <2>2. \A m \in LeaseIds : leases'[m] = IF m = l THEN row ELSE leases[m]
    BY <1>1, <1>4 DEF LeaseIds
  <2> QED
    BY <1>4, <2>1, <2>2, SameChain
<1>5. ASSUME NEW l \in LeaseIds, Release(l) PROVE LineageIsChain'
  <2> DEFINE row == [leases[l] EXCEPT !.released = TRUE]
  <2>1. /\ row \in LeaseRows /\ row.scope = leases[l].scope
        /\ row.gen = leases[l].gen /\ row.prev = leases[l].prev
    BY <1>1 DEF LeaseRows
  <2>2. leases' = [leases EXCEPT ![l] = row]
    BY <1>5 DEF Release
  <2> HIDE DEF row
  <2> QED
    BY <1>4, <2>1, <2>2
<1>6. ASSUME NEW r \in pending, Renew(r) PROVE LineageIsChain'
  <2>1. CASE ~Live(r.lease)
    BY <1>3, <1>6, <2>1 DEF Renew
  <2>2. CASE Live(r.lease)
    <3> DEFINE l == r.lease
               x == IF now + TTL > leases[l].expires THEN now + TTL ELSE leases[l].expires
               row == [leases[l] EXCEPT !.expires = x]
    <3>1. l \in LeaseIds
      BY <2>2 DEF Live
    <3>2. x \in Nat
      BY <1>1, <3>1, LeaseAssumption DEF TypeOK, LeaseRows, LeaseAssumption
    <3>3. leases' = [leases EXCEPT ![l] = row]
      BY <1>6, <2>2 DEF Renew
    <3> HIDE DEF x
    <3>4. /\ row \in LeaseRows /\ row.scope = leases[l].scope
          /\ row.gen = leases[l].gen /\ row.prev = leases[l].prev
      BY <1>1, <3>1, <3>2 DEF LeaseRows
    <3> HIDE DEF row, l
    <3> QED
      BY <1>4, <3>1, <3>3, <3>4
  <2> QED
    BY <2>1, <2>2
<1>7. ASSUME \/ \E l \in LeaseIds : Mint(l)
             \/ \E c \in CredIds : RevokeCredential(c) \/ ReceiveRenewal(c)
             \/ \E c \in CredIds, l \in LeaseIds, s \in Streams :
                   \E tail \in 0..(MaxRecords - 1) : ReceivePush(c, l, s, tail)
             \/ \E r \in pending : AppendIfCurrent(r) \/ Lose(r)
             \/ \E t \in 0..MaxTime : SetClock(t)
             \/ UNCHANGED vars
      PROVE  LineageIsChain'
  <2>1. leases' = leases
    BY <1>7 DEF Mint, RevokeCredential, ReceiveRenewal, ReceivePush, Accept,
                AppendIfCurrent, Lose, SetClock, vars
  <2> QED
    BY <1>3, <2>1
<1> QED
  BY <1>2, <1>5, <1>6, <1>7 DEF Next

\* grant_lease: a grant names the grant of its scope just before it, and its
\* generation counts the chain, for every history of grants and releases.
THEOREM LineageChained == Spec => []LineageIsChain
<1>1. Init => LineageIsChain
  BY DEF Init, LineageIsChain, LeaseIds
<1>2. TypeOK /\ LeaseInv /\ LineageIsChain /\ [Next]_vars => LineageIsChain'
  BY ChainStep
<1> QED
  BY <1>1, <1>2, LeaseInvariant, PTL DEF Spec

(***************************************************************************)
(* Write authority moves: the refinement of WriterPromise.                 *)
(***************************************************************************)
\* Lease l may write stream s: it is live and its scope covers s.
Holds(l, s) == l \in LeaseIds /\ Live(l) /\ Covers(l, s)

\* Because one live lease at most covers a stream, the writer of a stream is
\* the lease that holds it, and 0 says that none does.
WriterHolds ==
    \A s \in Streams :
        /\ WriterOf(s) \in Nat
        /\ \A l \in Nat \ {0} : WriterOf(s) = l <=> Holds(l, s)

LEMMA OneHolder == TypeOK /\ LeaseInv => WriterHolds
<1> SUFFICES ASSUME TypeOK, LeaseInv, NEW s \in Streams
             PROVE  /\ WriterOf(s) \in Nat
                    /\ \A l \in Nat \ {0} : WriterOf(s) = l <=> Holds(l, s)
  BY DEF WriterHolds
<1> DEFINE live == {l \in LeaseIds : Covers(l, s) /\ Live(l)}
<1>1. \A l \in live : l \in Nat \ {0}
  BY TableTypes DEF LeaseIds
<1>2. ASSUME NEW l \in live, NEW m \in live PROVE l = m
  <2>1. /\ leases[l].scope \in Seq(Segments)
        /\ leases[m].scope \in Seq(Segments) /\ s \in Seq(Segments)
        /\ l \in Nat /\ m \in Nat
    BY TableTypes DEF LeaseIds
  <2>2. /\ Overlap(leases[l].scope, leases[m].scope)
        /\ Overlap(leases[m].scope, leases[l].scope)
    BY <2>1, PrefixesCompare DEF Covers
  <2>3. ~(l < m) /\ ~(m < l)
    BY <2>2 DEF LeaseInv, LiveIsNewest
  <2> QED
    BY <2>1, <2>3
<1>3. WriterOf(s) = IF live = {} THEN 0 ELSE CHOOSE l \in live : TRUE
  BY DEF WriterOf
<1>4. \A l : l \in live <=> Holds(l, s)
  BY DEF Holds
<1> HIDE DEF live
<1>5. CASE live = {}
  BY <1>3, <1>4, <1>5
<1>6. CASE live # {}
  <2>1. WriterOf(s) \in live
    BY <1>3, <1>6
  <2> QED
    BY <1>1, <1>2, <1>4, <2>1
<1> QED
  BY <1>5, <1>6

LEMMA OneHolderNext == (TypeOK /\ LeaseInv => WriterHolds)'
BY OneHolder, PTL

\* A stream keeps its writer when it is held as before.
LEMMA SameWriter ==
    ASSUME WriterHolds, WriterHolds', NEW s \in Streams,
           \A l \in Nat \ {0} : Holds(l, s)' <=> Holds(l, s)
    PROVE  WriterOf(s)' = WriterOf(s)
<1>1. WriterOf(s) \in Nat /\ WriterOf(s)' \in Nat
  BY DEF WriterHolds
<1>2. \A l \in Nat \ {0} : WriterOf(s) = l <=> WriterOf(s)' = l
  BY DEF WriterHolds
<1> QED
  BY <1>1, <1>2

\* grant_lease: the new lease holds what its scope covers, and every other
\* holder keeps what it held unless it is the lease that is replaced.
LEMMA GrantHolds ==
    ASSUME TypeOK, LeaseInv, NEW scope \in Scopes,
           NEW named \in 0..Len(leases), Grant(scope, named),
           NEW n \in Nat, n = Len(leases) + 1
    PROVE  /\ Len(leases') = n
           /\ \A s : Holds(n, s)' <=> Authorizes(scope, s)
           /\ \A l \in LeaseIds : \A s :
                 Holds(l, s)' <=> Holds(l, s) /\ leases[l].scope # scope
           /\ LeaseIds' = LeaseIds \cup {n}
<1>1. /\ leases \in Seq(LeaseRows) /\ Len(leases) \in Nat
      /\ \A l \in LeaseIds : l \in Nat /\ leases[l].gen \in Nat
  <2>1. leases \in Seq(LeaseRows)
    BY DEF TypeOK
  <2>2. Len(leases) \in Nat /\ \A l \in LeaseIds : leases[l] \in LeaseRows
    BY TableTypes
  <2> QED
    BY <2>1, <2>2 DEF LeaseIds, LeaseRows
<1> DEFINE g == IF named = 0 THEN 1 ELSE leases[named].gen + 1
           row == [scope |-> scope, gen |-> g, prev |-> named,
                   expires |-> now + TTL, released |-> FALSE]
<1>2. /\ leases' = Append(leases, row) /\ row.scope = scope /\ row.gen = g
      /\ row.released = FALSE
  BY DEF Grant
<1> HIDE DEF row
<1>3. /\ Len(leases') = n /\ LeaseIds' = 1..n /\ LeaseIds = 1..(n - 1)
      /\ \A m \in LeaseIds : leases'[m] = leases[m]
      /\ leases'[n] = row
  BY <1>1, <1>2 DEF LeaseIds
<1>4. \A m \in LeaseIds : leases[m].scope = scope => leases[m].gen < g
  <2>1. CASE named = 0
    BY <2>1 DEF Grant, LineageMatches
  <2>2. CASE named # 0
    <3>1. /\ named \in LeaseIds /\ leases[named].scope = scope
          /\ IsLatest(named)
      BY <2>2 DEF Grant, LineageMatches
    <3> QED
      BY <1>1, <2>2, <3>1 DEF IsLatest
  <2> QED
    BY <2>1, <2>2
<1>5. g \in Nat
  BY <1>1, <1>3 DEF LeaseIds
<1> HIDE DEF g
<1>6. n \in LeaseIds' /\ LeaseIds' = LeaseIds \cup {n}
  BY <1>1, <1>3
<1>7. IsLatest(n)'
  <2> SUFFICES ASSUME NEW m \in LeaseIds', leases'[m].scope = scope
               PROVE  leases'[m].gen <= g
    BY <1>2, <1>3 DEF IsLatest
  <2>1. CASE m = n
    BY <1>2, <1>3, <1>5, <2>1
  <2>2. CASE m \in LeaseIds
    BY <1>1, <1>3, <1>4, <1>5, <2>2
  <2> QED
    BY <1>6, <2>1, <2>2
<1>8. \A s : Holds(n, s)' <=> Authorizes(scope, s)
  BY <1>2, <1>3, <1>6, <1>7 DEF Holds, Live, Covers
<1>9. ASSUME NEW l \in LeaseIds
      PROVE  IsLatest(l)' <=> IsLatest(l) /\ leases[l].scope # scope
  <2>1. ASSUME IsLatest(l)' PROVE IsLatest(l) /\ leases[l].scope # scope
    <3>1. IsLatest(l)
      BY <1>3, <1>6, <2>1 DEF IsLatest
    <3>2. leases[l].scope = scope => g <= leases[l].gen
      BY <1>2, <1>3, <1>6, <2>1 DEF IsLatest
    <3> QED
      BY <1>1, <1>4, <1>5, <3>1, <3>2
  <2>2. ASSUME IsLatest(l), leases[l].scope # scope PROVE IsLatest(l)'
    <3> SUFFICES ASSUME NEW m \in LeaseIds', leases'[m].scope = leases'[l].scope
                 PROVE  leases'[m].gen <= leases'[l].gen
      BY DEF IsLatest
    <3>1. m \in LeaseIds
      BY <1>2, <1>3, <1>6, <2>2
    <3> QED
      BY <1>3, <2>2, <3>1 DEF IsLatest
  <2> QED
    BY <2>1, <2>2
<1>10. \A l \in LeaseIds : \A s :
          Holds(l, s)' <=> Holds(l, s) /\ leases[l].scope # scope
  BY <1>3, <1>6, <1>9 DEF Holds, Live, Covers
<1> QED
  BY <1>1, <1>3, <1>6, <1>8, <1>10

LEMMA GrantAuthorizes ==
    ASSUME TypeOK, LeaseInv, WriterHolds, WriterHolds', NEW scope \in Scopes,
           NEW named \in 0..Len(leases), Grant(scope, named)
    PROVE  \E S \in SUBSET Streams : W!Authorize(S)
<1> DEFINE S == {s \in Streams : Authorizes(scope, s)}
<1>0. Len(leases) \in Nat
  BY TableTypes
<1> PICK n \in Nat : n = Len(leases) + 1
  BY <1>0
<1>1. /\ Len(leases') = n
      /\ \A s : Holds(n, s)' <=> Authorizes(scope, s)
      /\ \A l \in LeaseIds : \A s :
            Holds(l, s)' <=> Holds(l, s) /\ leases[l].scope # scope
      /\ LeaseIds' = LeaseIds \cup {n}
  BY GrantHolds
<1>2. /\ n \in Nat \ {0} /\ n \notin LeaseIds
      /\ \A l \in LeaseIds : l \in Nat \ {0}
  BY <1>0 DEF LeaseIds
<1>3. ASSUME NEW s \in Streams
      PROVE  WriterOf(s)' = IF s \in S THEN n ELSE WriterOf(s)
  <2>1. CASE s \in S
    <3>1. Holds(n, s)'
      BY <1>1, <2>1
    <3> QED
      BY <1>2, <2>1, <3>1 DEF WriterHolds
  <2>2. CASE s \notin S
    <3>1. ASSUME NEW l \in Nat \ {0} PROVE Holds(l, s)' <=> Holds(l, s)
      <4>1. CASE l \in LeaseIds
        <5>1. Holds(l, s) => leases[l].scope # scope
          BY <2>2 DEF Holds, Covers
        <5> QED
          BY <1>1, <4>1, <5>1
      <4>2. CASE l = n
        BY <1>1, <1>2, <2>2, <4>2 DEF Holds
      <4>3. CASE l \notin LeaseIds /\ l # n
        BY <1>1, <4>3 DEF Holds
      <4> QED
        BY <4>1, <4>2, <4>3
    <3> QED
      BY <2>2, <3>1, SameWriter
  <2> QED
    BY <2>1, <2>2
<1>4. Writers' = [s \in Streams |-> IF s \in S THEN n ELSE Writers[s]]
  BY <1>3 DEF Writers
<1>5. S \subseteq W!Held(0) \/ \E w \in 1..Len(leases) : S = W!Held(w)
  <2>1. CASE \E w \in LeaseIds : Live(w) /\ leases[w].scope = scope
    <3>1. PICK w \in LeaseIds : Live(w) /\ leases[w].scope = scope
      BY <2>1
    <3>2. \A s : Authorizes(scope, s) <=> Holds(w, s)
      BY <3>1 DEF Holds, Covers
    <3>3. \A s \in Streams : WriterOf(s) = w <=> Holds(w, s)
      BY <1>2 DEF WriterHolds
    <3>4. S = W!Held(w)
      BY <3>2, <3>3 DEF W!Held, Writers
    <3> QED
      BY <3>4 DEF LeaseIds
  <2>2. CASE \A w \in LeaseIds : Live(w) => leases[w].scope # scope
    <3>1. ASSUME NEW s \in S PROVE WriterOf(s) = 0
      <4>1. ASSUME NEW l \in LeaseIds, Holds(l, s) PROVE FALSE
        <5>1. /\ scope \in Seq(Segments) /\ s \in Seq(Segments)
              /\ leases[l].scope \in Seq(Segments)
          BY TableTypes, LeaseAssumption DEF LeaseAssumption
        <5>2. Overlap(leases[l].scope, scope)
          BY <4>1, <5>1, PrefixesCompare DEF Holds, Covers
        <5>3. Live(l) /\ leases[l].scope # scope
          BY <2>2, <4>1 DEF Holds
        <5> QED
          BY <5>2, <5>3 DEF Grant, NoOverlap
      <4> QED
        BY <4>1 DEF WriterHolds, Holds
    <3> QED
      BY <3>1 DEF W!Held, Writers
  <2> QED
    BY <2>1, <2>2
<1>6. Authors' = Authors
  BY DEF Grant, Authors
<1>7. W!Authorize(S)
  BY <1>1, <1>4, <1>5, <1>6 DEF W!Authorize
<1> QED
  BY <1>7

LEMMA ReleaseRetires ==
    ASSUME TypeOK, LeaseInv, WriterHolds, WriterHolds',
           NEW l \in LeaseIds, Release(l)
    PROVE  W!Retire(l) /\ l \in 1..Len(leases)
<1>1. /\ leases \in Seq(LeaseRows) /\ l \in 1..Len(leases)
      /\ leases[l] \in LeaseRows /\ l \in Nat \ {0}
  BY TableTypes DEF TypeOK, LeaseIds
<1> DEFINE row == [leases[l] EXCEPT !.released = TRUE]
<1>2. /\ leases' = [leases EXCEPT ![l] = row] /\ row \in LeaseRows
      /\ row.scope = leases[l].scope /\ row.gen = leases[l].gen
      /\ row.released
  BY <1>1 DEF Release, LeaseRows
<1> HIDE DEF row
<1>3. /\ Len(leases') = Len(leases)
      /\ \A m \in LeaseIds : leases'[m] = IF m = l THEN row ELSE leases[m]
  BY <1>1, <1>2, ExceptSeq DEF LeaseIds
<1>4. \A m \in LeaseIds : /\ leases'[m].scope = leases[m].scope
                          /\ leases'[m].gen = leases[m].gen
                          /\ leases[m].released => leases'[m].released
  BY <1>2, <1>3
<1>5. /\ LeaseIds' = LeaseIds
      /\ \A m \in LeaseIds : IsLatest(m)' <=> IsLatest(m)
      /\ \A m \in LeaseIds : \A s : Covers(m, s)' <=> Covers(m, s)
  BY <1>3, <1>4, SameGrants
<1>6. \A m, s : Holds(m, s)' <=> Holds(m, s) /\ m # l
  BY <1>2, <1>3, <1>5 DEF Holds, Live
<1>7. ASSUME NEW s \in Streams
      PROVE  WriterOf(s)' = IF WriterOf(s) = l THEN 0 ELSE WriterOf(s)
  <2>1. CASE WriterOf(s) = l
    <3>1. \A m \in Nat \ {0} : Holds(m, s) => m = l
      BY <2>1 DEF WriterHolds
    <3>2. \A m \in Nat \ {0} : ~Holds(m, s)'
      BY <1>6, <3>1
    <3> QED
      BY <2>1, <3>2 DEF WriterHolds
  <2>2. CASE WriterOf(s) # l
    <3>1. ~Holds(l, s)
      BY <1>1, <2>2 DEF WriterHolds
    <3>2. \A m \in Nat \ {0} : Holds(m, s)' <=> Holds(m, s)
      BY <1>6, <3>1
    <3> QED
      BY <2>2, <3>2, SameWriter
  <2> QED
    BY <2>1, <2>2
<1>8. Writers' = [s \in Streams |-> IF Writers[s] = l THEN 0 ELSE Writers[s]]
  BY <1>7 DEF Writers
<1>9. Authors' = Authors
  BY DEF Release, Authors
<1> QED
  BY <1>1, <1>3, <1>8, <1>9 DEF W!Retire

\* The steps that touch neither who may write nor what was written.
LEMMA RenewMovesNothing ==
    ASSUME TypeOK, LeaseInv, WriterHolds, WriterHolds',
           NEW r \in pending, Renew(r)
    PROVE  UNCHANGED << Writers, Authors, Len(leases) >>
<1>1. /\ Len(leases') = Len(leases)
      /\ \A m \in LeaseIds : /\ leases'[m].scope = leases[m].scope
                             /\ leases'[m].gen = leases[m].gen
                             /\ leases'[m].released = leases[m].released
  BY RenewType
<1>2. /\ LeaseIds' = LeaseIds
      /\ \A m \in LeaseIds : IsLatest(m)' <=> IsLatest(m)
      /\ \A m \in LeaseIds : \A s : Covers(m, s)' <=> Covers(m, s)
  BY <1>1, SameGrants
<1>3. \A m, s : Holds(m, s)' <=> Holds(m, s)
  BY <1>1, <1>2 DEF Holds, Live
<1>4. Writers' = Writers
  BY <1>3, SameWriter DEF Writers
<1>5. Authors' = Authors
  BY DEF Renew, Authors
<1> QED
  BY <1>1, <1>4, <1>5

LEMMA SameTables ==
    ASSUME WriterHolds, WriterHolds', leases' = leases
    PROVE  Writers' = Writers /\ Len(leases') = Len(leases)
<1>1. LeaseIds' = LeaseIds /\ \A l : Live(l)' <=> Live(l)
  BY DEF Live, IsLatest, LeaseIds
<1>2. \A l, s : Holds(l, s)' <=> Holds(l, s)
  BY <1>1 DEF Holds, Covers
<1> QED
  BY <1>2, SameWriter DEF Writers

LEMMA AuthorsAppend ==
    ASSUME NEW q \in Seq(StreamRecords), NEW e \in StreamRecords
    PROVE  AuthorsOf(Append(q, e)) = Append(AuthorsOf(q), e.by)
<1> DEFINE a == AuthorsOf(Append(q, e))
           b == Append(AuthorsOf(q), e.by)
           n == Len(q)
<1>1. n \in Nat /\ Len(Append(q, e)) = n + 1
  OBVIOUS
<1>2. /\ \A i \in 1..n : Append(q, e)[i] = q[i] /\ q[i] \in StreamRecords
      /\ Append(q, e)[n + 1] = e
  OBVIOUS
<1>3. /\ \A i \in 1..n : Append(q, e)[i].by = q[i].by /\ q[i].by \in Nat
      /\ Append(q, e)[n + 1].by = e.by /\ e.by \in Nat
  BY <1>2 DEF StreamRecords
<1>4. \A i \in 1..(n + 1) : Append(q, e)[i].by \in Nat
  BY <1>1, <1>3
<1>5. AuthorsOf(q) \in Seq(Nat) /\ Len(AuthorsOf(q)) = n
  BY <1>1, <1>3 DEF AuthorsOf
<1>6. a \in Seq(Nat) /\ Len(a) = n + 1
  BY <1>1, <1>4 DEF AuthorsOf
<1>7. b \in Seq(Nat) /\ Len(b) = n + 1
  BY <1>3, <1>5
<1>8. \A i \in 1..(n + 1) : a[i] = Append(q, e)[i].by
  BY <1>1 DEF AuthorsOf
<1>9. /\ \A i \in 1..n : b[i] = AuthorsOf(q)[i]
      /\ b[n + 1] = e.by
  BY <1>3, <1>5
<1>10. \A i \in 1..n : AuthorsOf(q)[i] = q[i].by
  BY DEF AuthorsOf
<1> HIDE DEF a, b, n
<1>11. \A i \in 1..(n + 1) : a[i] = b[i]
  BY <1>1, <1>3, <1>8, <1>9, <1>10
<1> QED
  BY <1>6, <1>7, <1>11, SeqEqual DEF a, b

LEMMA AppendWrites ==
    ASSUME TypeOK, LeaseInv, WriterHolds, WriterHolds',
           NEW r \in pending, AppendIfCurrent(r)
    PROVE  \/ W!Write(r.stream) /\ r.stream \in Streams
           \/ UNCHANGED << Writers, Authors, Len(leases) >>
<1> DEFINE s == r.stream
           e == [by |-> r.lease, at |-> Len(leases)]
<1>1. /\ s \in Streams /\ r.lease \in LeaseIds /\ Len(leases) \in Nat
      /\ log \in [Streams -> Seq(StreamRecords)] /\ leases' = leases
  BY TableTypes DEF AppendIfCurrent, TypeOK
<1>2. e \in StreamRecords /\ e.by = r.lease
  BY <1>1 DEF StreamRecords, LeaseIds
<1>3. \/ log' = log
      \/ /\ FenceDecision(r.lease, s) = "current"
         /\ log' = [log EXCEPT ![s] = Append(@, e)]
  BY DEF AppendIfCurrent
<1> HIDE DEF s, e
<1>4. CASE log' = log
  BY <1>1, <1>4, SameTables DEF Authors
<1>5. CASE /\ FenceDecision(r.lease, s) = "current"
           /\ log' = [log EXCEPT ![s] = Append(@, e)]
  <2>1. Holds(r.lease, s)
    BY <1>1, <1>5, FenceIsFresh DEF Holds
  <2>2. WriterOf(s) = r.lease /\ r.lease # 0
    BY <1>1, <2>1 DEF WriterHolds, LeaseIds
  <2>3. \A u \in Streams : AuthorsOf(log'[u]) =
           IF u = s THEN Append(AuthorsOf(log[s]), r.lease) ELSE AuthorsOf(log[u])
    BY <1>1, <1>2, <1>5, AuthorsAppend
  <2>4. Authors' = [Authors EXCEPT ![s] = Append(@, Writers[s])]
    BY <1>1, <2>2, <2>3 DEF Authors, Writers
  <2>5. Writers' = Writers /\ Len(leases') = Len(leases)
    BY <1>1, SameTables
  <2>6. W!Write(s)
    BY <1>1, <2>2, <2>4, <2>5 DEF W!Write, Writers
  <2> QED
    BY <1>1, <2>6 DEF s
<1> QED
  BY <1>3, <1>4, <1>5

LEMMA WriterStep ==
    TypeOK /\ LeaseInv /\ WriterHolds /\ WriterHolds' /\ [Next]_vars =>
        [W!Next]_<<Writers, Authors, Len(leases)>>
<1> SUFFICES ASSUME TypeOK, LeaseInv, WriterHolds, WriterHolds', [Next]_vars
             PROVE  W!Next \/ UNCHANGED << Writers, Authors, Len(leases) >>
  OBVIOUS
<1>1. ASSUME NEW scope \in Scopes, NEW named \in 0..Len(leases),
             Grant(scope, named)
      PROVE  W!Next
  BY <1>1, GrantAuthorizes DEF W!Next
<1>2. ASSUME NEW l \in LeaseIds, Release(l) PROVE W!Next
  BY <1>2, ReleaseRetires DEF W!Next
<1>3. ASSUME NEW r \in pending, AppendIfCurrent(r)
      PROVE  W!Next \/ UNCHANGED << Writers, Authors, Len(leases) >>
  BY <1>3, AppendWrites DEF W!Next
<1>4. ASSUME NEW r \in pending, Renew(r)
      PROVE  UNCHANGED << Writers, Authors, Len(leases) >>
  BY <1>4, RenewMovesNothing
<1>5. ASSUME \/ \E l \in LeaseIds : Mint(l)
             \/ \E c \in CredIds : RevokeCredential(c) \/ ReceiveRenewal(c)
             \/ \E c \in CredIds, l \in LeaseIds, s \in Streams :
                   \E tail \in 0..(MaxRecords - 1) : ReceivePush(c, l, s, tail)
             \/ \E r \in pending : Lose(r)
             \/ \E t \in 0..MaxTime : SetClock(t)
             \/ UNCHANGED vars
      PROVE  UNCHANGED << Writers, Authors, Len(leases) >>
  <2>1. leases' = leases /\ log' = log
    BY <1>5 DEF Mint, RevokeCredential, ReceiveRenewal, ReceivePush, Accept,
                Lose, SetClock, vars
  <2> QED
    BY <2>1, SameTables DEF Authors
<1> QED
  BY <1>1, <1>2, <1>3, <1>4, <1>5 DEF Next

LEMMA WriterInit == Init => W!Init
<1> SUFFICES ASSUME Init PROVE W!Init
  OBVIOUS
<1>1. LeaseIds = {} /\ Len(leases) = 0
  BY DEF Init, LeaseIds
<1>2. \A s : {l \in LeaseIds : Covers(l, s) /\ Live(l)} = {}
  BY <1>1
<1>3. \A s : WriterOf(s) = 0
  BY <1>2 DEF WriterOf
<1>4. \A s \in Streams : AuthorsOf(log[s]) = <<>>
  BY DEF Init, AuthorsOf
<1> QED
  BY <1>1, <1>3, <1>4 DEF W!Init, Writers, Authors

\* The lease tables of remote_store/lease.rs implement the single-writer
\* promise, for any scopes and streams: authority over a stream starts where
\* nobody holds it or moves whole to a successor, and only the one writer of
\* a stream appends to it.
THEOREM AuthorityMoves == Spec => ImplementsWriterPromise
<1>1. Init => W!Init
  BY WriterInit
<1>2. TypeOK /\ LeaseInv => WriterHolds
  BY OneHolder
<1>3. TypeOK /\ LeaseInv /\ WriterHolds /\ WriterHolds' /\ [Next]_vars =>
         [W!Next]_<<Writers, Authors, Len(leases)>>
  BY WriterStep
<1> QED
  BY <1>1, <1>2, <1>3, LeaseInvariant, PTL DEF Spec, ImplementsWriterPromise, W!Spec

(***************************************************************************)
(* Who wrote a stream, in order.                                           *)
(***************************************************************************)
\* A predecessor never writes again once its successor has written: along a
\* stream the leases of the records are in grant order, whatever requests
\* were verified before the grant and reach append_if_current after it.
WritersInOrder ==
    \A s \in Streams : \A i, j \in 1..Len(log[s]) :
        i < j => log[s][i].by <= log[s][j].by

\* A current lease is at least as new as every lease the stream knows.
LEMMA CurrentIsNewest ==
    ASSUME TypeOK, LeaseInv, NEW l \in LeaseIds, NEW s \in Streams,
           FenceDecision(l, s) = "current", NEW i \in 1..Len(log[s])
    PROVE  log[s][i].by \in Nat /\ log[s][i].by <= l
<1>1. log[s][i].by \in LeaseIds /\ Covers(log[s][i].by, s)
  BY DEF LeaseInv, RecordsCovered
<1>2. PICK b \in LeaseIds : b = log[s][i].by /\ Covers(b, s)
  BY <1>1
<1>3. b \in Nat /\ l \in Nat
  BY TableTypes DEF LeaseIds
<1>4. ~(b > l)
  BY <1>2, FenceIsFresh
<1> QED
  BY <1>2, <1>3, <1>4

LEMMA OrderStep ==
    TypeOK /\ LeaseInv /\ WritersInOrder /\ [Next]_vars => WritersInOrder'
<1> SUFFICES ASSUME TypeOK, LeaseInv, WritersInOrder, [Next]_vars
             PROVE  WritersInOrder'
  OBVIOUS
<1>1. CASE log' = log
  BY <1>1 DEF WritersInOrder
<1>2. ASSUME NEW r \in pending, AppendIfCurrent(r), log' # log
      PROVE  WritersInOrder'
  <2> DEFINE e == [by |-> r.lease, at |-> Len(leases)]
  <2>1. /\ r.stream \in Streams /\ r.lease \in LeaseIds
        /\ r.lease \in Nat /\ Len(leases) \in Nat
        /\ log \in [Streams -> Seq(StreamRecords)]
    BY <1>2, TableTypes DEF AppendIfCurrent, TypeOK, LeaseIds
  <2>2. e \in StreamRecords /\ e.by = r.lease
    BY <2>1 DEF StreamRecords
  <2>3. /\ FenceDecision(r.lease, r.stream) = "current"
        /\ log' = [log EXCEPT ![r.stream] = Append(@, e)]
    BY <1>2 DEF AppendIfCurrent
  <2> HIDE DEF e
  <2>4. \A i \in 1..Len(log[r.stream]) : log[r.stream][i].by <= r.lease
    BY <2>1, <2>3, CurrentIsNewest
  <2> SUFFICES ASSUME NEW s \in Streams, NEW i \in 1..Len(log'[s]),
                      NEW j \in 1..Len(log'[s]), i < j
               PROVE  log'[s][i].by <= log'[s][j].by
    BY DEF WritersInOrder
  <2>5. CASE s # r.stream
    <3>1. log'[s] = log[s]
      BY <2>1, <2>3, <2>5
    <3> QED
      BY <3>1 DEF WritersInOrder
  <2>6. CASE s = r.stream
    <3>1. log'[s] = Append(log[s], e) /\ log[s] \in Seq(StreamRecords)
      BY <2>1, <2>3, <2>6
    <3>2. /\ Len(log[s]) \in Nat /\ Len(log'[s]) = Len(log[s]) + 1
          /\ \A k \in 1..Len(log[s]) : log'[s][k] = log[s][k]
          /\ log'[s][Len(log[s]) + 1] = e
      BY <2>2, <3>1
    <3>3. i \in 1..Len(log[s])
      BY <3>2
    <3>4. CASE j \in 1..Len(log[s])
      BY <3>2, <3>3, <3>4 DEF WritersInOrder
    <3>5. CASE j = Len(log[s]) + 1
      BY <2>2, <2>4, <2>6, <3>2, <3>3, <3>5
    <3> QED
      BY <3>2, <3>4, <3>5
  <2> QED
    BY <2>5, <2>6
<1>3. log' = log \/ \E r \in pending : AppendIfCurrent(r)
  BY DEF Next, vars, Grant, Release, Mint, RevokeCredential, ReceiveRenewal,
         ReceivePush, Accept, Renew, Lose, SetClock
<1> QED
  BY <1>1, <1>2, <1>3

\* append_if_current: the records of a stream are in the grant order of the
\* leases that wrote them, so a superseded writer never writes after its
\* successor.
THEOREM WritersOrdered == Spec => []WritersInOrder
<1>1. Init => WritersInOrder
  BY DEF Init, WritersInOrder
<1>2. TypeOK /\ LeaseInv /\ WritersInOrder /\ [Next]_vars => WritersInOrder'
  BY OrderStep
<1> QED
  BY <1>1, <1>2, LeaseInvariant, PTL DEF Spec
=============================================================================

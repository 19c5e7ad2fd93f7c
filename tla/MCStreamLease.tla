--------------------------- MODULE MCStreamLease ----------------------------
(***************************************************************************)
(* A prefix and one of its descendants, each a stream and each a scope a   *)
(* lease may be granted for: the two scopes overlap.                       *)
(***************************************************************************)
EXTENDS LeaseRefinement

MCSegments == {"t", "a"}
MCScopes == {<<"t">>, <<"t", "a">>}
MCStreams == {<<"t">>, <<"t", "a">>}
=============================================================================

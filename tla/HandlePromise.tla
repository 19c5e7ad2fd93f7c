---------------------------- MODULE HandlePromise ---------------------------
(***************************************************************************)
(* What a parent promises of a spawned thread's handle, with no streams,   *)
(* cursors, settlements or restarts in sight: the spawn turn comes to one  *)
(* end, once; the handle is joined at most once and for good; who looks    *)
(* before joining reports that end, and only who cannot look, or finds no  *)
(* end, reports a failure instead.                                         *)
(***************************************************************************)
CONSTANTS Ends,        \* the ends a turn can come to, "failed" among them
          Observers,   \* joiners that look, and may find no end yet
          Watchers,    \* joiners that join only what they have seen
          Bystanders   \* joiners that do not look

VARIABLES truth,   \* the durable end of the spawn turn, or "open"
          record   \* the handle's join, at most one

Init == truth = "open" /\ record = <<>>

Finish(end) ==
    /\ truth = "open"
    /\ truth' = end
    /\ UNCHANGED record

Join(state, by) ==
    /\ record = <<>>
    /\ record' = << [state |-> state, by |-> by] >>
    /\ UNCHANGED truth

Observe(j) == Join(IF truth = "open" THEN "failed" ELSE truth, j)

Report(j) == truth # "open" /\ Join(truth, j)

GiveUp(j) == Join("failed", j)

Next ==
    \/ \E end \in Ends : Finish(end)
    \/ \E j \in Observers : Observe(j)
    \/ \E j \in Watchers : Report(j)
    \/ \E j \in Bystanders : GiveUp(j)

Spec == Init /\ [][Next]_<<truth, record>>
=============================================================================

--------------------------- MODULE MCRemoteThread ---------------------------
(***************************************************************************)
(* A small instance of RemoteThread: the child and one replacement, the    *)
(* dispatch that spawned the thread and one submitted later.               *)
(***************************************************************************)
EXTENDS RemoteRefinement

MCFacts == [turn : Dispatches,
            kind : {"submitted", "completed", "failed", "progress"}]

=============================================================================

------------------------- MODULE MCCompositeDeploy -------------------------
(***************************************************************************)
(* Three kinds of behaviour.  "calm": deployments only, direct and queued, *)
(* one more of them, the frontend alone failing.  The other two have       *)
(* rollbacks and either component failing; "crash" has exceptions nobody   *)
(* handles and a crash of the control plane, "stop" users who stop the     *)
(* project.                                                                *)
(***************************************************************************)
EXTENDS CompositeDeploy, TLC

VARIABLE kind

Requested == issued' # issued
BackendFails == \E h \in Callers : job[h].on = "backend" /\ ComponentFails(h)
Queued == \E h \in Callers : QueueRequest(h)
RolledBack == \E h \in Callers, t \in Attempts, c \in Components : RollbackRequest(h, t, c)
Escaped == \E h \in Callers : Escape(h)
Stopped == \E c \in Components : StopRequest(c)

MCInit == Init /\ kind \in {"calm", "crash", "stop"}
MCNext ==
    /\ Next
    /\ kind = "calm" => ~BackendFails /\ ~RolledBack
    /\ kind # "calm" => ~Queued /\ (Requested => issued < MaxAttempts - 1)
    /\ Stopped => kind = "stop"
    /\ Escaped \/ Restart => kind = "crash"
    /\ UNCHANGED kind
MCSpec == MCInit /\ [][MCNext]_<<vars, kind>>

Symmetric == Permutations(Callers) \cup Permutations(Images)

\* In calm behaviours: both paths lead to the container of their component when
\* the pipelines are done (RouteServes), and at most one row of a component
\* runs (RunningOnce).
RouteServesCalmly == kind = "calm" => RouteServes
RunningOnceCalmly == kind = "calm" => RunningOnce

\* In calm behaviours: putting a component back after a failed deployment
\* changes its port and not the image that serves (RestoreKeepsImage).
RestoreKeepsImageCalmly ==
    [][kind = "calm" => \A h \in Callers : RestoredAsServed(h)]_<<vars, kind>>
=============================================================================

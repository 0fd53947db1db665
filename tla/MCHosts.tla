------------------------------ MODULE MCHosts ------------------------------
(***************************************************************************)
(* The runtimes an installation may use instead of Docker.  A behaviour    *)
(* has one of them: Windows services behind IIS, with calls that overlap   *)
(* ("together"), or with calls one after the other and a crash or an edit  *)
(* by the operator at any point ("alone"), or Kubernetes in one of its     *)
(* modes.                                                                  *)
(***************************************************************************)
EXTENDS WindowsHost, Sequences, TLC

CONSTANTS MaxManifest, Modes, MaxStarts

VARIABLES host, mode, cloned, remote, tracking, head, index, work, cluster, file,
          start, meant, starts

k8s == <<mode, cloned, remote, tracking, head, index, work, cluster, file,
         start, meant, starts>>

K8s == INSTANCE K8sRuntime WITH call <- start, count <- starts

ASSUME ClusterAssumption ==
    /\ MaxManifest \in Nat /\ "others" \notin Units
    /\ Modes \subseteq {"gitops", "cluster", "files"}

Hosts == {"together", "alone", "kubernetes"}

MCInit ==
    /\ host \in Hosts
    /\ Init /\ own # Units /\ (host = "kubernetes" => own = {})
    /\ K8s!Init /\ (host # "kubernetes" => mode = "files" /\ remote = <<>>)

Windows ==
    /\ host # "kubernetes"
    /\ Next
    /\ count'.events > 0 => host = "alone"
    /\ host = "alone" => \A h \in Callers : call[h].at = "idle" =>
                             call'[h].at = "idle" \/ Active = {}
    /\ UNCHANGED <<host, k8s>>

\* Units meet only in the GitOps repository; elsewhere two calls are enough.
Kubernetes ==
    /\ host = "kubernetes"
    /\ K8s!Next
    /\ starts'.starts <= IF mode = "gitops" THEN MaxStarts ELSE MaxStarts - 1
    /\ UNCHANGED <<host, vars>>

MCSpec == MCInit /\ [][Windows \/ Kubernetes]_<<host, vars, k8s>>

Symmetric == Permutations(Callers) \cup Permutations(Units)

\* A start() that returned has put all manifests of the unit where they belong,
\* to stay until its next start().
PublishedAsReported == K8s!PublishedAsReported
=============================================================================

----------------------------- MODULE K8sRuntime -----------------------------
(***************************************************************************)
(* The Kubernetes runtime (services/runtime/k8s_runtime.py).  start() makes *)
(* the manifests of a unit and hands them over in one of three ways: as a  *)
(* commit pushed to the GitOps repository, by applying them to the         *)
(* cluster, or, when no cluster is configured, as a file.                  *)
(*                                                                         *)
(* All units share one clone of the GitOps repository.  A git command is a *)
(* step; a branch is the sequence of its commits and a commit the files it *)
(* holds.  _namespace.yaml, which is the same in every deployment, is left *)
(* out, and so are the files the operators keep in the repository, but for *)
(* their number.                                                           *)
(***************************************************************************)
EXTENDS Naturals, Sequences, SequencesExt

CONSTANTS
    Callers,        \* threads of the control plane that start units
    Units,          \* <project>-<profile>
    MaxManifest,    \* the manifests of a unit are 1..MaxManifest, 0 is none
    Modes,          \* how this instance may be configured, of "gitops", "cluster"
                    \* and "files"
    MaxStarts,      \* bound of the model: calls of start()
    MaxEvents       \* bound of the model: pushes by others, calls of stop(), and
                    \* times the control plane dies

VARIABLES
    mode,           \* k8s_gitops_repo is set, or a cluster is configured, or neither
    cloned,         \* work_dir/_gitops/.git is there
    remote,         \* the branch of the GitOps repository, <<>> when there is none
    tracking,       \* origin/<branch> in the clone
    head,           \* the branch in the clone
    index, work,    \* the index and the files of the clone
    cluster,        \* [unit -> [document -> the manifest it was applied from]]
    file,           \* [unit -> the manifest in its file in k8s_manifest_dir]
    call,           \* [caller -> the frame of its start()]
    meant,          \* history: [unit -> manifests that may be in place]
    count           \* bounds of the model

repo == <<remote, tracking, head, index, work>>
vars == <<mode, cloned, repo, cluster, file, call, meant, count>>

Manifests == 0..MaxManifest
\* What build_manifests makes, in the order it is applied; a Secret only for a
\* unit with secrets, a NetworkPolicy only with k8s_isolation.
Documents == <<"Secret", "Deployment", "Service", "Ingress", "NetworkPolicy">>
Kinds == ToSet(Documents)

Files == Units \cup {"others"}
NoFiles == [f \in Files |-> 0]
Tree(branch) == IF branch = <<>> THEN NoFiles ELSE Last(branch)

\* doc: the document _apply is at; tries: failed attempts; local: the branch of
\* the clone was kept because the repository seemed to have none; crossed:
\* another call was under way.
Frame == [at : {"idle", "look", "clone", "fetch", "list", "checkout", "write", "add",
                "status", "commit", "push", "apply", "file"},
          unit : Units \cup {"none"}, manifest : Manifests, doc : 1..Len(Documents),
          tries : 0..2, local : BOOLEAN, crossed : BOOLEAN]
NoCall == [at |-> "idle", unit |-> "none", manifest |-> 0,
           doc |-> 1, tries |-> 0, local |-> FALSE, crossed |-> FALSE]
Active == {h \in Callers : call[h].at # "idle"}

\* Calls that touch the same files or the same objects.
Rivals(h, u) == {g \in Active \ {h} : mode = "gitops" \/ call[g].unit = u}

TypeOK ==
    /\ mode \in Modes /\ cloned \in BOOLEAN
    /\ \A branch \in {remote, tracking, head} :
          \A n \in DOMAIN branch : branch[n] \in [Files -> Nat]
    /\ {index, work} \subseteq [Files -> Nat]
    /\ cluster \in [Units -> [Kinds -> Manifests]]
    /\ file \in [Units -> Manifests]
    /\ call \in [Callers -> Frame]
    /\ meant \in [Units -> SUBSET Manifests]

\* A repository with its first commit, or one without the branch.
Init ==
    /\ mode \in Modes /\ cloned = FALSE
    /\ remote \in IF mode = "gitops" THEN {<<>>, <<NoFiles>>} ELSE {<<>>}
    /\ tracking = <<>> /\ head = <<>>
    /\ index = NoFiles /\ work = NoFiles
    /\ cluster = [u \in Units |-> [d \in Kinds |-> 0]]
    /\ file = [u \in Units |-> 0]
    /\ call = [h \in Callers |-> NoCall]
    /\ meant = [u \in Units |-> {0}]
    /\ count = [starts |-> 0, events |-> 0]

Counted(what, limit) == count[what] < limit /\ count' = [count EXCEPT ![what] = @ + 1]
Goes(h, to) == call' = [call EXCEPT ![h].at = to]

\* start() returns and the deployment counts as running.  From then on nothing
\* but its manifests may be in place, unless calls crossed or `surely` fails:
\* then what was meant before may be too.
Returns(h, surely) ==
    LET u == call[h].unit IN
    /\ call' = [call EXCEPT ![h] = NoCall]
    /\ IF surely /\ ~call[h].crossed
       THEN meant' = [meant EXCEPT ![u] = {call[h].manifest}]
       ELSE UNCHANGED meant

----------------------------------------------------------------------------
(* start(), and the push to the GitOps repository.                         *)

Start(h, u, m) ==
    /\ call[h].at = "idle" /\ Counted("starts", MaxStarts)
    /\ call' = [g \in Callers |->
          IF g = h THEN [NoCall EXCEPT
                !.at = CASE mode = "gitops" -> "look" [] mode = "cluster" -> "apply"
                         [] mode = "files" -> "file",
                !.unit = u, !.manifest = m, !.crossed = Rivals(h, u) # {}]
          ELSE [call[g] EXCEPT !.crossed = @ \/ g \in Rivals(h, u)]]
    /\ meant' = [meant EXCEPT ![u] = @ \cup {m}]
    /\ UNCHANGED <<mode, cloned, repo, cluster, file>>

\* A git command of start(), which touches nothing but the clone and its frame.
GitOnly == UNCHANGED <<mode, remote, cluster, file, meant, count>>

Look(h) ==
    /\ call[h].at = "look"
    /\ Goes(h, IF cloned THEN "fetch" ELSE "clone")
    /\ UNCHANGED <<cloned, tracking, head, index, work>> /\ GitOnly

\* rmtree and git clone, also when another call has made a clone meanwhile.
Clone(h) ==
    /\ call[h].at = "clone"
    /\ cloned' = TRUE
    /\ tracking' = remote /\ head' = remote
    /\ index' = Tree(remote) /\ work' = Tree(remote)
    /\ Goes(h, "fetch") /\ GitOnly

Fetch(h) ==
    /\ call[h].at = "fetch"
    /\ tracking' = remote
    /\ Goes(h, "list")
    /\ UNCHANGED <<cloned, head, index, work>> /\ GitOnly

\* ls-remote, whose failure looks like a repository without the branch.
List(h) ==
    /\ call[h].at = "list"
    /\ \E local \in {remote = <<>>, TRUE} :
          call' = [call EXCEPT ![h].at = "checkout", ![h].local = local]
    /\ UNCHANGED <<cloned, tracking, head, index, work>> /\ GitOnly

\* checkout -B <branch> keeps what the clone has; mutant: also when there is an
\* origin/<branch> to start from.
Keep(h) ==
    /\ call[h].at = "checkout" /\ call[h].local
    /\ Goes(h, "write")
    /\ UNCHANGED <<cloned, tracking, head, index, work>> /\ GitOnly
ResetNothing(h) ==
    /\ call[h].at = "checkout" /\ ~call[h].local /\ tracking # <<>>
    /\ Goes(h, "write")
    /\ UNCHANGED <<cloned, tracking, head, index, work>> /\ GitOnly

\* checkout -B <branch> origin/<branch> moves the branch and keeps a change of
\* a file that is the same in both; any other change makes it fail.
Reset(h) ==
    LET old == Tree(head)  new == Tree(tracking) IN
    /\ call[h].at = "checkout" /\ ~call[h].local /\ tracking # <<>>
    /\ \A f \in Files : \/ old[f] = new[f] \/ index[f] = new[f]
                        \/ index[f] = old[f] /\ work[f] = index[f]
    /\ head' = tracking
    /\ index' = [f \in Files |-> IF old[f] = new[f] THEN index[f] ELSE new[f]]
    /\ work' = [f \in Files |-> IF old[f] = new[f] \/ index[f] = new[f]
                                THEN work[f] ELSE new[f]]
    /\ Goes(h, "write")
    /\ UNCHANGED <<cloned, tracking>> /\ GitOnly

\* The unit's manifests go into the clone, a Secret into a file beside it.
Write(h) ==
    /\ call[h].at = "write" /\ cloned
    /\ work' = [work EXCEPT ![call[h].unit] = call[h].manifest]
    /\ file' = [file EXCEPT ![call[h].unit] = call[h].manifest]
    /\ Goes(h, "add")
    /\ UNCHANGED <<mode, cloned, remote, tracking, head, index, cluster, meant, count>>

Add(h) ==
    /\ call[h].at = "add"
    /\ index' = work
    /\ Goes(h, "status")
    /\ UNCHANGED <<cloned, tracking, head, work>> /\ GitOnly

\* Nothing to commit: start() returns without a push.  That is no proof that the
\* manifests are published when the call kept a branch with commits nobody
\* pushed.
Clean(h) ==
    /\ call[h].at = "status" /\ index = Tree(head) /\ work = index
    /\ Returns(h, call[h].local => head = remote)
    /\ UNCHANGED <<mode, cloned, repo, cluster, file, count>>
Dirty(h) ==
    /\ call[h].at = "status" /\ ~(index = Tree(head) /\ work = index)
    /\ Goes(h, "commit")
    /\ UNCHANGED <<cloned, tracking, head, index, work>> /\ GitOnly

\* Fails when another call has committed the index meanwhile.
Commit(h) ==
    /\ call[h].at = "commit" /\ index # Tree(head)
    /\ head' = Append(head, index)
    /\ Goes(h, "push")
    /\ UNCHANGED <<cloned, tracking, index, work>> /\ GitOnly

\* The repository takes a branch that continues its own.
Pushed == IsPrefix(remote, head) /\ remote' = head
Push(h) ==
    /\ call[h].at = "push" /\ Pushed
    /\ tracking' = head
    /\ Returns(h, TRUE)
    /\ UNCHANGED <<mode, cloned, head, index, work, cluster, file, count>>
\* The answer of a push is lost.
PushUnanswered(h) ==
    /\ call[h].at = "push" /\ Pushed
    /\ call' = [call EXCEPT ![h] = NoCall]
    /\ UNCHANGED <<mode, cloned, tracking, head, index, work, cluster, file, meant, count>>

\* GitOpsError, and whatever writing a file raises.
Fails(h) ==
    /\ call[h].at \in {"clone", "fetch", "checkout", "write", "add", "commit", "push", "file"}
    /\ call' = [call EXCEPT ![h] = NoCall]
    /\ UNCHANGED <<mode, cloned, repo, cluster, file, meant, count>>

----------------------------------------------------------------------------
(* Without a GitOps repository.                                            *)

\* A document is created or updated in the cluster.
Applied(h) ==
    cluster' = [cluster EXCEPT ![call[h].unit][Documents[call[h].doc]] = call[h].manifest]

\* create_from_dict for one document after the other.
Apply(h) ==
    /\ call[h].at = "apply" /\ Applied(h)
    /\ IF call[h].doc = Len(Documents) THEN Returns(h, TRUE)
       ELSE call' = [call EXCEPT ![h].doc = @ + 1] /\ UNCHANGED meant
    /\ UNCHANGED <<mode, cloned, repo, file, count>>

\* A refused or unanswered request: all documents again, three times at most,
\* then K8sApplyError.
ApplyFails(h) ==
    /\ call[h].at = "apply"
    /\ Applied(h) \/ UNCHANGED cluster
    /\ call' = [call EXCEPT ![h] = IF call[h].tries = 2 THEN NoCall
                                   ELSE [call[h] EXCEPT !.doc = 1, !.tries = @ + 1]]
    /\ UNCHANGED <<mode, cloned, repo, file, meant, count>>

\* _write_manifests.
WriteFile(h) ==
    /\ call[h].at = "file"
    /\ file' = [file EXCEPT ![call[h].unit] = call[h].manifest]
    /\ Returns(h, TRUE)
    /\ UNCHANGED <<mode, cloned, repo, cluster, count>>

\* stop(): no replicas, unless the request fails, which is passed over.
Stop(u) ==
    /\ mode = "cluster" /\ cluster[u]["Deployment"] # 0 /\ Counted("events", MaxEvents)
    /\ cluster' = [cluster EXCEPT ![u]["Deployment"] = 0]
    /\ meant' = [meant EXCEPT ![u] = @ \cup {0}]
    /\ call' = [h \in Callers |-> [call[h] EXCEPT !.crossed = @ \/
                                      (call[h].at # "idle" /\ call[h].unit = u)]]
    /\ UNCHANGED <<mode, cloned, repo, file>>

----------------------------------------------------------------------------

\* Somebody else pushes to the GitOps repository.
OthersPush ==
    /\ mode = "gitops" /\ Counted("events", MaxEvents)
    /\ remote' = Append(remote, [Tree(remote) EXCEPT !["others"] = @ + 1])
    /\ UNCHANGED <<mode, cloned, tracking, head, index, work, cluster, file, call, meant>>

\* The control plane dies; clone, files and cluster stay as they are.
Crash ==
    /\ Counted("events", MaxEvents)
    /\ call' = [h \in Callers |-> NoCall]
    /\ UNCHANGED <<mode, cloned, repo, cluster, file, meant>>

CallStep(h) ==
    \/ Look(h) \/ Clone(h) \/ Fetch(h) \/ List(h) \/ Keep(h) \/ Reset(h)
    \/ Write(h) \/ Add(h) \/ Clean(h) \/ Dirty(h) \/ Commit(h)
    \/ Push(h) \/ PushUnanswered(h) \/ Fails(h)
    \/ Apply(h) \/ ApplyFails(h) \/ WriteFile(h)

Next ==
    \/ \E h \in Callers, u \in Units, m \in Manifests \ {0} : Start(h, u, m)
    \/ \E h \in Callers : CallStep(h)
    \/ \E u \in Units : Stop(u)
    \/ OthersPush
    \/ Crash

Spec == Init /\ [][Next]_vars

----------------------------------------------------------------------------
(* Properties.                                                             *)

InPlace(u) == CASE mode = "gitops" -> {Tree(remote)[u]}
                [] mode = "cluster" -> {cluster[u][d] : d \in Kinds}
                [] mode = "files" -> {file[u]}

\* A start() that returned has put the unit's manifests, all of them, where the
\* configuration says, and they stay there until the next start() of the unit,
\* whatever pushes and requests failed or went unanswered before, whatever a
\* crash left in the clone and however others push: no success is reported for
\* manifests that were only written or committed.
PublishedAsReported ==
    \A u \in Units : InPlace(u) \subseteq meant[u]
=============================================================================

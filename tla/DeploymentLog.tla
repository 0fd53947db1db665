---------------------------- MODULE DeploymentLog ----------------------------
(***************************************************************************)
(* What the deployments table promises its readers (the console's history, *)
(* rollback, status pages): a row is opened once, is tagged with the image *)
(* built for it, ends running or failed, and after that can only be        *)
(* superseded.  A rollback adds a row that is running at once, and only    *)
(* for an image some earlier release of the same unit ran.                 *)
(*                                                                         *)
(* No threads, locks, containers or commits here: Deployer implements it.  *)
(***************************************************************************)
CONSTANTS Ids, Units, Images, NoImage, Unset

VARIABLE row    \* [id -> [unit, status, image]]

Released(u, i) ==
    \E k \in Ids : /\ row[k].unit = u /\ row[k].image = i
                   /\ row[k].status \in {"running", "stopped"}

Init == row = [k \in Ids |-> Unset]

Open(k, u) ==
    /\ row[k].status = "none"
    /\ row' = [row EXCEPT ![k] = [unit |-> u, status |-> "building", image |-> NoImage]]

Tag(k, i) ==
    /\ row[k].status = "building" /\ row[k].image = NoImage
    /\ row' = [row EXCEPT ![k].image = i]

Succeed(k) ==
    /\ row[k].status = "building" /\ row[k].image # NoImage
    /\ row' = [row EXCEPT ![k].status = "running"]

Fail(k) ==
    /\ row[k].status = "building"
    /\ row' = [row EXCEPT ![k].status = "failed"]

Rollback(k, u, i) ==
    /\ row[k].status = "none"
    /\ Released(u, i)
    /\ row' = [row EXCEPT ![k] = [unit |-> u, status |-> "running", image |-> i]]

\* Row k, itself released, takes over from the other running rows of its unit.
Supersede(k) ==
    /\ row[k].status \in {"running", "stopped"}
    /\ row' = [j \in Ids |->
           IF row[j].unit = row[k].unit /\ row[j].status = "running" /\ j # k
           THEN [row[j] EXCEPT !.status = "stopped"] ELSE row[j]]

Next == \E k \in Ids :
    \/ Succeed(k) \/ Fail(k) \/ Supersede(k)
    \/ \E u \in Units : Open(k, u)
    \/ \E i \in Images : Tag(k, i)
    \/ \E u \in Units, i \in Images : Rollback(k, u, i)

Spec == Init /\ [][Next]_row
=============================================================================

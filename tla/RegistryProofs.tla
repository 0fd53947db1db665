--------------------------- MODULE RegistryProofs ---------------------------
(***************************************************************************)
(* Proofs about Registry, for any number of organisations, names, requests *)
(* and events: what Gitea holds for the platform's projects, and what a    *)
(* synchronisation does to them.                                           *)
(***************************************************************************)
EXTENDS Registry, TLAPS

TypeOK ==
    /\ org \subseteq Orgs /\ forge \subseteq Orgs /\ unit \subseteq Names
    /\ project \in [Names -> Project \cup {None}]
    /\ repo \in [Repos -> Content \cup {None}]
    /\ dir \in [Names -> Workdir \cup {None}]
    /\ req \in [Requests -> Frame]
    /\ sync \in Sync
    /\ late \subseteq Repos /\ gone \subseteq Repos
    /\ blind \subseteq Orgs /\ crossed \subseteq Names /\ clean \in BOOLEAN

----------------------------------------------------------------------------
(* What a request knows.                                                   *)

\* An upload that has been received: it holds the event loop.
Staging == {"repo", "push", "hook", "row"}
Beyond(r) == Uploads(r) /\ req[r].at \in Staging

\* A request asks for an organisation the platform has.
FrameKnown(r) ==
    /\ req[r].at = "idle" => req[r].kind = "none"
    /\ req[r].at \in {"org", "orgrow"} => req[r].kind = "org" /\ req[r].org \in Orgs
    /\ req[r].at \in {"receive", "push"} => Uploads(r)
    /\ req[r].at \in {"receive"} \cup Staging =>
          /\ req[r].kind \in {"create", "zip", "folder"} /\ req[r].name \in Names
          /\ \/ req[r].org \in org
             \/ req[r].org = None /\ req[r].at = "row" /\ ~Uploads(r)

\* A repository a request has made or found goes away in Gitea only.
RepoKnown(r) == req[r].at \in {"push", "hook", "row"} /\ req[r].org # None =>
    repo[Own(r)] # None \/ Own(r) \in gone

\* What an upload of a name no other one crosses has staged, and then pushed.
UploadKnown(r) == Uploads(r) /\ req[r].name \notin crossed =>
    LET n == req[r].name IN
    /\ req[r].at = "receive" /\ req[r].kind = "folder" =>
          /\ dir[n] # None /\ dir[n].files[1] = r
          /\ req[r].file = 2 => dir[n].files[2] = r
    /\ req[r].at \in {"repo", "push"} => dir[n] # None /\ dir[n].files = WholeOf(r)
    /\ req[r].at \in {"hook", "row"} => repo[Own(r)] = WholeOf(r) \/ Own(r) \in gone

RequestsKnown == \A r \in Requests : FrameKnown(r) /\ RepoKnown(r) /\ UploadKnown(r)

\* One upload at a time is past receiving, and next to a folder of a name that
\* was never crossed there is no other upload of the name.
UploadsApart ==
    \A q, r \in Requests : q # r =>
        /\ ~(Beyond(q) /\ Beyond(r))
        /\ req[r].kind = "folder" /\ Uploads(q) /\ req[q].name = req[r].name
              => req[r].name \in crossed

----------------------------------------------------------------------------
(* What a synchronisation knows.                                           *)

\* Projects belong to organisations of the platform, an uploaded one always to
\* one, repositories to those of Gitea.
OrgsKnown ==
    /\ \A n \in Names : project[n] # None =>
          project[n].org \in org \/ (project[n].org = None /\ project[n].by = None)
    /\ \A o \in Orgs, n \in Names : repo[<<o, n>>] # None => o \in forge

\* The projects it is about to delete or repair are the organisation's, and
\* their repositories were not in the list.
SyncKnown ==
    /\ sync.at \in {"list", "import"} => sync.o \in org
    /\ sync.at \in {"fix", "erase"} =>
          /\ sync.o \in Orgs /\ sync.seen[sync.o] # None
          /\ \A n \in sync.left : /\ project[n] # None /\ project[n].org = sync.o
                                  /\ n \notin sync.seen[sync.o]
    /\ sync.at = "erase" => sync.left # {} /\ sync.mode = "delete"

\* What a list of an organisation lacks was made since.
SeenKnown == \A o \in Orgs : sync.seen[o] # None /\ o \notin blind =>
    \A n \in Names : repo[<<o, n>>] # None => n \in sync.seen[o] \/ <<o, n>> \in late

RInv == /\ TypeOK /\ RequestsKnown /\ UploadsApart /\ OrgsKnown /\ SyncKnown /\ SeenKnown
        /\ HasRepository /\ UploadedWhole

----------------------------------------------------------------------------
(* What a synchronisation has reached that nobody interferes with.         *)

First == {"next", "list", "import"}
Second == {"second", "fix", "erase", "done"}

\* Every organisation of Gitea has its row, or is still to come.
OrgsReached == forge \subseteq org \cup (IF sync.at \in First THEN sync.todo ELSE {})

\* The names it knows are projects, but for those it deletes.
NamesReached ==
    /\ \A n \in sync.names : project[n] # None \/ (sync.mode = "delete" /\ n \notin unit)
    /\ sync.at = "erase" => (CHOOSE n \in sync.left : TRUE) \notin unit

\* Every repository whose type can be told has a name it knows, or is still to
\* be looked at.
ReposReached == \A o \in Orgs, n \in Names \ BadNames :
    repo[<<o, n>>] # None /\ Typed(repo[<<o, n>>]) =>
        \/ n \in sync.names
        \/ sync.at \in First /\ o \in sync.todo
        \/ sync.at = "list" /\ o = sync.o
        \/ sync.at = "import" /\ o = sync.o /\ n \in sync.left

\* Every project of an organisation has its repository, or is still to be
\* compared, repaired or deleted.
ProjectsReached == sync.at \in Second =>
    \A n \in Names : project[n] # None /\ project[n].org # None =>
        \/ repo[<<project[n].org, n>>] # None
        \/ project[n].org \in sync.todo
        \/ sync.at \in {"fix", "erase"} /\ n \in sync.left

Reached ==
    /\ \A r \in Requests : req[r].at = "idle"
    /\ sync.at # "idle" =>
          /\ OrgsReached /\ NamesReached /\ ReposReached /\ ProjectsReached
          /\ \A o \in Orgs : sync.seen[o] # None =>
                \A n \in sync.seen[o] : repo[<<o, n>>] # None
          /\ sync.at = "done" => sync.todo = {}

CInv == RInv /\ (clean => Reached)

----------------------------------------------------------------------------
(* Types.                                                                  *)

LEMMA Contents ==
  /\ Empty \in Content /\ AutoInit \in Content
  /\ WholeOf(User) \in Content
  /\ \A r \in Requests : WholeOf(r) \in Content /\ WholeOf(r) # Empty
  /\ None \notin Content
<1>1. Empty \in Content /\ AutoInit \in Content /\ WholeOf(User) \in Content
  BY DEF Empty, AutoInit, WholeOf, Content, Files
<1>2. ASSUME NEW r \in Requests
      PROVE  WholeOf(r) \in Content /\ WholeOf(r) # Empty
  <2>1. WholeOf(r)[1] = r /\ Empty[1] = None /\ r # None
    BY RegistryAssumption DEF WholeOf, Empty, Files
  <2> QED BY <2>1 DEF WholeOf, Content
<1> QED BY <1>1, <1>2, NoneIsNoRecord

LEMMA Constants ==
  /\ NoCall \in Frame /\ NoSync \in Sync /\ ConsoleRow \in Project
  /\ NoCall.at = "idle" /\ NoCall.kind = "none"
  /\ NoSync.at = "idle" /\ \A o \in Orgs : NoSync.seen[o] = None
  /\ SelfOrg \in Orgs /\ Console \in Names /\ Asked \subseteq Names
  /\ None \notin Orgs /\ None \notin Names /\ None \notin Requests
  /\ None \notin Project /\ None \notin Content /\ None \notin Workdir
  BY RegistryAssumption, NoneIsNoRecord
     DEF NoCall, Frame, NoSync, Sync, ConsoleRow, Project, Files

\* A request's frame, one field after the other.
Filled(at, kind, o, n) ==
    [[[[NoCall EXCEPT !.at = at] EXCEPT !.kind = kind] EXCEPT !.org = o] EXCEPT !.name = n]

LEMMA FrameMade ==
  ASSUME NEW at \in {"idle", "org", "orgrow", "receive", "repo", "push", "hook", "row"},
         NEW kind \in {"none", "org", "create", "zip", "folder"},
         NEW o \in Orgs \cup {None}, NEW n \in Names \cup {None}
  PROVE  LET f == Filled(at, kind, o, n) IN
         f \in Frame /\ f.at = at /\ f.kind = kind /\ f.org = o /\ f.name = n /\ f.file = 1
<1> DEFINE f1 == [NoCall EXCEPT !.at = at]
           f2 == [f1 EXCEPT !.kind = kind]
           f3 == [f2 EXCEPT !.org = o]
           f4 == [f3 EXCEPT !.name = n]
<1>1. f1 \in Frame /\ f1.at = at /\ f1.file = 1
  BY Constants DEF Frame, NoCall
<1>2. f2 \in Frame /\ f2.at = at /\ f2.kind = kind /\ f2.file = 1
  <2> HIDE DEF f1
  <2> QED BY <1>1 DEF Frame
<1>3. f3 \in Frame /\ f3.at = at /\ f3.kind = kind /\ f3.org = o /\ f3.file = 1
  <2> HIDE DEF f2
  <2> QED BY <1>2 DEF Frame
<1>4. f4 \in Frame /\ f4.at = at /\ f4.kind = kind /\ f4.org = o /\ f4.name = n /\ f4.file = 1
  <2> HIDE DEF f3
  <2> QED BY <1>3 DEF Frame
<1>5. Filled(at, kind, o, n) = f4
  BY DEF Filled
<1> HIDE DEF f4
<1> QED BY <1>4, <1>5

LEMMA FrameMoves ==
  ASSUME NEW r \in Requests, TypeOK,
         NEW to \in {"idle", "org", "orgrow", "receive", "repo", "push", "hook", "row"},
         Goes(r, to)
  PROVE  /\ req' \in [Requests -> Frame]
         /\ \A q \in Requests \ {r} : req'[q] = req[q]
         /\ req'[r].at = to /\ req'[r].kind = req[r].kind /\ req'[r].org = req[r].org
         /\ req'[r].name = req[r].name /\ req'[r].file = req[r].file
<1> DEFINE f == [req[r] EXCEPT !.at = to]
<1>1. /\ f \in Frame /\ f.at = to /\ f.kind = req[r].kind /\ f.org = req[r].org
      /\ f.name = req[r].name /\ f.file = req[r].file
  BY DEF TypeOK, Frame
<1>2. req' = [req EXCEPT ![r] = f]
  BY DEF Goes, TypeOK
<1> HIDE DEF f
<1> QED BY <1>1, <1>2 DEF TypeOK

LEMMA FrameEnds ==
  ASSUME NEW r \in Requests, TypeOK, Ends(r)
  PROVE  /\ req' \in [Requests -> Frame]
         /\ \A q \in Requests \ {r} : req'[q] = req[q]
         /\ req'[r].at = "idle" /\ req'[r].kind = "none"
  BY Constants DEF Ends, TypeOK

LEMMA FrameTaken ==
  ASSUME NEW r \in Requests, TypeOK, NEW f \in Frame, Takes(r, f)
  PROVE  /\ req[r].at = "idle" /\ req' \in [Requests -> Frame] /\ req'[r] = f
         /\ \A q \in Requests \ {r} : req'[q] = req[q]
         /\ clean' = FALSE /\ UNCHANGED <<org, project, unit, forge, repo, late, gone, sync, blind>>
  BY DEF Takes, TypeOK, db, git

LEMMA EnsuredType ==
  ASSUME TypeOK, NEW x \in Repos, NEW c \in Content, Ensured(x, c)
  PROVE  /\ repo' \in [Repos -> Content \cup {None}] /\ late' \subseteq Repos
         /\ repo'[x] # None /\ (repo[x] # None => repo' = repo /\ late' = late)
         /\ repo[x] = None => repo'[x] = c /\ x \in late'
         /\ late \subseteq late'
         /\ \A y \in Repos \ {x} : repo'[y] = repo[y]
  BY Constants DEF Ensured, TypeOK

LEMMA AbandonsType ==
  ASSUME NEW r \in Requests, TypeOK, Abandons(r), Uploads(r) => req[r].name \in Names
  PROVE  /\ TypeOK' /\ req'[r].at = "idle" /\ req'[r].kind = "none"
         /\ \A q \in Requests \ {r} : req'[q] = req[q]
         /\ UNCHANGED <<org, project, unit, forge, repo, late, gone, sync, blind, crossed>>
         /\ clean' = FALSE
         /\ \A n \in Names : dir'[n] = dir[n] \/ (Uploads(r) /\ n = req[r].name)
<1>1. /\ req' \in [Requests -> Frame] /\ req'[r].at = "idle" /\ req'[r].kind = "none"
      /\ \A q \in Requests \ {r} : req'[q] = req[q]
  BY FrameEnds DEF Abandons
<1>2. /\ UNCHANGED <<org, project, unit, forge, repo, late, gone, sync, blind, crossed>>
      /\ clean' = FALSE
  BY DEF Abandons, Continues, db, git
<1>3. /\ dir' \in [Names -> Workdir \cup {None}]
      /\ \A n \in Names : dir'[n] = dir[n] \/ (Uploads(r) /\ n = req[r].name)
  BY DEF Abandons, TypeOK
<1> QED BY <1>1, <1>2, <1>3 DEF TypeOK

\* What the files of an upload's directory are after some of them were staged.
LEMMA StagedType ==
  ASSUME NEW r \in Requests, TypeOK, NEW s \in SUBSET Files, Staged(r, s),
         req[r].name \in Names
  PROVE  LET n == req[r].name IN
         /\ dir' \in [Names -> Workdir \cup {None}] /\ dir'[n] # None
         /\ \A f \in s : dir'[n].files[f] = r
         /\ \A f \in Files \ s : dir[n] # None => dir'[n].files[f] = dir[n].files[f]
         /\ dir'[n].files \in Content
         /\ \A m \in Names \ {n} : dir'[m] = dir[m]
<1> DEFINE n == req[r].name
           files == [f \in Files |-> IF f \in s THEN r
                                     ELSE IF dir[n] = None THEN None ELSE dir[n].files[f]]
           w == [files |-> files, origin |-> dir[n] # None /\ dir[n].origin]
<1>1. dir' = [dir EXCEPT ![n] = w]
  BY DEF Staged
<1>2. dir[n] # None => dir[n].files \in Content /\ dir[n].origin \in BOOLEAN
  BY DEF TypeOK, Workdir
<1>3. files \in Content
  BY <1>2 DEF Content
<1>4. (dir[n] # None /\ dir[n].origin) \in BOOLEAN
  BY <1>2
<1>5. w \in Workdir /\ w.files = files
  <2> HIDE DEF files
  <2> QED BY <1>3, <1>4 DEF Workdir
<1>6. w # None
  BY <1>5, Constants
<1>7. \A f \in Files : files[f] = IF f \in s THEN r
                                  ELSE IF dir[n] = None THEN None ELSE dir[n].files[f]
  OBVIOUS
<1>8. \A m \in Names : dir'[m] = IF m = n THEN w ELSE dir[m]
  <2> HIDE DEF w
  <2> QED BY <1>1 DEF TypeOK
<1>9. dir' \in [Names -> Workdir \cup {None}]
  <2> HIDE DEF w
  <2> QED BY <1>1, <1>5 DEF TypeOK
<1> HIDE DEF files, w
<1> QED BY <1>3, <1>5, <1>6, <1>7, <1>8, <1>9

\* A request asks for names and organisations there are.
LEMMA FramesKnown ==
  ASSUME NEW r \in Requests, TypeOK, RequestsKnown
  PROVE  /\ req[r] \in Frame /\ FrameKnown(r) /\ RepoKnown(r) /\ UploadKnown(r)
         /\ Uploads(r) => req[r].name \in Names /\ req[r].org \in org
                          /\ Own(r) \in Repos
                          /\ req[r].at \in {"receive", "repo", "push", "hook", "row"}
<1>1. req[r] \in Frame /\ FrameKnown(r) /\ RepoKnown(r) /\ UploadKnown(r)
  BY DEF TypeOK, RequestsKnown
<1>2. ASSUME Uploads(r)
      PROVE  /\ req[r].name \in Names /\ req[r].org \in org
             /\ req[r].at \in {"receive", "repo", "push", "hook", "row"}
  BY <1>1, <1>2 DEF Uploads, FrameKnown, Staging, Frame
<1> QED BY <1>1, <1>2 DEF Own, Repos, TypeOK

----------------------------------------------------------------------------
(* The steps of a request.                                                 *)

\* A step of a request keeps types, and leaves alone what only others change.
LEMMA RequestTypes ==
  ASSUME NEW r \in Requests, TypeOK, RequestsKnown, RequestStep(r)
  PROVE  /\ TypeOK'
         /\ UNCHANGED <<unit, gone, sync, blind, crossed>> /\ clean' = FALSE
         /\ org \subseteq org' /\ forge \subseteq forge'
         /\ \A q \in Requests \ {r} : req'[q] = req[q]
<1> DEFINE Goal == /\ TypeOK'
                   /\ UNCHANGED <<unit, gone, sync, blind, crossed>> /\ clean' = FALSE
                   /\ org \subseteq org' /\ forge \subseteq forge'
                   /\ \A q \in Requests \ {r} : req'[q] = req[q]
<1>1. /\ req[r] \in Frame /\ FrameKnown(r)
      /\ Uploads(r) => req[r].name \in Names /\ req[r].org \in org /\ Own(r) \in Repos
  BY FramesKnown
<1>2. ASSUME EnsureOrg(r) PROVE Goal
  <2>1. req[r].org \in Orgs
    BY <1>1, <1>2 DEF EnsureOrg, FrameKnown
  <2>2. Goes(r, "orgrow") /\ forge' = forge \cup {req[r].org}
        /\ UNCHANGED <<org, project, unit, repo, late, gone, dir, sync, blind, crossed>>
        /\ clean' = FALSE
    BY <1>2 DEF EnsureOrg, Continues, db
  <2>3. req' \in [Requests -> Frame] /\ \A q \in Requests \ {r} : req'[q] = req[q]
    BY <2>2, FrameMoves
  <2> QED BY <2>1, <2>2, <2>3 DEF TypeOK
<1>3. ASSUME InsertOrg(r) PROVE Goal
  <2>1. req[r].org \in Orgs
    BY <1>1, <1>3 DEF InsertOrg, FrameKnown
  <2>2. Ends(r) /\ org' = org \cup {req[r].org} /\ clean' = FALSE
        /\ UNCHANGED <<project, unit, forge, repo, late, gone, dir, sync, blind, crossed>>
    BY <1>3 DEF InsertOrg, Continues, git
  <2>3. req' \in [Requests -> Frame] /\ \A q \in Requests \ {r} : req'[q] = req[q]
    BY <2>2, FrameEnds
  <2> QED BY <2>1, <2>2, <2>3 DEF TypeOK
<1>4. ASSUME Receive(r) PROVE Goal
  <2>1. Uploads(r)
    BY <1>4 DEF Receive, Uploads
  <2>2. /\ UNCHANGED <<org, project, unit, forge, repo, late, gone, sync, blind, crossed>>
        /\ clean' = FALSE
    BY <1>4 DEF Receive, Continues, db, git
  <2>3. dir' \in [Names -> Workdir \cup {None}]
    <3>1. CASE UNCHANGED dir
      BY <3>1 DEF TypeOK
    <3>2. CASE Staged(r, Files)
      BY <3>2, <1>1, <2>1, StagedType
    <3>3. CASE Staged(r, {2})
      BY <3>3, <1>1, <2>1, StagedType DEF Files
    <3> QED BY <1>4, <3>1, <3>2, <3>3 DEF Receive
  <2>4. req' \in [Requests -> Frame] /\ \A q \in Requests \ {r} : req'[q] = req[q]
    <3>1. CASE Goes(r, "repo")
      BY <3>1, FrameMoves
    <3>2. CASE req' = [req EXCEPT ![r].file = 2]
      BY <3>2 DEF TypeOK, Frame, Files
    <3> QED BY <1>4, <3>1, <3>2 DEF Receive
  <2> QED BY <2>2, <2>3, <2>4 DEF TypeOK
<1>5. ASSUME Abandons(r) PROVE Goal
  BY <1>1, <1>5, AbandonsType
<1>6. ASSUME EnsureRepo(r) PROVE Goal
  <2>1. req[r].name \in Names /\ req[r].org \in Orgs
    BY <1>1, <1>6, Constants DEF EnsureRepo, FrameKnown, Staging, TypeOK
  <2>2. Own(r) \in Repos
    BY <2>1 DEF Own, Repos
  <2>3. /\ Ensured(Own(r), IF Uploads(r) THEN Empty ELSE AutoInit)
        /\ Goes(r, "push") \/ Goes(r, "hook")
        /\ UNCHANGED <<org, project, unit, forge, gone, dir, sync, blind, crossed>>
        /\ clean' = FALSE
    BY <1>6 DEF EnsureRepo, Continues, db
  <2>4. repo' \in [Repos -> Content \cup {None}] /\ late' \subseteq Repos
    BY <2>2, <2>3, Contents, EnsuredType
  <2>5. req' \in [Requests -> Frame] /\ \A q \in Requests \ {r} : req'[q] = req[q]
    BY <2>3, FrameMoves
  <2> QED BY <2>3, <2>4, <2>5 DEF TypeOK
<1>7. ASSUME Push(r) PROVE Goal
  <2>1. Uploads(r)
    BY <1>1, <1>7 DEF Push, FrameKnown
  <2>2. /\ dir[req[r].name] # None /\ Goes(r, "hook")
        /\ repo' = [repo EXCEPT ![Own(r)] = dir[req[r].name].files]
        /\ dir' = [dir EXCEPT ![req[r].name].origin = TRUE]
        /\ UNCHANGED <<org, project, unit, forge, late, gone, sync, blind, crossed>>
        /\ clean' = FALSE
    BY <1>7 DEF Push, Pushable, Pushes, Continues, db
  <2>3. dir[req[r].name] \in Workdir
    BY <1>1, <2>1, <2>2 DEF TypeOK
  <2>4. repo' \in [Repos -> Content \cup {None}] /\ dir' \in [Names -> Workdir \cup {None}]
    BY <2>2, <2>3 DEF TypeOK, Workdir
  <2>5. req' \in [Requests -> Frame] /\ \A q \in Requests \ {r} : req'[q] = req[q]
    BY <2>2, FrameMoves
  <2> QED BY <2>2, <2>4, <2>5 DEF TypeOK
<1>8. ASSUME Hook(r) PROVE Goal
  <2>1. /\ Goes(r, "row") /\ clean' = FALSE
        /\ UNCHANGED <<org, project, unit, forge, repo, late, gone, dir, sync, blind, crossed>>
    BY <1>8 DEF Hook, Continues, db, git
  <2>2. req' \in [Requests -> Frame] /\ \A q \in Requests \ {r} : req'[q] = req[q]
    BY <2>1, FrameMoves
  <2> QED BY <2>1, <2>2 DEF TypeOK
<1>9. ASSUME Insert(r) PROVE Goal
  <2>1. /\ req[r].name \in Names /\ req[r].org \in Orgs \cup {None}
    BY <1>1, <1>9 DEF Insert, FrameKnown, Staging, TypeOK
  <2>2. /\ Ends(r) /\ clean' = FALSE
        /\ UNCHANGED <<org, unit, forge, repo, late, gone, dir, sync, blind, crossed>>
    BY <1>9 DEF Insert, Continues, git
  <2>3. req' \in [Requests -> Frame] /\ \A q \in Requests \ {r} : req'[q] = req[q]
    BY <2>2, FrameEnds
  <2>4. project' \in [Names -> Project \cup {None}]
    <3> DEFINE row == [org |-> req[r].org, direct |-> req[r].org = None,
                       by |-> IF Uploads(r) THEN r ELSE None]
    <3>1. row \in Project
      BY <2>1 DEF Project
    <3>2. project' = project \/ project' = [project EXCEPT ![req[r].name] = row]
      BY <1>9 DEF Insert
    <3> HIDE DEF row
    <3> QED BY <2>1, <3>1, <3>2 DEF TypeOK
  <2> QED BY <2>2, <2>3, <2>4 DEF TypeOK
<1> QED BY <1>2, <1>3, <1>4, <1>5, <1>6, <1>7, <1>8, <1>9
        DEF RequestStep, Reject, GiteaFails, PushFails, HookRaises

\* A repository is made by who finds none, or gets its first content by a push.
LEMMA RequestRepos ==
  ASSUME NEW r \in Requests, TypeOK, RequestsKnown, RequestStep(r)
  PROVE  /\ late \subseteq late'
         /\ \A x \in Repos :
               \/ repo'[x] = repo[x]
               \/ /\ repo[x] = None /\ repo'[x] # None /\ x \in late' /\ x = Own(r)
                  /\ req[r].org \in forge
               \/ repo[x] = Empty /\ repo'[x] # None /\ Push(r) /\ x = Own(r)
<1> DEFINE Goal == /\ late \subseteq late'
                   /\ \A x \in Repos :
                         \/ repo'[x] = repo[x]
                         \/ /\ repo[x] = None /\ repo'[x] # None /\ x \in late' /\ x = Own(r)
                            /\ req[r].org \in forge
                         \/ repo[x] = Empty /\ repo'[x] # None /\ Push(r) /\ x = Own(r)
<1>1. req[r] \in Frame /\ FrameKnown(r)
  BY FramesKnown
<1>2. ASSUME UNCHANGED <<repo, late>> PROVE Goal
  BY <1>2
<1>3. ASSUME EnsureRepo(r) PROVE Goal
  <2>1. req[r].name \in Names /\ req[r].org \in Orgs
    BY <1>1, <1>3, Constants DEF EnsureRepo, FrameKnown, Staging, TypeOK
  <2>2. Own(r) \in Repos
    BY <2>1 DEF Own, Repos
  <2>3. Ensured(Own(r), IF Uploads(r) THEN Empty ELSE AutoInit) /\ req[r].org \in forge
    BY <1>3 DEF EnsureRepo
  <2>4. (IF Uploads(r) THEN Empty ELSE AutoInit) \in Content
    BY Contents
  <2> HIDE DEF Goal
  <2>5. /\ repo'[Own(r)] # None /\ (repo[Own(r)] # None => repo' = repo /\ late' = late)
        /\ repo[Own(r)] = None => Own(r) \in late'
        /\ late \subseteq late' /\ \A y \in Repos \ {Own(r)} : repo'[y] = repo[y]
    BY <2>2, <2>3, <2>4, EnsuredType
  <2> QED BY <2>2, <2>3, <2>5 DEF Goal
<1>4. ASSUME Push(r) PROVE Goal
  <2>1. Own(r) \in Repos /\ req[r].name \in Names
    BY <1>1, <1>4, FramesKnown DEF Push, FrameKnown
  <2>2. /\ repo[Own(r)] = Empty /\ dir[req[r].name] # None
        /\ repo' = [repo EXCEPT ![Own(r)] = dir[req[r].name].files] /\ late' = late
    BY <1>4 DEF Push, Pushable, Pushes
  <2>3. dir[req[r].name].files # None
    BY <2>1, <2>2, Contents DEF TypeOK, Workdir
  <2> QED BY <1>4, <2>1, <2>2, <2>3 DEF TypeOK
<1>5. UNCHANGED <<repo, late>> \/ EnsureRepo(r) \/ Push(r)
  BY DEF RequestStep, Reject, GiteaFails, PushFails, HookRaises, Abandons, EnsureOrg,
         InsertOrg, Receive, Hook, Insert, git
<1> QED BY <1>2, <1>3, <1>4, <1>5

\* A request's only row is its own, of a name that had none.
LEMMA RequestProjects ==
  ASSUME NEW r \in Requests, TypeOK, RequestsKnown, RequestStep(r)
  PROVE  \A n \in Names :
            \/ project'[n] = project[n]
            \/ /\ Insert(r) /\ n = req[r].name /\ project[n] = None /\ project'[n] # None
               /\ project'[n].org = req[r].org
               /\ project'[n].by = IF Uploads(r) THEN r ELSE None
<1>1. CASE UNCHANGED project
  BY <1>1
<1>2. CASE Insert(r)
  <2> DEFINE row == [org |-> req[r].org, direct |-> req[r].org = None,
                     by |-> IF Uploads(r) THEN r ELSE None]
  <2>1. project' = IF project[req[r].name] # None THEN project
                   ELSE [project EXCEPT ![req[r].name] = row]
    BY <1>2 DEF Insert
  <2>2. req[r] \in Frame /\ FrameKnown(r)
    BY FramesKnown
  <2>3. req[r].name \in Names /\ req[r].org \in Orgs \cup {None}
    BY <1>2, <2>2 DEF Insert, FrameKnown, Staging, TypeOK
  <2>4. row \in Project
    BY <2>3 DEF Project
  <2>5. row # None /\ row.org = req[r].org /\ row.by = IF Uploads(r) THEN r ELSE None
    BY <2>4, Constants
  <2> HIDE DEF row
  <2> QED BY <1>2, <2>1, <2>3, <2>5 DEF TypeOK
<1>3. UNCHANGED project \/ Insert(r)
  BY DEF RequestStep, Reject, GiteaFails, PushFails, HookRaises, Abandons, EnsureOrg,
         InsertOrg, Receive, Hook, EnsureRepo, Push, Pushes, db
<1> QED BY <1>1, <1>2, <1>3

LEMMA RequestTables ==
  ASSUME NEW r \in Requests, RInv, RequestStep(r)
  PROVE  OrgsKnown' /\ SyncKnown' /\ SeenKnown' /\ HasRepository' /\ UploadedWhole'
<1>1. /\ TypeOK' /\ UNCHANGED <<gone, sync, blind, crossed>>
      /\ org \subseteq org' /\ forge \subseteq forge'
  BY RequestTypes DEF RInv
<1>2. /\ req[r] \in Frame /\ FrameKnown(r) /\ RepoKnown(r) /\ UploadKnown(r)
      /\ Uploads(r) => Own(r) \in Repos
  BY FramesKnown DEF RInv
<1> DEFINE Born(n) == /\ Insert(r) /\ n = req[r].name /\ project[n] = None /\ project'[n] # None
                      /\ project'[n].org = req[r].org
                      /\ project'[n].by = IF Uploads(r) THEN r ELSE None
           Made(x) == /\ repo[x] = None /\ repo'[x] # None /\ x \in late' /\ x = Own(r)
                      /\ req[r].org \in forge
           Pushed(x) == repo[x] = Empty /\ repo'[x] # None /\ Push(r) /\ x = Own(r)
<1>3. \A n \in Names : project'[n] = project[n] \/ Born(n)
  BY RequestProjects DEF RInv
<1>4. late \subseteq late' /\ \A x \in Repos : repo'[x] = repo[x] \/ Made(x) \/ Pushed(x)
  BY RequestRepos DEF RInv
<1>5. \A x \in Repos : (repo[x] # None => repo'[x] # None) /\ (Made(x) => x[1] \in forge)
  BY <1>4 DEF Own
<1>6. \A x \in Repos, q \in Requests : repo[x] = WholeOf(q) => repo'[x] = WholeOf(q)
  BY <1>4, Contents
<1>7. \A n \in Names : Born(n) => req[r].at = "row" /\ req[r].org \in org \cup {None}
  BY <1>2 DEF Insert, FrameKnown, Staging
<1>8. OrgsKnown'
  <2>1. \A n \in Names : project'[n] # None =>
           project'[n].org \in org' \/ (project'[n].org = None /\ project'[n].by = None)
    BY <1>1, <1>2, <1>3, <1>7 DEF RInv, OrgsKnown, Insert, FrameKnown, Staging
  <2>2. ASSUME NEW o \in Orgs, NEW n \in Names, repo'[<<o, n>>] # None PROVE o \in forge'
    <3>1. <<o, n>> \in Repos
      BY DEF Repos
    <3>2. Pushed(<<o, n>>) => repo[<<o, n>>] # None
      BY Contents
    <3>3. repo[<<o, n>>] # None \/ <<o, n>>[1] \in forge
      BY <1>4, <1>5, <2>2, <3>1, <3>2
    <3> QED BY <1>1, <3>3 DEF RInv, OrgsKnown
  <2> QED BY <2>1, <2>2 DEF OrgsKnown
<1>9. SyncKnown'
  <2>1. \A n \in Names : project[n] # None => project'[n] = project[n]
    BY <1>3
  <2>2. SyncKnown /\ sync \in Sync
    BY DEF RInv, TypeOK
  <2> QED BY <1>1, <2>1, <2>2 DEF SyncKnown, Sync
<1>10. SeenKnown'
  <2> SUFFICES ASSUME NEW o \in Orgs, sync.seen[o] # None, o \notin blind, NEW n \in Names,
                      repo'[<<o, n>>] # None
               PROVE  n \in sync.seen[o] \/ <<o, n>> \in late'
    BY <1>1 DEF SeenKnown
  <2>1. <<o, n>> \in Repos
    BY DEF Repos
  <2>2. Pushed(<<o, n>>) => repo[<<o, n>>] # None
    BY Contents
  <2>3. repo[<<o, n>>] # None \/ <<o, n>> \in late'
    BY <1>4, <2>1, <2>2
  <2> QED BY <1>4, <2>3 DEF RInv, SeenKnown
<1>11. HasRepository'
  <2> SUFFICES ASSUME NEW n \in Names, project'[n] # None, project'[n].org # None,
                      ~project'[n].direct
               PROVE  \/ repo'[<<project'[n].org, n>>] # None
                      \/ <<project'[n].org, n>> \in gone
    BY <1>1 DEF HasRepository
  <2>1. <<project'[n].org, n>> \in Repos
    BY <1>1 DEF TypeOK, Project, Repos
  <2>2. CASE project'[n] = project[n]
    BY <1>5, <2>1, <2>2 DEF RInv, HasRepository
  <2>3. CASE Born(n)
    <3>1. <<project'[n].org, n>> = Own(r)
      BY <2>3 DEF Own
    <3>2. repo[Own(r)] # None \/ Own(r) \in gone
      BY <1>2, <1>7, <2>3 DEF RepoKnown
    <3> QED BY <1>5, <2>1, <3>1, <3>2
  <2> QED BY <1>3, <2>2, <2>3
<1>12. UploadedWhole'
  <2> SUFFICES ASSUME NEW n \in Names, project'[n] # None, project'[n].by # None,
                      n \notin crossed
               PROVE  \/ repo'[<<project'[n].org, n>>] = WholeOf(project'[n].by)
                      \/ <<project'[n].org, n>> \in gone
    BY <1>1 DEF UploadedWhole
  <2>1. CASE project'[n] = project[n]
    <3>1. \/ repo[<<project[n].org, n>>] = WholeOf(project[n].by)
          \/ <<project[n].org, n>> \in gone
      BY <2>1 DEF RInv, UploadedWhole
    <3>2. gone \subseteq Repos /\ project[n].by \in Requests
      BY <2>1 DEF RInv, TypeOK, Project
    <3>3. <<project[n].org, n>> \in Repos
      BY <2>1 DEF RInv, OrgsKnown, TypeOK, Repos
    <3> QED BY <1>6, <2>1, <3>1, <3>2, <3>3
  <2>2. CASE Born(n)
    <3>1. Uploads(r) /\ project'[n].by = r /\ req[r].name = n /\ <<project'[n].org, n>> = Own(r)
      BY <2>2 DEF Own
    <3>2. repo[Own(r)] = WholeOf(r) \/ Own(r) \in gone
      BY <1>2, <1>7, <2>2, <3>1 DEF UploadKnown
    <3> QED BY <1>2, <1>6, <3>1, <3>2
  <2> QED BY <1>3, <2>1, <2>2
<1> QED BY <1>8, <1>9, <1>10, <1>11, <1>12

\* A request goes on with its frame, or ends.
LEMMA RequestFrame ==
  ASSUME NEW r \in Requests, TypeOK, RequestsKnown, RequestStep(r)
  PROVE  \/ req'[r].at = "idle" /\ req'[r].kind = "none"
         \/ /\ req'[r].kind = req[r].kind /\ req'[r].org = req[r].org
            /\ req'[r].name = req[r].name
            /\ \/ EnsureOrg(r) /\ req'[r].at = "orgrow"
               \/ Receive(r) /\ req'[r].at = "receive" /\ req'[r].file = 2
                  /\ req[r].kind = "folder" /\ Staged(r, {2})
               \/ Receive(r) /\ req'[r].at = "repo" /\ req'[r].file = req[r].file
                  /\ \/ req[r].kind = "zip" /\ Staged(r, Files)
                     \/ req[r].kind = "folder" /\ req[r].file = 2 /\ UNCHANGED dir
               \/ EnsureRepo(r) /\ req'[r].at = IF Uploads(r) THEN "push" ELSE "hook"
               \/ Push(r) /\ req'[r].at = "hook"
               \/ Hook(r) /\ req'[r].at = "row"
<1>1. CASE Ends(r)
  BY <1>1, FrameEnds
<1>2. CASE EnsureOrg(r)
  BY <1>2, FrameMoves DEF EnsureOrg
<1>3. CASE Receive(r)
  <2>1. CASE Goes(r, "repo")
    <3>1. /\ req'[r].at = "repo" /\ req'[r].kind = req[r].kind /\ req'[r].org = req[r].org
          /\ req'[r].name = req[r].name /\ req'[r].file = req[r].file
      BY <2>1, FrameMoves
    <3>2. \/ req[r].kind = "zip" /\ Staged(r, Files)
          \/ req[r].kind = "folder" /\ req[r].file = 2 /\ UNCHANGED dir
          \/ req' = [req EXCEPT ![r].file = 2]
      BY <1>3 DEF Receive
    <3>3. req' # [req EXCEPT ![r].file = 2]
      BY <1>3, <3>1 DEF Receive, TypeOK, Frame
    <3> QED BY <1>3, <3>1, <3>2, <3>3
  <2>2. CASE /\ req' = [req EXCEPT ![r].file = 2] /\ Staged(r, {2})
             /\ req[r].kind = "folder"
    <3>1. req[r].at = "receive"
      BY <1>3 DEF Receive
    <3>2. /\ req'[r].at = "receive" /\ req'[r].kind = req[r].kind /\ req'[r].org = req[r].org
          /\ req'[r].name = req[r].name /\ req'[r].file = 2
      BY <2>2, <3>1 DEF TypeOK, Frame
    <3> QED BY <1>3, <2>2, <3>2
  <2> QED BY <1>3, <2>1, <2>2 DEF Receive
<1>4. CASE EnsureRepo(r)
  BY <1>4, FrameMoves DEF EnsureRepo
<1>5. CASE Push(r)
  BY <1>5, FrameMoves DEF Push, Pushes
<1>6. CASE Hook(r)
  BY <1>6, FrameMoves DEF Hook
<1> QED BY <1>1, <1>2, <1>3, <1>4, <1>5, <1>6
        DEF RequestStep, Reject, GiteaFails, PushFails, HookRaises, Abandons, InsertOrg, Insert

\* Directories: an upload changes its own name's only, while it holds the event loop.
LEMMA RequestDirs ==
  ASSUME NEW r \in Requests, RInv, RequestStep(r), NEW q \in Requests \ {r},
         Uploads(q), req[q].name \notin crossed,
         \/ req[q].at = "receive" /\ req[q].kind = "folder"
         \/ req[q].at \in {"repo", "push"}
  PROVE  dir'[req[q].name] = dir[req[q].name]
<1>1. TypeOK /\ RequestsKnown /\ UploadsApart
  BY DEF RInv
<1>2. /\ req[r] \in Frame /\ FrameKnown(r)
      /\ Uploads(r) => req[r].name \in Names
                       /\ req[r].at \in {"receive", "repo", "push", "hook", "row"}
      /\ req[q].name \in Names
  BY <1>1, FramesKnown
<1>3. ASSUME Uploads(r), Loop(r) \/ Beyond(r), req[r].name = req[q].name PROVE FALSE
  <2>1. req[q].kind = "folder" => FALSE
    BY <1>1, <1>3 DEF UploadsApart
  <2>2. Beyond(q)
    BY <2>1, <1>3 DEF Beyond, Staging
  <2> QED BY <1>1, <1>3, <2>2 DEF UploadsApart, Loop, Beyond, Staging
<1>4. ASSUME Abandons(r), Uploads(r) => Loop(r) \/ Beyond(r)
      PROVE  dir'[req[q].name] = dir[req[q].name]
  BY <1>1, <1>2, <1>3, <1>4, AbandonsType
<1>5. ASSUME Receive(r) PROVE dir'[req[q].name] = dir[req[q].name]
  <2>1. Uploads(r) /\ Loop(r)
    BY <1>5 DEF Receive, Uploads
  <2>2. UNCHANGED dir \/ Staged(r, Files) \/ Staged(r, {2})
    BY <1>5 DEF Receive
  <2>3. UNCHANGED dir \/ \A m \in Names \ {req[r].name} : dir'[m] = dir[m]
    BY <1>1, <1>2, <2>1, <2>2, StagedType DEF Files
  <2> QED BY <1>2, <1>3, <2>1, <2>3
<1>6. ASSUME Push(r) PROVE dir'[req[q].name] = dir[req[q].name]
  <2>1. /\ Uploads(r) /\ Beyond(r)
        /\ dir' = [dir EXCEPT ![req[r].name].origin = TRUE]
    BY <1>2, <1>6 DEF Push, Pushes, FrameKnown, Beyond, Staging
  <2> QED BY <1>1, <1>2, <1>3, <2>1 DEF TypeOK
<1>7. \/ UNCHANGED dir \/ Receive(r) \/ Push(r)
      \/ Abandons(r) /\ (Uploads(r) => Loop(r) \/ Beyond(r))
  BY <1>2 DEF RequestStep, EnsureOrg, InsertOrg, Reject, EnsureRepo, GiteaFails, PushFails,
              Hook, HookRaises, Insert, Beyond, Staging, FrameKnown, Uploads
<1> QED BY <1>4, <1>5, <1>6, <1>7

LEMMA RequestOthers ==
  ASSUME NEW r \in Requests, RInv, RequestStep(r), NEW q \in Requests \ {r}
  PROVE  (FrameKnown(q) /\ RepoKnown(q) /\ UploadKnown(q))'
<1>1. /\ TypeOK /\ RequestsKnown /\ TypeOK' /\ req'[q] = req[q]
      /\ UNCHANGED <<gone, crossed>> /\ org \subseteq org'
  BY RequestTypes DEF RInv
<1>2. /\ req[q] \in Frame /\ FrameKnown(q) /\ RepoKnown(q) /\ UploadKnown(q)
      /\ Uploads(q) => Own(q) \in Repos /\ req[q].name \in Names
  BY <1>1, FramesKnown
<1>3. \A x \in Repos : /\ repo[x] # None => repo'[x] # None
                       /\ repo[x] = WholeOf(q) => repo'[x] = WholeOf(q)
  BY <1>1, RequestRepos, Contents
<1>4. FrameKnown(q)'
  BY <1>1, <1>2 DEF FrameKnown, Uploads
<1>5. RepoKnown(q)'
  <2>1. req[q].at \in {"push", "hook", "row"} /\ req[q].org # None => Own(q) \in Repos
    BY <1>1, <1>2 DEF FrameKnown, Staging, Own, Repos, TypeOK
  <2>2. Own(q)' = Own(q)
    BY <1>1 DEF Own
  <2> QED BY <1>1, <1>2, <1>3, <2>1, <2>2 DEF RepoKnown
<1>6. UploadKnown(q)'
  <2>1. Uploads(q)' = Uploads(q) /\ Own(q)' = Own(q)
    BY <1>1 DEF Uploads, Own
  <2>2. Uploads(q) /\ req[q].name \notin crossed =>
           \/ dir'[req[q].name] = dir[req[q].name]
           \/ ~ \/ req[q].at = "receive" /\ req[q].kind = "folder"
                \/ req[q].at \in {"repo", "push"}
    BY RequestDirs
  <2> QED BY <1>1, <1>2, <1>3, <2>1, <2>2 DEF UploadKnown
<1> QED BY <1>4, <1>5, <1>6

LEMMA RequestOwn ==
  ASSUME NEW r \in Requests, RInv, RequestStep(r)
  PROVE  (FrameKnown(r) /\ RepoKnown(r) /\ UploadKnown(r))'
<1>1. /\ TypeOK /\ RequestsKnown /\ TypeOK'
      /\ UNCHANGED <<gone, crossed>> /\ org \subseteq org'
  BY RequestTypes DEF RInv
<1>2. /\ req[r] \in Frame /\ FrameKnown(r) /\ RepoKnown(r) /\ UploadKnown(r)
      /\ Uploads(r) => Own(r) \in Repos /\ req[r].name \in Names
  BY <1>1, FramesKnown
<1>3. \A x \in Repos : /\ repo[x] # None => repo'[x] # None
                       /\ repo[x] = WholeOf(r) => repo'[x] = WholeOf(r)
  BY <1>1, RequestRepos, Contents
<1>4. CASE req'[r].at = "idle" /\ req'[r].kind = "none"
  BY <1>4 DEF FrameKnown, RepoKnown, UploadKnown, Uploads, Staging
<1>5. CASE ~(req'[r].at = "idle" /\ req'[r].kind = "none")
  <2>1. /\ req'[r].kind = req[r].kind /\ req'[r].org = req[r].org /\ req'[r].name = req[r].name
        /\ Own(r)' = Own(r) /\ Uploads(r)' = Uploads(r)
    BY <1>1, <1>5, RequestFrame DEF Own, Uploads
  <2>2. CASE EnsureOrg(r) /\ req'[r].at = "orgrow"
    BY <1>1, <1>2, <2>1, <2>2
       DEF EnsureOrg, FrameKnown, RepoKnown, UploadKnown, Uploads, Staging
  <2>3. CASE Receive(r)
    <3>1. /\ Uploads(r) /\ req[r].at = "receive"
      BY <2>3 DEF Receive, Uploads
    <3>2. req'[r].at \in {"receive", "repo"}
      BY <1>1, <1>5, <2>3, RequestFrame
         DEF Receive, EnsureOrg, EnsureRepo, Push, Hook
    <3>3. FrameKnown(r)' /\ RepoKnown(r)'
      BY <1>1, <1>2, <2>1, <3>1, <3>2 DEF FrameKnown, RepoKnown, Staging, Uploads
    <3>4. UploadKnown(r)'
      <4> SUFFICES ASSUME req[r].name \notin crossed
                   PROVE  LET n == req[r].name IN
                    /\ req'[r].at = "receive" /\ req[r].kind = "folder" =>
                          /\ dir'[n] # None /\ dir'[n].files[1] = r
                          /\ req'[r].file = 2 => dir'[n].files[2] = r
                    /\ req'[r].at = "repo" =>
                          dir'[n] # None /\ dir'[n].files = WholeOf(r)
        BY <1>1, <2>1, <3>2 DEF UploadKnown
      <4> DEFINE n == req[r].name
      <4>1. CASE /\ req'[r].at = "receive" /\ req[r].kind = "folder" /\ Staged(r, {2})
        <5>1. /\ dir'[n] # None /\ dir'[n].files[2] = r
              /\ dir[n] # None => dir'[n].files[1] = dir[n].files[1]
          BY <1>1, <1>2, <3>1, <4>1, StagedType DEF Files
        <5>2. dir[n] # None /\ dir[n].files[1] = r
          BY <1>2, <3>1, <4>1 DEF UploadKnown
        <5> QED BY <4>1, <5>1, <5>2
      <4>2. CASE req'[r].at = "repo" /\ Staged(r, Files)
        <5>1. /\ dir'[n] # None /\ dir'[n].files \in Content
              /\ \A f \in Files : dir'[n].files[f] = r
          BY <1>1, <1>2, <3>1, <4>2, StagedType
        <5> QED BY <4>2, <5>1 DEF Content, WholeOf
      <4>3. CASE /\ req'[r].at = "repo" /\ req[r].kind = "folder" /\ req[r].file = 2
                 /\ UNCHANGED dir
        <5>1. dir[n] # None /\ dir[n].files[1] = r /\ dir[n].files[2] = r
          BY <1>2, <3>1, <4>3 DEF UploadKnown
        <5>2. dir[n].files \in Content
          BY <1>1, <1>2, <3>1, <5>1 DEF TypeOK, Workdir
        <5>3. dir[n].files = WholeOf(r)
          BY <5>1, <5>2 DEF Content, WholeOf, Files
        <5> QED BY <4>3, <5>1, <5>3
      <4> QED BY <1>1, <1>5, <2>3, <4>1, <4>2, <4>3, RequestFrame
              DEF Receive, EnsureOrg, EnsureRepo, Push, Hook
    <3> QED BY <3>3, <3>4
  <2>4. CASE EnsureRepo(r) /\ req'[r].at = IF Uploads(r) THEN "push" ELSE "hook"
    <3>1. req[r].name \in Names /\ req[r].org \in org /\ req[r].at = "repo"
      BY <1>2, <2>4 DEF EnsureRepo, FrameKnown, Staging
    <3>2. Own(r) \in Repos
      BY <1>1, <3>1 DEF Own, Repos, TypeOK
    <3>3. repo'[Own(r)] # None
      <4>1. (IF Uploads(r) THEN Empty ELSE AutoInit) \in Content
        BY Contents
      <4>2. Ensured(Own(r), IF Uploads(r) THEN Empty ELSE AutoInit)
        BY <2>4 DEF EnsureRepo
      <4> QED BY <1>1, <3>2, <4>1, <4>2, EnsuredType
    <3>4. FrameKnown(r)' /\ RepoKnown(r)'
      BY <1>1, <1>2, <2>1, <2>4, <3>1, <3>3 DEF FrameKnown, RepoKnown, Staging, Uploads
    <3>5. UNCHANGED dir
      BY <2>4 DEF EnsureRepo
    <3>6. UploadKnown(r)'
      BY <1>1, <1>2, <2>1, <2>4, <3>1, <3>5 DEF UploadKnown
    <3> QED BY <3>4, <3>6
  <2>5. CASE Push(r) /\ req'[r].at = "hook"
    <3>1. Uploads(r) /\ req[r].at = "push"
      BY <1>2, <2>5 DEF Push, FrameKnown
    <3>2. repo' = [repo EXCEPT ![Own(r)] = dir[req[r].name].files] /\ repo[Own(r)] = Empty
      BY <2>5 DEF Push, Pushable, Pushes
    <3>3. repo'[Own(r)] = dir[req[r].name].files /\ repo'[Own(r)] # None
      BY <1>1, <1>2, <1>3, <3>1, <3>2, Contents DEF TypeOK
    <3>4. FrameKnown(r)' /\ RepoKnown(r)'
      BY <1>1, <1>2, <2>1, <2>5, <3>1, <3>3 DEF FrameKnown, RepoKnown, Staging, Uploads
    <3>5. req[r].name \notin crossed => dir[req[r].name].files = WholeOf(r)
      BY <1>2, <3>1 DEF UploadKnown
    <3>6. UploadKnown(r)'
      BY <1>1, <2>1, <2>5, <3>3, <3>5 DEF UploadKnown
    <3> QED BY <3>4, <3>6
  <2>6. CASE Hook(r) /\ req'[r].at = "row"
    <3>1. req[r].at = "hook" /\ UNCHANGED repo
      BY <2>6 DEF Hook, git
    <3> QED BY <1>1, <1>2, <2>1, <2>6, <3>1
            DEF FrameKnown, RepoKnown, UploadKnown, Staging, Uploads
  <2> QED BY <1>1, <1>5, <2>2, <2>3, <2>4, <2>5, <2>6, RequestFrame
<1> QED BY <1>4, <1>5

LEMMA RequestApart ==
  ASSUME NEW r \in Requests, RInv, RequestStep(r)
  PROVE  UploadsApart'
<1>1. /\ TypeOK /\ RequestsKnown /\ UploadsApart /\ UNCHANGED crossed
      /\ \A q \in Requests \ {r} : req'[q] = req[q]
  BY RequestTypes DEF RInv
<1>2. \A q \in Requests \ {r} : Uploads(q)' = Uploads(q) /\ Beyond(q)' = Beyond(q)
  BY <1>1 DEF Uploads, Beyond
<1>3. CASE req'[r].at = "idle" /\ req'[r].kind = "none"
  <2>1. ~Uploads(r)' /\ ~Beyond(r)'
    BY <1>3 DEF Uploads, Beyond
  <2> QED BY <1>1, <1>2, <1>3, <2>1 DEF UploadsApart
<1>4. CASE ~(req'[r].at = "idle" /\ req'[r].kind = "none")
  <2>1. /\ req'[r].kind = req[r].kind /\ req'[r].name = req[r].name
        /\ Uploads(r)' = Uploads(r)
    BY <1>1, <1>4, RequestFrame DEF Uploads
  <2>2. Beyond(r)' => Beyond(r) \/ Receive(r)
    BY <1>1, <1>4, <2>1, RequestFrame DEF Beyond, Staging, EnsureRepo, Push, Hook
  <2>3. Receive(r) => \A q \in Requests \ {r} : ~Beyond(q)
    BY DEF Receive, Loop, Beyond, Staging
  <2> QED BY <1>1, <1>2, <2>1, <2>2, <2>3 DEF UploadsApart
<1> QED BY <1>3, <1>4

LEMMA RequestInv ==
  ASSUME NEW r \in Requests, RInv, RequestStep(r)
  PROVE  RInv' /\ clean' = FALSE
<1>1. TypeOK' /\ clean' = FALSE
  BY RequestTypes DEF RInv
<1>2. RequestsKnown'
  BY RequestOthers, RequestOwn DEF RequestsKnown
<1> QED BY <1>1, <1>2, RequestApart, RequestTables DEF RInv

----------------------------------------------------------------------------
(* A request is taken.                                                     *)

\* What is true of the tables stays so while they, the forge and the
\* synchronisation stay as they are.
LEMMA TablesStay ==
  ASSUME RInv, UNCHANGED <<org, project, forge, repo, late, gone, sync, blind>>,
         crossed \subseteq crossed'
  PROVE  OrgsKnown' /\ SyncKnown' /\ SeenKnown' /\ HasRepository' /\ UploadedWhole'
<1>1. OrgsKnown' /\ SyncKnown' /\ SeenKnown'
  BY DEF RInv, OrgsKnown, SyncKnown, SeenKnown
<1>2. HasRepository' /\ UploadedWhole'
  BY DEF RInv, HasRepository, UploadedWhole
<1> QED BY <1>1, <1>2

\* Requests for an organisation, or for a project without files.
LEMMA AskInv ==
  ASSUME NEW r \in Requests, NEW f \in Frame, RInv, Takes(r, f), UNCHANGED <<dir, crossed>>,
         \/ f.at = "org" /\ f.kind = "org" /\ f.org \in Orgs
         \/ /\ f.at = "repo" /\ f.kind = "create" /\ f.org \in org /\ f.name \in Names
         \/ /\ f.at = "row" /\ f.kind = "create" /\ f.org = None /\ f.name \in Names
  PROVE  RInv' /\ clean' = FALSE
<1>1. /\ TypeOK /\ req[r].at = "idle" /\ req' \in [Requests -> Frame] /\ req'[r] = f
      /\ clean' = FALSE /\ \A q \in Requests \ {r} : req'[q] = req[q]
      /\ UNCHANGED <<org, project, unit, forge, repo, late, gone, sync, blind>>
  BY FrameTaken DEF RInv
<1>2. TypeOK'
  BY <1>1 DEF TypeOK
<1>3. (FrameKnown(r) /\ RepoKnown(r) /\ UploadKnown(r))'
  BY <1>1, Constants DEF FrameKnown, RepoKnown, UploadKnown, Uploads, Staging
<1>4. \A q \in Requests \ {r} : (FrameKnown(q) /\ RepoKnown(q) /\ UploadKnown(q))'
  BY <1>1 DEF RInv, RequestsKnown, FrameKnown, RepoKnown, UploadKnown, Uploads, Own
<1>5. RequestsKnown'
  BY <1>3, <1>4 DEF RequestsKnown
<1>6. UploadsApart'
  <2>1. ~Uploads(r)' /\ ~Beyond(r)' /\ req'[r].kind # "folder"
    BY <1>1 DEF Uploads, Beyond
  <2>2. \A q \in Requests \ {r} : Uploads(q)' = Uploads(q) /\ Beyond(q)' = Beyond(q)
    BY <1>1 DEF Uploads, Beyond
  <2> QED BY <1>1, <2>1, <2>2 DEF RInv, UploadsApart
<1> QED BY <1>1, <1>2, <1>5, <1>6, TablesStay DEF RInv

LEMMA OrgRequestInv ==
  ASSUME NEW r \in Requests, NEW o \in Orgs, RInv, OrgRequest(r, o)
  PROVE  RInv' /\ clean' = FALSE
<1> DEFINE f == [NoCall EXCEPT !.at = "org", !.kind = "org", !.org = o]
<1>1. f \in Frame /\ f.at = "org" /\ f.kind = "org" /\ f.org = o
  <2> DEFINE f1 == [NoCall EXCEPT !.at = "org"]
             f2 == [f1 EXCEPT !.kind = "org"]
  <2>1. f1 \in Frame /\ f1.at = "org"
    BY Constants DEF Frame
  <2>2. f2 \in Frame /\ f2.at = "org" /\ f2.kind = "org"
    <3> HIDE DEF f1
    <3> QED BY <2>1 DEF Frame
  <2>3. [f2 EXCEPT !.org = o] \in Frame /\ [f2 EXCEPT !.org = o].at = "org"
        /\ [f2 EXCEPT !.org = o].kind = "org" /\ [f2 EXCEPT !.org = o].org = o
    <3> HIDE DEF f2
    <3> QED BY <2>2 DEF Frame
  <2> QED BY <2>3
<1>2. Takes(r, f) /\ UNCHANGED <<dir, crossed>>
  BY DEF OrgRequest
<1> HIDE DEF f
<1> QED BY <1>1, <1>2, AskInv

LEMMA CreateRequestInv ==
  ASSUME NEW r \in Requests, NEW o \in Orgs \cup {None}, NEW n \in Asked, RInv,
         CreateRequest(r, o, n)
  PROVE  RInv' /\ clean' = FALSE
<1> DEFINE at == IF o = None THEN "row" ELSE "repo"
           f == [NoCall EXCEPT !.at = at, !.kind = "create", !.org = o, !.name = n]
<1>1. n \in Names /\ o \in org \cup {None} /\ None \notin org
  BY Constants DEF CreateRequest, RInv, TypeOK
<1>2. f \in Frame /\ f.at = at /\ f.kind = "create" /\ f.org = o /\ f.name = n
  <2>1. at \in {"row", "repo"}
    OBVIOUS
  <2>2. f = Filled(at, "create", o, n)
    BY DEF Filled
  <2> HIDE DEF at, f
  <2> QED BY <1>1, <2>1, <2>2, FrameMade
<1>3. Takes(r, f) /\ UNCHANGED <<dir, crossed>>
  BY DEF CreateRequest
<1> HIDE DEF f
<1> QED BY <1>1, <1>2, <1>3, AskInv

LEMMA UploadRequestInv ==
  ASSUME NEW r \in Requests, NEW kind \in {"zip", "folder"}, NEW o \in Orgs, NEW n \in Asked,
         RInv, UploadRequest(r, kind, o, n)
  PROVE  RInv' /\ clean' = FALSE
<1> DEFINE f == [NoCall EXCEPT !.at = "receive", !.kind = kind, !.org = o, !.name = n]
           files == [Empty EXCEPT ![1] = r]
           w == [files |-> files, origin |-> FALSE]
<1>1. n \in Names /\ o \in org /\ Loop(r) /\ TypeOK
  BY Constants DEF UploadRequest, RInv
<1>2. /\ f \in Frame /\ f.at = "receive" /\ f.kind = kind /\ f.org = o /\ f.name = n
      /\ f.file = 1
  <2>1. f = Filled("receive", kind, o, n)
    BY DEF Filled
  <2> HIDE DEF f
  <2> QED BY <1>1, <2>1, FrameMade
<1>3. Takes(r, f)
  BY DEF UploadRequest
<1>4. /\ req[r].at = "idle" /\ req' \in [Requests -> Frame] /\ req'[r] = f
      /\ clean' = FALSE /\ \A q \in Requests \ {r} : req'[q] = req[q]
      /\ UNCHANGED <<org, project, unit, forge, repo, late, gone, sync, blind>>
  <2> HIDE DEF f
  <2> QED BY <1>1, <1>2, <1>3, FrameTaken
<1>5. files \in Content /\ files[1] = r
  BY Contents DEF Content, Files
<1>6. w \in Workdir /\ w.files = files /\ w # None
  <2>1. w \in Workdir /\ w.files = files
    <3> HIDE DEF files
    <3> QED BY <1>5 DEF Workdir
  <2> HIDE DEF w
  <2> QED BY <2>1, Constants
<1>7. /\ dir' \in [Names -> Workdir \cup {None}]
      /\ \A m \in Names \ {n} : dir'[m] = dir[m]
      /\ kind = "folder" => dir'[n] = w
  <2>1. dir' = [dir EXCEPT ![n] = IF kind = "zip" THEN None ELSE w]
    BY DEF UploadRequest
  <2> HIDE DEF w
  <2> QED BY <1>1, <1>6, <2>1 DEF TypeOK
<1>8. crossed' = crossed \/ crossed' = crossed \cup {n}
  BY DEF UploadRequest
<1>9. \A q \in Requests : (/\ req[q].at = "receive" /\ req[q].name = n
                           /\ "folder" \in {kind, req[q].kind}) => n \in crossed'
  <2>1. crossed' = IF \E q \in Requests : /\ req[q].at = "receive" /\ req[q].name = n
                                           /\ "folder" \in {kind, req[q].kind}
                   THEN crossed \cup {n} ELSE crossed
    BY DEF UploadRequest
  <2> SUFFICES ASSUME NEW q \in Requests, req[q].at = "receive" /\ req[q].name = n,
                      "folder" \in {kind, req[q].kind}
               PROVE  n \in crossed'
    OBVIOUS
  <2>2. crossed' = crossed \cup {n}
    BY <2>1
  <2> QED BY <2>2
<1> HIDE DEF f, w, files
<1>10. TypeOK'
  BY <1>1, <1>4, <1>7, <1>8 DEF TypeOK
<1>11. (FrameKnown(r) /\ RepoKnown(r) /\ UploadKnown(r))'
  BY <1>1, <1>2, <1>4, <1>5, <1>6, <1>7 DEF FrameKnown, RepoKnown, UploadKnown, Uploads, Staging
<1>12. ASSUME NEW q \in Requests \ {r}
       PROVE  (FrameKnown(q) /\ RepoKnown(q) /\ UploadKnown(q))'
  <2>1. /\ req[q] \in Frame /\ FrameKnown(q) /\ RepoKnown(q) /\ UploadKnown(q)
        /\ Uploads(q) => req[q].name \in Names
    BY FramesKnown DEF RInv
  <2>2. FrameKnown(q)' /\ RepoKnown(q)'
    BY <1>4, <2>1 DEF FrameKnown, RepoKnown, Uploads, Own
  <2>3. Uploads(q) /\ req[q].at \in {"repo", "push"} => FALSE
    BY <1>1 DEF Loop
  <2>4. UploadKnown(q)'
    <3>1. Uploads(q)' = Uploads(q) /\ Own(q)' = Own(q)
      BY <1>4 DEF Uploads, Own
    <3>2. CASE Uploads(q) /\ req[q].name = n /\ req[q].at = "receive" /\ req[q].kind = "folder"
      BY <1>4, <1>9, <3>2 DEF UploadKnown
    <3>3. CASE Uploads(q) /\ req[q].name # n
      BY <1>4, <1>7, <1>8, <2>1, <3>1, <3>3 DEF UploadKnown
    <3>4. CASE Uploads(q) /\ ~(req[q].at = "receive" /\ req[q].kind = "folder")
      BY <1>4, <1>8, <2>1, <2>3, <3>1, <3>4 DEF UploadKnown
    <3> QED BY <3>1, <3>2, <3>3, <3>4 DEF UploadKnown
  <2> QED BY <2>2, <2>4
<1>13. RequestsKnown'
  BY <1>11, <1>12 DEF RequestsKnown
<1>14. UploadsApart'
  <2>1. \A q \in Requests \ {r} : /\ Uploads(q)' = Uploads(q) /\ Beyond(q)' = Beyond(q)
                                  /\ ~Beyond(q)
    BY <1>1, <1>4 DEF Uploads, Beyond, Loop, Staging
  <2>2. ~Beyond(r)' /\ req'[r].kind = kind /\ req'[r].name = n
    BY <1>2, <1>4 DEF Beyond, Staging
  <2>3. \A q \in Requests \ {r} : Uploads(q) => req[q].at = "receive"
    <3> SUFFICES ASSUME NEW q \in Requests \ {r}, Uploads(q) PROVE req[q].at = "receive"
      OBVIOUS
    <3>1. req[q].at \in {"receive", "repo", "push", "hook", "row"}
      BY FramesKnown DEF RInv
    <3> QED BY <1>1, <3>1 DEF Loop
  <2>4. ASSUME NEW p \in Requests, NEW q \in Requests, p # q
        PROVE  /\ ~(Beyond(p)' /\ Beyond(q)')
               /\ req'[q].kind = "folder" /\ Uploads(p)' /\ req'[p].name = req'[q].name
                     => req'[q].name \in crossed'
    <3>1. CASE p = r
      <4>1. req'[q] = req[q] /\ Uploads(q)' = Uploads(q)
        BY <1>4, <2>1, <2>4, <3>1
      <4>2. req[q].kind = "folder" => Uploads(q)
        BY DEF Uploads
      <4> QED BY <1>9, <2>1, <2>2, <2>3, <2>4, <3>1, <4>1, <4>2
    <3>2. CASE q = r
      <4>1. req'[p] = req[p] /\ Uploads(p)' = Uploads(p)
        BY <1>4, <2>1, <2>4, <3>2
      <4> QED BY <1>9, <2>1, <2>2, <2>3, <2>4, <3>2, <4>1
    <3>3. CASE p # r /\ q # r
      BY <1>4, <1>8, <2>1, <2>4, <3>3 DEF RInv, UploadsApart
    <3> QED BY <3>1, <3>2, <3>3
  <2> QED BY <2>4 DEF UploadsApart
<1> QED BY <1>4, <1>8, <1>10, <1>13, <1>14, TablesStay DEF RInv

----------------------------------------------------------------------------
(* Around the platform.                                                    *)

\* What requests know stays known while they and the directories stay as they
\* are, and no repository goes but in Gitea.
LEMMA RequestsStay ==
  ASSUME RInv, TypeOK', UNCHANGED <<dir, req, crossed>>, org \subseteq org',
         gone \subseteq gone',
         \A x \in Repos : \/ repo'[x] = repo[x] \/ repo[x] = None \/ x \in gone'
  PROVE  RequestsKnown' /\ UploadsApart'
<1>1. ASSUME NEW r \in Requests
      PROVE  (FrameKnown(r) /\ RepoKnown(r) /\ UploadKnown(r))'
  <2>1. /\ req[r] \in Frame /\ FrameKnown(r) /\ RepoKnown(r) /\ UploadKnown(r)
        /\ Uploads(r) => Own(r) \in Repos
    BY FramesKnown DEF RInv
  <2>2. Uploads(r)' = Uploads(r) /\ Own(r)' = Own(r)
    BY DEF Uploads, Own
  <2>3. req[r].at \in {"push", "hook", "row"} /\ req[r].org # None => Own(r) \in Repos
    BY <2>1 DEF FrameKnown, Staging, Own, Repos, TypeOK, RInv
  <2>4. repo[Own(r)] = WholeOf(r) => repo[Own(r)] # None
    BY Contents
  <2> QED BY <2>1, <2>2, <2>3, <2>4 DEF FrameKnown, RepoKnown, UploadKnown
<1>2. UploadsApart'
  BY DEF RInv, UploadsApart, Uploads, Beyond
<1> QED BY <1>1, <1>2 DEF RequestsKnown

\* So it is with what projects have in Gitea, if a new or changed one has it.
LEMMA ProjectsStay ==
  ASSUME RInv, TypeOK', OrgsKnown', gone \subseteq gone', UNCHANGED crossed,
         \A x \in Repos : \/ repo'[x] = repo[x] \/ repo[x] = None \/ x \in gone',
         \A n \in Names :
            \/ project'[n] = project[n] \/ project'[n] = None
            \/ /\ \/ project'[n].by = None
                  \/ /\ project[n] # None /\ project'[n].by = project[n].by
                     /\ project'[n].org = project[n].org
               /\ project'[n].direct \/ repo'[<<project'[n].org, n>>] # None
  PROVE  HasRepository' /\ UploadedWhole'
<1>1. ASSUME NEW n \in Names, project[n] # None, project[n].org # None
      PROVE  <<project[n].org, n>> \in Repos
  BY <1>1 DEF RInv, TypeOK, Project, Repos
<1>2. HasRepository'
  BY <1>1 DEF RInv, HasRepository
<1>3. UploadedWhole'
  <2> SUFFICES ASSUME NEW n \in Names, project'[n] # None, project'[n].by # None,
                      n \notin crossed
               PROVE  \/ repo'[<<project'[n].org, n>>] = WholeOf(project'[n].by)
                      \/ <<project'[n].org, n>> \in gone'
    BY DEF UploadedWhole
  <2>1. /\ project[n] # None /\ project'[n].by = project[n].by
        /\ project'[n].org = project[n].org
    OBVIOUS
  <2>2. project[n].org # None
    BY <2>1, Constants DEF RInv, OrgsKnown, TypeOK
  <2>3. /\ \/ repo[<<project[n].org, n>>] = WholeOf(project[n].by)
           \/ <<project[n].org, n>> \in gone
        /\ project[n].by \in Requests
    BY <2>1 DEF RInv, UploadedWhole, TypeOK, Project
  <2>4. WholeOf(project[n].by) # None
    BY <2>3, Contents
  <2> QED BY <1>1, <2>1, <2>2, <2>3, <2>4
<1> QED BY <1>2, <1>3

LEMMA MakesOrgInv ==
  ASSUME NEW o \in Orgs, RInv, MakesOrg(o)
  PROVE  RInv' /\ clean' = FALSE
<1>1. /\ forge' = forge \cup {o} /\ clean' = FALSE
      /\ UNCHANGED <<org, project, unit, repo, late, gone, dir, req, sync, blind, crossed>>
  BY DEF MakesOrg, Edits, db
<1>2. TypeOK'
  BY <1>1 DEF RInv, TypeOK
<1>3. OrgsKnown' /\ SyncKnown' /\ SeenKnown'
  BY <1>1 DEF RInv, OrgsKnown, SyncKnown, SeenKnown
<1>4. RequestsKnown' /\ UploadsApart'
  BY <1>1, <1>2, RequestsStay
<1>5. HasRepository' /\ UploadedWhole'
  BY <1>1, <1>2, <1>3, ProjectsStay
<1> QED BY <1>1, <1>2, <1>3, <1>4, <1>5 DEF RInv

LEMMA MakesRepoInv ==
  ASSUME NEW o \in Orgs, NEW n \in Names, NEW c \in {Empty, WholeOf(User)}, RInv,
         MakesRepo(o, n, c)
  PROVE  RInv' /\ clean' = FALSE
<1>1. /\ o \in forge /\ repo[<<o, n>>] = None /\ Ensured(<<o, n>>, c) /\ clean' = FALSE
      /\ UNCHANGED <<org, project, unit, forge, gone, dir, req, sync, blind, crossed>>
  BY DEF MakesRepo, Edits, db
<1>2. /\ repo' \in [Repos -> Content \cup {None}] /\ late' \subseteq Repos
      /\ <<o, n>> \in Repos /\ <<o, n>> \in late' /\ late \subseteq late'
      /\ \A y \in Repos \ {<<o, n>>} : repo'[y] = repo[y]
  <2>1. <<o, n>> \in Repos /\ c \in Content
    BY Contents DEF Repos
  <2> QED BY <1>1, <2>1, EnsuredType DEF RInv
<1>3. TypeOK'
  BY <1>1, <1>2 DEF RInv, TypeOK
<1>4. OrgsKnown'
  <2>1. \A p \in Orgs, m \in Names : <<p, m>> \in Repos
    BY DEF Repos
  <2> QED BY <1>1, <1>2, <2>1 DEF RInv, OrgsKnown
<1>5. SyncKnown'
  BY <1>1 DEF RInv, SyncKnown
<1>6. SeenKnown'
  <2>1. \A p \in Orgs, m \in Names : <<p, m>> \in Repos
    BY DEF Repos
  <2> QED BY <1>1, <1>2, <2>1 DEF RInv, SeenKnown
<1>7. RequestsKnown' /\ UploadsApart'
  BY <1>1, <1>2, <1>3, RequestsStay
<1>8. HasRepository' /\ UploadedWhole'
  BY <1>1, <1>2, <1>3, <1>4, ProjectsStay
<1> QED BY <1>1, <1>3, <1>4, <1>5, <1>6, <1>7, <1>8 DEF RInv

LEMMA DropsRepoInv ==
  ASSUME NEW o \in Orgs, NEW n \in Names, RInv, DropsRepo(o, n)
  PROVE  RInv' /\ clean' = FALSE
<1>1. /\ repo' = [repo EXCEPT ![<<o, n>>] = None]
      /\ gone' = gone \cup {<<o, n>>} /\ late' = late \ {<<o, n>>} /\ clean' = FALSE
      /\ UNCHANGED <<org, project, unit, forge, dir, req, sync, blind, crossed>>
  BY DEF DropsRepo, Edits, db
<1>2. <<o, n>> \in Repos /\ \A p \in Orgs, m \in Names : <<p, m>> \in Repos
  BY DEF Repos
<1>3. /\ repo' \in [Repos -> Content \cup {None}] /\ repo'[<<o, n>>] = None
      /\ \A y \in Repos \ {<<o, n>>} : repo'[y] = repo[y]
  BY <1>1, <1>2 DEF RInv, TypeOK
<1>4. TypeOK'
  BY <1>1, <1>2, <1>3 DEF RInv, TypeOK
<1>5. OrgsKnown'
  BY <1>1, <1>2, <1>3 DEF RInv, OrgsKnown
<1>6. SyncKnown'
  BY <1>1 DEF RInv, SyncKnown
<1>7. SeenKnown'
  BY <1>1, <1>2, <1>3 DEF RInv, SeenKnown
<1>8. RequestsKnown' /\ UploadsApart'
  BY <1>1, <1>3, <1>4, RequestsStay
<1>9. HasRepository' /\ UploadedWhole'
  BY <1>1, <1>3, <1>4, <1>5, ProjectsStay
<1> QED BY <1>1, <1>4, <1>5, <1>6, <1>7, <1>8, <1>9 DEF RInv

LEMMA DeployedInv ==
  ASSUME NEW n \in Names, RInv, Deployed(n)
  PROVE  RInv' /\ clean' = FALSE
<1>1. /\ unit' = unit \cup {n} /\ clean' = FALSE
      /\ UNCHANGED <<org, project, forge, repo, late, gone, dir, req, sync, blind, crossed>>
  BY DEF Deployed, git
<1>2. TypeOK'
  BY <1>1 DEF RInv, TypeOK
<1>3. RequestsKnown' /\ UploadsApart'
  BY <1>1, <1>2, RequestsStay
<1> QED BY <1>1, <1>2, <1>3, TablesStay DEF RInv

LEMMA RestartInv ==
  ASSUME NEW on \in BOOLEAN, RInv, Restart(on)
  PROVE  RInv' /\ clean' = FALSE
<1>1. /\ req' = [r \in Requests |-> NoCall] /\ sync' = NoSync /\ clean' = FALSE
      /\ org' = org \/ org' = org \cup {SelfOrg}
      /\ \/ project' = project
         \/ project[Console] = None /\ project' = [project EXCEPT ![Console] = ConsoleRow]
            /\ SelfOrg \in org'
      /\ UNCHANGED <<unit, forge, repo, late, gone, dir, blind, crossed>>
  BY DEF Restart, Registered, git
<1>2. /\ NoSync \in Sync /\ NoSync.at = "idle" /\ \A o \in Orgs : NoSync.seen[o] = None
      /\ NoCall \in Frame /\ NoCall.at = "idle" /\ NoCall.kind = "none"
      /\ SelfOrg \in Orgs /\ Console \in Names /\ ConsoleRow \in Project /\ ConsoleRow # None
      /\ ConsoleRow.org = SelfOrg /\ ConsoleRow.direct /\ ConsoleRow.by = None
  BY Constants DEF ConsoleRow
<1> HIDE DEF NoSync, NoCall, ConsoleRow
<1>3. TypeOK'
  BY <1>1, <1>2 DEF RInv, TypeOK
<1>4. \A n \in Names : project'[n] = project[n] \/ (project'[n] = ConsoleRow /\ SelfOrg \in org')
  BY <1>1, <1>2 DEF RInv, TypeOK
<1>5. OrgsKnown'
  BY <1>1, <1>2, <1>4 DEF RInv, OrgsKnown
<1>6. SyncKnown' /\ SeenKnown'
  BY <1>1, <1>2 DEF SyncKnown, SeenKnown
<1>7. RequestsKnown' /\ UploadsApart'
  BY <1>1, <1>2
     DEF RequestsKnown, UploadsApart, FrameKnown, RepoKnown, UploadKnown, Uploads, Beyond, Staging
<1>8. HasRepository' /\ UploadedWhole'
  BY <1>1, <1>2, <1>3, <1>4, <1>5, ProjectsStay
<1> QED BY <1>1, <1>3, <1>5, <1>6, <1>7, <1>8 DEF RInv

----------------------------------------------------------------------------
(* The frame of a synchronisation.                                         *)

\* Two frames differ in the fields of f only.
Differ(s, t, f) ==
    /\ "at" \notin f => t.at = s.at
    /\ "mode" \notin f => t.mode = s.mode
    /\ "o" \notin f => t.o = s.o
    /\ "todo" \notin f => t.todo = s.todo
    /\ "orgs" \notin f => t.orgs = s.orgs
    /\ "names" \notin f => t.names = s.names
    /\ "seen" \notin f => t.seen = s.seen
    /\ "left" \notin f => t.left = s.left

\* A frame with one field changed is a frame.
LEMMA FieldSet ==
  ASSUME NEW s \in Sync
  PROVE  /\ \A v \in {"idle", "next", "list", "import", "second", "fix", "erase", "done"} :
               LET t == [s EXCEPT !.at = v] IN t \in Sync /\ t.at = v /\ Differ(s, t, {"at"})
         /\ \A v \in {"create", "delete"} :
               LET t == [s EXCEPT !.mode = v] IN t \in Sync /\ t.mode = v /\ Differ(s, t, {"mode"})
         /\ \A v \in Orgs \cup {None} :
               LET t == [s EXCEPT !.o = v] IN t \in Sync /\ t.o = v /\ Differ(s, t, {"o"})
         /\ \A v \in SUBSET Orgs :
               LET t == [s EXCEPT !.todo = v] IN t \in Sync /\ t.todo = v /\ Differ(s, t, {"todo"})
         /\ \A v \in SUBSET Orgs :
               LET t == [s EXCEPT !.orgs = v] IN t \in Sync /\ t.orgs = v /\ Differ(s, t, {"orgs"})
         /\ \A v \in SUBSET Names :
               LET t == [s EXCEPT !.names = v] IN t \in Sync /\ t.names = v /\ Differ(s, t, {"names"})
         /\ \A v \in [Orgs -> (SUBSET Names) \cup {None}] :
               LET t == [s EXCEPT !.seen = v] IN t \in Sync /\ t.seen = v /\ Differ(s, t, {"seen"})
         /\ \A v \in SUBSET Names :
               LET t == [s EXCEPT !.left = v] IN t \in Sync /\ t.left = v /\ Differ(s, t, {"left"})
<1>1. ASSUME NEW v \in {"idle", "next", "list", "import", "second", "fix", "erase", "done"}
      PROVE  LET t == [s EXCEPT !.at = v] IN t \in Sync /\ t.at = v /\ Differ(s, t, {"at"})
  BY DEF Sync, Differ
<1>2. ASSUME NEW v \in {"create", "delete"}
      PROVE  LET t == [s EXCEPT !.mode = v] IN t \in Sync /\ t.mode = v /\ Differ(s, t, {"mode"})
  BY DEF Sync, Differ
<1>3. ASSUME NEW v \in Orgs \cup {None}
      PROVE  LET t == [s EXCEPT !.o = v] IN t \in Sync /\ t.o = v /\ Differ(s, t, {"o"})
  BY DEF Sync, Differ
<1>4. ASSUME NEW v \in SUBSET Orgs
      PROVE  LET t == [s EXCEPT !.todo = v] IN t \in Sync /\ t.todo = v /\ Differ(s, t, {"todo"})
  BY DEF Sync, Differ
<1>5. ASSUME NEW v \in SUBSET Orgs
      PROVE  LET t == [s EXCEPT !.orgs = v] IN t \in Sync /\ t.orgs = v /\ Differ(s, t, {"orgs"})
  BY DEF Sync, Differ
<1>6. ASSUME NEW v \in SUBSET Names
      PROVE  LET t == [s EXCEPT !.names = v] IN t \in Sync /\ t.names = v /\ Differ(s, t, {"names"})
  BY DEF Sync, Differ
<1>7. ASSUME NEW v \in [Orgs -> (SUBSET Names) \cup {None}]
      PROVE  LET t == [s EXCEPT !.seen = v] IN t \in Sync /\ t.seen = v /\ Differ(s, t, {"seen"})
  BY DEF Sync, Differ
<1>8. ASSUME NEW v \in SUBSET Names
      PROVE  LET t == [s EXCEPT !.left = v] IN t \in Sync /\ t.left = v /\ Differ(s, t, {"left"})
  BY DEF Sync, Differ
<1> QED BY <1>1, <1>2, <1>3, <1>4, <1>5, <1>6, <1>7, <1>8

LEMMA BeginFrame ==
  ASSUME NEW mode \in {"create", "delete"}, TypeOK, SyncBegin(mode)
  PROVE  /\ sync' \in Sync
         /\ sync'.at = "next" /\ sync'.mode = mode /\ sync'.todo = forge /\ sync'.orgs = org
         /\ sync'.names = {n \in Names : project[n] # None}
         /\ \A o \in Orgs : sync'.seen[o] = None
<1> DEFINE names == {n \in Names : project[n] # None}
           f1 == [NoSync EXCEPT !.at = "next"]
           f2 == [f1 EXCEPT !.mode = mode]
           f3 == [f2 EXCEPT !.todo = forge]
           f4 == [f3 EXCEPT !.orgs = org]
           f5 == [f4 EXCEPT !.names = names]
<1>1. sync' = f5
  BY DEF SyncBegin
<1> HIDE DEF names
<1>2. f1 \in Sync /\ f1.at = "next" /\ \A o \in Orgs : f1.seen[o] = None
  <2>1. NoSync \in Sync /\ \A o \in Orgs : NoSync.seen[o] = None
    BY Constants
  <2>2. f1 \in Sync /\ f1.at = "next" /\ Differ(NoSync, f1, {"at"})
    BY <2>1, FieldSet
  <2> QED BY <2>1, <2>2 DEF Differ
<1> HIDE DEF f1
<1>3. f2 \in Sync /\ f2.mode = mode /\ Differ(f1, f2, {"mode"})
  BY <1>2, FieldSet
<1> HIDE DEF f2
<1>4. f3 \in Sync /\ f3.todo = forge /\ Differ(f2, f3, {"todo"})
  BY <1>3, FieldSet DEF TypeOK
<1> HIDE DEF f3
<1>5. f4 \in Sync /\ f4.orgs = org /\ Differ(f3, f4, {"orgs"})
  BY <1>4, FieldSet DEF TypeOK
<1> HIDE DEF f4
<1>6. names \in SUBSET Names
  BY DEF names
<1>7. f5 \in Sync /\ f5.names = names /\ Differ(f4, f5, {"names"})
  BY <1>5, <1>6, FieldSet
<1> HIDE DEF f5
<1> QED BY <1>1, <1>2, <1>3, <1>4, <1>5, <1>7 DEF Differ, names

LEMMA OrgFrame ==
  ASSUME NEW o \in Orgs, TypeOK, SyncOrg(o)
  PROVE  /\ sync' \in Sync /\ Differ(sync, sync', {"at", "o", "todo"})
         /\ sync'.at = "list" /\ sync'.o = o /\ sync'.todo = sync.todo \ {o}
<1> DEFINE f1 == [sync EXCEPT !.at = "list"]
           f2 == [f1 EXCEPT !.o = o]
           f3 == [f2 EXCEPT !.todo = sync.todo \ {o}]
<1>1. sync \in Sync
  BY DEF TypeOK
<1>2. sync' = f3
  BY <1>1 DEF SyncOrg, Sync
<1>3. f1 \in Sync /\ f1.at = "list" /\ Differ(sync, f1, {"at"})
  BY <1>1, FieldSet
<1> HIDE DEF f1
<1>4. f2 \in Sync /\ f2.o = o /\ Differ(f1, f2, {"o"})
  BY <1>3, FieldSet
<1> HIDE DEF f2
<1>5. sync.todo \ {o} \in SUBSET Orgs
  BY <1>1 DEF Sync
<1>6. f3 \in Sync /\ f3.todo = sync.todo \ {o} /\ Differ(f2, f3, {"todo"})
  BY <1>4, <1>5, FieldSet
<1> HIDE DEF f3
<1> QED BY <1>2, <1>3, <1>4, <1>6 DEF Differ

LEMMA ListsFrame ==
  ASSUME NEW o \in Orgs, TypeOK, Lists(o, InForge(o))
  PROVE  /\ sync' \in Sync /\ Differ(sync, sync', {"at", "seen", "left"})
         /\ sync'.at = IF sync.at = "list" THEN "import" ELSE sync.at
         /\ sync'.left = InForge(o) \ (BadNames \cup sync.names)
         /\ sync'.seen[o] = InForge(o)
         /\ \A p \in Orgs \ {o} : sync'.seen[p] = sync.seen[p]
<1> DEFINE at == IF sync.at = "list" THEN "import" ELSE sync.at
           left == InForge(o) \ (BadNames \cup sync.names)
           seen == [sync.seen EXCEPT ![o] = InForge(o)]
           f1 == [sync EXCEPT !.seen = seen]
           f2 == [f1 EXCEPT !.left = left]
           f3 == [f2 EXCEPT !.at = at]
<1>1. sync \in Sync
  BY DEF TypeOK
<1>2. sync' = f3
  BY <1>1 DEF Lists, Sync
<1>3. /\ seen \in [Orgs -> (SUBSET Names) \cup {None}] /\ seen[o] = InForge(o)
      /\ \A p \in Orgs \ {o} : seen[p] = sync.seen[p]
  BY <1>1 DEF Sync, InForge
<1> HIDE DEF seen
<1>4. f1 \in Sync /\ f1.seen = seen /\ Differ(sync, f1, {"seen"})
  BY <1>1, <1>3, FieldSet
<1> HIDE DEF f1
<1>5. left \in SUBSET Names
  BY DEF InForge
<1> HIDE DEF left
<1>6. f2 \in Sync /\ f2.left = left /\ Differ(f1, f2, {"left"})
  BY <1>4, <1>5, FieldSet
<1> HIDE DEF f2
<1>7. at \in {"idle", "next", "list", "import", "second", "fix", "erase", "done"}
  BY <1>1 DEF Sync
<1> HIDE DEF at
<1>8. f3 \in Sync /\ f3.at = at /\ Differ(f2, f3, {"at"})
  BY <1>6, <1>7, FieldSet
<1> HIDE DEF f3
<1> QED BY <1>2, <1>3, <1>4, <1>6, <1>8 DEF Differ, at, left

LEMMA ImportFrame ==
  ASSUME NEW n \in Names, TypeOK, SyncImport(n)
  PROVE  /\ sync' \in Sync /\ Differ(sync, sync', {"names", "left"})
         /\ sync'.left = sync.left \ {n} /\ sync'.names = sync.names \cup {n}
<1> DEFINE f1 == [sync EXCEPT !.left = sync.left \ {n}]
           f2 == [f1 EXCEPT !.names = sync.names \cup {n}]
<1>1. sync \in Sync
  BY DEF TypeOK
<1>2. sync' = f2
  BY <1>1 DEF SyncImport, Sync
<1>3. sync.left \ {n} \in SUBSET Names /\ sync.names \cup {n} \in SUBSET Names
  BY <1>1 DEF Sync
<1>4. f1 \in Sync /\ f1.left = sync.left \ {n} /\ Differ(sync, f1, {"left"})
  BY <1>1, <1>3, FieldSet
<1> HIDE DEF f1
<1>5. f2 \in Sync /\ f2.names = sync.names \cup {n} /\ Differ(f1, f2, {"names"})
  BY <1>3, <1>4, FieldSet
<1> HIDE DEF f2
<1> QED BY <1>2, <1>4, <1>5 DEF Differ

\* A step that takes a name off what is left.
LEMMA LeftFrame ==
  ASSUME NEW n, TypeOK, sync' = [sync EXCEPT !.left = @ \ {n}]
  PROVE  /\ sync' \in Sync /\ Differ(sync, sync', {"left"})
         /\ sync'.left = sync.left \ {n}
<1>1. sync \in Sync /\ sync.left \ {n} \in SUBSET Names
  BY DEF TypeOK, Sync
<1> DEFINE f == [sync EXCEPT !.left = sync.left \ {n}]
<1>2. sync' = f
  OBVIOUS
<1>3. f \in Sync /\ f.left = sync.left \ {n} /\ Differ(sync, f, {"left"})
  BY <1>1, FieldSet
<1> HIDE DEF f
<1> QED BY <1>2, <1>3 DEF Differ

\* A step that goes to another place.
LEMMA AtFrame ==
  ASSUME TypeOK,
         NEW at \in {"idle", "next", "list", "import", "second", "fix", "erase", "done"},
         sync' = [sync EXCEPT !.at = at]
  PROVE  sync' \in Sync /\ Differ(sync, sync', {"at"}) /\ sync'.at = at
<1> DEFINE f == [sync EXCEPT !.at = at]
<1>1. sync \in Sync
  BY DEF TypeOK
<1>2. f \in Sync /\ f.at = at /\ Differ(sync, f, {"at"})
  BY <1>1, FieldSet
<1>3. sync' = f
  OBVIOUS
<1> HIDE DEF f
<1> QED BY <1>2, <1>3 DEF Differ

LEMMA BlindFrame ==
  ASSUME NEW o \in Orgs, TypeOK, SyncBlind(o)
  PROVE  /\ sync' \in Sync /\ Differ(sync, sync', {"seen"})
         /\ sync'.seen[o] = {} /\ \A p \in Orgs \ {o} : sync'.seen[p] = sync.seen[p]
<1> DEFINE seen == [sync.seen EXCEPT ![o] = {}]
<1>1. sync \in Sync
  BY DEF TypeOK
<1>2. sync' = [sync EXCEPT !.seen = seen]
  BY <1>1 DEF SyncBlind, Sync
<1>3. /\ seen \in [Orgs -> (SUBSET Names) \cup {None}] /\ seen[o] = {}
      /\ \A p \in Orgs \ {o} : seen[p] = sync.seen[p]
  BY <1>1 DEF Sync
<1> HIDE DEF seen
<1> DEFINE f == [sync EXCEPT !.seen = seen]
<1>4. f \in Sync /\ f.seen = seen /\ Differ(sync, f, {"seen"})
  BY <1>1, <1>3, FieldSet
<1>5. sync' = f
  BY <1>2
<1> HIDE DEF f
<1> QED BY <1>3, <1>4, <1>5 DEF Differ

LEMMA ComparesFrame ==
  ASSUME NEW o \in Orgs, TypeOK, SyncCompares(o)
  PROVE  /\ sync' \in Sync /\ Differ(sync, sync', {"at", "o", "todo", "left"})
         /\ sync'.at = "fix" /\ sync'.o = o /\ sync'.todo = sync.todo \ {o}
         /\ sync'.left = {n \in Names \ sync.seen[o] : project[n] # None /\ project[n].org = o}
<1> DEFINE left == {n \in Names \ sync.seen[o] : project[n] # None /\ project[n].org = o}
           f1 == [sync EXCEPT !.at = "fix"]
           f2 == [f1 EXCEPT !.o = o]
           f3 == [f2 EXCEPT !.todo = sync.todo \ {o}]
           f4 == [f3 EXCEPT !.left = left]
<1>1. sync \in Sync
  BY DEF TypeOK
<1>2. sync' = f4
  BY <1>1 DEF SyncCompares, Compares, Sync
<1>3. f1 \in Sync /\ f1.at = "fix" /\ Differ(sync, f1, {"at"})
  BY <1>1, FieldSet
<1> HIDE DEF f1
<1>4. f2 \in Sync /\ f2.o = o /\ Differ(f1, f2, {"o"})
  BY <1>3, FieldSet
<1> HIDE DEF f2
<1>5. sync.todo \ {o} \in SUBSET Orgs /\ left \in SUBSET Names
  BY <1>1 DEF Sync
<1> HIDE DEF left
<1>6. f3 \in Sync /\ f3.todo = sync.todo \ {o} /\ Differ(f2, f3, {"todo"})
  BY <1>4, <1>5, FieldSet
<1> HIDE DEF f3
<1>7. f4 \in Sync /\ f4.left = left /\ Differ(f3, f4, {"left"})
  BY <1>5, <1>6, FieldSet
<1> HIDE DEF f4
<1> QED BY <1>2, <1>3, <1>4, <1>6, <1>7 DEF Differ, left

LEMMA ErasesFrame ==
  ASSUME TypeOK, SyncErases
  PROVE  LET n == CHOOSE m \in sync.left : TRUE IN
         /\ sync' \in Sync /\ Differ(sync, sync', {"at", "left"})
         /\ sync'.at = "fix" /\ sync'.left = sync.left \ {n}
         /\ project' = [project EXCEPT ![n] = None]
<1> DEFINE n == CHOOSE m \in sync.left : TRUE
           f1 == [sync EXCEPT !.at = "fix"]
           f2 == [f1 EXCEPT !.left = sync.left \ {n}]
<1>1. sync \in Sync
  BY DEF TypeOK
<1>2. sync' = [sync EXCEPT !.at = "fix", !.left = @ \ {n}] /\ project' = [project EXCEPT ![n] = None]
  BY DEF SyncErases
<1> HIDE DEF n
<1>3. sync' = f2
  BY <1>1, <1>2 DEF Sync
<1>4. f1 \in Sync /\ f1.at = "fix" /\ Differ(sync, f1, {"at"})
  BY <1>1, FieldSet
<1> HIDE DEF f1
<1>5. sync.left \ {n} \in SUBSET Names
  BY <1>1 DEF Sync
<1>6. f2 \in Sync /\ f2.left = sync.left \ {n} /\ Differ(f1, f2, {"left"})
  BY <1>4, <1>5, FieldSet
<1> HIDE DEF f2
<1> QED BY <1>2, <1>3, <1>4, <1>6 DEF Differ, n

\* The step to the next organisation, to the second pass, or to the end.
LEMMA NextFrame ==
  ASSUME TypeOK, SyncNext
  PROVE  /\ sync' \in Sync
         /\ \/ /\ sync.at = "import" /\ sync.left = {} /\ sync'.at = "next"
               /\ Differ(sync, sync', {"at"})
            \/ /\ sync.at = "next" /\ sync.todo = {} /\ sync'.at = "second"
               /\ sync'.todo = org /\ Differ(sync, sync', {"at", "todo"})
            \/ /\ sync.at = "fix" /\ sync.left = {} /\ sync'.at = "second"
               /\ Differ(sync, sync', {"at"})
            \/ /\ sync.at = "second" /\ sync.todo = {} /\ sync'.at = "done"
               /\ Differ(sync, sync', {"at"})
<1>1. sync \in Sync
  BY DEF TypeOK
<1>2. CASE sync.at = "next" /\ sync.todo = {} /\ sync' = [sync EXCEPT !.at = "second", !.todo = org]
  <2> DEFINE f1 == [sync EXCEPT !.at = "second"]
             f2 == [f1 EXCEPT !.todo = org]
  <2>1. sync' = f2
    BY <1>1, <1>2 DEF Sync
  <2>2. f1 \in Sync /\ f1.at = "second" /\ Differ(sync, f1, {"at"})
    BY <1>1, FieldSet
  <2> HIDE DEF f1
  <2>3. f2 \in Sync /\ f2.todo = org /\ Differ(f1, f2, {"todo"})
    BY <2>2, FieldSet DEF TypeOK
  <2> HIDE DEF f2
  <2> QED BY <1>2, <2>1, <2>2, <2>3 DEF Differ
<1>3. CASE sync.at = "import" /\ sync.left = {} /\ sync' = [sync EXCEPT !.at = "next"]
  BY <1>3, AtFrame
<1>4. CASE sync.at = "fix" /\ sync.left = {} /\ sync' = [sync EXCEPT !.at = "second"]
  BY <1>4, AtFrame
<1>5. CASE sync.at = "second" /\ sync.todo = {} /\ sync' = [sync EXCEPT !.at = "done"]
  BY <1>5, AtFrame
<1> QED BY <1>2, <1>3, <1>4, <1>5 DEF SyncNext

----------------------------------------------------------------------------
(* The steps of a synchronisation.                                         *)

\* A step that touches its frame only, or containers, or what was seen.
LEMMA FrameOnly ==
  ASSUME RInv, UNCHANGED <<org, project, forge, repo, gone, dir, req, crossed>>,
         unit' \subseteq unit, sync' \in Sync, late' \subseteq late, blind' \subseteq Orgs,
         clean' \in BOOLEAN, SyncKnown', SeenKnown'
  PROVE  RInv'
<1>1. TypeOK'
  BY DEF RInv, TypeOK
<1>2. RequestsKnown' /\ UploadsApart'
  BY <1>1, RequestsStay
<1>3. OrgsKnown' /\ HasRepository' /\ UploadedWhole'
  BY DEF RInv, OrgsKnown, HasRepository, UploadedWhole
<1> QED BY <1>1, <1>2, <1>3 DEF RInv

LEMMA BeginInv ==
  ASSUME NEW mode \in {"create", "delete"}, CInv, SyncBegin(mode)
  PROVE  CInv'
<1>1. /\ UNCHANGED <<org, project, unit, forge, repo, gone, dir, req, crossed>>
      /\ late' = {} /\ blind' = {} /\ clean' = \A r \in Requests : req[r].at = "idle"
  BY DEF SyncBegin, db
<1>2. /\ sync' \in Sync
      /\ sync'.at = "next" /\ sync'.mode = mode /\ sync'.todo = forge /\ sync'.orgs = org
      /\ sync'.names = {n \in Names : project[n] # None}
      /\ \A o \in Orgs : sync'.seen[o] = None
  BY BeginFrame DEF CInv, RInv
<1>3. SyncKnown' /\ SeenKnown'
  BY <1>2 DEF SyncKnown, SeenKnown
<1>4. RInv'
  <2>1. clean' \in BOOLEAN
    BY <1>1
  <2> QED BY <1>1, <1>2, <1>3, <2>1, FrameOnly DEF CInv
<1>5. ASSUME clean' PROVE Reached'
  <2>1. (\A r \in Requests : req[r].at = "idle")'
    BY <1>1, <1>5
  <2>2. OrgsReached'
    BY <1>1, <1>2 DEF OrgsReached, First
  <2>3. NamesReached' /\ ProjectsReached'
    BY <1>1, <1>2 DEF NamesReached, ProjectsReached, Second
  <2>4. ReposReached'
    BY <1>1, <1>2 DEF ReposReached, First, CInv, RInv, OrgsKnown
  <2> QED BY <1>2, <2>1, <2>2, <2>3, <2>4 DEF Reached
<1> QED BY <1>4, <1>5 DEF CInv

LEMMA OrgInv ==
  ASSUME NEW o \in Orgs, CInv, SyncOrg(o)
  PROVE  CInv'
<1>1. /\ UNCHANGED <<project, unit, forge, repo, late, gone, dir, req, blind, crossed, clean>>
      /\ org' = org \cup {o} /\ sync.at = "next"
  BY DEF SyncOrg, Alone, git
<1>2. /\ sync' \in Sync /\ Differ(sync, sync', {"at", "o", "todo"})
      /\ sync'.at = "list" /\ sync'.o = o /\ sync'.todo = sync.todo \ {o}
  BY OrgFrame DEF CInv, RInv
<1>3. TypeOK'
  BY <1>1, <1>2 DEF CInv, RInv, TypeOK
<1>4. RequestsKnown' /\ UploadsApart'
  BY <1>1, <1>3, RequestsStay DEF CInv
<1>5. OrgsKnown' /\ SyncKnown' /\ SeenKnown' /\ HasRepository' /\ UploadedWhole'
  BY <1>1, <1>2 DEF CInv, RInv, OrgsKnown, SyncKnown, SeenKnown, HasRepository, UploadedWhole,
                    Differ
<1>6. ASSUME clean' PROVE Reached'
  <2>1. Reached
    BY <1>1, <1>6 DEF CInv
  <2>2. OrgsReached' /\ NamesReached' /\ ProjectsReached'
    BY <1>1, <1>2, <2>1
       DEF Reached, OrgsReached, NamesReached, ProjectsReached, First, Second, Differ
  <2>3. ReposReached'
    BY <1>1, <1>2, <2>1 DEF Reached, ReposReached, First, Differ
  <2> QED BY <1>1, <1>2, <2>1, <2>2, <2>3 DEF Reached, Differ
<1> QED BY <1>3, <1>4, <1>5, <1>6 DEF CInv, RInv

\* An organisation is listed, in the first pass or in the second.
LEMMA ListsInv ==
  ASSUME NEW o \in Orgs, CInv, Listed(o), Alone, UNCHANGED clean,
         (sync.at = "list" /\ o = sync.o) \/ sync.at = "second"
  PROVE  CInv'
<1>1. /\ UNCHANGED <<org, project, unit, forge, repo, gone, dir, req, blind, crossed, clean>>
      /\ late' = late \ ({o} \X Names)
  BY DEF Listed, Lists, Alone, db
<1>2. /\ sync' \in Sync /\ Differ(sync, sync', {"at", "seen", "left"})
      /\ sync'.at = IF sync.at = "list" THEN "import" ELSE sync.at
      /\ sync'.left = InForge(o) \ (BadNames \cup sync.names)
      /\ sync'.seen[o] = InForge(o)
      /\ \A p \in Orgs \ {o} : sync'.seen[p] = sync.seen[p]
  BY ListsFrame DEF CInv, RInv, Listed
<1>3. SyncKnown'
  BY <1>1, <1>2 DEF CInv, RInv, SyncKnown, Differ
<1>4. SeenKnown'
  <2> SUFFICES ASSUME NEW p \in Orgs, sync'.seen[p] # None, p \notin blind, NEW n \in Names,
                      repo[<<p, n>>] # None
               PROVE  n \in sync'.seen[p] \/ <<p, n>> \in late'
    BY <1>1 DEF SeenKnown
  <2>1. CASE p = o
    BY <1>2, <2>1 DEF InForge
  <2>2. CASE p # o
    <3>1. <<p, n>> \notin {o} \X Names
      BY <2>2
    <3> QED BY <1>1, <1>2, <2>2, <3>1 DEF CInv, RInv, SeenKnown
  <2> QED BY <2>1, <2>2
<1>5. RInv'
  <2>1. late' \subseteq late /\ clean' \in BOOLEAN /\ blind' \subseteq Orgs
    BY <1>1 DEF CInv, RInv, TypeOK
  <2> QED BY <1>1, <1>2, <1>3, <1>4, <2>1, FrameOnly DEF CInv
<1>6. ASSUME clean' PROVE Reached'
  <2>1. Reached /\ sync.at # "idle"
    BY <1>1, <1>6 DEF CInv
  <2>2. OrgsReached' /\ NamesReached' /\ ProjectsReached'
    BY <1>1, <1>2, <2>1
       DEF Reached, OrgsReached, NamesReached, ProjectsReached, First, Second, Differ
  <2>3. ReposReached'
    <3> SUFFICES ASSUME NEW p \in Orgs, NEW n \in Names \ BadNames,
                        repo[<<p, n>>] # None, Typed(repo[<<p, n>>])
                 PROVE  \/ n \in sync'.names
                        \/ sync'.at \in First /\ p \in sync'.todo
                        \/ sync'.at = "list" /\ p = sync'.o
                        \/ sync'.at = "import" /\ p = sync'.o /\ n \in sync'.left
      BY <1>1 DEF ReposReached
    <3>1. \/ n \in sync.names
          \/ sync.at \in First /\ p \in sync.todo
          \/ sync.at = "list" /\ p = sync.o
          \/ sync.at = "import" /\ p = sync.o /\ n \in sync.left
      BY <2>1 DEF Reached, ReposReached
    <3>2. p = o => n \in InForge(o)
      BY DEF InForge
    <3> QED BY <1>2, <3>1, <3>2 DEF Differ, First
  <2>4. \A p \in Orgs : sync'.seen[p] # None => \A n \in sync'.seen[p] : repo[<<p, n>>] # None
    BY <1>2, <2>1 DEF Reached, InForge
  <2> QED BY <1>1, <1>2, <2>1, <2>2, <2>3, <2>4 DEF Reached, Differ
<1> QED BY <1>5, <1>6 DEF CInv

LEMMA ImportInv ==
  ASSUME NEW n \in Names, CInv, SyncImport(n)
  PROVE  CInv'
<1> DEFINE row == [org |-> sync.o, direct |-> FALSE, by |-> None]
<1>1. /\ UNCHANGED <<org, unit, forge, repo, late, gone, dir, req, blind, crossed, clean>>
      /\ sync.at = "import" /\ n \in sync.left /\ project[n] = None
      /\ repo[<<sync.o, n>>] # None /\ project' = [project EXCEPT ![n] = row]
  BY DEF SyncImport, Importable, Alone, git
<1>2. /\ sync' \in Sync /\ Differ(sync, sync', {"names", "left"})
      /\ sync'.left = sync.left \ {n} /\ sync'.names = sync.names \cup {n}
  BY ImportFrame DEF CInv, RInv
<1>3. sync.o \in org /\ sync.o \in Orgs
  BY <1>1 DEF CInv, RInv, SyncKnown, TypeOK
<1>4. row \in Project /\ row # None /\ row.org = sync.o /\ row.by = None
  <2>1. row \in Project /\ row.org = sync.o /\ row.by = None
    BY <1>3 DEF Project
  <2> HIDE DEF row
  <2> QED BY <2>1, Constants
<1> HIDE DEF row
<1>5. /\ project' \in [Names -> Project \cup {None}] /\ project'[n] = row
      /\ \A m \in Names \ {n} : project'[m] = project[m]
  BY <1>1, <1>4 DEF CInv, RInv, TypeOK
<1>6. TypeOK'
  BY <1>1, <1>2, <1>5 DEF CInv, RInv, TypeOK
<1>7. RequestsKnown' /\ UploadsApart'
  BY <1>1, <1>6, RequestsStay DEF CInv
<1>8. OrgsKnown'
  BY <1>1, <1>3, <1>4, <1>5 DEF CInv, RInv, OrgsKnown
<1>9. SyncKnown' /\ SeenKnown'
  BY <1>1, <1>2 DEF CInv, RInv, SyncKnown, SeenKnown, Differ
<1>10. HasRepository' /\ UploadedWhole'
  BY <1>1, <1>4, <1>5, <1>6, <1>8, ProjectsStay DEF CInv
<1>11. ASSUME clean' PROVE Reached'
  <2>1. Reached
    BY <1>1, <1>11 DEF CInv
  <2>2. OrgsReached' /\ NamesReached' /\ ProjectsReached'
    BY <1>1, <1>2, <1>4, <1>5, <2>1
       DEF Reached, OrgsReached, NamesReached, ProjectsReached, First, Second, Differ
  <2>3. ReposReached'
    BY <1>1, <1>2, <2>1 DEF Reached, ReposReached, First, Differ
  <2> QED BY <1>1, <1>2, <2>1, <2>2, <2>3 DEF Reached, Differ
<1> QED BY <1>6, <1>7, <1>8, <1>9, <1>10, <1>11 DEF CInv, RInv

LEMMA SkipInv ==
  ASSUME NEW n \in Names, CInv, SyncSkip(n)
  PROVE  CInv'
<1>1. /\ UNCHANGED <<org, project, unit, forge, repo, late, gone, dir, req, blind, crossed>>
      /\ sync.at = "import" /\ clean' = (clean /\ ~Importable(n))
      /\ sync' = [sync EXCEPT !.left = @ \ {n}]
  BY DEF SyncSkip, Alone, db, git
<1>2. /\ sync' \in Sync /\ Differ(sync, sync', {"left"})
      /\ sync'.left = sync.left \ {n}
  BY <1>1, LeftFrame DEF CInv, RInv
<1>3. SyncKnown' /\ SeenKnown'
  BY <1>1, <1>2 DEF CInv, RInv, SyncKnown, SeenKnown, Differ
<1>4. RInv'
  <2>1. clean' \in BOOLEAN /\ late' \subseteq late /\ blind' \subseteq Orgs
    BY <1>1 DEF CInv, RInv, TypeOK
  <2> QED BY <1>1, <1>2, <1>3, <2>1, FrameOnly DEF CInv
<1>5. ASSUME clean' PROVE Reached'
  <2>1. Reached /\ ~Importable(n)
    BY <1>1, <1>5 DEF CInv
  <2>2. OrgsReached' /\ NamesReached' /\ ProjectsReached'
    BY <1>1, <1>2, <2>1
       DEF Reached, OrgsReached, NamesReached, ProjectsReached, First, Second, Differ
  <2>3. ReposReached'
    BY <1>1, <1>2, <2>1 DEF Reached, ReposReached, First, Differ, Importable
  <2> QED BY <1>1, <1>2, <2>1, <2>2, <2>3 DEF Reached, Differ
<1> QED BY <1>4, <1>5 DEF CInv

LEMMA RaisesInv ==
  ASSUME CInv, SyncRaises
  PROVE  CInv'
<1>1. /\ UNCHANGED <<org, project, unit, forge, repo, late, gone, dir, req, blind, crossed, clean>>
      /\ sync' = [sync EXCEPT !.at = "idle"]
  BY DEF SyncRaises, SyncAborts, Alone, db, git
<1>2. sync' \in Sync /\ Differ(sync, sync', {"at"}) /\ sync'.at = "idle"
  BY <1>1, AtFrame DEF CInv, RInv
<1>3. SyncKnown' /\ SeenKnown'
  BY <1>1, <1>2 DEF CInv, RInv, SyncKnown, SeenKnown, Differ
<1>4. RInv'
  <2>1. clean' \in BOOLEAN /\ late' \subseteq late /\ blind' \subseteq Orgs
    BY <1>1 DEF CInv, RInv, TypeOK
  <2> QED BY <1>1, <1>2, <1>3, <2>1, FrameOnly DEF CInv
<1> QED BY <1>1, <1>2, <1>4 DEF CInv, Reached

LEMMA NextInv ==
  ASSUME CInv, SyncNext
  PROVE  CInv'
<1>1. UNCHANGED <<org, project, unit, forge, repo, late, gone, dir, req, blind, crossed, clean>>
  BY DEF SyncNext, Alone, db, git
<1>2. /\ sync' \in Sync
      /\ \/ /\ sync.at = "import" /\ sync.left = {} /\ sync'.at = "next"
            /\ Differ(sync, sync', {"at"})
         \/ /\ sync.at = "next" /\ sync.todo = {} /\ sync'.at = "second"
            /\ sync'.todo = org /\ Differ(sync, sync', {"at", "todo"})
         \/ /\ sync.at = "fix" /\ sync.left = {} /\ sync'.at = "second"
            /\ Differ(sync, sync', {"at"})
         \/ /\ sync.at = "second" /\ sync.todo = {} /\ sync'.at = "done"
            /\ Differ(sync, sync', {"at"})
  BY NextFrame DEF CInv, RInv
<1>3. SyncKnown' /\ SeenKnown'
  BY <1>1, <1>2 DEF CInv, RInv, SyncKnown, SeenKnown, Differ
<1>4. RInv'
  <2>1. clean' \in BOOLEAN /\ late' \subseteq late /\ blind' \subseteq Orgs
    BY <1>1 DEF CInv, RInv, TypeOK
  <2> QED BY <1>1, <1>2, <1>3, <2>1, FrameOnly DEF CInv
<1>5. ASSUME clean' PROVE Reached'
  <2>1. Reached
    BY <1>1, <1>5 DEF CInv
  <2>2. OrgsReached' /\ NamesReached'
    BY <1>1, <1>2, <2>1 DEF Reached, OrgsReached, NamesReached, First, Differ
  <2>3. ProjectsReached'
    BY <1>1, <1>2, <2>1 DEF Reached, ProjectsReached, Second, Differ, CInv, RInv, OrgsKnown
  <2>4. ReposReached'
    BY <1>1, <1>2, <2>1 DEF Reached, ReposReached, First, Differ
  <2> QED BY <1>1, <1>2, <2>1, <2>2, <2>3, <2>4 DEF Reached, Differ
<1> QED BY <1>4, <1>5 DEF CInv

LEMMA BlindInv ==
  ASSUME NEW o \in Orgs, CInv, SyncBlind(o)
  PROVE  CInv'
<1>1. /\ UNCHANGED <<org, project, unit, forge, repo, late, gone, dir, req, crossed>>
      /\ sync.at = "second" /\ blind' = blind \cup {o} /\ clean' = FALSE
  BY DEF SyncBlind, Alone, db, git
<1>2. /\ sync' \in Sync /\ Differ(sync, sync', {"seen"})
      /\ sync'.seen[o] = {} /\ \A p \in Orgs \ {o} : sync'.seen[p] = sync.seen[p]
  BY BlindFrame DEF CInv, RInv
<1>3. SyncKnown' /\ SeenKnown'
  BY <1>1, <1>2 DEF CInv, RInv, SyncKnown, SeenKnown, Differ
<1>4. RInv'
  <2>1. clean' \in BOOLEAN /\ late' \subseteq late /\ blind' \subseteq Orgs
    BY <1>1 DEF CInv, RInv, TypeOK
  <2> QED BY <1>1, <1>2, <1>3, <2>1, FrameOnly DEF CInv
<1> QED BY <1>1, <1>4 DEF CInv

LEMMA ComparesInv ==
  ASSUME NEW o \in Orgs, CInv, SyncCompares(o)
  PROVE  CInv'
<1>1. /\ UNCHANGED <<org, project, unit, forge, repo, late, gone, dir, req, blind, crossed, clean>>
      /\ sync.at = "second" /\ o \in sync.todo /\ sync.seen[o] # None
  BY DEF SyncCompares, Compares, Alone, db, git
<1>2. /\ sync' \in Sync /\ Differ(sync, sync', {"at", "o", "todo", "left"})
      /\ sync'.at = "fix" /\ sync'.o = o /\ sync'.todo = sync.todo \ {o}
      /\ sync'.left = {n \in Names \ sync.seen[o] : project[n] # None /\ project[n].org = o}
  BY ComparesFrame DEF CInv, RInv
<1>3. SyncKnown'
  BY <1>1, <1>2 DEF SyncKnown, Differ
<1>4. SeenKnown'
  BY <1>1, <1>2 DEF CInv, RInv, SeenKnown, Differ
<1>5. RInv'
  <2>1. clean' \in BOOLEAN /\ late' \subseteq late /\ blind' \subseteq Orgs
    BY <1>1 DEF CInv, RInv, TypeOK
  <2> QED BY <1>1, <1>2, <1>3, <1>4, <2>1, FrameOnly DEF CInv
<1>6. ASSUME clean' PROVE Reached'
  <2>1. Reached
    BY <1>1, <1>6 DEF CInv
  <2>2. OrgsReached' /\ NamesReached' /\ ReposReached'
    BY <1>1, <1>2, <2>1
       DEF Reached, OrgsReached, NamesReached, ReposReached, First, Differ
  <2>3. ProjectsReached'
    BY <1>1, <1>2, <2>1 DEF Reached, ProjectsReached, Second, Differ
  <2> QED BY <1>1, <1>2, <2>1, <2>2, <2>3 DEF Reached, Differ
<1> QED BY <1>5, <1>6 DEF CInv

LEMMA StopsInv ==
  ASSUME CInv, SyncStops
  PROVE  CInv'
<1> DEFINE c == CHOOSE n \in sync.left : TRUE
<1>1. /\ UNCHANGED <<org, project, forge, repo, late, gone, dir, req, blind, crossed, clean>>
      /\ sync.at = "fix" /\ sync.mode = "delete" /\ sync.left # {}
      /\ sync' = [sync EXCEPT !.at = "erase"] /\ unit' = unit \ {c}
  BY DEF SyncStops, Alone, git
<1>2. sync' \in Sync /\ Differ(sync, sync', {"at"}) /\ sync'.at = "erase"
  BY <1>1, AtFrame DEF CInv, RInv
<1>3. SyncKnown' /\ SeenKnown'
  BY <1>1, <1>2 DEF CInv, RInv, SyncKnown, SeenKnown, Differ
<1>4. RInv'
  <2>1. clean' \in BOOLEAN /\ late' \subseteq late /\ blind' \subseteq Orgs /\ unit' \subseteq unit
    BY <1>1 DEF CInv, RInv, TypeOK
  <2> QED BY <1>1, <1>2, <1>3, <2>1, FrameOnly DEF CInv
<1>5. ASSUME clean' PROVE Reached'
  <2>1. Reached
    BY <1>1, <1>5 DEF CInv
  <2>2. OrgsReached' /\ ReposReached' /\ ProjectsReached'
    BY <1>1, <1>2, <2>1
       DEF Reached, OrgsReached, ReposReached, ProjectsReached, First, Second, Differ
  <2>3. NamesReached'
    <3>1. sync'.left = sync.left /\ sync'.names = sync.names /\ sync'.mode = sync.mode
      BY <1>2 DEF Differ
    <3>2. (CHOOSE n \in sync'.left : TRUE) = c
      BY <3>1
    <3> HIDE DEF c
    <3> QED BY <1>1, <2>1, <3>1, <3>2 DEF Reached, NamesReached
  <2> QED BY <1>1, <1>2, <2>1, <2>2, <2>3 DEF Reached, Differ
<1> QED BY <1>4, <1>5 DEF CInv

\* What is deleted: a project of the organisation whose repository was not seen.
LEMMA ErasesOne ==
  ASSUME RInv, SyncErases
  PROVE  LET n == CHOOSE m \in sync.left : TRUE IN
         /\ n \in sync.left /\ n \in Names /\ project[n] # None /\ project[n].org = sync.o
         /\ project'[n] = None /\ \A m \in Names \ {n} : project'[m] = project[m]
         /\ sync.at = "erase" /\ sync.mode = "delete" /\ sync.o \in Orgs
         /\ sync.seen[sync.o] # None /\ n \notin sync.seen[sync.o]
<1> DEFINE n == CHOOSE m \in sync.left : TRUE
<1>1. sync.at = "erase" /\ project' = [project EXCEPT ![n] = None]
  BY ErasesFrame DEF RInv, SyncErases
<1>2. sync.left # {} /\ sync.left \subseteq Names /\ sync.mode = "delete"
  BY <1>1 DEF RInv, SyncKnown, TypeOK, Sync
<1>3. n \in sync.left
  BY <1>2
<1> HIDE DEF n
<1>4. /\ project[n] # None /\ project[n].org = sync.o /\ n \notin sync.seen[sync.o]
      /\ sync.o \in Orgs /\ sync.seen[sync.o] # None
  BY <1>1, <1>3 DEF RInv, SyncKnown
<1>5. project'[n] = None /\ \A m \in Names \ {n} : project'[m] = project[m]
  BY <1>1, <1>2, <1>3 DEF RInv, TypeOK
<1> QED BY <1>1, <1>2, <1>3, <1>4, <1>5 DEF n

LEMMA ErasesInv ==
  ASSUME CInv, SyncErases
  PROVE  CInv'
<1> DEFINE n == CHOOSE m \in sync.left : TRUE
<1>1. UNCHANGED <<org, unit, forge, repo, late, gone, dir, req, blind, crossed, clean>>
  BY DEF SyncErases, Alone, git
<1>2. /\ sync' \in Sync /\ Differ(sync, sync', {"at", "left"})
      /\ sync'.at = "fix" /\ sync'.left = sync.left \ {n}
      /\ project' = [project EXCEPT ![n] = None]
  BY ErasesFrame DEF CInv, RInv
<1>3. /\ n \in sync.left /\ n \in Names /\ project[n] # None /\ project[n].org = sync.o
      /\ project'[n] = None /\ \A m \in Names \ {n} : project'[m] = project[m]
      /\ sync.at = "erase" /\ sync.mode = "delete"
  BY ErasesOne DEF CInv
<1>4. Reached /\ sync.at = "erase" => n \notin unit
  BY DEF Reached, NamesReached
<1> HIDE DEF n
<1>5. TypeOK'
  BY <1>1, <1>2 DEF CInv, RInv, TypeOK
<1>6. RequestsKnown' /\ UploadsApart'
  BY <1>1, <1>5, RequestsStay DEF CInv
<1>7. OrgsKnown' /\ SyncKnown' /\ SeenKnown'
  BY <1>1, <1>2, <1>3 DEF CInv, RInv, OrgsKnown, SyncKnown, SeenKnown, Differ
<1>8. HasRepository' /\ UploadedWhole'
  BY <1>1, <1>3, <1>5, <1>7, ProjectsStay DEF CInv
<1>9. ASSUME clean' PROVE Reached'
  <2>1. Reached
    BY <1>1, <1>9 DEF CInv
  <2>2. OrgsReached' /\ ReposReached'
    BY <1>1, <1>2, <1>3, <2>1 DEF Reached, OrgsReached, ReposReached, First, Differ
  <2>3. ProjectsReached'
    <3> SUFFICES ASSUME NEW m \in Names, project'[m] # None, project'[m].org # None
                 PROVE  \/ repo[<<project'[m].org, m>>] # None
                        \/ project'[m].org \in sync'.todo
                        \/ sync'.at \in {"fix", "erase"} /\ m \in sync'.left
      BY <1>1 DEF ProjectsReached
    <3>1. project'[m] = project[m] /\ m # n
      BY <1>3
    <3> QED BY <1>2, <1>3, <2>1, <3>1 DEF Reached, ProjectsReached, Second, Differ
  <2>4. NamesReached'
    BY <1>1, <1>2, <1>3, <1>4, <2>1 DEF Reached, NamesReached, Differ
  <2> QED BY <1>1, <1>2, <1>3, <2>1, <2>2, <2>3, <2>4 DEF Reached, Differ
<1> QED BY <1>5, <1>6, <1>7, <1>8, <1>9 DEF CInv, RInv

LEMMA RestoresInv ==
  ASSUME NEW n \in Names, CInv, SyncRestores(n)
  PROVE  CInv'
<1>1. /\ UNCHANGED <<org, unit, forge, gone, dir, req, blind, crossed, clean>>
      /\ sync.at = "fix" /\ n \in sync.left /\ sync.o \in forge
      /\ Ensured(<<sync.o, n>>, AutoInit)
      /\ project' = [project EXCEPT ![n].direct = FALSE]
      /\ sync' = [sync EXCEPT !.left = @ \ {n}]
  BY DEF SyncRestores, Alone
<1>2. /\ sync' \in Sync /\ Differ(sync, sync', {"left"})
      /\ sync'.left = sync.left \ {n}
  BY <1>1, LeftFrame DEF CInv, RInv
<1>3. sync.o \in Orgs /\ project[n] # None /\ project[n].org = sync.o
  BY <1>1 DEF CInv, RInv, SyncKnown
<1>4. <<sync.o, n>> \in Repos
  BY <1>3 DEF Repos
<1>5. /\ repo' \in [Repos -> Content \cup {None}] /\ late' \subseteq Repos
      /\ repo'[<<sync.o, n>>] # None
      /\ repo[<<sync.o, n>>] # None => repo' = repo /\ late' = late
      /\ repo[<<sync.o, n>>] = None => repo'[<<sync.o, n>>] = AutoInit /\ <<sync.o, n>> \in late'
      /\ late \subseteq late'
      /\ \A y \in Repos \ {<<sync.o, n>>} : repo'[y] = repo[y]
  BY <1>1, <1>4, Contents, EnsuredType DEF CInv, RInv
<1>6. /\ project' \in [Names -> Project \cup {None}] /\ project'[n] # None
      /\ project'[n].org = project[n].org /\ project'[n].by = project[n].by
      /\ \A m \in Names \ {n} : project'[m] = project[m]
  <2> DEFINE p == [project[n] EXCEPT !.direct = FALSE]
  <2>1. project[n] \in Project
    BY <1>3 DEF CInv, RInv, TypeOK
  <2>2. p \in Project /\ p.org = project[n].org /\ p.by = project[n].by
    BY <2>1 DEF Project
  <2>3. project' = [project EXCEPT ![n] = p]
    BY <1>1
  <2> HIDE DEF p
  <2>4. p # None
    BY <2>2, Constants
  <2> QED BY <2>2, <2>3, <2>4 DEF CInv, RInv, TypeOK
<1>7. TypeOK'
  BY <1>1, <1>2, <1>5, <1>6 DEF CInv, RInv, TypeOK
<1>8. \A x \in Repos : repo'[x] = repo[x] \/ (repo[x] = None /\ x = <<sync.o, n>> /\ x \in late')
  BY <1>4, <1>5
<1>9. RequestsKnown' /\ UploadsApart'
  BY <1>1, <1>7, <1>8, RequestsStay DEF CInv
<1>10. \A o \in Orgs, m \in Names : <<o, m>> \in Repos
  BY DEF Repos
<1>11. OrgsKnown'
  <2>1. \A m \in Names : project'[m] # None =>
           project'[m].org \in org' \/ (project'[m].org = None /\ project'[m].by = None)
    BY <1>1, <1>3, <1>6 DEF CInv, RInv, OrgsKnown
  <2>2. ASSUME NEW o \in Orgs, NEW m \in Names, repo'[<<o, m>>] # None PROVE o \in forge
    <3>1. repo[<<o, m>>] # None \/ <<o, m>> = <<sync.o, n>>
      BY <1>8, <1>10, <2>2
    <3> QED BY <1>1, <3>1 DEF CInv, RInv, OrgsKnown
  <2> QED BY <1>1, <2>1, <2>2 DEF OrgsKnown
<1>12. SyncKnown' /\ SeenKnown'
  BY <1>1, <1>2, <1>5, <1>6, <1>8, <1>10 DEF CInv, RInv, SyncKnown, SeenKnown, Differ
<1>13. HasRepository' /\ UploadedWhole'
  BY <1>1, <1>3, <1>5, <1>6, <1>7, <1>8, <1>11, ProjectsStay DEF CInv
<1>14. ASSUME clean' PROVE Reached'
  <2>1. Reached
    BY <1>1, <1>14 DEF CInv
  <2>2. OrgsReached' /\ NamesReached'
    BY <1>1, <1>2, <1>6, <2>1 DEF Reached, OrgsReached, NamesReached, First, Differ
  <2>3. ~Typed(AutoInit)
    BY DEF Typed, AutoInit, Empty, Files
  <2>4. ReposReached'
    BY <1>1, <1>2, <1>5, <1>8, <1>10, <2>1, <2>3 DEF Reached, ReposReached, First, Differ
  <2>5. ProjectsReached'
    <3> SUFFICES ASSUME NEW m \in Names, project'[m] # None, project'[m].org # None
                 PROVE  \/ repo'[<<project'[m].org, m>>] # None
                        \/ project'[m].org \in sync'.todo
                        \/ sync'.at \in {"fix", "erase"} /\ m \in sync'.left
      BY <1>1 DEF ProjectsReached
    <3>1. CASE m = n
      BY <1>3, <1>5, <1>6, <3>1
    <3>2. CASE m # n
      <4>1. project'[m] = project[m] /\ <<project[m].org, m>> \in Repos
        BY <1>6, <1>7, <3>2 DEF TypeOK, Project, Repos
      <4> QED BY <1>1, <1>2, <1>8, <2>1, <3>2, <4>1
              DEF Reached, ProjectsReached, Second, Differ
    <3> QED BY <3>1, <3>2
  <2>6. \A o \in Orgs : sync'.seen[o] # None => \A m \in sync'.seen[o] : repo'[<<o, m>>] # None
    <3>1. \A o \in Orgs : sync.seen[o] # None => sync.seen[o] \subseteq Names
      BY DEF CInv, RInv, TypeOK, Sync
    <3> QED BY <1>1, <1>2, <1>8, <1>10, <2>1, <3>1 DEF Reached, Differ
  <2> QED BY <1>1, <1>2, <2>1, <2>2, <2>4, <2>5, <2>6 DEF Reached, Differ
<1> QED BY <1>7, <1>9, <1>11, <1>12, <1>13, <1>14 DEF CInv, RInv

LEMMA SyncInv ==
  ASSUME CInv, SyncStep
  PROVE  CInv'
<1>1. ASSUME NEW o \in Orgs, SyncOrg(o) \/ SyncLooks(o) \/ SyncBlind(o) \/ SyncCompares(o)
      PROVE  CInv'
  <2>1. CASE SyncLooks(o)
    BY <2>1, ListsInv DEF SyncLooks
  <2> QED BY <1>1, <2>1, OrgInv, BlindInv, ComparesInv
<1>2. ASSUME NEW n \in Names, SyncImport(n) \/ SyncSkip(n) \/ SyncRestores(n)
      PROVE  CInv'
  BY <1>2, ImportInv, SkipInv, RestoresInv
<1>3. CASE SyncList
  <2>1. sync.o \in Orgs
    BY <1>3 DEF CInv, RInv, SyncKnown, TypeOK, SyncList
  <2> QED BY <1>3, <2>1, ListsInv DEF SyncList
<1> QED BY <1>1, <1>2, <1>3, RaisesInv, NextInv, StopsInv, ErasesInv DEF SyncStep

----------------------------------------------------------------------------
(* The theorems.                                                           *)

LEMMA InitCInv == Init => CInv
<1> SUFFICES ASSUME Init PROVE CInv
  OBVIOUS
<1>1. TypeOK
  <2>1. project \in [Names -> Project \cup {None}] /\ org \subseteq Orgs
    <3>1. NoProjects \in [Names -> Project \cup {None}]
      BY DEF NoProjects
    <3> QED BY <3>1, Constants DEF Init
  <2>2. forge \subseteq Orgs
    BY Constants DEF Init
  <2> QED BY <2>1, <2>2, Constants DEF Init, TypeOK
<1>2. RequestsKnown /\ UploadsApart
  BY Constants DEF Init, RequestsKnown, UploadsApart, FrameKnown, RepoKnown, UploadKnown,
                   Uploads, Beyond, Staging
<1>3. \A n \in Names : project[n] = None \/ (project[n] = ConsoleRow /\ SelfOrg \in org)
  BY DEF Init, NoProjects
<1>4. ConsoleRow.org = SelfOrg /\ ConsoleRow.direct /\ ConsoleRow.by = None
  BY DEF ConsoleRow
<1>5. \A o \in Orgs, n \in Names : repo[<<o, n>>] = None
  BY DEF Init, Repos
<1>6. OrgsKnown /\ HasRepository /\ UploadedWhole
  BY <1>3, <1>4, <1>5 DEF OrgsKnown, HasRepository, UploadedWhole
<1>7. SyncKnown /\ SeenKnown /\ ~clean
  BY Constants DEF Init, SyncKnown, SeenKnown
<1> QED BY <1>1, <1>2, <1>6, <1>7 DEF CInv, RInv

LEMMA NextCInv == CInv /\ [Next]_vars => CInv'
<1> SUFFICES ASSUME CInv, [Next]_vars PROVE CInv'
  OBVIOUS
<1>1. ASSUME RInv' /\ clean' = FALSE PROVE CInv'
  BY <1>1 DEF CInv
<1>2. RInv
  BY DEF CInv
<1>3. ASSUME NEW r \in Requests, NEW o \in Orgs, OrgRequest(r, o) PROVE CInv'
  BY <1>1, <1>2, <1>3, OrgRequestInv
<1>4. ASSUME NEW r \in Requests, NEW o \in Orgs \cup {None}, NEW n \in Asked,
             CreateRequest(r, o, n)
      PROVE  CInv'
  BY <1>1, <1>2, <1>4, CreateRequestInv
<1>5. ASSUME NEW r \in Requests, NEW kind \in {"zip", "folder"}, NEW o \in Orgs,
             NEW n \in Asked, UploadRequest(r, kind, o, n)
      PROVE  CInv'
  BY <1>1, <1>2, <1>5, UploadRequestInv
<1>6. ASSUME NEW r \in Requests, RequestStep(r) PROVE CInv'
  BY <1>1, <1>2, <1>6, RequestInv
<1>7. ASSUME NEW mode \in {"create", "delete"}, SyncBegin(mode) PROVE CInv'
  BY <1>7, BeginInv
<1>8. CASE SyncStep
  BY <1>8, SyncInv
<1>9. ASSUME NEW o \in Orgs, MakesOrg(o) PROVE CInv'
  BY <1>1, <1>2, <1>9, MakesOrgInv
<1>10. ASSUME NEW o \in Orgs, NEW n \in Names, DropsRepo(o, n) PROVE CInv'
  BY <1>1, <1>2, <1>10, DropsRepoInv
<1>11. ASSUME NEW o \in Orgs, NEW n \in Names, NEW c \in {Empty, WholeOf(User)},
              MakesRepo(o, n, c)
       PROVE  CInv'
  BY <1>1, <1>2, <1>11, MakesRepoInv
<1>12. ASSUME NEW n \in Names, Deployed(n) PROVE CInv'
  BY <1>1, <1>2, <1>12, DeployedInv
<1>13. ASSUME NEW on \in BOOLEAN, Restart(on) PROVE CInv'
  BY <1>1, <1>2, <1>13, RestartInv
<1>14. CASE UNCHANGED vars
  <2>1. /\ UNCHANGED <<org, project, unit, forge, repo, late, gone, dir, req, sync, blind>>
        /\ UNCHANGED <<crossed, clean>>
    BY <1>14 DEF vars, db, git
  <2>2. TypeOK'
    BY <2>1, <1>2 DEF RInv, TypeOK
  <2>3. RInv'
    BY <1>2, <2>1, <2>2, RequestsStay, TablesStay DEF RInv
  <2>4. Reached => Reached'
    BY <2>1 DEF Reached, OrgsReached, NamesReached, ReposReached, ProjectsReached
  <2> QED BY <2>1, <2>3, <2>4 DEF CInv
<1> QED BY <1>3, <1>4, <1>5, <1>6, <1>7, <1>8, <1>9, <1>10, <1>11, <1>12, <1>13, <1>14 DEF Next

LEMMA AlwaysCInv == Spec => []CInv
  BY InitCInv, NextCInv, PTL DEF Spec

\* A project of an organisation has its repository, whatever failed while it
\* was registered: repository, push, webhook and row are four steps.
THEOREM ProjectsHaveRepositories == Spec => []HasRepository
<1>1. CInv => HasRepository
  BY DEF CInv, RInv
<1> QED BY AlwaysCInv, <1>1, PTL

\* The repository of an uploaded project holds one upload's files, all of them,
\* however many uploads of the name there were.
THEOREM UploadsStayWhole == Spec => []UploadedWhole
<1>1. CInv => UploadedWhole
  BY DEF CInv, RInv
<1> QED BY AlwaysCInv, <1>1, PTL

\* A synchronisation nobody interferes with makes the two sides agree, whatever
\* it found.
THEOREM SyncConverges == Spec => []Converged
<1>1. CInv => Converged
  <2> SUFFICES ASSUME CInv, sync.at = "done", clean PROVE Converged
    BY DEF Converged
  <2>1. Reached /\ RInv
    BY DEF CInv
  <2>2. forge \subseteq org
    BY <2>1 DEF Reached, OrgsReached, First
  <2>3. \A n \in unit \cap sync.names : project[n] # None
    BY <2>1 DEF Reached, NamesReached
  <2>4. \A n \in Names : project[n] # None /\ project[n].org # None
                            => repo[<<project[n].org, n>>] # None
    BY <2>1 DEF Reached, ProjectsReached, Second
  <2>5. \A o \in Orgs, n \in Names \ BadNames :
           repo[<<o, n>>] # None /\ Typed(repo[<<o, n>>]) =>
               project[n] # None \/ (sync.mode = "delete" /\ n \in sync.names)
    BY <2>1 DEF Reached, ReposReached, NamesReached, First
  <2> QED BY <2>2, <2>3, <2>4, <2>5 DEF Converged
<1> QED BY AlwaysCInv, <1>1, PTL

\* Only the step of a synchronisation removes a project.
LEMMA OnlyErases ==
  ASSUME CInv, [Next]_vars, NEW n \in Names, project[n] # None, project'[n] = None
  PROVE  SyncErases
<1>1. CInv'
  BY NextCInv
<1>2. ASSUME NEW r \in Requests, RequestStep(r) PROVE FALSE
  BY <1>2, RequestProjects DEF CInv, RInv
<1>3. ASSUME NEW m \in Names, SyncImport(m) \/ SyncRestores(m) PROVE FALSE
  <2>1. project \in [Names -> Project \cup {None}]
    BY DEF CInv, RInv, TypeOK
  <2>2. CASE SyncImport(m)
    <3> DEFINE row == [org |-> sync.o, direct |-> FALSE, by |-> None]
    <3>1. project[m] = None /\ project' = [project EXCEPT ![m] = row]
      BY <2>2 DEF SyncImport
    <3> HIDE DEF row
    <3> QED BY <2>1, <3>1
  <2>3. CASE SyncRestores(m)
    <3> DEFINE p == [project[m] EXCEPT !.direct = FALSE]
    <3>1. project' = [project EXCEPT ![m] = p] /\ sync.at = "fix" /\ m \in sync.left
      BY <2>3 DEF SyncRestores
    <3>2. p \in Project
      <4>1. project[m] # None
        BY <3>1 DEF CInv, RInv, SyncKnown
      <4> QED BY <2>1, <4>1 DEF Project
    <3> HIDE DEF p
    <3>3. p # None
      BY <3>2, Constants
    <3> QED BY <2>1, <3>1, <3>3
  <2> QED BY <1>3, <2>2, <2>3
<1>4. ASSUME NEW on \in BOOLEAN, Restart(on) PROVE FALSE
  <2>1. project' = project \/ project' = [project EXCEPT ![Console] = ConsoleRow]
    BY <1>4 DEF Restart
  <2>2. ConsoleRow # None
    BY Constants
  <2> HIDE DEF ConsoleRow
  <2> QED BY <2>1, <2>2 DEF CInv, RInv, TypeOK
<1>5. project' # project
  OBVIOUS
<1> QED BY <1>2, <1>3, <1>4, <1>5
        DEF Next, OrgRequest, CreateRequest, UploadRequest, Takes, SyncBegin, SyncStep, SyncOrg,
            SyncLooks, SyncBlind, SyncCompares, Compares, SyncSkip, SyncList, Listed, Lists,
            SyncRaises, SyncAborts, SyncNext, SyncStops, MakesOrg, DropsRepo, MakesRepo, Edits,
            Deployed, vars, db

\* Beside anything else that goes on, a synchronisation deletes no project whose
\* repository Gitea held when it was listed.
THEOREM DeletionsJustified == Spec => DeletesOnlyMissing
<1>1. ASSUME CInv, [Next]_vars, NEW n \in Names, project[n] # None, project'[n] = None
      PROVE  \/ repo[<<project[n].org, n>>] = None
             \/ <<project[n].org, n>> \in late
             \/ project[n].org \in blind
  <2> DEFINE c == CHOOSE m \in sync.left : TRUE
  <2>1. SyncErases /\ RInv
    BY <1>1, OnlyErases DEF CInv
  <2>2. /\ project[c].org = sync.o /\ \A m \in Names \ {c} : project'[m] = project[m]
        /\ sync.o \in Orgs /\ sync.seen[sync.o] # None /\ c \notin sync.seen[sync.o]
    BY <2>1, ErasesOne
  <2> HIDE DEF c
  <2>3. n = c
    BY <1>1, <2>2
  <2> QED BY <2>1, <2>2, <2>3 DEF RInv, SeenKnown
<1>2. CInv /\ [Next]_vars =>
         [\A n \in Names : project[n] # None /\ project'[n] = None =>
            \/ repo[<<project[n].org, n>>] = None
            \/ <<project[n].org, n>> \in late
            \/ project[n].org \in blind]_vars
  BY <1>1
<1> QED BY AlwaysCInv, <1>2, PTL DEF Spec, DeletesOnlyMissing
=============================================================================

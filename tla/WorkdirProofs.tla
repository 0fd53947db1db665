--------------------------- MODULE WorkdirProofs ---------------------------
(***************************************************************************)
(* What images hold, for any number of threads, changes, pushes, failures  *)
(* and crashes, while nothing but deployments overlaps in a work directory *)
(* (with overlaps it is false: see the README).                            *)
(***************************************************************************)
EXTENDS Workdir, TLAPS

Serial == "overlap" \notin Ops

Branches == {"main", "chat", "detached"}

\* main is always there, and no branch is ahead of what was fetched.
RefsKnown ==
    /\ ref["main"] # NoCommit
    /\ \A b \in Branches : ref[b] # NoCommit => ref[b].base <= tracking

\* The lock is what keeps deployments apart, the requests' order the others.
OneAtATime ==
    /\ \A g, h \in Callers : call[g].at # "idle" /\ call[h].at # "idle" => g = h
    /\ \A h \in Callers : call[h].at # "idle" /\ call[h].op = "deploy" => lock = h

\* What a request knows of the directory: leftovers of an approval are gone,
\* but for new files; a deployment has main as it was fetched, or the commit it
\* names; what it was asked for is in what was fetched.
FrameFits(f) ==
    /\ f.at \notin {"idle", "exists", "clone", "fetch"} => f.asked <= tracking
    /\ f.at = "reset" => head = "main"
    /\ f.at = "pin" => ref[head] = Pushed(tracking)
    /\ f.at \in {"pin", "resolve", "branch", "build"} => dirt \subseteq New /\ staged = {}
    /\ f.at \in {"resolve", "build"} /\ f.op = "deploy" =>
          ref[head] = Pushed(IF f.pin = -1 THEN tracking ELSE f.pin)
    /\ f.at = "build" => f.sha = ref[head]
    /\ f.at # "idle" /\ f.op = "apply" => f.change \in Changes
    /\ f.at \in {"force", "patch", "add", "commit", "save"} => f.op = "apply"
    /\ f.at = "branch" => f.op = "preview"
    /\ f.asked <= origin

DirKnown == \A h \in Callers : FrameFits(call[h])

WInv == /\ TypeOK /\ RefsKnown /\ OneAtATime /\ DirKnown
        /\ ImageIsItsCommit /\ DeploysPushed /\ DeploysLatest

----------------------------------------------------------------------------
(* Frames and commits.                                                     *)

Ats == {"idle", "exists", "clone", "fetch", "switch", "reset", "pin", "resolve",
        "branch", "force", "patch", "add", "commit", "save", "build"}

\* Two frames differ in the fields of x only.
Differ(f, g, x) ==
    /\ "op" \notin x => g.op = f.op
    /\ "at" \notin x => g.at = f.at
    /\ "pin" \notin x => g.pin = f.pin
    /\ "branch" \notin x => g.branch = f.branch
    /\ "change" \notin x => g.change = f.change
    /\ "sha" \notin x => g.sha = f.sha
    /\ "asked" \notin x => g.asked = f.asked

\* A frame with one field changed is a frame.
LEMMA FieldSet ==
  ASSUME NEW f \in Frame
  PROVE  /\ \A v \in {"deploy", "preview", "apply", "view"} :
               LET g == [f EXCEPT !.op = v] IN g \in Frame /\ g.op = v /\ Differ(f, g, {"op"})
         /\ \A v \in Ats :
               LET g == [f EXCEPT !.at = v] IN g \in Frame /\ g.at = v /\ Differ(f, g, {"at"})
         /\ \A v \in -1..MaxPushes :
               LET g == [f EXCEPT !.pin = v] IN g \in Frame /\ g.pin = v /\ Differ(f, g, {"pin"})
         /\ \A v \in {"main", "chat"} :
               LET g == [f EXCEPT !.branch = v] IN
               g \in Frame /\ g.branch = v /\ Differ(f, g, {"branch"})
         /\ \A v \in Changes \cup {None} :
               LET g == [f EXCEPT !.change = v] IN
               g \in Frame /\ g.change = v /\ Differ(f, g, {"change"})
         /\ \A v \in Commit :
               LET g == [f EXCEPT !.sha = v] IN g \in Frame /\ g.sha = v /\ Differ(f, g, {"sha"})
         /\ \A v \in 0..MaxPushes :
               LET g == [f EXCEPT !.asked = v] IN
               g \in Frame /\ g.asked = v /\ Differ(f, g, {"asked"})
<1>1. ASSUME NEW v \in {"deploy", "preview", "apply", "view"}
      PROVE  LET g == [f EXCEPT !.op = v] IN g \in Frame /\ g.op = v /\ Differ(f, g, {"op"})
  BY DEF Frame, Differ
<1>2. ASSUME NEW v \in Ats
      PROVE  LET g == [f EXCEPT !.at = v] IN g \in Frame /\ g.at = v /\ Differ(f, g, {"at"})
  BY DEF Frame, Differ, Ats
<1>3. ASSUME NEW v \in -1..MaxPushes
      PROVE  LET g == [f EXCEPT !.pin = v] IN g \in Frame /\ g.pin = v /\ Differ(f, g, {"pin"})
  BY DEF Frame, Differ
<1>4. ASSUME NEW v \in {"main", "chat"}
      PROVE  LET g == [f EXCEPT !.branch = v] IN
             g \in Frame /\ g.branch = v /\ Differ(f, g, {"branch"})
  BY DEF Frame, Differ
<1>5. ASSUME NEW v \in Changes \cup {None}
      PROVE  LET g == [f EXCEPT !.change = v] IN
             g \in Frame /\ g.change = v /\ Differ(f, g, {"change"})
  BY DEF Frame, Differ
<1>6. ASSUME NEW v \in Commit
      PROVE  LET g == [f EXCEPT !.sha = v] IN g \in Frame /\ g.sha = v /\ Differ(f, g, {"sha"})
  BY DEF Frame, Differ
<1>7. ASSUME NEW v \in 0..MaxPushes
      PROVE  LET g == [f EXCEPT !.asked = v] IN
             g \in Frame /\ g.asked = v /\ Differ(f, g, {"asked"})
  BY DEF Frame, Differ
<1> QED BY <1>1, <1>2, <1>3, <1>4, <1>5, <1>6, <1>7

LEMMA Constants ==
  /\ MaxPushes \in Nat /\ None \notin Callers
  /\ \A n \in 0..MaxPushes : /\ Pushed(n) \in Commit /\ Pushed(n).base = n
                             /\ Pushed(n).changes = {}
  /\ NoCall \in Frame /\ NoCall.at = "idle" /\ NoCall.asked = 0 /\ NoCall.op = "view"
  BY WorkdirAssumption DEF Pushed, Commit, NoCall, Frame

LEMMA NoCommitIsNone == NoCommit \notin Commit
<1>1. "missing" \in DOMAIN NoCommit
  BY DEF NoCommit
<1>2. \A c \in Commit : DOMAIN c = {"base", "changes"}
  BY DEF Commit
<1> QED BY <1>1, <1>2

LEMMA InitWInv == Init => WInv
<1> SUFFICES ASSUME Init PROVE WInv
  OBVIOUS
<1>1. /\ Pushed(0) \in Commit /\ Pushed(0).base = 0 /\ Pushed(0).changes = {}
      /\ MaxPushes \in Nat /\ 0 \in 0..MaxPushes
  BY Constants
<1>2. /\ ref["main"] = Pushed(0) /\ ref["chat"] = NoCommit /\ ref["detached"] = NoCommit
      /\ ref \in [{"main", "chat", "detached"} -> Commit \cup {NoCommit}]
  BY <1>1 DEF Init
<1>3. image \in Image /\ image.files = Pushed(0) /\ image.tag = Pushed(0) /\ image.latest = 0
  BY <1>1 DEF Init, Image
<1>4. TypeOK
  <2>1. /\ origin \in 0..MaxPushes /\ hooks \in 0..origin
        /\ tracking \in 0..origin /\ crashes \in 0..MaxCrashes
    BY WorkdirAssumption, SMT DEF Init
  <2>4. cloned \in BOOLEAN
    BY DEF Init
  <2>2. /\ head \in {"main", "chat", "detached"} /\ dirt \subseteq Changes /\ staged \subseteq Changes
        /\ ref[head] \in Commit /\ ref[head].base <= tracking
    BY <1>1, <1>2 DEF Init
  <2>3. /\ lock \in Callers \cup {None}
        /\ change \in [Changes -> {"proposed", "applied", "rejected"}]
        /\ call \in [Callers -> Frame]
    BY Constants DEF Init
  <2> QED BY <1>2, <1>3, <2>1, <2>2, <2>3, <2>4 DEF TypeOK
<1>5. RefsKnown /\ OneAtATime /\ DirKnown
  BY <1>1, <1>2, NoCommitIsNone, Constants DEF Init, RefsKnown, OneAtATime, DirKnown, FrameFits, Branches
<1>6. ImageIsItsCommit /\ DeploysPushed /\ DeploysLatest
  BY <1>1, <1>3 DEF ImageIsItsCommit, DeploysPushed, DeploysLatest
<1> QED BY <1>4, <1>5, <1>6 DEF WInv

----------------------------------------------------------------------------
(* Requests.                                                               *)

\* A request starts when nothing is under way: a deployment needs the lock, and
\* those of others wait for each other.
LEMMA AllIdle ==
  ASSUME Serial, WInv, NEW h \in Callers, NEW op, Starts(h, op),
         op \in {"deploy", "pin"} => lock = None
  PROVE  \A g \in Callers : call[g].at = "idle"
<1>1. \A g \in Callers : call[g].at # "idle" /\ call[g].op = "deploy" => lock # None
  BY Constants DEF WInv, OneAtATime
<1> QED BY <1>1 DEF Starts, Serial

LEMMA StartInv ==
  ASSUME WInv, \A g \in Callers : call[g].at = "idle",
         NEW h \in Callers, NEW f \in Frame, f.at = "exists",
         f.op = "apply" => f.change \in Changes, f.asked <= origin,
         call' = [call EXCEPT ![h] = f],
         lock' = IF f.op = "deploy" THEN h ELSE lock,
         hooks' \in 0..origin, UNCHANGED <<origin, git, image, change, crashes>>
  PROVE  WInv'
<1>1. /\ call' \in [Callers -> Frame] /\ call'[h] = f
      /\ \A g \in Callers \ {h} : call'[g].at = "idle"
  BY DEF WInv, TypeOK
<1>2. UNCHANGED <<cloned, tracking, ref, head, dirt, staged>>
  BY DEF git
<1>3. TypeOK'
  BY <1>1, <1>2 DEF WInv, TypeOK
<1>4. RefsKnown' /\ OneAtATime' /\ DirKnown'
  BY <1>1, <1>2 DEF WInv, RefsKnown, OneAtATime, DirKnown, FrameFits
<1>5. (ImageIsItsCommit /\ DeploysPushed /\ DeploysLatest)'
  BY DEF WInv, ImageIsItsCommit, DeploysPushed, DeploysLatest
<1> QED BY <1>3, <1>4, <1>5 DEF WInv

\* The frame of a deployment.
LEMMA DeployFrame ==
  ASSUME TypeOK, NEW pin \in -1..MaxPushes
  PROVE  LET f == [NoCall EXCEPT !.op = "deploy", !.at = "exists", !.pin = pin, !.asked = origin]
         IN  f \in Frame /\ f.at = "exists" /\ f.op = "deploy" /\ f.asked = origin
<1> DEFINE f1 == [NoCall EXCEPT !.op = "deploy"]
           f2 == [f1 EXCEPT !.at = "exists"]
           f3 == [f2 EXCEPT !.pin = pin]
           f4 == [f3 EXCEPT !.asked = origin]
           f == [NoCall EXCEPT !.op = "deploy", !.at = "exists", !.pin = pin, !.asked = origin]
<1>0. f = f4
  OBVIOUS
<1> HIDE DEF f
<1>1. f1 \in Frame /\ f1.op = "deploy"
  BY Constants, FieldSet
<1> HIDE DEF f1
<1>2. f2 \in Frame /\ f2.at = "exists" /\ Differ(f1, f2, {"at"})
  BY <1>1, FieldSet DEF Ats
<1> HIDE DEF f2
<1>3. f3 \in Frame /\ Differ(f2, f3, {"pin"})
  BY <1>2, FieldSet
<1> HIDE DEF f3
<1>4. origin \in 0..MaxPushes
  BY DEF TypeOK
<1>5. f4 \in Frame /\ f4.asked = origin /\ Differ(f3, f4, {"asked"})
  BY <1>3, <1>4, FieldSet
<1> HIDE DEF f4
<1>6. f4.at = "exists" /\ f4.op = "deploy" /\ f4.asked = origin
  BY <1>1, <1>2, <1>3, <1>5 DEF Differ
<1>7. f \in Frame /\ f.at = "exists" /\ f.op = "deploy" /\ f.asked = origin
  BY <1>0, <1>5, <1>6
<1> QED BY <1>7 DEF f

\* That of a webhook names no commit.
LEMMA WebhookFrame ==
  ASSUME TypeOK
  PROVE  LET f == [NoCall EXCEPT !.op = "deploy", !.at = "exists", !.asked = origin]
         IN  f \in Frame /\ f.at = "exists" /\ f.op = "deploy" /\ f.asked = origin
<1> DEFINE f1 == [NoCall EXCEPT !.op = "deploy"]
           f2 == [f1 EXCEPT !.at = "exists"]
           f3 == [f2 EXCEPT !.asked = origin]
           f == [NoCall EXCEPT !.op = "deploy", !.at = "exists", !.asked = origin]
<1>0. f = f3
  OBVIOUS
<1> HIDE DEF f
<1>1. f1 \in Frame /\ f1.op = "deploy"
  BY Constants, FieldSet
<1> HIDE DEF f1
<1>2. f2 \in Frame /\ f2.at = "exists" /\ Differ(f1, f2, {"at"})
  BY <1>1, FieldSet DEF Ats
<1> HIDE DEF f2
<1>4. origin \in 0..MaxPushes
  BY DEF TypeOK
<1>5. f3 \in Frame /\ f3.asked = origin /\ Differ(f2, f3, {"asked"})
  BY <1>2, <1>4, FieldSet
<1> HIDE DEF f3
<1>7. f \in Frame /\ f.at = "exists" /\ f.op = "deploy" /\ f.asked = origin
  BY <1>0, <1>1, <1>2, <1>5 DEF Differ
<1> QED BY <1>7 DEF f

\* Those of a code view, a preview and an approval.
LEMMA ViewFrame ==
  LET f == [NoCall EXCEPT !.at = "exists"] IN f \in Frame /\ f.at = "exists" /\ f.op = "view" /\ f.asked = 0
<1> DEFINE f == [NoCall EXCEPT !.at = "exists"]
<1>1. f \in Frame /\ f.at = "exists" /\ Differ(NoCall, f, {"at"})
  BY Constants, FieldSet DEF Ats
<1> HIDE DEF f
<1>2. f \in Frame /\ f.at = "exists" /\ f.op = "view" /\ f.asked = 0
  BY <1>1, Constants DEF Differ
<1> QED BY <1>2 DEF f

LEMMA PreviewFrame ==
  ASSUME NEW b \in {"main", "chat"}
  PROVE  LET f == [NoCall EXCEPT !.op = "preview", !.at = "exists", !.branch = b]
         IN  f \in Frame /\ f.at = "exists" /\ f.op = "preview" /\ f.asked = 0
<1> DEFINE f1 == [NoCall EXCEPT !.op = "preview"]
           f2 == [f1 EXCEPT !.at = "exists"]
           f3 == [f2 EXCEPT !.branch = b]
           f == [NoCall EXCEPT !.op = "preview", !.at = "exists", !.branch = b]
<1>0. f = f3
  OBVIOUS
<1> HIDE DEF f
<1>1. f1 \in Frame /\ f1.op = "preview" /\ f1.asked = 0
  BY Constants, FieldSet DEF Differ
<1> HIDE DEF f1
<1>2. f2 \in Frame /\ f2.at = "exists" /\ Differ(f1, f2, {"at"})
  BY <1>1, FieldSet DEF Ats
<1> HIDE DEF f2
<1>3. f3 \in Frame /\ Differ(f2, f3, {"branch"})
  BY <1>2, FieldSet
<1> HIDE DEF f3
<1>4. f \in Frame /\ f.at = "exists" /\ f.op = "preview" /\ f.asked = 0
  BY <1>0, <1>1, <1>2, <1>3 DEF Differ
<1> QED BY <1>4 DEF f

ApplyOf(c, b) == [NoCall EXCEPT !.op = "apply", !.at = "exists", !.branch = b, !.change = c]

LEMMA ApplyFrame ==
  ASSUME NEW b \in {"main", "chat"}, NEW c \in Changes
  PROVE  LET f == ApplyOf(c, b)
         IN  f \in Frame /\ f.at = "exists" /\ f.op = "apply" /\ f.asked = 0 /\ f.change = c
<1> DEFINE f1 == [NoCall EXCEPT !.op = "apply"]
           f2 == [f1 EXCEPT !.at = "exists"]
           f3 == [f2 EXCEPT !.branch = b]
           f4 == [f3 EXCEPT !.change = c]
           f == ApplyOf(c, b)
<1>0. f = f4
  BY DEF ApplyOf
<1> HIDE DEF f
<1>1. f1 \in Frame /\ f1.op = "apply" /\ f1.asked = 0
  BY Constants, FieldSet DEF Differ
<1> HIDE DEF f1
<1>2. f2 \in Frame /\ f2.at = "exists" /\ Differ(f1, f2, {"at"})
  BY <1>1, FieldSet DEF Ats
<1> HIDE DEF f2
<1>3. f3 \in Frame /\ Differ(f2, f3, {"branch"})
  BY <1>2, FieldSet
<1> HIDE DEF f3
<1>4. f4 \in Frame /\ f4.change = c /\ Differ(f3, f4, {"change"})
  BY <1>3, FieldSet
<1> HIDE DEF f4
<1>5. f \in Frame /\ f.at = "exists" /\ f.op = "apply" /\ f.asked = 0 /\ f.change = c
  BY <1>0, <1>1, <1>2, <1>3, <1>4 DEF Differ
<1> QED BY <1>5 DEF f

\* Requests come in.
LEMMA RequestInv ==
  ASSUME Serial, WInv, NEW h \in Callers,
         \/ \E pin \in -1..origin : Deploy(h, pin)
         \/ Webhook(h)
         \/ View(h)
         \/ \E b \in {"main", "chat"} : Preview(h, b)
         \/ \E c \in Changes, b \in Chat : Apply(h, c, b)
  PROVE  WInv'
<1>0. /\ TypeOK /\ MaxPushes \in Nat /\ None \notin Callers /\ Chat \subseteq {"main", "chat"}
      /\ origin \in Nat /\ origin <= origin /\ 0 <= origin
  BY WorkdirAssumption DEF WInv, TypeOK
<1>1. CASE \E pin \in -1..origin : Deploy(h, pin)
  <2>1. PICK pin \in -1..origin : Deploy(h, pin)
    BY <1>1
  <2> DEFINE f == [NoCall EXCEPT !.op = "deploy", !.at = "exists", !.pin = pin, !.asked = origin]
  <2>2. pin \in -1..MaxPushes
    BY <1>0 DEF TypeOK
  <2>3. f \in Frame /\ f.at = "exists" /\ f.op = "deploy" /\ f.asked <= origin
    BY <1>0, <2>2, DeployFrame
  <2>4. \A g \in Callers : call[g].at = "idle"
    BY <2>1, AllIdle DEF Deploy
  <2>5. /\ call' = [call EXCEPT ![h] = f] /\ lock' = h /\ hooks' = hooks
        /\ UNCHANGED <<origin, git, image, change, crashes>>
    BY <2>1 DEF Deploy
  <2> HIDE DEF f
  <2> QED BY <1>0, <2>3, <2>4, <2>5, StartInv DEF TypeOK
<1>2. CASE Webhook(h)
  <2> DEFINE f == [NoCall EXCEPT !.op = "deploy", !.at = "exists", !.asked = origin]
  <2>0. hooks' \in 0..origin
    BY <1>0, <1>2 DEF TypeOK, Webhook
  <2>1. CASE lock = None
    <3>1. f \in Frame /\ f.at = "exists" /\ f.op = "deploy" /\ f.asked <= origin
      BY <1>0, WebhookFrame
    <3>2. \A g \in Callers : call[g].at = "idle"
      BY <1>2, <2>1, AllIdle DEF Webhook
    <3>3. /\ call' = [call EXCEPT ![h] = f] /\ lock' = h
          /\ UNCHANGED <<origin, git, image, change, crashes>>
      BY <1>2, <2>1 DEF Webhook
    <3> HIDE DEF f
    <3> QED BY <2>0, <3>1, <3>2, <3>3, StartInv
  <2>2. CASE lock # None
    <3>1. UNCHANGED <<origin, cloned, tracking, ref, head, dirt, staged, lock, image, change,
                      call, crashes>>
      BY <1>2, <2>2 DEF Webhook, git
    <3>2. TypeOK'
      BY <1>0, <2>0, <3>1 DEF TypeOK
    <3> QED BY <3>1, <3>2 DEF WInv, RefsKnown, OneAtATime, DirKnown, FrameFits,
                              ImageIsItsCommit, DeploysPushed, DeploysLatest
  <2> QED BY <2>1, <2>2
<1>3. CASE View(h)
  <2> DEFINE f == [NoCall EXCEPT !.at = "exists"]
  <2>1. f \in Frame /\ f.at = "exists" /\ f.op = "view" /\ f.asked <= origin
    BY <1>0, ViewFrame
  <2>2. Starts(h, "view") /\ call' = [call EXCEPT ![h] = f] /\ lock' = lock /\ hooks' = hooks
        /\ UNCHANGED <<origin, git, image, change, crashes>>
    BY <1>3, <2>1 DEF View, Begin
  <2> HIDE DEF f
  <2>3. \A g \in Callers : call[g].at = "idle"
    BY <2>2, AllIdle
  <2> QED BY <1>0, <2>1, <2>2, <2>3, StartInv DEF TypeOK
<1>4. CASE \E b \in {"main", "chat"} : Preview(h, b)
  <2>0. PICK b \in {"main", "chat"} : Preview(h, b)
    BY <1>4
  <2> DEFINE f == [NoCall EXCEPT !.op = "preview", !.at = "exists", !.branch = b]
  <2>1. f \in Frame /\ f.at = "exists" /\ f.op = "preview" /\ f.asked <= origin
    BY <1>0, PreviewFrame
  <2>2. Starts(h, f.op) /\ call' = [call EXCEPT ![h] = f] /\ lock' = lock /\ hooks' = hooks
        /\ UNCHANGED <<origin, git, image, change, crashes>>
    BY <2>0 DEF Preview, Begin
  <2> HIDE DEF f
  <2>3. \A g \in Callers : call[g].at = "idle"
    BY <2>1, <2>2, AllIdle
  <2> QED BY <1>0, <2>1, <2>2, <2>3, StartInv DEF TypeOK
<1>5. CASE \E c \in Changes, b \in Chat : Apply(h, c, b)
  <2>0. PICK c \in Changes, b \in {"main", "chat"} : Apply(h, c, b)
    BY <1>0, <1>5
  <2> DEFINE f == ApplyOf(c, b)
  <2>1. f \in Frame /\ f.at = "exists" /\ f.op = "apply" /\ f.asked <= origin /\ f.change = c
    <3>1. f \in Frame /\ f.at = "exists" /\ f.op = "apply" /\ f.asked = 0 /\ f.change = c
      BY ApplyFrame
    <3> HIDE DEF f
    <3> QED BY <1>0, <3>1
  <2>2. Starts(h, f.op) /\ call' = [call EXCEPT ![h] = f] /\ lock' = lock /\ hooks' = hooks
        /\ UNCHANGED <<origin, git, image, change, crashes>>
    BY <2>0 DEF Apply, Begin, ApplyOf
  <2> HIDE DEF f
  <2>3. \A g \in Callers : call[g].at = "idle"
    BY <2>1, <2>2, AllIdle
  <2> QED BY <1>0, <2>1, <2>2, <2>3, StartInv DEF TypeOK
<1> QED BY <1>1, <1>2, <1>3, <1>4, <1>5

\* Pushes, rejections and crashes.
LEMMA OutsideInv ==
  ASSUME WInv, Push \/ Crash \/ \E c \in Changes : Reject(c)
  PROVE  WInv'
<1>0. TypeOK /\ MaxPushes \in Nat /\ MaxCrashes \in Nat
  BY WorkdirAssumption DEF WInv
<1>1. CASE Push
  <2>1. /\ UNCHANGED <<cloned, tracking, ref, head, dirt, staged, lock, image, change, call, crashes>>
        /\ origin < MaxPushes /\ origin' = origin + 1
    BY <1>1 DEF Push, git
  <2>2. hooks' \in 0..origin'
    BY <1>0, <1>1 DEF Push, TypeOK
  <2>3. TypeOK'
    BY <1>0, <2>1, <2>2 DEF TypeOK
  <2>4. DirKnown'
    <3>1. ASSUME NEW h \in Callers PROVE FrameFits(call[h])'
      <4>1. FrameFits(call[h]) /\ call[h].asked \in Nat /\ origin \in Nat
        BY <1>0 DEF WInv, DirKnown, TypeOK, Frame
      <4>2. call[h].asked <= origin'
        BY <2>1, <4>1 DEF FrameFits
      <4> QED BY <2>1, <4>1, <4>2 DEF FrameFits
    <3> QED BY <3>1 DEF DirKnown
  <2> QED BY <2>1, <2>3, <2>4 DEF WInv, RefsKnown, OneAtATime,
                            ImageIsItsCommit, DeploysPushed, DeploysLatest
<1>2. CASE Crash
  <2>1. /\ UNCHANGED <<cloned, tracking, ref, head, dirt, staged, image, change, origin>>
        /\ crashes' \in 0..MaxCrashes /\ hooks' = 0 /\ lock' = None
        /\ call' = [h \in Callers |-> NoCall]
    BY <1>0, <1>2 DEF Crash, git, TypeOK
  <2>2. /\ call' \in [Callers -> Frame] /\ 0 <= origin
        /\ \A h \in Callers : call'[h].at = "idle" /\ call'[h].asked = 0
    BY <1>0, <2>1, Constants DEF TypeOK
  <2>3. TypeOK'
    BY <1>0, <2>1, <2>2 DEF TypeOK
  <2>4. OneAtATime' /\ DirKnown'
    BY <2>1, <2>2 DEF OneAtATime, DirKnown, FrameFits
  <2> QED BY <2>1, <2>3, <2>4 DEF WInv, RefsKnown, ImageIsItsCommit, DeploysPushed, DeploysLatest
<1>3. CASE \E c \in Changes : Reject(c)
  <2>1. UNCHANGED <<origin, hooks, cloned, tracking, ref, head, dirt, staged, lock, image,
                    call, crashes>>
    BY <1>3 DEF Reject, git
  <2>2. change' \in [Changes -> {"proposed", "applied", "rejected"}]
    BY <1>0, <1>3 DEF Reject, TypeOK
  <2>3. TypeOK'
    BY <1>0, <2>1, <2>2 DEF TypeOK
  <2> QED BY <2>1, <2>3 DEF WInv, RefsKnown, OneAtATime, DirKnown, FrameFits,
                            ImageIsItsCommit, DeploysPushed, DeploysLatest
<1> QED BY <1>1, <1>2, <1>3

----------------------------------------------------------------------------
(* Steps of a request.                                                     *)

DirType ==
    /\ cloned \in BOOLEAN /\ tracking \in 0..origin
    /\ head \in Branches /\ dirt \subseteq Changes /\ staged \subseteq Changes
    /\ ref \in [Branches -> Commit \cup {NoCommit}]
    /\ ref[head] \in Commit /\ ref[head].base <= tracking

\* A step of the one request that is under way.
LEMMA StepInv ==
  ASSUME WInv, NEW h \in Callers, call[h].at # "idle",
         NEW f \in Frame, call' = [call EXCEPT ![h] = f],
         lock' \in Callers \cup {None},
         f.at # "idle" => lock' = lock /\ f.op = call[h].op,
         UNCHANGED <<origin, hooks, crashes>>,
         DirType', RefsKnown', FrameFits(f)', image' \in Image,
         change' \in [Changes -> {"proposed", "applied", "rejected"}],
         (ImageIsItsCommit /\ DeploysPushed /\ DeploysLatest)'
  PROVE  WInv'
<1>1. /\ call' \in [Callers -> Frame] /\ call'[h] = f
      /\ \A g \in Callers \ {h} : call'[g] = call[g] /\ call[g].at = "idle"
  BY DEF WInv, TypeOK, OneAtATime
<1>2. TypeOK'
  BY <1>1 DEF WInv, TypeOK, DirType, Branches
<1>3. OneAtATime'
  BY <1>1 DEF WInv, OneAtATime
<1>4. ASSUME NEW g \in Callers PROVE FrameFits(call[g])'
  <2>1. CASE g = h
    BY <1>1, <2>1 DEF FrameFits
  <2>2. CASE g # h
    BY <1>1, <2>2 DEF WInv, DirKnown, FrameFits
  <2> QED BY <2>1, <2>2
<1> QED BY <1>2, <1>3, <1>4 DEF WInv, DirKnown

\* A git command touches the directory and the request's frame.
LEMMA GitInv ==
  ASSUME WInv, NEW h \in Callers, call[h].at # "idle",
         NEW f \in Frame, call' = [call EXCEPT ![h] = f],
         f.at # "idle" => f.op = call[h].op,
         UNCHANGED <<origin, hooks, lock, image, change, crashes>>,
         DirType', RefsKnown', FrameFits(f)'
  PROVE  WInv'
<1>1. /\ lock' \in Callers \cup {None} /\ image' \in Image
      /\ change' \in [Changes -> {"proposed", "applied", "rejected"}]
  BY DEF WInv, TypeOK
<1>2. (ImageIsItsCommit /\ DeploysPushed /\ DeploysLatest)'
  BY DEF WInv, ImageIsItsCommit, DeploysPushed, DeploysLatest
<1> QED BY <1>1, <1>2, StepInv

LEMMA GoesTo ==
  ASSUME TypeOK, NEW h \in Callers, NEW to \in Ats, Goes(h, to)
  PROVE  \E f \in Frame : /\ call' = [call EXCEPT ![h] = f]
                          /\ f.at = to /\ Differ(call[h], f, {"at"})
<1> DEFINE f == [call[h] EXCEPT !.at = to]
<1>1. f \in Frame /\ f.at = to /\ Differ(call[h], f, {"at"})
  BY FieldSet DEF TypeOK
<1>2. call' = [call EXCEPT ![h] = f]
  BY DEF Goes
<1> HIDE DEF f
<1> QED BY <1>1, <1>2

\* What is known before a step.
LEMMA Before ==
  ASSUME WInv, NEW h \in Callers
  PROVE  /\ TypeOK /\ DirType /\ RefsKnown /\ FrameFits(call[h]) /\ call[h] \in Frame
         /\ origin \in Nat /\ tracking \in 0..origin /\ origin <= MaxPushes
         /\ \A n \in 0..origin : /\ Pushed(n) \in Commit /\ Pushed(n) # NoCommit
                                 /\ Pushed(n).base = n /\ Pushed(n).changes = {}
         /\ \A b \in Branches : ref[b] # NoCommit =>
                 ref[b] \in Commit /\ ref[b].base \in Nat /\ ref[b].base <= tracking
         /\ ref["main"] # NoCommit /\ NoCommit \notin Commit
<1>1. TypeOK /\ MaxPushes \in Nat /\ RefsKnown /\ FrameFits(call[h]) /\ call[h] \in Frame
  BY Constants DEF WInv, TypeOK, DirKnown
<1>2. DirType
  BY <1>1 DEF TypeOK, DirType, Branches
<1>3. origin \in Nat /\ tracking \in 0..origin /\ origin <= MaxPushes
  BY <1>1 DEF TypeOK
<1>4. \A n \in 0..origin : n \in 0..MaxPushes
  BY <1>1, <1>3
<1>5. \A b \in Branches : ref[b] # NoCommit =>
         ref[b] \in Commit /\ ref[b].base \in Nat /\ ref[b].base <= tracking
  BY <1>1, <1>2 DEF RefsKnown, DirType, Commit
<1>6. ref["main"] # NoCommit /\ NoCommit \notin Commit
  BY <1>1, NoCommitIsNone DEF RefsKnown
<1> QED BY <1>1, <1>2, <1>3, <1>4, <1>5, <1>6, Constants

LEMMA LookInv ==
  ASSUME WInv, NEW h \in Callers, LooksForGit(h), UNCHANGED <<origin, hooks, lock, image, change, crashes>>
  PROVE  WInv'
<1> DEFINE to == IF cloned THEN "fetch" ELSE "clone"
<1>1. call[h].at = "exists" /\ Goes(h, to) /\ to \in Ats /\ to \in {"fetch", "clone"}
  BY DEF LooksForGit, Ats
<1>2. UNCHANGED <<cloned, tracking, ref, head, dirt, staged>>
  BY DEF LooksForGit, git
<1>3. DirType' /\ RefsKnown'
  BY <1>2, Before DEF DirType, RefsKnown
<1> HIDE DEF to
<1>4. PICK f \in Frame : /\ call' = [call EXCEPT ![h] = f]
                         /\ f.at = to /\ Differ(call[h], f, {"at"})
  BY <1>1, Before, GoesTo
<1>5. FrameFits(f)'
  BY <1>1, <1>2, <1>4, Before DEF FrameFits, Differ
<1> QED BY <1>1, <1>3, <1>4, <1>5, GitInv DEF Differ

LEMMA CloneInv ==
  ASSUME WInv, NEW h \in Callers, Clone(h), UNCHANGED <<origin, hooks, lock, image, change, crashes>>
  PROVE  WInv'
<1>1. call[h].at = "clone" /\ Goes(h, "pin") /\ "pin" \in Ats
  BY DEF Clone, Ats
<1>2. /\ cloned' = TRUE /\ tracking' = origin /\ head' = "main" /\ dirt' = {} /\ staged' = {}
      /\ ref' = [b \in Branches |-> IF b = "main" THEN Pushed(origin) ELSE NoCommit]
  BY Before DEF Clone, DirType
<1>3. DirType' /\ RefsKnown'
  BY <1>2, Before DEF DirType, RefsKnown, Branches
<1>4. PICK f \in Frame : /\ call' = [call EXCEPT ![h] = f]
                         /\ f.at = "pin" /\ Differ(call[h], f, {"at"})
  BY <1>1, Before, GoesTo
<1>5. FrameFits(f)'
  BY <1>1, <1>2, <1>4, Before DEF FrameFits, Differ, Branches
<1> QED BY <1>1, <1>3, <1>4, <1>5, GitInv DEF Differ

LEMMA FetchInv ==
  ASSUME WInv, NEW h \in Callers, Fetch(h), UNCHANGED <<origin, hooks, lock, image, change, crashes>>
  PROVE  WInv'
<1>1. call[h].at = "fetch" /\ Goes(h, "switch") /\ "switch" \in Ats
  BY DEF Fetch, Ats
<1>2. tracking' = origin /\ UNCHANGED <<cloned, ref, head, dirt, staged>>
  BY DEF Fetch, git
<1>3. DirType' /\ RefsKnown'
  BY <1>2, Before DEF DirType, RefsKnown, Branches
<1>4. PICK f \in Frame : /\ call' = [call EXCEPT ![h] = f]
                         /\ f.at = "switch" /\ Differ(call[h], f, {"at"})
  BY <1>1, Before, GoesTo
<1>5. FrameFits(f)'
  BY <1>1, <1>2, <1>4, Before DEF FrameFits, Differ, Branches, RefsKnown, DirType
<1> QED BY <1>1, <1>3, <1>4, <1>5, GitInv DEF Differ

LEMMA SwitchInv ==
  ASSUME WInv, NEW h \in Callers, SwitchToMain(h), UNCHANGED <<origin, hooks, lock, image, change, crashes>>
  PROVE  WInv'
<1>1. call[h].at = "switch" /\ Goes(h, "reset") /\ "reset" \in Ats
  BY DEF SwitchToMain, Ats
<1>2. head' = "main" /\ UNCHANGED <<cloned, tracking, ref, dirt, staged>>
  BY DEF SwitchToMain, git
<1>3. DirType' /\ RefsKnown'
  BY <1>2, Before DEF DirType, RefsKnown, Branches
<1>4. PICK f \in Frame : /\ call' = [call EXCEPT ![h] = f]
                         /\ f.at = "reset" /\ Differ(call[h], f, {"at"})
  BY <1>1, Before, GoesTo
<1>5. FrameFits(f)'
  BY <1>1, <1>2, <1>4, Before DEF FrameFits, Differ, Branches, RefsKnown, DirType
<1> QED BY <1>1, <1>3, <1>4, <1>5, GitInv DEF Differ

LEMMA ResetInv ==
  ASSUME WInv, NEW h \in Callers, Reset(h), UNCHANGED <<origin, hooks, lock, image, change, crashes>>
  PROVE  WInv'
<1>1. call[h].at = "reset" /\ Goes(h, "pin") /\ "pin" \in Ats
  BY DEF Reset, Ats
<1>2. /\ ref' = [ref EXCEPT ![head] = Pushed(tracking)]
      /\ dirt' = dirt \cap New /\ staged' = {} /\ UNCHANGED <<cloned, tracking, head>>
  BY DEF Reset, git
<1>3. DirType' /\ RefsKnown'
  BY <1>2, Before DEF DirType, RefsKnown, Branches
<1>4. PICK f \in Frame : /\ call' = [call EXCEPT ![h] = f]
                         /\ f.at = "pin" /\ Differ(call[h], f, {"at"})
  BY <1>1, Before, GoesTo
<1>5. FrameFits(f)'
  BY <1>1, <1>2, <1>4, Before DEF FrameFits, Differ, Branches, RefsKnown, DirType
<1> QED BY <1>1, <1>3, <1>4, <1>5, GitInv DEF Differ

LEMMA PinInv ==
  ASSUME WInv, NEW h \in Callers, Pin(h), UNCHANGED <<origin, hooks, lock, image, change, crashes>>
  PROVE  WInv'
<1>1. call[h].at = "pin" /\ Goes(h, "resolve") /\ "resolve" \in Ats
  BY DEF Pin, Ats
<1>2. /\ call[h].pin <= tracking /\ UNCHANGED <<cloned, tracking, dirt, staged>>
      /\ IF call[h].pin = -1 THEN UNCHANGED <<head, ref>>
         ELSE head' = "detached" /\ ref' = [ref EXCEPT !["detached"] = Pushed(call[h].pin)]
  BY DEF Pin, git
<1>3. DirType' /\ RefsKnown'
  <2>1. CASE call[h].pin = -1
    BY <1>2, <2>1, Before DEF DirType, RefsKnown
  <2>2. CASE call[h].pin # -1
    <3>1. call[h].pin \in 0..tracking /\ call[h].pin \in 0..origin
      BY <1>2, <2>2, Before DEF Frame
    <3>2. /\ Pushed(call[h].pin) \in Commit /\ Pushed(call[h].pin) # NoCommit
          /\ Pushed(call[h].pin).base <= tracking
      BY <3>1, Before
    <3> QED BY <1>2, <2>2, <3>2, Before DEF DirType, RefsKnown, Branches
  <2> QED BY <2>1, <2>2
<1>4. PICK f \in Frame : /\ call' = [call EXCEPT ![h] = f]
                         /\ f.at = "resolve" /\ Differ(call[h], f, {"at"})
  BY <1>1, Before, GoesTo
<1>5. FrameFits(f)'
  BY <1>1, <1>2, <1>4, Before DEF FrameFits, Differ, Branches, RefsKnown, DirType
<1> QED BY <1>1, <1>3, <1>4, <1>5, GitInv DEF Differ

LEMMA ForceInv ==
  ASSUME WInv, NEW h \in Callers, ForceBranch(h), UNCHANGED <<origin, hooks, lock, image, change, crashes>>
  PROVE  WInv'
<1>1. call[h].at = "force" /\ Goes(h, "patch") /\ "patch" \in Ats
  BY DEF ForceBranch, Ats
<1>2. /\ head' = call[h].branch /\ ref' = [ref EXCEPT ![call[h].branch] = ref[head]]
      /\ UNCHANGED <<cloned, tracking, dirt, staged>>
  BY DEF ForceBranch, git
<1>3. DirType' /\ RefsKnown'
  <2>1. call[h].branch \in {"main", "chat"} /\ ref[head] # NoCommit /\ head \in Branches
    BY Before DEF Frame, DirType
  <2> QED BY <1>2, <2>1, Before DEF DirType, RefsKnown, Branches
<1>4. PICK f \in Frame : /\ call' = [call EXCEPT ![h] = f]
                         /\ f.at = "patch" /\ Differ(call[h], f, {"at"})
  BY <1>1, Before, GoesTo
<1>5. FrameFits(f)'
  BY <1>1, <1>2, <1>4, Before DEF FrameFits, Differ, Branches, RefsKnown, DirType
<1> QED BY <1>1, <1>3, <1>4, <1>5, GitInv DEF Differ

LEMMA PatchInv ==
  ASSUME WInv, NEW h \in Callers, Patch(h), UNCHANGED <<origin, hooks, lock, image, change, crashes>>
  PROVE  WInv'
<1>1. call[h].at = "patch" /\ Goes(h, "add") /\ "add" \in Ats
  BY DEF Patch, Ats
<1>2. dirt' = dirt \cup {call[h].change} /\ UNCHANGED <<cloned, tracking, ref, head, staged>>
  BY DEF Patch, git
<1>3. DirType' /\ RefsKnown'
  <2>1. call[h].change \in Changes
    BY <1>1, Before DEF FrameFits
  <2> QED BY <1>2, <2>1, Before DEF DirType, RefsKnown
<1>4. PICK f \in Frame : /\ call' = [call EXCEPT ![h] = f]
                         /\ f.at = "add" /\ Differ(call[h], f, {"at"})
  BY <1>1, Before, GoesTo
<1>5. FrameFits(f)'
  BY <1>1, <1>2, <1>4, Before DEF FrameFits, Differ, Branches, RefsKnown, DirType
<1> QED BY <1>1, <1>3, <1>4, <1>5, GitInv DEF Differ

LEMMA AddInv ==
  ASSUME WInv, NEW h \in Callers, Add(h), UNCHANGED <<origin, hooks, lock, image, change, crashes>>
  PROVE  WInv'
<1>1. call[h].at = "add" /\ Goes(h, "commit") /\ "commit" \in Ats
  BY DEF Add, Ats
<1>2. /\ staged' = staged \cup dirt /\ dirt' = {}
      /\ UNCHANGED <<cloned, tracking, ref, head>>
  BY DEF Add, git
<1>3. DirType' /\ RefsKnown'
  BY <1>2, Before DEF DirType, RefsKnown
<1>4. PICK f \in Frame : /\ call' = [call EXCEPT ![h] = f]
                         /\ f.at = "commit" /\ Differ(call[h], f, {"at"})
  BY <1>1, Before, GoesTo
<1>5. FrameFits(f)'
  BY <1>1, <1>2, <1>4, Before DEF FrameFits, Differ, Branches, RefsKnown, DirType
<1> QED BY <1>1, <1>3, <1>4, <1>5, GitInv DEF Differ

LEMMA CommitInv ==
  ASSUME WInv, NEW h \in Callers, CommitFiles(h), UNCHANGED <<origin, hooks, lock, image, change, crashes>>
  PROVE  WInv'
<1>1. call[h].at = "commit" /\ Goes(h, "save") /\ "save" \in Ats
  BY DEF CommitFiles, Ats
<1>2. /\ ref' = [ref EXCEPT ![head].changes = @ \cup staged] /\ staged' = {}
      /\ UNCHANGED <<cloned, tracking, head, dirt>>
  BY DEF CommitFiles, git
<1>3. DirType' /\ RefsKnown'
  <2> DEFINE c == [ref[head] EXCEPT !.changes = @ \cup staged]
  <2>1. c \in Commit /\ c.base = ref[head].base
    BY Before DEF Commit, DirType
  <2>2. ref' = [ref EXCEPT ![head] = c]
    BY <1>2
  <2> HIDE DEF c
  <2>3. /\ head \in Branches /\ c.base <= tracking /\ c # NoCommit
        /\ ref \in [Branches -> Commit \cup {NoCommit}]
    BY <2>1, Before DEF DirType
  <2>6. UNCHANGED <<cloned, tracking, head, dirt>> /\ staged' = {}
    BY <1>2
  <2>4. RefsKnown'
    BY <2>2, <2>3, <2>6, Before DEF RefsKnown, Branches
  <2>5. DirType'
    BY <2>1, <2>2, <2>3, <2>6, Before DEF DirType
  <2> QED BY <2>4, <2>5
<1>4. PICK f \in Frame : /\ call' = [call EXCEPT ![h] = f]
                         /\ f.at = "save" /\ Differ(call[h], f, {"at"})
  BY <1>1, Before, GoesTo
<1>5. FrameFits(f)'
  BY <1>1, <1>2, <1>4, Before DEF FrameFits, Differ, Branches, RefsKnown, DirType
<1> QED BY <1>1, <1>3, <1>4, <1>5, GitInv DEF Differ

\* checkout() is over: a code view ends, the others go on with what they resolved.
LEMMA ResolveInv ==
  ASSUME WInv, NEW h \in Callers, Resolve(h), UNCHANGED <<origin, hooks, lock, image, change, crashes>>
  PROVE  WInv'
<1> DEFINE c == call[h]
           to == After(c)
<1>1. c.at = "resolve" /\ c \in Frame /\ FrameFits(c) /\ c.op \in {"deploy", "preview", "apply", "view"}
  BY Before DEF Resolve, Frame
<1>2. UNCHANGED <<cloned, tracking, ref, head, dirt, staged>>
  BY DEF Resolve, git
<1>3. DirType' /\ RefsKnown'
  BY <1>2, Before DEF DirType, RefsKnown
<1>4. /\ c.op = "deploy" => to = "build"
      /\ c.op = "view" => to = "idle"
      /\ c.op = "preview" => to \in {"build", "branch"}
      /\ c.op = "apply" => to \in {"patch", "force"}
  BY DEF After
<1>5. CASE to = "idle"
  <2>1. call' = [call EXCEPT ![h] = NoCall]
    BY <1>5 DEF Resolve
  <2>2. NoCall \in Frame /\ NoCall.at = "idle" /\ NoCall.asked <= origin
    BY Constants, Before
  <2>3. FrameFits(NoCall)'
    BY <2>2 DEF FrameFits
  <2> QED BY <1>1, <1>3, <2>1, <2>2, <2>3, GitInv
<1>6. CASE to # "idle"
  <2> DEFINE f1 == [c EXCEPT !.sha = ref[head]]
             f2 == [f1 EXCEPT !.at = to]
  <2>1. call' = [call EXCEPT ![h] = f2]
    BY <1>6 DEF Resolve
  <2>2. ref[head] \in Commit /\ to \in Ats
    BY <1>1, <1>4, Before DEF DirType, Ats
  <2> HIDE DEF to
  <2>3. f1 \in Frame /\ f1.sha = ref[head] /\ Differ(c, f1, {"sha"})
    BY <1>1, <2>2, FieldSet
  <2> HIDE DEF f1
  <2>4. f2 \in Frame /\ f2.at = to /\ Differ(f1, f2, {"at"})
    BY <2>2, <2>3, FieldSet
  <2> HIDE DEF f2, c
  <2>f. PICK f \in Frame : f = f2
    BY <2>4
  <2>5. /\ f.op = c.op /\ f.pin = c.pin /\ f.asked = c.asked /\ f.change = c.change
        /\ f.sha = ref[head] /\ f.at = to
    BY <2>3, <2>4, <2>f DEF Differ
  <2>6. FrameFits(f)'
    BY <1>1, <1>2, <1>4, <2>5 DEF FrameFits
  <2>7. call[h].at # "idle" /\ f.op = call[h].op
    BY <1>1, <2>5 DEF c
  <2> QED BY <1>3, <2>1, <2>f, <2>6, <2>7, GitInv
<1> QED BY <1>5, <1>6

LEMMA BranchInv ==
  ASSUME WInv, NEW h \in Callers, SwitchToBranch(h),
         UNCHANGED <<origin, hooks, lock, image, change, crashes>>
  PROVE  WInv'
<1> DEFINE c == call[h]
           f1 == [c EXCEPT !.branch = "main"]
           f2 == [f1 EXCEPT !.at = "resolve"]
<1>1. c.at = "branch" /\ c \in Frame /\ FrameFits(c) /\ ref["chat"] # NoCommit
  BY Before DEF SwitchToBranch
<1>2. head' = "chat" /\ UNCHANGED <<cloned, tracking, ref, dirt, staged>>
  BY DEF SwitchToBranch
<1>3. DirType' /\ RefsKnown'
  BY <1>1, <1>2, Before DEF DirType, RefsKnown, Branches
<1>4. call' = [call EXCEPT ![h] = f2]
  BY DEF SwitchToBranch
<1>5. f1 \in Frame /\ Differ(c, f1, {"branch"})
  BY <1>1, FieldSet
<1> HIDE DEF f1
<1>6. f2 \in Frame /\ f2.at = "resolve" /\ Differ(f1, f2, {"at"})
  BY <1>5, FieldSet DEF Ats
<1> HIDE DEF f2, c
<1>f. PICK f \in Frame : f = f2
  BY <1>6
<1>7. f.op = c.op /\ f.asked = c.asked /\ f.change = c.change /\ f.at = "resolve"
  BY <1>5, <1>6, <1>f DEF Differ
<1>8. FrameFits(f)'
  BY <1>1, <1>2, <1>7 DEF FrameFits
<1>9. call[h].at # "idle" /\ f.op = call[h].op
  BY <1>1, <1>7 DEF c
<1> QED BY <1>3, <1>4, <1>f, <1>7, <1>8, <1>9, GitInv

\* A request ends with its row saved, its image built or an error.
LEMMA EndInv ==
  ASSUME WInv, NEW h \in Callers, Save(h) \/ Build(h) \/ Fails(h)
  PROVE  WInv'
<1>1. /\ call[h].at # "idle" /\ call' = [call EXCEPT ![h] = NoCall]
      /\ lock' = lock \/ lock' = IF lock = h THEN None ELSE lock
      /\ UNCHANGED <<origin, hooks, cloned, tracking, ref, head, dirt, staged, crashes>>
  BY DEF Save, Build, Fails, Ends, git
<1>2. /\ NoCall \in Frame /\ NoCall.at = "idle" /\ NoCall.asked <= origin
      /\ lock' \in Callers \cup {None}
  BY <1>1, Constants, Before DEF TypeOK
<1>3. DirType' /\ RefsKnown' /\ FrameFits(NoCall)'
  BY <1>1, <1>2, Before DEF DirType, RefsKnown, FrameFits
<1>4. change' \in [Changes -> {"proposed", "applied", "rejected"}]
  BY Before DEF Save, Build, Fails, TypeOK
<1>5. image' \in Image /\ (ImageIsItsCommit /\ DeploysPushed /\ DeploysLatest)'
  <2>1. CASE Save(h) \/ Fails(h)
    <3>1. image' = image
      BY <2>1 DEF Save, Fails
    <3> QED BY <3>1, Before DEF WInv, TypeOK, ImageIsItsCommit, DeploysPushed, DeploysLatest
  <2>2. CASE Build(h)
    <3> DEFINE c == call[h]
               newest == c.op = "deploy" /\ c.pin = -1
               files == [ref[head] EXCEPT !.changes = @ \cup staged \cup dirt]
               n == IF newest THEN c.asked ELSE 0
    <3>1. image' = [tag |-> c.sha, files |-> files, deployed |-> c.op = "deploy", latest |-> n]
      BY <2>2 DEF Build, Files
    <3>2. /\ c.at = "build" /\ c \in Frame /\ FrameFits(c)
          /\ dirt \subseteq New /\ staged = {} /\ c.sha = ref[head] /\ ref[head] \in Commit
          /\ dirt \subseteq Changes
      BY <2>2, Before DEF Build, FrameFits, DirType
    <3>3. /\ files \in Commit /\ files.base = ref[head].base
          /\ files.changes = ref[head].changes \cup dirt
      BY <3>2 DEF Commit
    <3>4. n \in 0..MaxPushes
      BY <3>2, Constants DEF Frame
    <3>5. newest => n <= ref[head].base
      BY <3>2, Before DEF FrameFits
    <3>6. ~newest => n <= ref[head].base
      BY <3>2, SMT DEF Commit
    <3>7. c.op = "deploy" => ref[head].changes = {}
      <4>1. CASE c.op = "deploy"
        <5>1. ref[head] = Pushed(IF c.pin = -1 THEN tracking ELSE c.pin)
          BY <3>2, <4>1 DEF FrameFits
        <5> QED BY <5>1 DEF Pushed
      <4> QED BY <4>1
    <3>8. c.sha \in Commit /\ (c.op = "deploy") \in BOOLEAN
      BY <3>2
    <3> HIDE DEF c, files, n
    <3>9. /\ image'.tag = ref[head] /\ image'.files = files /\ image'.latest = n
          /\ image'.deployed = (c.op = "deploy")
      BY <3>1, <3>2
    <3>10. image' \in Image
      BY <3>1, <3>3, <3>4, <3>8 DEF Image
    <3> QED BY <3>2, <3>3, <3>5, <3>6, <3>7, <3>9, <3>10
            DEF ImageIsItsCommit, DeploysPushed, DeploysLatest
  <2> QED BY <2>1, <2>2
<1> QED BY <1>1, <1>2, <1>3, <1>4, <1>5, StepInv

\* Every step keeps the invariant.
LEMMA StepsKeepWInv ==
  ASSUME Serial, WInv, [Next]_vars
  PROVE  WInv'
<1>1. CASE Push \/ Crash \/ \E c \in Changes : Reject(c)
  BY <1>1, OutsideInv
<1>2. ASSUME NEW h \in Callers, CallStep(h)
      PROVE  WInv'
  <2>1. CASE GitStep(h) /\ UNCHANGED <<origin, hooks, lock, image, change, crashes>>
    BY <2>1, LookInv, CloneInv, FetchInv, SwitchInv, ResetInv, PinInv, ResolveInv, BranchInv,
       ForceInv, PatchInv, AddInv, CommitInv DEF GitStep
  <2>2. CASE Save(h) \/ Build(h) \/ Fails(h)
    BY <2>2, EndInv
  <2> QED BY <1>2, <2>1, <2>2 DEF CallStep
<1>3. CASE UNCHANGED vars
  BY <1>3 DEF vars, git, WInv, TypeOK, RefsKnown, OneAtATime, DirKnown, FrameFits,
              ImageIsItsCommit, DeploysPushed, DeploysLatest
<1>4. ASSUME NEW h \in Callers,
             \/ \E pin \in -1..origin : Deploy(h, pin)
             \/ Webhook(h)
             \/ View(h)
             \/ \E b \in {"main", "chat"} : Preview(h, b)
             \/ \E c \in Changes, b \in Chat : Apply(h, c, b)
      PROVE  WInv'
  BY <1>4, RequestInv
<1> QED BY <1>1, <1>2, <1>3, <1>4 DEF Next

LEMMA WInvHolds == ASSUME Serial PROVE Spec => []WInv
  BY InitWInv, StepsKeepWInv, PTL DEF Spec

----------------------------------------------------------------------------
(* Theorems.                                                               *)

\* As long as only deployments overlap, every image holds the files of the commit
\* its tag names (but for new files of an interrupted approval), whatever failed
\* or crashed git commands left in the work directory (build_image, checkout).
THEOREM ImagesAreTheirCommits == ASSUME Serial PROVE Spec => []ImageIsItsCommit
<1>1. WInv => ImageIsItsCommit
  BY DEF WInv
<1> QED BY <1>1, WInvHolds, PTL

\* Nothing that was merely approved is deployed: reset --hard drops what the
\* branches and the index hold, for any sequence of approvals and failures.
THEOREM DeploymentsArePushed == ASSUME Serial PROVE Spec => []DeploysPushed
<1>1. WInv => DeploysPushed
  BY DEF WInv
<1> QED BY <1>1, WInvHolds, PTL

\* A deployment that names no commit holds every push that came before it was
\* asked for, also one whose own event is skipped (deploy_sync, checkout).
THEOREM DeploymentsAreLatest == ASSUME Serial PROVE Spec => []DeploysLatest
<1>1. WInv => DeploysLatest
  BY DEF WInv
<1> QED BY <1>1, WInvHolds, PTL
=============================================================================

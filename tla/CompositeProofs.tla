--------------------------- MODULE CompositeProofs ---------------------------
(***************************************************************************)
(* Proofs about composite deployments: that every row a restore can go     *)
(* back to was healthy, with everything that may happen; and that where    *)
(* deployments alone happen and only the frontend fails, both paths lead   *)
(* to live containers, one row of a component runs, and a restore brings   *)
(* back the image that served.                                             *)
(***************************************************************************)
EXTENDS MCCompositeDeploy, TLAPS

----------------------------------------------------------------------------
(* Rows and frames: what any step relies on.                               *)

\* Rows that were not inserted are empty, and no two pipelines have one row.
FreshRows == \A a \in Attempts, c \in Components : a > made => row[a][c] = Blank
OwnRows == \A g, h \in Callers : g # h /\ job[g].rec # 0 => job[g].rec # job[h].rec

\* Before its first container: the rows, if there are any, are as inserted.
BeforeRows(f) == f.at \in {"lock", "checkout"} =>
    /\ f.on = "backend" /\ f.failed = "none" /\ f.target = 0 /\ ~f.flip
    /\ \A c \in Components : f.endpoints[c] = 0
    /\ f.rec # 0 => \A c \in Components : /\ row[f.rec][c].status = "building"
                                          /\ row[f.rec][c].image = NoImage

\* In the loop over the components: the images of those to come are not named.
InLoop(f) == f.at \in {"build", "start"} =>
    /\ f.failed = "none" /\ f.target = 0 /\ ~f.flip
    /\ f.endpoints[f.on] = 0 /\ f.endpoints["frontend"] = 0
    /\ \A c \in Components : row[f.rec][c].status = "building"
    /\ row[f.rec][f.on].image = (IF f.at = "build" THEN NoImage ELSE f.image)
    /\ f.on = "backend" => row[f.rec]["frontend"].image = NoImage

\* After it: one component may have failed, and nothing else has a row closed.
AfterLoop(f) ==
    /\ f.at \in {"restore", "finish"} =>
          \A c \in Components : c # f.failed => row[f.rec][c].status = "building"
    /\ f.at = "restore" => /\ f.failed \in Components /\ f.endpoints[f.failed] = 0
                           /\ f.target = 0 /\ ~f.flip
    /\ f.at = "commit" => \A c \in Components : f.endpoints[c] # 0

\* What it started and went back to has been healthy.
StartedProven(f) ==
    /\ f.at \in {"build", "start", "restore", "finish", "commit"} =>
          /\ f.rec # 0 /\ f.image \in Images
          /\ \A c \in Components : f.endpoints[c] # 0 /\ c # f.failed =>
                row[f.rec][c].image = f.image /\ <<c, f.image>> \in proven
    /\ f.at \in {"finish", "commit", "settle"} =>
          /\ f.flip => f.target # 0
          /\ f.target # 0 => /\ f.failed \in Components
                             /\ f.target \in ReleasedAttempts(f.failed)

\* A rollback's group has its two images, and those it started were healthy.
GroupProven(f) ==
    /\ f.at \in {"rstart", "rproxy", "rinsert"} =>
          /\ f.target # 0
          /\ \A c \in Components :
                /\ row[f.target][c].image # NoImage
                /\ f.endpoints[c] # 0 => <<c, row[f.target][c].image>> \in proven
    /\ f.at \in {"rproxy", "rinsert"} => \A c \in Components : f.endpoints[c] # 0

FrameKnown(f) == /\ f.rec <= made /\ BeforeRows(f) /\ InLoop(f) /\ AfterLoop(f)
                 /\ StartedProven(f) /\ GroupProven(f)

IInv == /\ TypeOK /\ FreshRows /\ OwnRows /\ ReleasedProven
        /\ \A h \in Callers : FrameKnown(job[h])

----------------------------------------------------------------------------
(* Frames.                                                                 *)

Places == {"idle", "lock", "checkout", "build", "start", "restore", "finish",
           "commit", "settle", "unlock", "rstart", "rproxy", "rinsert", "rmark",
           "rmark2"}

\* Two frames differ in the fields of x only.
Differ(f, g, x) ==
    /\ "at" \notin x => g.at = f.at
    /\ "on" \notin x => g.on = f.on
    /\ "image" \notin x => g.image = f.image
    /\ "rec" \notin x => g.rec = f.rec
    /\ "endpoints" \notin x => g.endpoints = f.endpoints
    /\ "failed" \notin x => g.failed = f.failed
    /\ "target" \notin x => g.target = f.target
    /\ "flip" \notin x => g.flip = f.flip

\* A frame with one field changed is a frame.
LEMMA FieldSet ==
  ASSUME NEW f \in Job
  PROVE  /\ \A v \in Places :
               LET g == [f EXCEPT !.at = v] IN
               g \in Job /\ g.at = v /\ Differ(f, g, {"at"})
         /\ \A v \in Components :
               LET g == [f EXCEPT !.on = v] IN
               g \in Job /\ g.on = v /\ Differ(f, g, {"on"})
         /\ \A v \in Images \cup {NoImage} :
               LET g == [f EXCEPT !.image = v] IN
               g \in Job /\ g.image = v /\ Differ(f, g, {"image"})
         /\ \A v \in Attempts \cup {0} :
               LET g == [f EXCEPT !.rec = v] IN
               g \in Job /\ g.rec = v /\ Differ(f, g, {"rec"})
         /\ \A v \in [Components -> Ports \cup {0}] :
               LET g == [f EXCEPT !.endpoints = v] IN
               g \in Job /\ g.endpoints = v /\ Differ(f, g, {"endpoints"})
         /\ \A v \in Components \cup {"none"} :
               LET g == [f EXCEPT !.failed = v] IN
               g \in Job /\ g.failed = v /\ Differ(f, g, {"failed"})
         /\ \A v \in Attempts \cup {0} :
               LET g == [f EXCEPT !.target = v] IN
               g \in Job /\ g.target = v /\ Differ(f, g, {"target"})
         /\ \A v \in BOOLEAN :
               LET g == [f EXCEPT !.flip = v] IN
               g \in Job /\ g.flip = v /\ Differ(f, g, {"flip"})
<1>1. ASSUME NEW v \in Places
      PROVE  LET g == [f EXCEPT !.at = v] IN
             g \in Job /\ g.at = v /\ Differ(f, g, {"at"})
  BY DEF Job, Differ, Places
<1>2. ASSUME NEW v \in Components
      PROVE  LET g == [f EXCEPT !.on = v] IN
             g \in Job /\ g.on = v /\ Differ(f, g, {"on"})
  BY DEF Job, Differ
<1>3. ASSUME NEW v \in Images \cup {NoImage}
      PROVE  LET g == [f EXCEPT !.image = v] IN
             g \in Job /\ g.image = v /\ Differ(f, g, {"image"})
  BY DEF Job, Differ
<1>4. ASSUME NEW v \in Attempts \cup {0}
      PROVE  LET g == [f EXCEPT !.rec = v] IN
             g \in Job /\ g.rec = v /\ Differ(f, g, {"rec"})
  BY DEF Job, Differ
<1>5. ASSUME NEW v \in [Components -> Ports \cup {0}]
      PROVE  LET g == [f EXCEPT !.endpoints = v] IN
             g \in Job /\ g.endpoints = v /\ Differ(f, g, {"endpoints"})
  BY DEF Job, Differ
<1>6. ASSUME NEW v \in Components \cup {"none"}
      PROVE  LET g == [f EXCEPT !.failed = v] IN
             g \in Job /\ g.failed = v /\ Differ(f, g, {"failed"})
  BY DEF Job, Differ
<1>7. ASSUME NEW v \in Attempts \cup {0}
      PROVE  LET g == [f EXCEPT !.target = v] IN
             g \in Job /\ g.target = v /\ Differ(f, g, {"target"})
  BY DEF Job, Differ
<1>8. ASSUME NEW v \in BOOLEAN
      PROVE  LET g == [f EXCEPT !.flip = v] IN
             g \in Job /\ g.flip = v /\ Differ(f, g, {"flip"})
  BY DEF Job, Differ
<1> QED BY <1>1, <1>2, <1>3, <1>4, <1>5, <1>6, <1>7, <1>8

LEMMA Fields ==
  ASSUME NEW f \in Job
  PROVE  /\ f.at \in Places /\ f.on \in Components /\ f.image \in Images \cup {NoImage}
         /\ f.rec \in Attempts \cup {0} /\ f.endpoints \in [Components -> Ports \cup {0}]
         /\ f.failed \in Components \cup {"none"} /\ f.target \in Attempts \cup {0}
         /\ f.flip \in BOOLEAN
  BY DEF Job, Places

LEMMA NoJobType ==
  /\ NoJob \in Job /\ NoJob.at = "idle" /\ NoJob.on = "backend" /\ NoJob.rec = 0
  /\ NoJob.failed = "none" /\ NoJob.target = 0 /\ NoJob.flip = FALSE /\ NoJob.image = NoImage
  /\ \A c \in Components : NoJob.endpoints[c] = 0
<1>1. [c \in Components |-> 0] \in [Components -> Ports \cup {0}]
  OBVIOUS
<1> QED BY <1>1 DEF NoJob, Job, Components

LEMMA Numbers ==
  /\ MaxAttempts \in Nat /\ Attempts \subseteq Nat /\ 0 \notin Attempts /\ 0 \notin Ports
  /\ NoImage \notin Images /\ None \notin Callers /\ "none" \notin Components
  BY CompositeAssumption DEF Attempts, Ports, Components

----------------------------------------------------------------------------
(* The table.                                                              *)

Table == [Attempts -> [Components -> Row]]
Statuses == {"none", "building", "running", "failed", "stopped"}
Settled == {"stopped", "running"}

LEMMA TableRows ==
  ASSUME NEW rows \in Table, NEW a \in Attempts, NEW c \in Components
  PROVE  /\ rows[a] \in [Components -> Row] /\ rows[a][c] \in Row
         /\ rows[a][c].status \in Statuses /\ rows[a][c].image \in Images \cup {NoImage}
  BY DEF Table, Row, Statuses

\* One field of one row is set.
WithStatus(rows, r, c, s) == [rows EXCEPT ![r][c].status = s]

LEMMA StatusSet ==
  ASSUME NEW rows \in Table, NEW r \in Attempts, NEW c \in Components, NEW s \in Statuses
  PROVE  LET new == WithStatus(rows, r, c, s) IN
         /\ new \in Table
         /\ \A a \in Attempts, d \in Components :
               /\ new[a][d].image = rows[a][d].image
               /\ new[a][d].status = IF a = r /\ d = c THEN s ELSE rows[a][d].status
               /\ ~(a = r /\ d = c) => new[a][d] = rows[a][d]
<1> DEFINE cell == [rows[r][c] EXCEPT !.status = s]
           line == [rows[r] EXCEPT ![c] = cell]
           new == [rows EXCEPT ![r] = line]
<1>1. cell \in Row /\ cell.status = s /\ cell.image = rows[r][c].image
  BY TableRows DEF Row, Statuses
<1> HIDE DEF cell
<1>2. line \in [Components -> Row] /\ line[c] = cell /\ \A d \in Components \ {c} : line[d] = rows[r][d]
  BY <1>1, TableRows
<1> HIDE DEF line
<1>3. new \in Table /\ new[r] = line /\ \A a \in Attempts \ {r} : new[a] = rows[a]
  BY <1>2 DEF Table
<1>4. new = WithStatus(rows, r, c, s)
  BY DEF line, cell, WithStatus
<1> HIDE DEF new
<1>5. \A a \in Attempts, d \in Components :
         /\ new[a][d].image = rows[a][d].image
         /\ new[a][d].status = IF a = r /\ d = c THEN s ELSE rows[a][d].status
         /\ ~(a = r /\ d = c) => new[a][d] = rows[a][d]
  BY <1>1, <1>2, <1>3
<1> QED BY <1>3, <1>4, <1>5

WithImage(rows, r, c, i) == [rows EXCEPT ![r][c].image = i]

LEMMA ImageSet ==
  ASSUME NEW rows \in Table, NEW r \in Attempts, NEW c \in Components, NEW i \in Images
  PROVE  LET new == WithImage(rows, r, c, i) IN
         /\ new \in Table
         /\ new[r][c].image = i /\ new[r][c].status = rows[r][c].status
         /\ \A a \in Attempts, d \in Components : ~(a = r /\ d = c) => new[a][d] = rows[a][d]
<1> DEFINE cell == [rows[r][c] EXCEPT !.image = i]
           line == [rows[r] EXCEPT ![c] = cell]
           new == [rows EXCEPT ![r] = line]
<1>1. cell \in Row /\ cell.image = i /\ cell.status = rows[r][c].status
  BY TableRows DEF Row
<1> HIDE DEF cell
<1>2. line \in [Components -> Row] /\ line[c] = cell /\ \A d \in Components \ {c} : line[d] = rows[r][d]
  BY <1>1, TableRows
<1> HIDE DEF line
<1>3. new \in Table /\ new[r] = line /\ \A a \in Attempts \ {r} : new[a] = rows[a]
  BY <1>2 DEF Table
<1>4. new = WithImage(rows, r, c, i)
  BY DEF line, cell, WithImage
<1> HIDE DEF new
<1> QED BY <1>1, <1>2, <1>3, <1>4

\* _mark_previous_stopped.
LEMMA MarkedTable ==
  ASSUME NEW rows \in Table, NEW r \in Attempts \cup {0}, NEW c \in Components
  PROVE  /\ Marked(rows, r, c) \in Table
         /\ \A a \in Attempts, d \in Components :
               /\ Marked(rows, r, c)[a][d].image = rows[a][d].image
               /\ Marked(rows, r, c)[a][d].status =
                     IF a # r /\ d = c /\ rows[a][d].status = "running" THEN "stopped"
                     ELSE rows[a][d].status
               /\ ~(a # r /\ d = c /\ rows[a][d].status = "running") =>
                     Marked(rows, r, c)[a][d] = rows[a][d]
<1> DEFINE stop(a) == a # r /\ rows[a][c].status = "running"
           new == [a \in Attempts |-> IF stop(a) THEN [rows[a] EXCEPT ![c].status = "stopped"]
                                      ELSE rows[a]]
<1>1. ASSUME NEW a \in Attempts
      PROVE  LET line == [rows[a] EXCEPT ![c].status = "stopped"] IN
             /\ line \in [Components -> Row]
             /\ line[c].status = "stopped" /\ line[c].image = rows[a][c].image
             /\ \A d \in Components \ {c} : line[d] = rows[a][d]
  <2> DEFINE cell == [rows[a][c] EXCEPT !.status = "stopped"]
             line == [rows[a] EXCEPT ![c] = cell]
  <2>1. cell \in Row /\ cell.status = "stopped" /\ cell.image = rows[a][c].image
    BY TableRows DEF Row
  <2> HIDE DEF cell
  <2>2. line \in [Components -> Row] /\ line[c] = cell /\ \A d \in Components \ {c} : line[d] = rows[a][d]
    BY <2>1, TableRows
  <2>3. line = [rows[a] EXCEPT ![c].status = "stopped"]
    BY DEF cell
  <2> HIDE DEF line
  <2> QED BY <2>1, <2>2, <2>3
<1>2. Marked(rows, r, c) = new
  BY DEF Marked
<1>3. new \in Table
  BY <1>1, TableRows DEF Table
<1>4. ASSUME NEW a \in Attempts, NEW d \in Components
      PROVE  /\ new[a][d].image = rows[a][d].image
             /\ new[a][d].status = IF stop(a) /\ d = c THEN "stopped" ELSE rows[a][d].status
             /\ ~(stop(a) /\ d = c) => new[a][d] = rows[a][d]
  <2>1. CASE stop(a)
    BY <1>1, <2>1
  <2>2. CASE ~stop(a)
    BY <2>2
  <2> QED BY <2>1, <2>2
<1> HIDE DEF new
<1>5. ASSUME NEW a \in Attempts, NEW d \in Components
      PROVE  (stop(a) /\ d = c) <=> (a # r /\ d = c /\ rows[a][d].status = "running")
  OBVIOUS
<1> QED BY <1>2, <1>3, <1>4, <1>5

\* What a step may do to the table and to what is proven: images are named once,
\* what ran stays released, and a building row is its own pipeline's, r's.
Grows(r) ==
    /\ row' \in Table /\ made' \in Nat /\ made <= made' /\ made' <= MaxAttempts
    /\ proven \subseteq proven' /\ proven' \subseteq Components \X Images
    /\ FreshRows'
    /\ \A a \in Attempts, c \in Components :
          /\ row[a][c].image # NoImage => row'[a][c].image = row[a][c].image
          /\ row[a][c].status \in Settled => row'[a][c].status \in Settled
          /\ a # r /\ a <= made /\ row[a][c].status = "building" => row'[a][c] = row[a][c]

LEMMA InvTable ==
  ASSUME IInv
  PROVE  /\ row \in Table /\ made \in Nat /\ made <= MaxAttempts
         /\ proven \subseteq Components \X Images /\ job \in [Callers -> Job]
         /\ live \in [Components -> Container] /\ route \in [Components -> Ports \cup {0}]
         /\ \A h \in Callers : FrameKnown(job[h]) /\ job[h] \in Job
  BY Numbers DEF IInv, TypeOK, Table

LEMMA SameTable ==
  ASSUME IInv, NEW r, UNCHANGED <<row, made, proven>>
  PROVE  Grows(r) /\ ReleasedProven'
<1>1. FreshRows'
  BY DEF IInv, FreshRows
<1>2. ReleasedProven'
  BY DEF IInv, ReleasedProven, ReleasedAttempts
<1> QED BY <1>1, <1>2, InvTable DEF Grows

\* A container more has been healthy.
LEMMA MoreProven ==
  ASSUME IInv, NEW r, UNCHANGED <<row, made>>, NEW c \in Components, NEW i \in Images,
         proven' = proven \cup {<<c, i>>}
  PROVE  Grows(r) /\ ReleasedProven'
<1>1. FreshRows'
  BY DEF IInv, FreshRows
<1>2. ReleasedProven'
  BY DEF IInv, ReleasedProven, ReleasedAttempts
<1> QED BY <1>1, <1>2, InvTable DEF Grows

\* Only statuses change, to what a step of the pipeline of row r may make of them.
LEMMA StatusStep ==
  ASSUME IInv, NEW r, row' \in Table, UNCHANGED <<made, proven>>,
         \A a \in Attempts, c \in Components :
            /\ row'[a][c].image = row[a][c].image
            /\ row'[a][c] = row[a][c] \/
                  /\ a <= made
                  /\ row[a][c].status \in Settled => row'[a][c].status \in Settled
                  /\ row[a][c].status = "building" => a = r
                  /\ row'[a][c].status \in Settled =>
                        row[a][c].status \in Settled \/ <<c, row[a][c].image>> \in proven
  PROVE  Grows(r) /\ ReleasedProven'
<1>1. FreshRows'
  <2> SUFFICES ASSUME NEW a \in Attempts, NEW c \in Components, a > made
               PROVE  row'[a][c] = Blank
    BY DEF FreshRows
  <2>1. ~(a <= made)
    BY Numbers, InvTable
  <2> QED BY <2>1 DEF IInv, FreshRows
<1>2. ReleasedProven'
  BY DEF IInv, ReleasedProven, ReleasedAttempts, Settled
<1>3. \A a \in Attempts, c \in Components :
          /\ row[a][c].image # NoImage => row'[a][c].image = row[a][c].image
          /\ row[a][c].status \in Settled => row'[a][c].status \in Settled
          /\ a # r /\ a <= made /\ row[a][c].status = "building" => row'[a][c] = row[a][c]
  OBVIOUS
<1> QED BY <1>1, <1>2, <1>3, InvTable DEF Grows

\* The rows of a new attempt.
LEMMA Inserted ==
  ASSUME IInv, NEW status \in {"building", "running"}, NEW images \in [Components -> Images \cup {NoImage}],
         status = "running" => \A c \in Components : <<c, images[c]>> \in proven,
         InsertRows(status, images), UNCHANGED proven
  PROVE  /\ Grows(made + 1) /\ ReleasedProven'
         /\ made' = made + 1 /\ made + 1 \in Attempts
         /\ \A c \in Components : /\ row'[made + 1][c].status = status
                                  /\ row'[made + 1][c].image = images[c]
         /\ \A a \in Attempts : a # made + 1 => row'[a] = row[a]
<1> DEFINE new == [c \in Components |-> [status |-> status, image |-> images[c]]]
<1>1. new \in [Components -> Row] /\ \A c \in Components : new[c].status = status /\ new[c].image = images[c]
  BY DEF Row
<1>2. /\ made' = made + 1 /\ made + 1 \in Attempts /\ made \in Nat /\ made + 1 <= MaxAttempts
      /\ row' = [row EXCEPT ![made + 1] = new]
  BY Numbers, InvTable DEF InsertRows, Attempts
<1> HIDE DEF new
<1>3. row' \in Table /\ row'[made + 1] = new /\ \A a \in Attempts : a # made + 1 => row'[a] = row[a]
  BY <1>1, <1>2, InvTable DEF Table
<1>4. FreshRows'
  <2> SUFFICES ASSUME NEW a \in Attempts, NEW c \in Components, a > made'
               PROVE  row'[a][c] = Blank
    BY DEF FreshRows
  <2>1. a > made /\ a # made + 1
    BY <1>2, Numbers
  <2> QED BY <1>3, <2>1 DEF IInv, FreshRows
<1>5. \A c \in Components : row[made + 1][c].status = "none" /\ row[made + 1][c].image = NoImage
  BY <1>2 DEF IInv, FreshRows, Blank
<1>6. \A a \in Attempts, c \in Components :
          /\ row[a][c].image # NoImage => row'[a][c].image = row[a][c].image
          /\ row[a][c].status \in Settled => row'[a][c].status \in Settled
          /\ a # made + 1 /\ a <= made /\ row[a][c].status = "building" => row'[a][c] = row[a][c]
  BY <1>3, <1>5 DEF Settled
<1>7. ReleasedProven'
  <2> SUFFICES ASSUME NEW a \in Attempts, NEW c \in Components, (a \in ReleasedAttempts(c))'
               PROVE  <<c, row'[a][c].image>> \in proven
    BY DEF ReleasedProven
  <2>1. CASE a = made + 1
    BY <1>1, <1>3, <2>1 DEF ReleasedAttempts
  <2>2. CASE a # made + 1
    BY <1>3, <2>2 DEF IInv, ReleasedProven, ReleasedAttempts
  <2> QED BY <2>1, <2>2
<1>8. made <= made' /\ made' <= MaxAttempts /\ made' \in Nat
  BY <1>2
<1>9. Grows(made + 1)
  BY <1>3, <1>4, <1>6, <1>8, InvTable DEF Grows
<1> QED BY <1>1, <1>2, <1>3, <1>7, <1>9

----------------------------------------------------------------------------
(* What a step of one pipeline leaves to the others.                       *)

LEMMA OthersKnown ==
  ASSUME IInv, NEW r, Grows(r), NEW f \in Job, FrameKnown(f), f.rec # 0 => f.rec # r
  PROVE  FrameKnown(f)'
<1>1. f.rec \in Attempts \cup {0} /\ f.target \in Attempts \cup {0} /\ f.on \in Components
  BY Fields
<1>2. f.rec <= made'
  <2>1. f.rec <= made
    BY DEF FrameKnown
  <2>2. f.rec \in Nat /\ made \in Nat /\ made' \in Nat /\ made <= made'
    <3>1. f.rec \in Nat
      BY <1>1, CompositeAssumption DEF Attempts
    <3> QED BY <3>1, InvTable DEF Grows
  <2> QED BY <2>1, <2>2
<1>3. f.rec # 0 => /\ f.rec \in Attempts
                   /\ \A c \in Components : row[f.rec][c].status = "building" =>
                                                row'[f.rec][c] = row[f.rec][c]
  BY <1>1 DEF FrameKnown, Grows
<1>4. \A a \in Attempts, c \in Components, i \in Images :
         row[a][c].image = i => row'[a][c].image = i
  BY Numbers DEF Grows
<1>5. (BeforeRows(f) /\ InLoop(f) /\ AfterLoop(f))'
  <2>1. BeforeRows(f)'
    BY <1>3 DEF FrameKnown, BeforeRows
  <2>2. InLoop(f)'
    <3>1. CASE f.at \in {"build", "start"}
      <4>1. f.rec # 0 /\ "frontend" \in Components
        BY <3>1 DEF FrameKnown, StartedProven, Components
      <4>2. \A c \in Components : row'[f.rec][c] = row[f.rec][c]
        BY <1>3, <3>1, <4>1 DEF FrameKnown, InLoop
      <4> QED BY <1>1, <4>1, <4>2 DEF FrameKnown, InLoop
    <3> QED BY <3>1 DEF InLoop
  <2>3. AfterLoop(f)'
    <3>1. CASE f.at \in {"restore", "finish"}
      <4>1. f.rec # 0
        BY <3>1 DEF FrameKnown, StartedProven
      <4> QED BY <1>3, <3>1, <4>1 DEF FrameKnown, AfterLoop
    <3>2. CASE f.at \notin {"restore", "finish"}
      BY <3>2 DEF FrameKnown, AfterLoop
    <3> QED BY <3>1, <3>2
  <2> QED BY <2>1, <2>2, <2>3
<1>6. StartedProven(f)'
  <2>1. ASSUME f.at \in {"build", "start", "restore", "finish", "commit"}
        PROVE  /\ f.rec # 0 /\ f.image \in Images
               /\ \A c \in Components : f.endpoints[c] # 0 /\ c # f.failed =>
                     row'[f.rec][c].image = f.image /\ <<c, f.image>> \in proven'
    BY <1>3, <1>4, <2>1 DEF FrameKnown, StartedProven, Grows
  <2>2. ASSUME f.at \in {"finish", "commit", "settle"}
        PROVE  /\ f.flip => f.target # 0
               /\ f.target # 0 => /\ f.failed \in Components
                                  /\ (f.target \in ReleasedAttempts(f.failed))'
    <3>1. CASE f.target # 0
      <4>1. f.failed \in Components /\ f.target \in ReleasedAttempts(f.failed)
        BY <2>2, <3>1 DEF FrameKnown, StartedProven
      <4>2. (f.target \in ReleasedAttempts(f.failed))'
        BY <4>1 DEF Grows, ReleasedAttempts, Settled
      <4> QED BY <3>1, <4>1, <4>2
    <3>2. CASE f.target = 0
      BY <2>2, <3>2 DEF FrameKnown, StartedProven
    <3> QED BY <3>1, <3>2
  <2> QED BY <2>1, <2>2 DEF StartedProven
<1>7. GroupProven(f)'
  <2>1. ASSUME f.at \in {"rstart", "rproxy", "rinsert"}, NEW c \in Components
        PROVE  /\ f.target # 0 /\ row'[f.target][c].image # NoImage
               /\ f.endpoints[c] # 0 => <<c, row'[f.target][c].image>> \in proven'
    BY <1>1, <2>1 DEF FrameKnown, GroupProven, Grows
  <2>2. f.at \in {"rproxy", "rinsert"} => \A c \in Components : f.endpoints[c] # 0
    BY DEF FrameKnown, GroupProven
  <2>3. f.at \in {"rstart", "rproxy", "rinsert"} => f.target # 0
    BY DEF FrameKnown, GroupProven
  <2> QED BY <2>1, <2>2, <2>3 DEF GroupProven
<1> QED BY <1>2, <1>5, <1>6, <1>7 DEF FrameKnown

LEMMA StepInv ==
  ASSUME IInv, NEW h \in Callers, NEW r, r = job[h].rec \/ r = made + 1,
         NEW f \in Job, f.rec \in {0, r}, job' = [job EXCEPT ![h] = f],
         Grows(r), ReleasedProven', FrameKnown(f)',
         lock' \in Callers \cup {None}, live' \in [Components -> Container],
         route' \in [Components -> Ports \cup {0}],
         issued' \in 0..MaxAttempts, crashes' \in 0..MaxCrashes
  PROVE  IInv'
<1>1. /\ job' \in [Callers -> Job] /\ job'[h] = f
      /\ \A g \in Callers \ {h} : job'[g] = job[g]
  BY InvTable
<1>2. TypeOK'
  BY <1>1, Numbers DEF TypeOK, Grows, Table
<1>3. \A g \in Callers \ {h} : job[g].rec # 0 => job[g].rec # r
  <2>1. ASSUME NEW g \in Callers \ {h}, job[g].rec # 0, r = made + 1
        PROVE  job[g].rec # r
    <3>1. job[g].rec <= made /\ made \in Nat /\ job[g].rec \in Nat
      BY <2>1, InvTable, Fields, Numbers DEF FrameKnown
    <3> QED BY <2>1, <3>1
  <2>2. ASSUME NEW g \in Callers \ {h}, job[g].rec # 0, r = job[h].rec
        PROVE  job[g].rec # r
    BY <2>2 DEF IInv, OwnRows
  <2> QED BY <2>1, <2>2
<1>4. OwnRows'
  BY <1>1, <1>3 DEF IInv, OwnRows
<1>5. ASSUME NEW g \in Callers PROVE FrameKnown(job[g])'
  <2>1. CASE g = h
    BY <1>1, <2>1 DEF FrameKnown, BeforeRows, InLoop, AfterLoop, StartedProven, GroupProven
  <2>2. CASE g # h
    <3>1. PICK k \in Job : k = job[g] /\ k = job'[g]
      BY <1>1, <2>2, InvTable
    <3>2. FrameKnown(k) /\ (k.rec # 0 => k.rec # r)
      BY <1>3, <2>2, <3>1, InvTable DEF IInv
    <3>3. FrameKnown(k)'
      BY <3>2, OthersKnown
    <3> QED BY <3>1, <3>3 DEF FrameKnown, BeforeRows, InLoop, AfterLoop, StartedProven, GroupProven
  <2> QED BY <2>1, <2>2
<1> QED BY <1>2, <1>4, <1>5 DEF IInv, Grows

----------------------------------------------------------------------------
(* Steps of a deployment.                                                  *)

LEMMA GoesTo ==
  ASSUME IInv, NEW h \in Callers, NEW to \in Places, Goes(h, to)
  PROVE  \E f \in Job : /\ job' = [job EXCEPT ![h] = f]
                        /\ f.at = to /\ Differ(job[h], f, {"at"})
<1> DEFINE f == [job[h] EXCEPT !.at = to]
<1>1. f \in Job /\ f.at = to /\ Differ(job[h], f, {"at"})
  BY FieldSet, InvTable
<1>2. job' = [job EXCEPT ![h] = f]
  BY DEF Goes
<1> HIDE DEF f
<1> QED BY <1>1, <1>2

\* The other variables of TypeOK.
Others == /\ lock \in Callers \cup {None} /\ live \in [Components -> Container]
          /\ route \in [Components -> Ports \cup {0}]
          /\ issued \in 0..MaxAttempts /\ crashes \in 0..MaxCrashes

LEMMA InvOthers == IInv => Others
  BY DEF IInv, TypeOK, Others

\* A step that changes neither rows nor what is proven.
LEMMA QuietStep ==
  ASSUME IInv, NEW h \in Callers, NEW f \in Job, f.rec = 0 \/ f.rec = job[h].rec,
         job' = [job EXCEPT ![h] = f], UNCHANGED <<row, made, proven>>,
         FrameKnown(f), Others'
  PROVE  IInv'
<1>1. Grows(job[h].rec) /\ ReleasedProven'
  BY SameTable
<1>2. FrameKnown(f)'
  BY DEF FrameKnown, BeforeRows, InLoop, AfterLoop, StartedProven, GroupProven, ReleasedAttempts
<1> QED BY <1>1, <1>2, StepInv DEF Others

LEMMA NoJobKnown == ASSUME IInv PROVE FrameKnown(NoJob)
<1>1. NoJob.rec <= made
  BY NoJobType, InvTable
<1> QED BY <1>1, NoJobType
        DEF FrameKnown, BeforeRows, InLoop, AfterLoop, StartedProven, GroupProven

\* Requests.
LEMMA DeployRequestInv ==
  ASSUME IInv, NEW h \in Callers, DeployRequest(h) PROVE IInv'
<1> DEFINE f == [NoJob EXCEPT !.at = "lock"]
<1>1. f \in Job /\ f.at = "lock" /\ Differ(NoJob, f, {"at"})
  BY FieldSet, NoJobType DEF Places
<1>2. job' = [job EXCEPT ![h] = f] /\ UNCHANGED <<row, made, proven>>
  BY DEF DeployRequest
<1> HIDE DEF f
<1>3. f.rec = 0 /\ FrameKnown(f)
  BY <1>1, NoJobType, InvTable
     DEF Differ, FrameKnown, BeforeRows, InLoop, AfterLoop, StartedProven, GroupProven
<1>4. Others'
  BY InvOthers, Numbers DEF DeployRequest, Others
<1>5. PICK k \in Job : k = f
  BY <1>1
<1>6. k.rec = 0 /\ FrameKnown(k) /\ job' = [job EXCEPT ![h] = k]
  BY <1>2, <1>3, <1>5
<1> QED BY <1>2, <1>4, <1>6, QuietStep

LEMMA QueueRequestInv ==
  ASSUME IInv, NEW h \in Callers, QueueRequest(h) PROVE IInv'
<1> DEFINE f1 == [NoJob EXCEPT !.at = "lock"]
           f2 == [f1 EXCEPT !.rec = made + 1]
           none == [c \in Components |-> NoImage]
<1>0. none \in [Components -> Images \cup {NoImage}] /\ \A c \in Components : none[c] = NoImage
  OBVIOUS
<1>i. InsertRows("building", none) /\ UNCHANGED proven
  BY DEF QueueRequest
<1> HIDE DEF none
<1>1. f1 \in Job /\ f1.at = "lock" /\ Differ(NoJob, f1, {"at"})
  BY FieldSet, NoJobType DEF Places
<1>2. job' = [job EXCEPT ![h] = f2]
  BY DEF QueueRequest
<1>3. /\ Grows(made + 1) /\ ReleasedProven' /\ made' = made + 1 /\ made + 1 \in Attempts
      /\ \A c \in Components : /\ row'[made + 1][c].status = "building"
                               /\ row'[made + 1][c].image = NoImage
  BY <1>0, <1>i, Inserted
<1> HIDE DEF f1
<1>4. f2 \in Job /\ f2.rec = made + 1 /\ Differ(f1, f2, {"rec"})
  BY <1>1, <1>3, FieldSet
<1> HIDE DEF f2
<1>5. PICK k \in Job : k = f2
  BY <1>4
<1>6. /\ k.rec = made + 1 /\ k.at = "lock" /\ k.on = "backend" /\ k.failed = "none"
      /\ k.target = 0 /\ k.flip = FALSE /\ \A c \in Components : k.endpoints[c] = 0
  BY <1>1, <1>4, <1>5, NoJobType DEF Differ
<1>7. FrameKnown(k)'
  <2>1. k.rec <= made'
    BY <1>3, <1>6, InvTable
  <2> QED BY <1>3, <1>6, <2>1
          DEF FrameKnown, BeforeRows, InLoop, AfterLoop, StartedProven, GroupProven
<1>8. Others'
  BY InvOthers, Numbers DEF QueueRequest, Others
<1>9. k.rec \in {0, made + 1} /\ job' = [job EXCEPT ![h] = k]
  BY <1>2, <1>5, <1>6
<1> QED BY <1>3, <1>7, <1>8, <1>9, StepInv DEF Others

\* t is a complete group: nobody is going to name an image in it.
LEMMA RollbackRequestInv ==
  ASSUME IInv, NEW h \in Callers, NEW t \in Attempts, NEW c \in Components,
         RollbackRequest(h, t, c)
  PROVE  IInv'
<1> DEFINE f1 == [NoJob EXCEPT !.at = "rstart"]
           f2 == [f1 EXCEPT !.on = c]
           f3 == [f2 EXCEPT !.target = t]
<1>0. /\ UNCHANGED <<row, made, proven>>
      /\ t \in Groups
  BY DEF RollbackRequest, GroupTargets
<1>1. job' = [job EXCEPT ![h] = f3]
  BY DEF RollbackRequest
<1>2. f1 \in Job /\ f1.at = "rstart" /\ Differ(NoJob, f1, {"at"})
  BY FieldSet, NoJobType DEF Places
<1> HIDE DEF f1
<1>3. f2 \in Job /\ f2.on = c /\ Differ(f1, f2, {"on"})
  BY <1>2, FieldSet
<1> HIDE DEF f2
<1>4. f3 \in Job /\ f3.target = t /\ Differ(f2, f3, {"target"})
  BY <1>3, FieldSet
<1> HIDE DEF f3
<1>5. PICK k \in Job : k = f3
  BY <1>4
<1>6. /\ k.rec = 0 /\ k.at = "rstart" /\ k.target = t
      /\ \A d \in Components : k.endpoints[d] = 0
  BY <1>2, <1>3, <1>4, <1>5, NoJobType DEF Differ
<1>7. FrameKnown(k)
  BY <1>0, <1>6, InvTable, Numbers
     DEF Groups, FrameKnown, BeforeRows, InLoop, AfterLoop, StartedProven, GroupProven
<1>8. Others'
  BY InvOthers, Numbers DEF RollbackRequest, Others
<1>9. job' = [job EXCEPT ![h] = k]
  BY <1>1, <1>5
<1> QED BY <1>0, <1>6, <1>7, <1>8, <1>9, QuietStep

\* Steps that only go on.
LEMMA GoesOnInv ==
  ASSUME IInv, NEW h \in Callers,
         Acquire(h) \/ Escape(h) \/ NothingToRestore(h) \/ RollbackConfigure(h)
  PROVE  IInv'
<1>0. UNCHANGED <<row, made, proven>> /\ Others'
  <2>1. RollbackConfigure(h) => route' \in [Components -> Ports \cup {0}]
    BY InvTable, Fields DEF RollbackConfigure
  <2> QED BY <2>1, InvOthers DEF Acquire, Escape, NothingToRestore, RollbackConfigure, Others
<1> DEFINE c == job[h]
<1>c. c \in Job /\ FrameKnown(c)
  BY InvTable
<1>1. CASE Acquire(h)
  <2>1. c.at = "lock" /\ Goes(h, "checkout")
    BY <1>1 DEF Acquire
  <2>2. PICK f \in Job : /\ job' = [job EXCEPT ![h] = f]
                         /\ f.at = "checkout" /\ Differ(c, f, {"at"})
    BY <2>1, GoesTo DEF Places
  <2>3. FrameKnown(f)
    BY <1>c, <2>1, <2>2 DEF Differ, FrameKnown, BeforeRows, InLoop, AfterLoop, StartedProven, GroupProven
  <2> QED BY <1>0, <2>2, <2>3, QuietStep DEF Differ
<1>2. CASE Escape(h)
  <2>1. Goes(h, "unlock")
    BY <1>2 DEF Escape
  <2>2. PICK f \in Job : /\ job' = [job EXCEPT ![h] = f]
                         /\ f.at = "unlock" /\ Differ(c, f, {"at"})
    BY <2>1, GoesTo DEF Places
  <2>3. FrameKnown(f)
    BY <1>c, <2>2 DEF Differ, FrameKnown, BeforeRows, InLoop, AfterLoop, StartedProven, GroupProven
  <2> QED BY <1>0, <2>2, <2>3, QuietStep DEF Differ
<1>3. CASE NothingToRestore(h)
  <2>1. c.at = "restore" /\ Goes(h, "finish")
    BY <1>3 DEF NothingToRestore
  <2>2. PICK f \in Job : /\ job' = [job EXCEPT ![h] = f]
                         /\ f.at = "finish" /\ Differ(c, f, {"at"})
    BY <2>1, GoesTo DEF Places
  <2>3. FrameKnown(f)
    BY <1>c, <2>1, <2>2 DEF Differ, FrameKnown, BeforeRows, InLoop, AfterLoop, StartedProven, GroupProven
  <2> QED BY <1>0, <2>2, <2>3, QuietStep DEF Differ
<1>4. CASE RollbackConfigure(h)
  <2>1. c.at = "rproxy" /\ Goes(h, "rinsert")
    BY <1>4 DEF RollbackConfigure
  <2>2. PICK f \in Job : /\ job' = [job EXCEPT ![h] = f]
                         /\ f.at = "rinsert" /\ Differ(c, f, {"at"})
    BY <2>1, GoesTo DEF Places
  <2>3. FrameKnown(f)
    BY <1>c, <2>1, <2>2 DEF Differ, FrameKnown, BeforeRows, InLoop, AfterLoop, StartedProven, GroupProven
  <2> QED BY <1>0, <2>2, <2>3, QuietStep DEF Differ
<1> QED BY <1>1, <1>2, <1>3, <1>4

LEMMA EndsInv ==
  ASSUME IInv, NEW h \in Callers, Unlock(h) \/ RollbackFails(h)
  PROVE  IInv'
<1>1. /\ job' = [job EXCEPT ![h] = NoJob] /\ UNCHANGED <<row, made, proven>> /\ Others'
  BY InvOthers DEF Unlock, RollbackFails, Others
<1> QED BY <1>1, NoJobType, NoJobKnown, QuietStep

\* Refused: the queued rows are closed.
LEMMA BusyInv ==
  ASSUME IInv, NEW h \in Callers, Busy(h)
  PROVE  IInv'
<1> DEFINE r == job[h].rec
           new == [c \in Components |-> [row[r][c] EXCEPT !.status = "failed"]]
<1>1. r \in Attempts \cup {0} /\ FrameKnown(job[h]) /\ job[h].at = "lock" /\ r <= made
  BY InvTable, Fields DEF Busy, FrameKnown
<1>2. job' = [job EXCEPT ![h] = NoJob] /\ UNCHANGED <<made, proven>> /\ Others'
  BY InvOthers DEF Busy, Others
<1>3. Grows(r) /\ ReleasedProven'
  <2>1. CASE r = 0
    <3>1. row' = row
      BY <2>1 DEF Busy
    <3> QED BY <1>2, <3>1, SameTable
  <2>2. CASE r # 0
    <3>1. row' = [row EXCEPT ![r] = new]
      BY <2>2 DEF Busy
    <3>2. \A c \in Components : row[r][c].status = "building"
      BY <1>1, <2>2 DEF FrameKnown, BeforeRows
    <3>3. ASSUME NEW c \in Components
          PROVE  new[c] \in Row /\ new[c].status = "failed" /\ new[c].image = row[r][c].image
      BY <1>1, <2>2, TableRows, InvTable DEF Row
    <3> HIDE DEF r
    <3>4. new \in [Components -> Row]
      BY <3>3
    <3> HIDE DEF new
    <3>5. row' \in Table /\ row'[r] = new /\ \A a \in Attempts \ {r} : row'[a] = row[a]
      BY <1>1, <2>2, <3>1, <3>4, InvTable DEF Table
    <3>6. \A a \in Attempts, c \in Components :
            /\ row'[a][c].image = row[a][c].image
            /\ row'[a][c] = row[a][c] \/
                  /\ a <= made
                  /\ row[a][c].status \in Settled => row'[a][c].status \in Settled
                  /\ row[a][c].status = "building" => a = r
                  /\ row'[a][c].status \in Settled =>
                        row[a][c].status \in Settled \/ <<c, row[a][c].image>> \in proven
      BY <1>1, <3>2, <3>3, <3>5 DEF Settled
    <3> QED BY <1>2, <3>5, <3>6, StatusStep
  <2> QED BY <2>1, <2>2
<1>4. FrameKnown(NoJob)'
  <2>1. FrameKnown(NoJob)
    BY NoJobKnown
  <2> QED BY <1>2, <2>1, NoJobType DEF FrameKnown, BeforeRows, InLoop, AfterLoop, StartedProven, GroupProven
<1> QED BY <1>2, <1>3, <1>4, NoJobType, StepInv DEF Others

\* The frame after a checkout; the rows may be new ones.
LEMMA CheckoutFrame ==
  ASSUME IInv, NEW h \in Callers, NEW i \in Images, Checkout(h, i)
  PROVE  LET r == IF job[h].rec = 0 THEN made + 1 ELSE job[h].rec IN
         \E f \in Job :
            /\ job' = [job EXCEPT ![h] = f]
            /\ f.at = "build" /\ f.image = i /\ f.on = "backend" /\ f.failed = "none"
            /\ f.target = 0 /\ ~f.flip /\ f.rec = r
            /\ \A d \in Components : f.endpoints[d] = 0
<1> DEFINE c == job[h]
           r == IF c.rec = 0 THEN made + 1 ELSE c.rec
           f1 == [c EXCEPT !.at = "build"]
           f2 == [f1 EXCEPT !.image = i]
           f3 == [f2 EXCEPT !.rec = r]
<1>1. /\ c \in Job /\ c.on = "backend" /\ c.failed = "none" /\ c.target = 0 /\ ~c.flip
      /\ \A d \in Components : c.endpoints[d] = 0
  BY InvTable DEF Checkout, FrameKnown, BeforeRows
<1>2. r \in Attempts
  <2>1. made < MaxAttempts => made + 1 \in Attempts
    BY InvTable, Numbers DEF Attempts
  <2> QED BY <1>1, <2>1, Fields DEF Checkout, InsertRows
<1>3. CASE c.rec = 0
  <2>1. job' = [job EXCEPT ![h] = f3]
    BY <1>3 DEF Checkout
  <2> HIDE DEF c, r, f1
  <2>2. f1 \in Job /\ f1.at = "build" /\ Differ(c, f1, {"at"})
    BY <1>1, FieldSet DEF f1, Places
  <2>3. f2 \in Job /\ f2.image = i /\ Differ(f1, f2, {"image"})
    BY <2>2, FieldSet
  <2> HIDE DEF f2
  <2>4. f3 \in Job /\ f3.rec = r /\ Differ(f2, f3, {"rec"})
    BY <1>2, <2>3, FieldSet
  <2> HIDE DEF f3
  <2>5. /\ f3.at = "build" /\ f3.image = i /\ f3.on = "backend" /\ f3.failed = "none"
        /\ f3.target = 0 /\ ~f3.flip /\ f3.rec = r /\ \A d \in Components : f3.endpoints[d] = 0
    BY <1>1, <2>2, <2>3, <2>4 DEF Differ
  <2> QED BY <2>1, <2>4, <2>5 DEF r, c
<1>4. CASE c.rec # 0
  <2>1. job' = [job EXCEPT ![h] = f2] /\ r = c.rec
    BY <1>4 DEF Checkout
  <2> HIDE DEF c, r, f1
  <2>2. f1 \in Job /\ f1.at = "build" /\ Differ(c, f1, {"at"})
    BY <1>1, FieldSet DEF f1, Places
  <2>3. f2 \in Job /\ f2.image = i /\ Differ(f1, f2, {"image"})
    BY <2>2, FieldSet
  <2> HIDE DEF f2
  <2>4. /\ f2.at = "build" /\ f2.image = i /\ f2.on = "backend" /\ f2.failed = "none"
        /\ f2.target = 0 /\ ~f2.flip /\ f2.rec = r /\ \A d \in Components : f2.endpoints[d] = 0
    BY <1>1, <2>1, <2>2, <2>3 DEF Differ
  <2> QED BY <2>1, <2>3, <2>4 DEF r, c
<1> QED BY <1>3, <1>4

\* The rows a checkout inserts.
LEMMA CheckoutRows ==
  ASSUME IInv, NEW h \in Callers, NEW i \in Images, Checkout(h, i), job[h].rec = 0
  PROVE  /\ Grows(made + 1) /\ ReleasedProven' /\ made' = made + 1 /\ made + 1 \in Attempts
         /\ \A d \in Components : /\ row'[made + 1][d].status = "building"
                                  /\ row'[made + 1][d].image = NoImage
         /\ \A a \in Attempts : a # made + 1 => row'[a] = row[a]
<1> DEFINE none == [d \in Components |-> NoImage]
<1>1. none \in [Components -> Images \cup {NoImage}] /\ \A d \in Components : none[d] = NoImage
  OBVIOUS
<1>2. InsertRows("building", none) /\ UNCHANGED proven
  BY DEF Checkout
<1> HIDE DEF none
<1> QED BY <1>1, <1>2, Inserted

LEMMA CheckoutInv ==
  ASSUME IInv, NEW h \in Callers, NEW i \in Images, Checkout(h, i)
  PROVE  IInv'
<1>1. /\ job[h] \in Job /\ FrameKnown(job[h]) /\ job[h].at = "checkout"
      /\ UNCHANGED proven /\ Others'
  BY InvTable, InvOthers DEF Checkout, Others
<1>2. PICK f \in Job :
         /\ job' = [job EXCEPT ![h] = f]
         /\ f.at = "build" /\ f.image = i /\ f.on = "backend" /\ f.failed = "none"
         /\ f.target = 0 /\ ~f.flip /\ f.rec = (IF job[h].rec = 0 THEN made + 1 ELSE job[h].rec)
         /\ \A d \in Components : f.endpoints[d] = 0
  BY CheckoutFrame
<1>3. "backend" \in Components /\ "frontend" \in Components
  BY DEF Components
<1>4. CASE job[h].rec = 0
  <2>1. f.rec = made + 1
    BY <1>2, <1>4
  <2>2. f.rec <= made' /\ f.rec # 0
    BY <1>1, <1>4, <2>1, CheckoutRows, InvTable, Numbers
  <2>3. FrameKnown(f)'
    BY <1>2, <1>3, <1>4, <2>1, <2>2, CheckoutRows
       DEF FrameKnown, BeforeRows, InLoop, AfterLoop, StartedProven, GroupProven
  <2> QED BY <1>1, <1>2, <1>4, <2>1, <2>3, CheckoutRows, StepInv DEF Others
<1>5. CASE job[h].rec # 0
  <2>1. UNCHANGED <<row, made>>
    BY <1>5 DEF Checkout
  <2>2. f.rec = job[h].rec
    BY <1>2, <1>5
  <2>3. FrameKnown(f)
    BY <1>1, <1>2, <1>3, <1>5, <2>2
       DEF FrameKnown, BeforeRows, InLoop, AfterLoop, StartedProven, GroupProven
  <2> QED BY <1>1, <1>2, <2>1, <2>2, <2>3, QuietStep
<1> QED BY <1>4, <1>5

\* The image is named.
LEMMA BuildRows ==
  ASSUME IInv, NEW h \in Callers, Build(h)
  PROVE  LET c == job[h] IN
         /\ row' \in Table
         /\ row'[c.rec][c.on].image = c.image
         /\ row'[c.rec][c.on].status = row[c.rec][c.on].status
         /\ \A a \in Attempts, d \in Components : ~(a = c.rec /\ d = c.on) => row'[a][d] = row[a][d]
<1> DEFINE c == job[h]
<1>1. row' = [row EXCEPT ![c.rec][c.on].image = c.image]
  BY DEF Build
<1>2. c.rec \in Attempts /\ c.on \in Components /\ c.image \in Images
  BY InvTable, Fields DEF Build, FrameKnown, StartedProven
<1> HIDE DEF c
<1>3. row' = WithImage(row, c.rec, c.on, c.image)
  BY <1>1 DEF WithImage
<1> QED BY <1>2, <1>3, InvTable, ImageSet DEF c

LEMMA BuildInv ==
  ASSUME IInv, NEW h \in Callers, Build(h)
  PROVE  IInv'
<1> DEFINE c == job[h]
<1>1. /\ c.at = "build" /\ Goes(h, "start") /\ UNCHANGED <<made, proven>> /\ Others'
      /\ row' = [row EXCEPT ![c.rec][c.on].image = c.image]
  BY InvOthers DEF Build, Others
<1>2. /\ c \in Job /\ FrameKnown(c) /\ c.rec \in Attempts /\ c.on \in Components
      /\ c.image \in Images
  BY <1>1, InvTable, Fields DEF FrameKnown, StartedProven
<1>3. PICK f \in Job : /\ job' = [job EXCEPT ![h] = f]
                       /\ f.at = "start" /\ Differ(c, f, {"at"})
  BY <1>1, GoesTo DEF Places
<1> HIDE DEF c
<1>4. /\ row' \in Table
      /\ row'[c.rec][c.on].image = c.image /\ row'[c.rec][c.on].status = row[c.rec][c.on].status
      /\ \A a \in Attempts, d \in Components : ~(a = c.rec /\ d = c.on) => row'[a][d] = row[a][d]
  BY <1>2, BuildRows DEF c
<1>5. /\ row[c.rec][c.on].image = NoImage /\ \A d \in Components : row[c.rec][d].status = "building"
      /\ c.rec <= made
  BY <1>1, <1>2 DEF FrameKnown, InLoop
<1>6. Grows(c.rec)
  <2>1. FreshRows'
    <3> SUFFICES ASSUME NEW a \in Attempts, NEW d \in Components, a > made
                 PROVE  row'[a][d] = Blank
      BY <1>1 DEF FreshRows
    <3>1. a # c.rec
      BY <1>5, Numbers, InvTable
    <3> QED BY <1>4, <3>1 DEF IInv, FreshRows
  <2> QED BY <1>1, <1>4, <1>5, <2>1, InvTable DEF Grows
<1>7. ReleasedProven'
  BY <1>1, <1>4, <1>5 DEF IInv, ReleasedProven, ReleasedAttempts
<1>8. /\ f.at = "start" /\ f.rec = c.rec /\ f.on = c.on /\ f.image = c.image /\ f.failed = c.failed
      /\ f.target = c.target /\ f.flip = c.flip /\ f.endpoints = c.endpoints
  BY <1>3 DEF Differ
<1>9. FrameKnown(f)'
  <2>1. (f.rec <= made)' /\ (BeforeRows(f) /\ AfterLoop(f) /\ GroupProven(f))'
    BY <1>1, <1>5, <1>8 DEF BeforeRows, AfterLoop, GroupProven
  <2>2. InLoop(f)'
    BY <1>1, <1>2, <1>4, <1>8 DEF FrameKnown, InLoop, Components
  <2>3. StartedProven(f)'
    BY <1>1, <1>2, <1>4, <1>8 DEF FrameKnown, InLoop, StartedProven
  <2> QED BY <2>1, <2>2, <2>3 DEF FrameKnown
<1> QED BY <1>1, <1>3, <1>6, <1>7, <1>8, <1>9, StepInv DEF Others, c

\* A container passes its check.
LEMMA StartFrame ==
  ASSUME IInv, NEW h \in Callers, Start(h)
  PROVE  LET c == job[h] IN
         \E f \in Job, p \in Ports :
            /\ job' = [job EXCEPT ![h] = f]
            /\ Starts(c.on, c.image, p)
            /\ f.at = (IF c.on = "backend" THEN "build" ELSE "finish")
            /\ f.on = "frontend" /\ f.rec = c.rec /\ f.image = c.image /\ f.failed = c.failed
            /\ f.target = c.target /\ f.flip = c.flip /\ f.endpoints[c.on] = p
            /\ \A d \in Components \ {c.on} : f.endpoints[d] = c.endpoints[d]
<1> DEFINE c == job[h]
<1>1. c \in Job /\ c.on \in Components
  BY InvTable, Fields
<1>2. PICK p \in Ports :
         /\ Starts(c.on, c.image, p)
         /\ job' = [job EXCEPT
                ![h].endpoints[job[h].on] = p,
                ![h].at = IF job[h].on = "backend" THEN "build" ELSE "finish",
                ![h].on = "frontend"]
  BY DEF Start
<1> DEFINE ends == [c.endpoints EXCEPT ![c.on] = p]
           to == IF c.on = "backend" THEN "build" ELSE "finish"
           f1 == [c EXCEPT !.endpoints = ends]
           f2 == [f1 EXCEPT !.at = to]
           f3 == [f2 EXCEPT !.on = "frontend"]
<1>3. job' = [job EXCEPT ![h] = f3]
  BY <1>2
<1>4. /\ ends \in [Components -> Ports \cup {0}] /\ ends[c.on] = p
      /\ \A d \in Components \ {c.on} : ends[d] = c.endpoints[d]
  BY <1>1, Fields
<1>5. to \in Places
  BY DEF Places
<1> HIDE DEF c, ends, to
<1>6. f1 \in Job /\ f1.endpoints = ends /\ Differ(c, f1, {"endpoints"})
  BY <1>1, <1>4, FieldSet
<1> HIDE DEF f1
<1>7. f2 \in Job /\ f2.at = to /\ Differ(f1, f2, {"at"})
  BY <1>5, <1>6, FieldSet
<1> HIDE DEF f2
<1>8. f3 \in Job /\ f3.on = "frontend" /\ Differ(f2, f3, {"on"})
  BY <1>7, FieldSet DEF Components
<1> HIDE DEF f3
<1>9. /\ f3.at = to /\ f3.rec = c.rec /\ f3.on = "frontend" /\ f3.image = c.image
      /\ f3.failed = c.failed /\ f3.target = c.target /\ f3.flip = c.flip /\ f3.endpoints = ends
  BY <1>6, <1>7, <1>8 DEF Differ
<1>10. Starts(c.on, c.image, p)
  BY <1>2
<1> QED BY <1>3, <1>4, <1>8, <1>9, <1>10 DEF c, to

LEMMA StartInv ==
  ASSUME IInv, NEW h \in Callers, Start(h)
  PROVE  IInv'
<1> DEFINE c == job[h]
<1>1. /\ c.at = "start" /\ c \in Job /\ FrameKnown(c) /\ c.image \in Images /\ c.on \in Components
      /\ UNCHANGED <<row, made>>
  BY InvTable, Fields DEF Start, FrameKnown, StartedProven
<1>2. PICK f \in Job, p \in Ports :
         /\ job' = [job EXCEPT ![h] = f]
         /\ Starts(c.on, c.image, p)
         /\ f.at = (IF c.on = "backend" THEN "build" ELSE "finish")
         /\ f.on = "frontend" /\ f.rec = c.rec /\ f.image = c.image /\ f.failed = c.failed
         /\ f.target = c.target /\ f.flip = c.flip /\ f.endpoints[c.on] = p
         /\ \A d \in Components \ {c.on} : f.endpoints[d] = c.endpoints[d]
  BY StartFrame
<1> HIDE DEF c
<1>11. proven' = proven \cup {<<c.on, c.image>>} /\ Others'
  <2>1. live' \in [Components -> Container]
    BY <1>1, <1>2, InvTable DEF Starts, Container
  <2> QED BY <1>2, <2>1, InvOthers DEF Starts, Start, Others
<1>12. Grows(c.rec) /\ ReleasedProven'
  BY <1>1, <1>11, MoreProven
<1>13. FrameKnown(f)'
  <2>1. (f.rec <= made)' /\ (BeforeRows(f) /\ GroupProven(f))'
    BY <1>1, <1>2 DEF FrameKnown, BeforeRows, GroupProven
  <2>2. (InLoop(f) /\ AfterLoop(f))'
    <3>1. c.on # "frontend" => c.on = "backend" /\ c.on # "frontend"
      BY <1>1 DEF Components
    <3> QED BY <1>1, <1>2, <3>1 DEF FrameKnown, InLoop, AfterLoop, Components
  <2>3. StartedProven(f)'
    BY <1>1, <1>2, <1>11 DEF FrameKnown, InLoop, StartedProven
  <2> QED BY <2>1, <2>2, <2>3 DEF FrameKnown
<1>14. f.rec \in {0, c.rec} /\ c.rec = job[h].rec /\ job' = [job EXCEPT ![h] = f]
  BY <1>2 DEF c
<1> QED BY <1>11, <1>12, <1>13, <1>14, StepInv DEF Others

LEMMA ComponentFailsFrame ==
  ASSUME IInv, NEW h \in Callers, ComponentFails(h)
  PROVE  LET c == job[h] IN
         \E f \in Job :
            /\ job' = [job EXCEPT ![h] = f]
            /\ f.at = "restore" /\ f.rec = c.rec /\ f.on = c.on /\ f.image = c.image
            /\ f.failed = c.on /\ f.target = c.target /\ f.flip = c.flip
            /\ f.endpoints = c.endpoints
<1> DEFINE c == job[h]
           f1 == [c EXCEPT !.at = "restore"]
           f2 == [f1 EXCEPT !.failed = c.on]
<1>1. job' = [job EXCEPT ![h] = f2]
  BY DEF ComponentFails
<1>2. c \in Job /\ c.on \in Components
  BY InvTable, Fields
<1> HIDE DEF c
<1>3. f1 \in Job /\ f1.at = "restore" /\ Differ(c, f1, {"at"})
  BY <1>2, FieldSet DEF Places
<1> HIDE DEF f1
<1>4. f2 \in Job /\ f2.failed = c.on /\ Differ(f1, f2, {"failed"})
  BY <1>2, <1>3, FieldSet
<1> HIDE DEF f2
<1>5. /\ f2.at = "restore" /\ f2.rec = c.rec /\ f2.on = c.on /\ f2.image = c.image
      /\ f2.failed = c.on /\ f2.target = c.target /\ f2.flip = c.flip
      /\ f2.endpoints = c.endpoints
  BY <1>3, <1>4 DEF Differ
<1> QED BY <1>1, <1>4, <1>5 DEF c

LEMMA ComponentFailsRows ==
  ASSUME IInv, NEW h \in Callers, ComponentFails(h)
  PROVE  LET c == job[h] IN
         /\ row' \in Table /\ c.rec \in Attempts /\ c.on \in Components
         /\ \A d \in Components : row[c.rec][d].status = "building"
         /\ \A a \in Attempts, d \in Components :
               /\ row'[a][d].image = row[a][d].image
               /\ a = c.rec /\ d = c.on => row'[a][d].status = "failed"
               /\ ~(a = c.rec /\ d = c.on) => row'[a][d] = row[a][d]
<1> DEFINE c == job[h]
<1>1. /\ c.rec \in Attempts /\ c.on \in Components /\ "failed" \in Statuses
      /\ \A d \in Components : row[c.rec][d].status = "building"
  BY InvTable, Fields DEF ComponentFails, FrameKnown, StartedProven, InLoop, Statuses
<1>2. row' = WithStatus(row, c.rec, c.on, "failed")
  BY DEF ComponentFails, WithStatus
<1> HIDE DEF c
<1>3. row \in Table
  BY InvTable
<1>4. /\ row' \in Table
      /\ \A a \in Attempts, d \in Components :
            /\ row'[a][d].image = row[a][d].image
            /\ a = c.rec /\ d = c.on => row'[a][d].status = "failed"
            /\ ~(a = c.rec /\ d = c.on) => row'[a][d] = row[a][d]
  BY <1>1, <1>2, <1>3, StatusSet
<1> QED BY <1>1, <1>4 DEF c

LEMMA ComponentFailsInv ==
  ASSUME IInv, NEW h \in Callers, ComponentFails(h)
  PROVE  IInv'
<1> DEFINE c == job[h]
<1>1. /\ c.at \in {"build", "start"} /\ UNCHANGED <<made, proven>> /\ Others'
  BY InvOthers DEF ComponentFails, Others
<1>2. /\ c \in Job /\ FrameKnown(c) /\ c.rec <= made
  BY InvTable DEF FrameKnown
<1>3. /\ row' \in Table /\ c.rec \in Attempts /\ c.on \in Components
      /\ \A d \in Components : row[c.rec][d].status = "building"
      /\ \A a \in Attempts, d \in Components :
            /\ row'[a][d].image = row[a][d].image
            /\ a = c.rec /\ d = c.on => row'[a][d].status = "failed"
            /\ ~(a = c.rec /\ d = c.on) => row'[a][d] = row[a][d]
  BY ComponentFailsRows
<1>4. PICK f \in Job :
         /\ job' = [job EXCEPT ![h] = f]
         /\ f.at = "restore" /\ f.rec = c.rec /\ f.on = c.on /\ f.image = c.image
         /\ f.failed = c.on /\ f.target = c.target /\ f.flip = c.flip
         /\ f.endpoints = c.endpoints
  BY ComponentFailsFrame
<1> HIDE DEF c
<1>5. Grows(c.rec) /\ ReleasedProven'
  <2>1. \A a \in Attempts, d \in Components :
            /\ row'[a][d].image = row[a][d].image
            /\ row'[a][d] = row[a][d] \/
                  /\ a <= made
                  /\ row[a][d].status \in Settled => row'[a][d].status \in Settled
                  /\ row[a][d].status = "building" => a = c.rec
                  /\ row'[a][d].status \in Settled =>
                        row[a][d].status \in Settled \/ <<d, row[a][d].image>> \in proven
    BY <1>2, <1>3 DEF Settled
  <2> QED BY <1>1, <1>3, <2>1, StatusStep
<1>6. FrameKnown(f)'
  <2>1. (f.rec <= made)' /\ (BeforeRows(f) /\ GroupProven(f) /\ InLoop(f))'
    BY <1>1, <1>2, <1>4 DEF BeforeRows, GroupProven, InLoop
  <2>2. AfterLoop(f)'
    BY <1>1, <1>2, <1>3, <1>4 DEF FrameKnown, InLoop, AfterLoop
  <2>3. StartedProven(f)'
    <3>1. \A d \in Components : d # c.failed
      BY <1>1, <1>2, Numbers DEF FrameKnown, InLoop
    <3> QED BY <1>1, <1>2, <1>3, <1>4, <3>1 DEF FrameKnown, StartedProven
  <2> QED BY <2>1, <2>2, <2>3 DEF FrameKnown
<1>7. f.rec \in {0, c.rec} /\ c.rec = job[h].rec /\ job' = [job EXCEPT ![h] = f]
  BY <1>4 DEF c
<1> QED BY <1>1, <1>5, <1>6, <1>7, StepInv DEF Others

\* The restored image has been healthy before, and is again.
LEMMA RestoreFrame ==
  ASSUME IInv, NEW h \in Callers, Restore(h)
  PROVE  LET c == job[h] IN
         \E f \in Job, t \in ReleasedAttempts(c.failed), p \in Ports :
            /\ job' = [job EXCEPT ![h] = f]
            /\ Starts(c.failed, row[t][c.failed].image, p)
            /\ \A a \in ReleasedAttempts(c.failed) : a <= t
            /\ f.at = "finish" /\ f.rec = c.rec /\ f.on = c.on /\ f.image = c.image
            /\ f.failed = c.failed /\ f.target = t /\ f.endpoints[c.failed] = p
            /\ \A d \in Components \ {c.failed} : f.endpoints[d] = c.endpoints[d]
<1> DEFINE c == job[h]
<1>1. /\ c.at = "restore" /\ c \in Job /\ c.failed \in Components
  BY InvTable DEF Restore, FrameKnown, AfterLoop
<1>2. PICK t \in ReleasedAttempts(c.failed), p \in Ports :
         /\ Starts(c.failed, row[t][c.failed].image, p)
         /\ \A a \in ReleasedAttempts(c.failed) : a <= t
         /\ job' = [job EXCEPT ![h].at = "finish", ![h].target = t,
                               ![h].flip = row[t][c.failed].status = "stopped",
                               ![h].endpoints[c.failed] = p]
  BY DEF Restore, RestoreFrom
<1>3. t \in Attempts
  BY <1>2 DEF ReleasedAttempts
<1> DEFINE ends == [c.endpoints EXCEPT ![c.failed] = p]
           flips == row[t][c.failed].status = "stopped"
           f1 == [c EXCEPT !.at = "finish"]
           f2 == [f1 EXCEPT !.target = t]
           f3 == [f2 EXCEPT !.flip = flips]
           f4 == [f3 EXCEPT !.endpoints = ends]
<1>4. job' = [job EXCEPT ![h] = f4]
  BY <1>2
<1>5. /\ ends \in [Components -> Ports \cup {0}] /\ ends[c.failed] = p
      /\ \A d \in Components \ {c.failed} : ends[d] = c.endpoints[d]
  BY <1>1, Fields
<1>6. flips \in BOOLEAN
  OBVIOUS
<1> HIDE DEF c, ends, flips
<1>7. f1 \in Job /\ f1.at = "finish" /\ Differ(c, f1, {"at"})
  BY <1>1, FieldSet DEF Places
<1> HIDE DEF f1
<1>8. f2 \in Job /\ f2.target = t /\ Differ(f1, f2, {"target"})
  BY <1>3, <1>7, FieldSet
<1> HIDE DEF f2
<1>9. f3 \in Job /\ Differ(f2, f3, {"flip"})
  BY <1>6, <1>8, FieldSet
<1> HIDE DEF f3
<1>10. f4 \in Job /\ f4.endpoints = ends /\ Differ(f3, f4, {"endpoints"})
  BY <1>5, <1>9, FieldSet
<1> HIDE DEF f4
<1>11. /\ f4.at = "finish" /\ f4.rec = c.rec /\ f4.on = c.on /\ f4.image = c.image
       /\ f4.failed = c.failed /\ f4.target = t /\ f4.endpoints = ends
  BY <1>7, <1>8, <1>9, <1>10 DEF Differ
<1>12. f4.endpoints[c.failed] = p
       /\ \A d \in Components \ {c.failed} : f4.endpoints[d] = c.endpoints[d]
  BY <1>5, <1>11
<1>13. PICK f \in Job : f = f4
  BY <1>10
<1>14. /\ job' = [job EXCEPT ![h] = f]
       /\ Starts(c.failed, row[t][c.failed].image, p)
       /\ \A a \in ReleasedAttempts(c.failed) : a <= t
       /\ f.at = "finish" /\ f.rec = c.rec /\ f.on = c.on /\ f.image = c.image
       /\ f.failed = c.failed /\ f.target = t /\ f.endpoints[c.failed] = p
       /\ \A d \in Components \ {c.failed} : f.endpoints[d] = c.endpoints[d]
  BY <1>2, <1>4, <1>11, <1>12, <1>13
<1> QED BY <1>2, <1>14 DEF c

LEMMA RestoreInv ==
  ASSUME IInv, NEW h \in Callers, Restore(h)
  PROVE  IInv'
<1> DEFINE c == job[h]
<1>1. /\ c.at = "restore" /\ c \in Job /\ FrameKnown(c) /\ UNCHANGED <<row, made>>
      /\ c.failed \in Components
  BY InvTable DEF Restore, RestoreFrom, FrameKnown, AfterLoop
<1>2. PICK f \in Job, t \in ReleasedAttempts(c.failed), p \in Ports :
         /\ job' = [job EXCEPT ![h] = f]
         /\ Starts(c.failed, row[t][c.failed].image, p)
         /\ f.at = "finish" /\ f.rec = c.rec /\ f.on = c.on /\ f.image = c.image
         /\ f.failed = c.failed /\ f.target = t /\ f.endpoints[c.failed] = p
         /\ \A d \in Components \ {c.failed} : f.endpoints[d] = c.endpoints[d]
  BY RestoreFrame
<1>3. t \in Attempts /\ row[t][c.failed].image \in Images
  BY <1>1, <1>2, TableRows, InvTable DEF ReleasedAttempts
<1> HIDE DEF c
<1>13. proven' = proven \cup {<<c.failed, row[t][c.failed].image>>} /\ Others'
  <2>1. live' \in [Components -> Container]
    BY <1>1, <1>2, <1>3, InvTable DEF Starts, Container
  <2>2. PICK u \in Attempts : RestoreFrom(h, u)
    BY DEF Restore, ReleasedAttempts
  <2> QED BY <1>2, <2>1, <2>2, InvOthers DEF Starts, RestoreFrom, Others
<1>14. Grows(c.rec) /\ ReleasedProven'
  BY <1>1, <1>3, <1>13, MoreProven
<1>15. FrameKnown(f)'
  <2>1. (f.rec <= made)' /\ (BeforeRows(f) /\ GroupProven(f) /\ InLoop(f))'
    BY <1>1, <1>2 DEF FrameKnown, BeforeRows, GroupProven, InLoop
  <2>2. AfterLoop(f)'
    BY <1>1, <1>2 DEF FrameKnown, AfterLoop
  <2>3. (f.target \in ReleasedAttempts(f.failed))' /\ f.target # 0
    BY <1>1, <1>2, <1>3, Numbers DEF ReleasedAttempts
  <2>4. StartedProven(f)'
    BY <1>1, <1>2, <1>13, <2>3 DEF FrameKnown, StartedProven
  <2> QED BY <2>1, <2>2, <2>4 DEF FrameKnown
<1>16. f.rec \in {0, c.rec} /\ c.rec = job[h].rec /\ job' = [job EXCEPT ![h] = f]
  BY <1>2 DEF c
<1> QED BY <1>13, <1>14, <1>15, <1>16, StepInv DEF Others

----------------------------------------------------------------------------
(* The commits of a deployment: tables built one status at a time.         *)

\* Rows that differ from the table by statuses the pipeline of row r may write.
Closes(rows, r) == rows \in Table /\ \A a \in Attempts, c \in Components :
    /\ rows[a][c].image = row[a][c].image
    /\ rows[a][c] = row[a][c] \/
          /\ a <= made
          /\ row[a][c].status \in Settled => rows[a][c].status \in Settled
          /\ row[a][c].status = "building" => a = r
          /\ rows[a][c].status \in Settled =>
                row[a][c].status \in Settled \/ <<c, row[a][c].image>> \in proven

LEMMA ClosesStep ==
  ASSUME IInv, NEW r, Closes(row', r), UNCHANGED <<made, proven>>
  PROVE  Grows(r) /\ ReleasedProven'
  BY StatusStep DEF Closes

\* Rows with a status were inserted.
LEMMA SettledMade ==
  ASSUME IInv, NEW a \in Attempts, NEW c \in Components, row[a][c].status # "none"
  PROVE  a <= made
<1>1. ~(a > made)
  BY DEF IInv, FreshRows, Blank
<1> QED BY <1>1, InvTable, Numbers

LEMMA ClosesSame == ASSUME IInv, NEW r PROVE Closes(row, r)
  BY InvTable DEF Closes

LEMMA ClosesMarked ==
  ASSUME IInv, NEW r, NEW rows, Closes(rows, r), NEW t \in Attempts \cup {0}, NEW c \in Components
  PROVE  Closes(Marked(rows, t, c), r)
<1> DEFINE new == Marked(rows, t, c)
<1>0. rows \in Table
  BY DEF Closes
<1>1. /\ new \in Table
      /\ \A a \in Attempts, d \in Components :
               /\ new[a][d].image = rows[a][d].image
               /\ new[a][d] = rows[a][d]
                     \/ (rows[a][d].status = "running" /\ new[a][d].status = "stopped")
  <2>1. ASSUME NEW a \in Attempts, NEW d \in Components
        PROVE  new[a][d].image = rows[a][d].image
    BY <1>0, MarkedTable
  <2>2. ASSUME NEW a \in Attempts, NEW d \in Components, new[a][d] # rows[a][d]
        PROVE  rows[a][d].status = "running" /\ new[a][d].status = "stopped"
    <3>1. a # t /\ d = c /\ rows[a][d].status = "running"
      BY <1>0, <2>2, MarkedTable
    <3>2. new[a][d].status = IF a # t /\ d = c /\ rows[a][d].status = "running" THEN "stopped"
                             ELSE rows[a][d].status
      BY <1>0, MarkedTable
    <3> HIDE DEF new
    <3> QED BY <3>1, <3>2
  <2>3. new \in Table
    BY <1>0, MarkedTable
  <2> HIDE DEF new
  <2> QED BY <2>1, <2>2, <2>3
<1> HIDE DEF new
<1>2. ASSUME NEW a \in Attempts, NEW d \in Components
      PROVE  /\ new[a][d].image = row[a][d].image
             /\ new[a][d] = row[a][d] \/
                   /\ a <= made
                   /\ row[a][d].status \in Settled => new[a][d].status \in Settled
                   /\ row[a][d].status = "building" => a = r
                   /\ new[a][d].status \in Settled =>
                         row[a][d].status \in Settled \/ <<d, row[a][d].image>> \in proven
  <2>1. CASE new[a][d] = rows[a][d]
    BY <2>1 DEF Closes
  <2>2. CASE rows[a][d].status = "running" /\ new[a][d].status = "stopped"
    <3>1. new[a][d].image = row[a][d].image
      BY <1>1 DEF Closes
    <3>2. CASE rows[a][d] = row[a][d]
      <4>1. a <= made
        BY <2>2, <3>2, SettledMade
      <4> QED BY <2>2, <3>1, <3>2, <4>1 DEF Settled
    <3>3. CASE rows[a][d] # row[a][d]
      BY <2>2, <3>1, <3>3 DEF Closes, Settled
    <3> QED BY <3>2, <3>3
  <2> QED BY <1>1, <2>1, <2>2
<1> QED BY <1>1, <1>2 DEF Closes, new

\* A row of the pipeline runs: its container has been healthy.
LEMMA ClosesRuns ==
  ASSUME IInv, NEW r \in Attempts, NEW rows, Closes(rows, r), NEW c \in Components,
         r <= made, <<c, row[r][c].image>> \in proven
  PROVE  Closes(WithStatus(rows, r, c, "running"), r)
<1> DEFINE new == WithStatus(rows, r, c, "running")
<1>0. rows \in Table /\ "running" \in Statuses
  BY DEF Closes, Statuses
<1>1. /\ new \in Table
      /\ \A a \in Attempts, d \in Components :
               /\ new[a][d].image = rows[a][d].image
               /\ a = r /\ d = c => new[a][d].status = "running"
               /\ ~(a = r /\ d = c) => new[a][d] = rows[a][d]
  BY <1>0, StatusSet
<1> HIDE DEF new
<1>2. ASSUME NEW a \in Attempts, NEW d \in Components
      PROVE  /\ new[a][d].image = row[a][d].image
             /\ new[a][d] = row[a][d] \/
                   /\ a <= made
                   /\ row[a][d].status \in Settled => new[a][d].status \in Settled
                   /\ row[a][d].status = "building" => a = r
                   /\ new[a][d].status \in Settled =>
                         row[a][d].status \in Settled \/ <<d, row[a][d].image>> \in proven
  <2>1. CASE a = r /\ d = c
    BY <1>1, <2>1 DEF Closes, Settled
  <2>2. CASE ~(a = r /\ d = c)
    BY <1>1, <2>2 DEF Closes
  <2> QED BY <2>1, <2>2
<1> QED BY <1>1, <1>2 DEF Closes, new

\* A row that was released runs again.
LEMMA ClosesAgain ==
  ASSUME IInv, NEW r, NEW c \in Components, NEW t \in ReleasedAttempts(c)
  PROVE  Closes(WithStatus(row, t, c, "running"), r)
<1> DEFINE new == WithStatus(row, t, c, "running")
<1>0. /\ row \in Table /\ "running" \in Statuses /\ t \in Attempts /\ t <= made
      /\ row[t][c].status \in Settled
  BY InvTable, SettledMade DEF Statuses, ReleasedAttempts, Settled
<1>1. /\ new \in Table
      /\ \A a \in Attempts, d \in Components :
               /\ new[a][d].image = row[a][d].image
               /\ a = t /\ d = c => new[a][d].status = "running"
               /\ ~(a = t /\ d = c) => new[a][d] = row[a][d]
  BY <1>0, StatusSet
<1> HIDE DEF new
<1>2. ASSUME NEW a \in Attempts, NEW d \in Components
      PROVE  /\ new[a][d].image = row[a][d].image
             /\ new[a][d] = row[a][d] \/
                   /\ a <= made
                   /\ row[a][d].status \in Settled => new[a][d].status \in Settled
                   /\ row[a][d].status = "building" => a = r
                   /\ new[a][d].status \in Settled =>
                         row[a][d].status \in Settled \/ <<d, row[a][d].image>> \in proven
  <2>1. CASE a = t /\ d = c
    BY <1>0, <1>1, <2>1 DEF Settled
  <2>2. CASE ~(a = t /\ d = c)
    BY <1>1, <2>2
  <2> QED BY <2>1, <2>2
<1> QED BY <1>1, <1>2 DEF Closes, new

LEMMA ClosesRestored ==
  ASSUME IInv, NEW r, NEW h \in Callers, job[h].at \in {"finish", "commit", "settle"}
  PROVE  Closes(Restored(h), r)
<1>1. CASE ~job[h].flip
  BY <1>1, ClosesSame DEF Restored
<1>2. CASE job[h].flip
  <2>1. job[h].failed \in Components /\ job[h].target \in ReleasedAttempts(job[h].failed)
    BY <1>2, InvTable DEF FrameKnown, StartedProven
  <2>2. Closes(WithStatus(row, job[h].target, job[h].failed, "running"), r)
    BY <2>1, ClosesAgain
  <2> QED BY <1>2, <2>2 DEF Restored, WithStatus
<1> QED BY <1>1, <1>2

LEMMA ReleasedStay ==
  ASSUME IInv, NEW r, Grows(r), NEW c \in Components, NEW t \in ReleasedAttempts(c)
  PROVE  (t \in ReleasedAttempts(c))'
  BY DEF Grows, ReleasedAttempts, Settled

LEMMA ConfigureFrame ==
  ASSUME IInv, NEW h \in Callers, Configure(h)
  PROVE  LET c == job[h] IN
         \E f \in Job :
            /\ job' = [job EXCEPT ![h] = f]
            /\ f.at = "commit" /\ f.rec = c.rec /\ f.on = "backend" /\ f.image = c.image
            /\ f.failed = c.failed /\ f.target = c.target /\ f.flip = c.flip
            /\ f.endpoints = c.endpoints
<1> DEFINE c == job[h]
           f1 == [c EXCEPT !.at = "commit"]
           f2 == [f1 EXCEPT !.on = "backend"]
<1>1. c \in Job /\ job' = [job EXCEPT ![h] = f2]
  BY InvTable DEF Configure
<1> HIDE DEF c
<1>2. f1 \in Job /\ f1.at = "commit" /\ Differ(c, f1, {"at"})
  BY <1>1, FieldSet DEF Places
<1> HIDE DEF f1
<1>3. f2 \in Job /\ f2.on = "backend" /\ Differ(f1, f2, {"on"})
  BY <1>2, FieldSet DEF Components
<1> HIDE DEF f2
<1>4. /\ f2.at = "commit" /\ f2.rec = c.rec /\ f2.on = "backend" /\ f2.image = c.image
      /\ f2.failed = c.failed /\ f2.target = c.target /\ f2.flip = c.flip
      /\ f2.endpoints = c.endpoints
  BY <1>2, <1>3 DEF Differ
<1> QED BY <1>1, <1>3, <1>4 DEF c

LEMMA ConfigureInv ==
  ASSUME IInv, NEW h \in Callers, Configure(h)
  PROVE  IInv'
<1> DEFINE c == job[h]
<1>1. /\ c.at = "finish" /\ c \in Job /\ FrameKnown(c) /\ UNCHANGED <<row, made, proven>>
      /\ \A d \in Components : c.endpoints[d] # 0
  BY InvTable DEF Configure, Complete
<1>2. Others'
  <2>1. route' \in [Components -> Ports \cup {0}]
    BY InvTable, Fields DEF Configure
  <2> QED BY <2>1, InvOthers DEF Configure, Others
<1>3. PICK f \in Job :
         /\ job' = [job EXCEPT ![h] = f]
         /\ f.at = "commit" /\ f.rec = c.rec /\ f.on = "backend" /\ f.image = c.image
         /\ f.failed = c.failed /\ f.target = c.target /\ f.flip = c.flip
         /\ f.endpoints = c.endpoints
  BY ConfigureFrame
<1> HIDE DEF c
<1>4. FrameKnown(f)
  BY <1>1, <1>3 DEF FrameKnown, BeforeRows, InLoop, AfterLoop, StartedProven, GroupProven
<1>5. f.rec = job[h].rec /\ job' = [job EXCEPT ![h] = f]
  BY <1>3 DEF c
<1> QED BY <1>1, <1>2, <1>4, <1>5, QuietStep

\* A component's rows are committed; the container of its own is healthy.
LEMMA CommitFrame ==
  ASSUME IInv, NEW h \in Callers, Commit(h)
  PROVE  LET c == job[h] IN
         \E f \in Job :
            /\ job' = [job EXCEPT ![h] = f]
            /\ f.at = (IF c.on = "backend" THEN "commit" ELSE "settle")
            /\ f.flip = (c.flip /\ c.on = c.failed)
            /\ f.rec = c.rec /\ f.on = "frontend" /\ f.image = c.image
            /\ f.failed = c.failed /\ f.target = c.target /\ f.endpoints = c.endpoints
<1> DEFINE c == job[h]
           to == IF c.on = "backend" THEN "commit" ELSE "settle"
           flips == c.flip /\ c.on = c.failed
           f1 == [c EXCEPT !.on = "frontend"]
           f2 == [f1 EXCEPT !.flip = flips]
           f3 == [f2 EXCEPT !.at = to]
<1>1. c \in Job /\ job' = [job EXCEPT ![h] = f3]
  BY InvTable DEF Commit, Commits
<1> HIDE DEF c
<1>2. to \in Places /\ flips \in BOOLEAN
  BY DEF Places
<1> HIDE DEF to, flips
<1>3. f1 \in Job /\ f1.on = "frontend" /\ Differ(c, f1, {"on"})
  BY <1>1, FieldSet DEF Components
<1> HIDE DEF f1
<1>4. f2 \in Job /\ f2.flip = flips /\ Differ(f1, f2, {"flip"})
  BY <1>2, <1>3, FieldSet
<1> HIDE DEF f2
<1>5. f3 \in Job /\ f3.at = to /\ Differ(f2, f3, {"at"})
  BY <1>2, <1>4, FieldSet
<1> HIDE DEF f3
<1>6. /\ f3.at = to /\ f3.flip = flips
      /\ f3.rec = c.rec /\ f3.on = "frontend" /\ f3.image = c.image
      /\ f3.failed = c.failed /\ f3.target = c.target /\ f3.endpoints = c.endpoints
  BY <1>3, <1>4, <1>5 DEF Differ
<1> QED BY <1>1, <1>5, <1>6 DEF c, to, flips

LEMMA CommitCloses ==
  ASSUME IInv, NEW h \in Callers, Commit(h)
  PROVE  Closes(row', job[h].rec)
<1> DEFINE c == job[h]
<1>1. /\ c.at = "commit" /\ c \in Job /\ FrameKnown(c)
      /\ row' = IF c.on = c.failed THEN row ELSE Marked(Released(h), c.rec, c.on)
  BY InvTable DEF Commit, Commits
<1>2. /\ c.rec \in Attempts /\ c.rec <= made /\ c.on \in Components
      /\ c.on # c.failed => <<c.on, row[c.rec][c.on].image>> \in proven
  BY <1>1, Fields DEF FrameKnown, AfterLoop, StartedProven
<1>3. CASE c.on = c.failed
  BY <1>1, <1>3, ClosesSame
<1>4. CASE c.on # c.failed
  <2>1. Closes(Restored(h), c.rec)
    BY <1>1, ClosesRestored
  <2>2. Closes(WithStatus(Restored(h), c.rec, c.on, "running"), c.rec)
    BY <1>2, <1>4, <2>1, ClosesRuns
  <2>3. Closes(Released(h), c.rec)
    BY <2>2 DEF Released, WithStatus
  <2> QED BY <1>1, <1>2, <1>4, <2>3, ClosesMarked
<1> QED BY <1>3, <1>4

LEMMA CommitInv ==
  ASSUME IInv, NEW h \in Callers, Commit(h)
  PROVE  IInv'
<1> DEFINE c == job[h]
<1>1. /\ c.at = "commit" /\ c \in Job /\ FrameKnown(c) /\ UNCHANGED <<made, proven>> /\ Others'
      /\ row' = IF c.on = c.failed THEN row ELSE Marked(Released(h), c.rec, c.on)
  BY InvTable, InvOthers DEF Commit, Commits, Others
<1>2. /\ c.rec \in Attempts /\ c.rec <= made /\ c.on \in Components
      /\ c.on # c.failed => <<c.on, row[c.rec][c.on].image>> \in proven
  BY <1>1, Fields DEF FrameKnown, AfterLoop, StartedProven
<1>3. Closes(row', c.rec)
  BY CommitCloses
<1>4. Grows(c.rec) /\ ReleasedProven'
  BY <1>1, <1>3, ClosesStep
<1>5. PICK f \in Job :
         /\ job' = [job EXCEPT ![h] = f]
         /\ f.at = (IF c.on = "backend" THEN "commit" ELSE "settle")
         /\ f.flip = (c.flip /\ c.on = c.failed)
         /\ f.rec = c.rec /\ f.on = "frontend" /\ f.image = c.image
         /\ f.failed = c.failed /\ f.target = c.target /\ f.endpoints = c.endpoints
  BY CommitFrame
<1> HIDE DEF c
<1>10. f.at \in {"commit", "settle"} /\ (f.flip => c.flip)
  BY <1>5
<1>11. FrameKnown(f)'
  <2>1. (f.rec <= made)' /\ (BeforeRows(f) /\ InLoop(f) /\ AfterLoop(f) /\ GroupProven(f))'
    BY <1>1, <1>2, <1>5, <1>10 DEF FrameKnown, BeforeRows, InLoop, AfterLoop, GroupProven
  <2>2. ASSUME f.target # 0
        PROVE  f.failed \in Components /\ (f.target \in ReleasedAttempts(f.failed))'
    <3>1. f.failed \in Components /\ f.target \in ReleasedAttempts(f.failed)
      BY <1>1, <1>5, <1>10, <2>2 DEF FrameKnown, StartedProven
    <3> QED BY <1>4, <3>1, ReleasedStay
  <2>3. c.flip => c.target # 0
    BY <1>1 DEF FrameKnown, StartedProven
  <2>4. \A d \in Components : row'[c.rec][d].image = row[c.rec][d].image
    BY <1>2, <1>3 DEF Closes
  <2>5. c.rec # 0 /\ c.image \in Images
        /\ \A d \in Components : c.endpoints[d] # 0 /\ d # c.failed =>
                row[c.rec][d].image = c.image /\ <<d, c.image>> \in proven
    BY <1>1 DEF FrameKnown, StartedProven
  <2>6. StartedProven(f)'
    BY <1>1, <1>5, <1>10, <2>2, <2>3, <2>4, <2>5 DEF StartedProven
  <2> QED BY <2>1, <2>6 DEF FrameKnown
<1>12. f.rec \in {0, c.rec} /\ c.rec = job[h].rec /\ job' = [job EXCEPT ![h] = f]
  BY <1>5 DEF c
<1> QED BY <1>1, <1>4, <1>11, <1>12, StepInv DEF Others

\* The last commit, and what is left when an endpoint is missing.
LEMMA SettleCloses ==
  ASSUME IInv, NEW h \in Callers, Settle(h) \/ GiveUp(h)
  PROVE  Closes(row', job[h].rec)
<1> DEFINE c == job[h]
<1>1. c \in Job /\ FrameKnown(c) /\ c.at \in {"finish", "settle"}
  BY InvTable DEF Settle, GiveUp
<1>2. Closes(Restored(h), c.rec) /\ c.rec <= made /\ c.rec \in Attempts \cup {0}
  BY <1>1, ClosesRestored, Fields DEF FrameKnown
<1>3. CASE Settle(h) /\ c.target = 0
  <2>1. row' = row
    BY <1>3 DEF Settle
  <2> QED BY <2>1, ClosesSame
<1>4. CASE Settle(h) /\ c.target # 0
  <2>1. c.failed \in Components /\ c.target \in Attempts \cup {0} /\ c.at = "settle"
    BY <1>1, <1>4, Fields DEF Settle, FrameKnown, StartedProven
  <2>2. row' = Marked(Restored(h), c.target, c.failed)
    BY <1>4 DEF Settle
  <2> QED BY <1>2, <2>1, <2>2, ClosesMarked
<1>5. CASE GiveUp(h)
  <2> DEFINE rows == Restored(h)
             cell(d) == IF rows[c.rec][d].status = "building"
                        THEN [rows[c.rec][d] EXCEPT !.status = "failed"] ELSE rows[c.rec][d]
             line == [d \in Components |-> cell(d)]
  <2>1. c.at = "finish" /\ c.rec \in Attempts /\ rows \in Table
    BY <1>1, <1>2, <1>5 DEF GiveUp, FrameKnown, StartedProven, Closes
  <2>2. row' = [rows EXCEPT ![c.rec] = line]
    BY <1>5 DEF GiveUp
  <2> HIDE DEF rows, c
  <2>3. ASSUME NEW d \in Components
        PROVE  /\ cell(d) \in Row /\ cell(d).image = rows[c.rec][d].image
               /\ cell(d) = rows[c.rec][d] \/
                     (rows[c.rec][d].status = "building" /\ cell(d).status = "failed")
    BY <2>1, TableRows DEF Row
  <2> HIDE DEF cell
  <2>4. line \in [Components -> Row] /\ \A d \in Components : line[d] = cell(d)
    BY <2>3
  <2> HIDE DEF line
  <2>5. row' \in Table /\ row'[c.rec] = line /\ \A a \in Attempts \ {c.rec} : row'[a] = rows[a]
    BY <2>1, <2>2, <2>4 DEF Table
  <2>6. ASSUME NEW a \in Attempts, NEW d \in Components
        PROVE  /\ row'[a][d].image = row[a][d].image
               /\ row'[a][d] = row[a][d] \/
                     /\ a <= made
                     /\ row[a][d].status \in Settled => row'[a][d].status \in Settled
                     /\ row[a][d].status = "building" => a = c.rec
                     /\ row'[a][d].status \in Settled =>
                           row[a][d].status \in Settled \/ <<d, row[a][d].image>> \in proven
    <3>0. Closes(rows, c.rec)
      BY <1>2 DEF rows
    <3>1. CASE row'[a][d] = rows[a][d]
      BY <3>0, <3>1 DEF Closes
    <3>2. CASE row'[a][d] # rows[a][d]
      <4>1. /\ a = c.rec /\ rows[a][d].status = "building" /\ row'[a][d].status = "failed"
            /\ row'[a][d].image = rows[a][d].image
        BY <2>3, <2>4, <2>5, <3>2
      <4>2. row[a][d].status \notin Settled
        BY <3>0, <4>1 DEF Closes, Settled
      <4> QED BY <1>2, <3>0, <4>1, <4>2 DEF Closes, Settled
    <3> QED BY <3>1, <3>2
  <2>7. Closes(row', c.rec)
    BY <2>5, <2>6 DEF Closes
  <2> QED BY <2>7 DEF c
<1> QED BY <1>3, <1>4, <1>5

LEMMA SettleInv ==
  ASSUME IInv, NEW h \in Callers, Settle(h) \/ GiveUp(h)
  PROVE  IInv'
<1> DEFINE c == job[h]
<1>1. /\ c \in Job /\ FrameKnown(c) /\ c.at \in {"finish", "settle"} /\ Goes(h, "unlock")
      /\ UNCHANGED <<made, proven>> /\ Others'
  BY InvTable, InvOthers DEF Settle, GiveUp, Others
<1>2. PICK f \in Job : /\ job' = [job EXCEPT ![h] = f]
                       /\ f.at = "unlock" /\ Differ(c, f, {"at"})
  BY <1>1, GoesTo DEF Places
<1>3. Closes(row', c.rec) /\ c.rec <= made
  BY <1>1, SettleCloses DEF FrameKnown
<1>4. Grows(c.rec) /\ ReleasedProven'
  BY <1>1, <1>3, ClosesStep
<1>5. f.rec = c.rec
  BY <1>2 DEF Differ
<1>6. FrameKnown(f)'
  BY <1>1, <1>2, <1>3, <1>5
     DEF FrameKnown, BeforeRows, InLoop, AfterLoop, StartedProven, GroupProven
<1> QED BY <1>1, <1>2, <1>4, <1>5, <1>6, StepInv DEF Others

----------------------------------------------------------------------------
(* Steps of a rollback, stops, crashes.                                    *)

LEMMA RollbackStartInv ==
  ASSUME IInv, NEW h \in Callers, RollbackStart(h)
  PROVE  IInv'
<1> DEFINE c == job[h]
           other == Other(c.on)
           to == IF c.endpoints[other] = 0 THEN "rstart" ELSE "rproxy"
           ends(q) == [c.endpoints EXCEPT ![c.on] = q]
           frame(q) == [c EXCEPT !.endpoints = ends(q), !.at = to, !.on = other]
<1>1. /\ c.at = "rstart" /\ c \in Job /\ FrameKnown(c) /\ c.on \in Components
      /\ c.target \in Attempts /\ row[c.target][c.on].image \in Images
      /\ UNCHANGED <<row, made>>
  <2>1. /\ c.at = "rstart" /\ c \in Job /\ FrameKnown(c) /\ c.on \in Components
        /\ c.target \in Attempts /\ row[c.target][c.on].image # NoImage
        /\ UNCHANGED <<row, made>>
    BY InvTable, Fields DEF RollbackStart, FrameKnown, GroupProven
  <2> HIDE DEF c
  <2> QED BY <2>1, TableRows, InvTable
<1>2. \E p \in Ports :
         /\ Starts(c.on, row[c.target][c.on].image, p)
         /\ job' = [job EXCEPT ![h] = frame(p)]
  BY DEF RollbackStart
<1> HIDE DEF c, other, to, ends
<1>3. PICK p \in Ports :
         /\ Starts(c.on, row[c.target][c.on].image, p)
         /\ job' = [job EXCEPT ![h] = frame(p)]
  BY <1>2
<1> DEFINE f1 == [c EXCEPT !.endpoints = ends(p)]
           f2 == [f1 EXCEPT !.at = to]
           f3 == [f2 EXCEPT !.on = other]
<1>4. /\ ends(p) \in [Components -> Ports \cup {0}] /\ ends(p)[c.on] = p /\ p # 0
      /\ \A d \in Components \ {c.on} : ends(p)[d] = c.endpoints[d] /\ d = other
      /\ other \in Components
  BY <1>1, Fields, Numbers DEF Components, Other, ends, other
<1>5. to \in Places /\ to \in {"rstart", "rproxy"} /\ (to = "rproxy" => c.endpoints[other] # 0)
  BY DEF Places, to
<1>j. job' = [job EXCEPT ![h] = f3]
  BY <1>3
<1>6. f1 \in Job /\ f1.endpoints = ends(p) /\ Differ(c, f1, {"endpoints"})
  BY <1>1, <1>4, FieldSet
<1> HIDE DEF f1
<1>7. f2 \in Job /\ f2.at = to /\ Differ(f1, f2, {"at"})
  BY <1>5, <1>6, FieldSet
<1> HIDE DEF f2
<1>8. f3 \in Job /\ f3.on = other /\ Differ(f2, f3, {"on"})
  BY <1>4, <1>7, FieldSet
<1> HIDE DEF f3
<1>9. PICK f \in Job : f = f3
  BY <1>8
<1>10. /\ f.at = to /\ f.rec = c.rec /\ f.target = c.target /\ f.endpoints = ends(p)
  BY <1>6, <1>7, <1>8, <1>9 DEF Differ
<1>11. proven' = proven \cup {<<c.on, row[c.target][c.on].image>>} /\ Others'
  <2>1. live' \in [Components -> Container]
    BY <1>1, <1>3, InvTable DEF Starts, Container
  <2> QED BY <1>3, <2>1, InvOthers DEF Starts, RollbackStart, Others
<1>12. Grows(c.rec) /\ ReleasedProven'
  BY <1>1, <1>11, MoreProven
<1>13. FrameKnown(f)'
  <2>1. (f.rec <= made)' /\ (BeforeRows(f) /\ InLoop(f) /\ AfterLoop(f) /\ StartedProven(f))'
    BY <1>1, <1>5, <1>10 DEF FrameKnown, BeforeRows, InLoop, AfterLoop, StartedProven
  <2>2. ASSUME NEW d \in Components
        PROVE  /\ f.target # 0 /\ row[f.target][d].image # NoImage
               /\ f.endpoints[d] # 0 => <<d, row[f.target][d].image>> \in proven'
               /\ f.at = "rproxy" => f.endpoints[d] # 0
    BY <1>1, <1>4, <1>5, <1>10, <1>11 DEF FrameKnown, GroupProven
  <2>3. GroupProven(f)'
    BY <1>1, <1>5, <1>10, <2>2, Numbers DEF GroupProven
  <2> QED BY <2>1, <2>3 DEF FrameKnown
<1>14. f.rec \in {0, c.rec} /\ c.rec = job[h].rec /\ job' = [job EXCEPT ![h] = f]
  BY <1>j, <1>9, <1>10 DEF c
<1> QED BY <1>11, <1>12, <1>13, <1>14, StepInv DEF Others

LEMMA RollbackInsertInv ==
  ASSUME IInv, NEW h \in Callers, RollbackInsert(h)
  PROVE  IInv'
<1> DEFINE c == job[h]
           images == [d \in Components |-> row[job[h].target][d].image]
           f1 == [c EXCEPT !.at = "rmark"]
           f2 == [f1 EXCEPT !.rec = made + 1]
<1>1. /\ c.at = "rinsert" /\ c \in Job /\ FrameKnown(c) /\ UNCHANGED proven /\ Others'
      /\ InsertRows("running", images) /\ job' = [job EXCEPT ![h] = f2]
  BY InvTable, InvOthers DEF RollbackInsert, Others
<1>2. c.target \in Attempts
      /\ \A d \in Components : <<d, row[c.target][d].image>> \in proven
  BY <1>1, Fields DEF FrameKnown, GroupProven
<1>3. /\ images \in [Components -> Images \cup {NoImage}]
      /\ \A d \in Components : <<d, images[d]>> \in proven
  BY <1>2, TableRows, InvTable
<1> HIDE DEF c, images
<1>4. /\ Grows(made + 1) /\ ReleasedProven' /\ made' = made + 1 /\ made + 1 \in Attempts
  BY <1>1, <1>3, Inserted
<1>5. f1 \in Job /\ f1.at = "rmark" /\ Differ(c, f1, {"at"})
  BY <1>1, FieldSet DEF Places
<1> HIDE DEF f1
<1>6. f2 \in Job /\ f2.rec = made + 1 /\ Differ(f1, f2, {"rec"})
  BY <1>4, <1>5, FieldSet
<1> HIDE DEF f2
<1>7. PICK f \in Job : f = f2
  BY <1>6
<1>8. f.at = "rmark" /\ f.rec = made + 1
  BY <1>5, <1>6, <1>7 DEF Differ
<1>9. FrameKnown(f)'
  <2>1. f.rec <= made'
    BY <1>4, <1>8, InvTable
  <2> QED BY <1>8, <2>1
          DEF FrameKnown, BeforeRows, InLoop, AfterLoop, StartedProven, GroupProven
<1>10. f.rec \in {0, made + 1} /\ job' = [job EXCEPT ![h] = f]
  BY <1>1, <1>7, <1>8
<1> QED BY <1>1, <1>4, <1>9, <1>10, StepInv DEF Others

LEMMA RollbackMarkInv ==
  ASSUME IInv, NEW h \in Callers, RollbackMark(h)
  PROVE  IInv'
<1> DEFINE c == job[h]
           f1 == [c EXCEPT !.at = "rmark2"]
           next == Other(c.on)
           f2 == [f1 EXCEPT !.on = next]
<1>1. /\ c.at \in {"rmark", "rmark2"} /\ c \in Job /\ FrameKnown(c) /\ c.on \in Components
      /\ c.rec \in Attempts \cup {0} /\ row' = Marked(row, c.rec, c.on)
      /\ UNCHANGED <<made, proven>> /\ Others'
  BY InvTable, InvOthers, Fields DEF RollbackMark, Others
<1>2. Grows(c.rec) /\ ReleasedProven'
  BY <1>1, ClosesSame, ClosesMarked, ClosesStep
<1>3. CASE c.at = "rmark2"
  <2>1. job' = [job EXCEPT ![h] = NoJob]
    BY <1>3 DEF RollbackMark
  <2>2. FrameKnown(NoJob)'
    BY <1>1, NoJobKnown, NoJobType
       DEF FrameKnown, BeforeRows, InLoop, AfterLoop, StartedProven, GroupProven
  <2> QED BY <1>1, <1>2, <2>1, <2>2, NoJobType, StepInv DEF Others
<1>4. CASE c.at # "rmark2"
  <2>1. job' = [job EXCEPT ![h] = f2]
    BY <1>4 DEF RollbackMark
  <2>2. next \in Components
    BY DEF Other, Components
  <2> HIDE DEF c, next
  <2>3. f1 \in Job /\ f1.at = "rmark2" /\ Differ(c, f1, {"at"})
    BY <1>1, FieldSet DEF Places
  <2> HIDE DEF f1
  <2>4. f2 \in Job /\ Differ(f1, f2, {"on"})
    BY <2>2, <2>3, FieldSet
  <2> HIDE DEF f2
  <2>5. PICK f \in Job : f = f2
    BY <2>4
  <2>6. f.at = "rmark2" /\ f.rec = c.rec
    BY <2>3, <2>4, <2>5 DEF Differ
  <2>7. FrameKnown(f)'
    BY <1>1, <2>6
       DEF FrameKnown, BeforeRows, InLoop, AfterLoop, StartedProven, GroupProven
  <2>8. f.rec \in {0, c.rec} /\ c.rec = job[h].rec /\ job' = [job EXCEPT ![h] = f]
    BY <2>1, <2>5, <2>6 DEF c
  <2> QED BY <1>1, <1>2, <2>7, <2>8, StepInv DEF Others
<1> QED BY <1>3, <1>4

LEMMA StopInv ==
  ASSUME IInv, NEW c \in Components, StopRequest(c)
  PROVE  IInv'
<1>1. NoContainer \in Container
  BY DEF NoContainer, Container
<1>2. live' \in [Components -> Container]
  BY <1>1, InvTable DEF StopRequest
<1>3. TypeOK'
  BY <1>2 DEF StopRequest, IInv, TypeOK
<1> QED BY <1>3
        DEF StopRequest, IInv, FreshRows, OwnRows, ReleasedProven, ReleasedAttempts, FrameKnown,
            BeforeRows, InLoop, AfterLoop, StartedProven, GroupProven

LEMMA RestartInv ==
  ASSUME IInv, Restart
  PROVE  IInv'
<1>1. /\ UNCHANGED <<row, made, proven, live, route, issued>>
      /\ lock' = None /\ crashes' \in 0..MaxCrashes
      /\ job' = [h \in Callers |-> NoJob]
  BY CompositeAssumption DEF Restart, IInv, TypeOK
<1>2. job' \in [Callers -> Job] /\ \A h \in Callers : job'[h] = NoJob
  BY <1>1, NoJobType
<1>3. TypeOK'
  BY <1>1, <1>2 DEF IInv, TypeOK
<1>4. ASSUME NEW h \in Callers PROVE FrameKnown(job[h])'
  BY <1>1, <1>2, NoJobKnown, NoJobType
     DEF FrameKnown, BeforeRows, InLoop, AfterLoop, StartedProven, GroupProven
<1>5. OwnRows'
  BY <1>2, NoJobType DEF OwnRows
<1>6. FreshRows' /\ ReleasedProven'
  BY <1>1 DEF IInv, FreshRows, ReleasedProven, ReleasedAttempts
<1> QED BY <1>3, <1>4, <1>5, <1>6 DEF IInv

LEMMA InitIInv == Init => IInv
<1> SUFFICES ASSUME Init PROVE IInv
  OBVIOUS
<1>1. Blank \in Row /\ NoContainer \in Container /\ NoJob \in Job
  BY NoJobType DEF Blank, Row, NoContainer, Container
<1>2. TypeOK
  <2>1. row \in [Attempts -> [Components -> Row]]
    BY <1>1 DEF Init
  <2>2. live \in [Components -> Container] /\ route \in [Components -> Ports \cup {0}]
    BY <1>1 DEF Init
  <2>3. job \in [Callers -> Job] /\ lock \in Callers \cup {None} /\ proven \subseteq Components \X Images
    BY <1>1 DEF Init
  <2>4. made \in 0..MaxAttempts /\ issued \in 0..MaxAttempts /\ crashes \in 0..MaxCrashes
    BY CompositeAssumption DEF Init
  <2> QED BY <2>1, <2>2, <2>3, <2>4 DEF TypeOK
<1>3. FreshRows /\ ReleasedProven
  BY DEF Init, FreshRows, ReleasedProven, ReleasedAttempts, Blank
<1>4. \A h \in Callers : job[h] = NoJob
  BY DEF Init
<1>5. OwnRows
  BY <1>4, NoJobType DEF OwnRows
<1>6. ASSUME NEW h \in Callers PROVE FrameKnown(job[h])
  <2>1. made = 0
    BY DEF Init
  <2> QED BY <1>4, <2>1, NoJobType
          DEF FrameKnown, BeforeRows, InLoop, AfterLoop, StartedProven, GroupProven
<1> QED BY <1>2, <1>3, <1>5, <1>6 DEF IInv

LEMMA NextIInv == IInv /\ [Next]_vars => IInv'
<1> SUFFICES ASSUME IInv, [Next]_vars PROVE IInv'
  OBVIOUS
<1>1. CASE UNCHANGED vars
  BY <1>1 DEF vars, IInv, TypeOK, FreshRows, OwnRows, ReleasedProven, ReleasedAttempts,
              FrameKnown, BeforeRows, InLoop, AfterLoop, StartedProven, GroupProven
<1>2. ASSUME NEW h \in Callers, JobStep(h)
      PROVE  IInv'
  <2>1. CASE Acquire(h) \/ Escape(h) \/ NothingToRestore(h) \/ RollbackConfigure(h)
    BY <2>1, GoesOnInv
  <2>2. CASE Busy(h)
    BY <2>2, BusyInv
  <2>3. CASE \E i \in Images : Checkout(h, i)
    BY <2>3, CheckoutInv
  <2>4. CASE Build(h)
    BY <2>4, BuildInv
  <2>5. CASE Start(h)
    BY <2>5, StartInv
  <2>6. CASE ComponentFails(h)
    BY <2>6, ComponentFailsInv
  <2>7. CASE Restore(h)
    BY <2>7, RestoreInv
  <2>8. CASE Configure(h)
    BY <2>8, ConfigureInv
  <2>9. CASE Commit(h)
    BY <2>9, CommitInv
  <2>10. CASE Settle(h) \/ GiveUp(h)
    BY <2>10, SettleInv
  <2>11. CASE Unlock(h) \/ RollbackFails(h)
    BY <2>11, EndsInv
  <2>12. CASE RollbackStart(h)
    BY <2>12, RollbackStartInv
  <2>13. CASE RollbackInsert(h)
    BY <2>13, RollbackInsertInv
  <2>14. CASE RollbackMark(h)
    BY <2>14, RollbackMarkInv
  <2> QED BY <1>2, <2>1, <2>2, <2>3, <2>4, <2>5, <2>6, <2>7, <2>8, <2>9, <2>10, <2>11,
             <2>12, <2>13, <2>14 DEF JobStep
<1>3. CASE \E h \in Callers : DeployRequest(h) \/ QueueRequest(h)
  BY <1>3, DeployRequestInv, QueueRequestInv
<1>4. CASE \E h \in Callers, t \in Attempts, c \in Components : RollbackRequest(h, t, c)
  BY <1>4, RollbackRequestInv
<1>5. CASE \E c \in Components : StopRequest(c)
  BY <1>5, StopInv
<1>6. CASE Restart
  BY <1>6, RestartInv
<1> QED BY <1>1, <1>2, <1>3, <1>4, <1>5, <1>6 DEF Next

\* Every row a restore can go back to, and so every image it can start again,
\* passed its health check as that component, whatever fails, crashes, is
\* rolled back or stopped.
THEOREM RestoresProven == Spec => []ReleasedProven
<1>1. Spec => []IInv
  BY InitIInv, NextIInv, PTL DEF Spec
<1>2. IInv => ReleasedProven
  BY DEF IInv
<1> QED BY <1>1, <1>2, PTL

----------------------------------------------------------------------------
(* Calm behaviours: the lock keeps pipelines apart.                        *)

Piped(f) == f.at \notin {"idle", "lock"}

\* A pipeline is a deployment whose backend started.
Deploys(f) == Piped(f) =>
    /\ f.failed # "backend"
    /\ f.at \notin {"rstart", "rproxy", "rinsert", "rmark", "rmark2"}

Running(c) == {a \in Attempts : row[a][c].status = "running"}

\* The backend is replaced, the frontend not yet, or not any more.
Moving(f) == (f.at \in {"build", "start"} /\ f.on = "frontend") \/ f.at \in {"restore", "finish"}

\* The containers it started are the live ones, of the image it deploys or the
\* one it went back to; without a frontend to go back to, nothing was ever routed.
Lives(f) == Piped(f) =>
    /\ \A c \in Components : f.endpoints[c] # 0 =>
          /\ f.endpoints[c] = live[c].port
          /\ c # f.failed => live[c].image = f.image
          /\ c = f.failed => f.target # 0 /\ live[c].image = row[f.target][c].image
    /\ Moving(f) \/ f.at \in {"commit", "settle"} => f.endpoints["backend"] # 0
    /\ (f.at = "finish" /\ f.failed = "none") \/ f.at \in {"commit", "settle"} =>
          f.endpoints["frontend"] # 0
    /\ f.at = "finish" /\ f.endpoints["frontend"] = 0 =>
          /\ f.target = 0
          /\ \A c \in Components : route[c] = 0 /\ Running(c) = {}

\* The two paths lead to the live containers but while one has been replaced.
RoutesLive == \A c \in Components : route[c] # 0 => route[c] = live[c].port
Led == (\A h \in Callers : ~Moving(job[h])) => RoutesLive

\* What was ever routed or ran has a frontend to go back to.
Releasing(f) == f.at = "commit" /\ f.failed = "none"
Served == \E c \in Components : route[c] # 0 \/ Running(c) # {}
HasFrontend == Served => \/ ReleasedAttempts("frontend") # {}
                         \/ \E h \in Callers : Releasing(job[h])

\* One row of a component runs, but while a restored one supersedes another.
Superseding(f) == f.at \in {"commit", "settle"} /\ f.failed = "frontend"
OneRow(c) == \A a, b \in Running(c) : a = b
OneRuns == \A c \in Components :
    OneRow(c) \/ (c = "frontend" /\ \E h \in Callers : Superseding(job[h]))

\* It names the live image, but between a start and its commit.
Shifting(f, c) == f.endpoints[c] # 0 /\
    \/ f.at \in {"build", "start", "restore", "finish"}
    \/ f.at = "commit" /\ (c = "backend" => f.on = "backend")
    \/ f.at = "settle" /\ c = f.failed
LiveRow(c) == \A a \in Running(c) : live[c].image = row[a][c].image
RunsLive == \A c \in Components : LiveRow(c) \/ \E h \in Callers : Shifting(job[h], c)

CalmInv == kind = "calm" =>
    /\ \A h \in Callers : /\ Piped(job[h]) => lock = h
                          /\ Deploys(job[h]) /\ Lives(job[h])
    /\ Led /\ HasFrontend /\ OneRuns /\ RunsLive

MCInv == IInv /\ CalmInv

----------------------------------------------------------------------------
(* The same, of the one pipeline there is.                                 *)

Steady(f) == /\ Deploys(f) /\ Lives(f)
             /\ ~Moving(f) => RoutesLive
             /\ Served => ReleasedAttempts("frontend") # {} \/ Releasing(f)
             /\ \A c \in Components : OneRow(c) \/ (c = "frontend" /\ Superseding(f))
             /\ \A c \in Components : LiveRow(c) \/ Shifting(f, c)

\* No other pipeline is past the lock.
Only(h) == \A g \in Callers \ {h} : ~Piped(job[g])

LEMMA NotPiped ==
  ASSUME NEW f \in Job, ~Piped(f)
  PROVE  /\ ~Moving(f) /\ ~Releasing(f) /\ ~Superseding(f)
         /\ \A c \in Components : ~Shifting(f, c)
  BY DEF Piped, Moving, Releasing, Superseding, Shifting

LEMMA SteadyNow ==
  ASSUME IInv, CalmInv, kind = "calm", NEW h \in Callers, Piped(job[h]) \/ lock = None
  PROVE  Only(h) /\ Steady(job[h])
<1>1. Only(h)
  BY Numbers DEF CalmInv, Only
<1>2. \A g \in Callers \ {h} :
         /\ ~Moving(job[g]) /\ ~Releasing(job[g]) /\ ~Superseding(job[g])
         /\ \A c \in Components : ~Shifting(job[g], c)
  BY <1>1, NotPiped, InvTable DEF Only
<1>3. ~Moving(job[h]) => RoutesLive
  BY <1>2 DEF CalmInv, Led
<1>4. Served => ReleasedAttempts("frontend") # {} \/ Releasing(job[h])
  BY <1>2 DEF CalmInv, HasFrontend
<1>5. \A c \in Components : OneRow(c) \/ (c = "frontend" /\ Superseding(job[h]))
  BY <1>2 DEF CalmInv, OneRuns
<1>6. \A c \in Components : LiveRow(c) \/ Shifting(job[h], c)
  BY <1>2 DEF CalmInv, RunsLive
<1> QED BY <1>1, <1>3, <1>4, <1>5, <1>6 DEF CalmInv, Steady

\* What is left to show of a step of the pipeline.
LEMMA CalmStep ==
  ASSUME IInv, NEW h \in Callers, Only(h), NEW f \in Job, job' = [job EXCEPT ![h] = f],
         Piped(f) => lock' = h, Steady(f)'
  PROVE  CalmInv'
<1>1. job'[h] = f /\ \A g \in Callers \ {h} : job'[g] = job[g] /\ job[g] \in Job
  BY InvTable
<1>2. \A g \in Callers \ {h} : ~Piped(job'[g])
  BY <1>1 DEF Only, Piped
<1>3. ASSUME NEW g \in Callers
      PROVE  (Piped(job[g]) => lock = g)' /\ (Deploys(job[g]) /\ Lives(job[g]))'
  <2>1. CASE g = h
    BY <1>1, <2>1 DEF Steady, Piped, Deploys, Lives, Moving
  <2>2. CASE g # h
    BY <1>2, <2>2 DEF Deploys, Lives, Piped
  <2> QED BY <2>1, <2>2
<1>4. Led'
  BY <1>1 DEF Steady, Led, Moving
<1>5. HasFrontend'
  BY <1>1 DEF Steady, HasFrontend, Releasing
<1>6. OneRuns'
  BY <1>1 DEF Steady, OneRuns, Superseding
<1>7. RunsLive'
  BY <1>1 DEF Steady, RunsLive, Shifting
<1> QED BY <1>3, <1>4, <1>5, <1>6, <1>7 DEF CalmInv

\* Rows that neither run nor were released may change.
Alike == \A a \in Attempts, c \in Components :
    \/ row'[a][c] = row[a][c]
    \/ row[a][c].status \notin Settled /\ row'[a][c].status \notin Settled

LEMMA AlikeSets ==
  ASSUME Alike
  PROVE  \A c \in Components :
            /\ Running(c)' = Running(c) /\ ReleasedAttempts(c)' = ReleasedAttempts(c)
            /\ \A a \in Running(c) \cup ReleasedAttempts(c) : row'[a][c] = row[a][c]
<1> SUFFICES ASSUME NEW c \in Components
             PROVE  /\ Running(c)' = Running(c) /\ ReleasedAttempts(c)' = ReleasedAttempts(c)
                    /\ \A a \in Running(c) \cup ReleasedAttempts(c) : row'[a][c] = row[a][c]
  OBVIOUS
<1>1. Running(c)' = Running(c)
  BY DEF Alike, Running, Settled
<1>2. ReleasedAttempts(c)' = ReleasedAttempts(c)
  BY DEF Alike, ReleasedAttempts, Settled
<1>3. \A a \in Running(c) \cup ReleasedAttempts(c) : row'[a][c] = row[a][c]
  BY DEF Alike, Running, ReleasedAttempts, Settled
<1> QED BY <1>1, <1>2, <1>3

\* A step that leaves routes, containers and what runs alone.
LEMMA AlikeSteady ==
  ASSUME Alike, UNCHANGED <<route, live>>, NEW c \in Job, NEW f \in Job, Steady(c),
         Moving(c) => Moving(f), Releasing(c) => Releasing(f),
         Superseding(c) => Superseding(f),
         \A d \in Components : Shifting(c, d) => Shifting(f, d),
         (Deploys(f) /\ Lives(f))'
  PROVE  Steady(f)'
<1>1. (~Moving(f) => RoutesLive)'
  BY DEF Steady, Moving, RoutesLive
<1>2. (Served => ReleasedAttempts("frontend") # {} \/ Releasing(f))'
  <2>1. Served' = Served
    BY AlikeSets DEF Served
  <2>2. ReleasedAttempts("frontend")' = ReleasedAttempts("frontend")
    BY AlikeSets DEF Components
  <2> QED BY <2>1, <2>2 DEF Steady, Releasing
<1>3. ASSUME NEW d \in Components
      PROVE  (OneRow(d) \/ (d = "frontend" /\ Superseding(f)))'
  BY AlikeSets DEF Steady, OneRow, Superseding
<1>4. ASSUME NEW d \in Components
      PROVE  (LiveRow(d) \/ Shifting(f, d))'
  BY AlikeSets DEF Steady, LiveRow, Shifting
<1> QED BY <1>1, <1>2, <1>3, <1>4 DEF Steady

----------------------------------------------------------------------------
(* Steps of a pipeline in calm behaviours.                                 *)

LEMMA AcquireCalm ==
  ASSUME IInv, CalmInv, kind = "calm", NEW h \in Callers, Acquire(h)
  PROVE  CalmInv'
<1> DEFINE c == job[h]
<1>1. /\ c \in Job /\ c.at = "lock" /\ Only(h) /\ Steady(c) /\ FrameKnown(c)
      /\ UNCHANGED <<row, live, route>> /\ lock' = h /\ Goes(h, "checkout")
  BY InvTable, SteadyNow DEF Acquire
<1>2. PICK f \in Job : /\ job' = [job EXCEPT ![h] = f]
                       /\ f.at = "checkout" /\ Differ(c, f, {"at"})
  BY <1>1, GoesTo DEF Places
<1> HIDE DEF c
<1>3. Alike
  BY <1>1 DEF Alike
<1>4. ~Piped(c)
  BY <1>1 DEF Piped
<1>5. /\ f.failed = "none" /\ \A d \in Components : f.endpoints[d] = 0
  BY <1>1, <1>2 DEF Differ, FrameKnown, BeforeRows
<1>6. (Deploys(f) /\ Lives(f))'
  BY <1>2, <1>5 DEF Deploys, Lives, Moving
<1>7. Steady(f)'
  BY <1>1, <1>3, <1>4, <1>6, NotPiped, AlikeSteady
<1> QED BY <1>1, <1>2, <1>7, CalmStep

LEMMA CheckoutCalm ==
  ASSUME IInv, CalmInv, kind = "calm", NEW h \in Callers, NEW i \in Images, Checkout(h, i)
  PROVE  CalmInv'
<1> DEFINE c == job[h]
<1>1. /\ c \in Job /\ c.at = "checkout" /\ Piped(c) /\ lock' = lock
      /\ UNCHANGED <<live, route>>
  BY InvTable DEF Checkout, Piped
<1>2. lock = h /\ Only(h) /\ Steady(c)
  BY <1>1, SteadyNow DEF CalmInv
<1>3. PICK f \in Job :
         /\ job' = [job EXCEPT ![h] = f]
         /\ f.at = "build" /\ f.image = i /\ f.on = "backend" /\ f.failed = "none"
         /\ f.target = 0 /\ ~f.flip /\ f.rec = (IF job[h].rec = 0 THEN made + 1 ELSE job[h].rec)
         /\ \A d \in Components : f.endpoints[d] = 0
  BY CheckoutFrame
<1>4. Alike
  <2>1. CASE c.rec = 0
    <3>1. ASSUME NEW d \in Components, made + 1 \in Attempts
          PROVE  row[made + 1][d].status \notin Settled
      <4>1. made + 1 > made
        BY InvTable
      <4> QED BY <3>1, <4>1 DEF IInv, FreshRows, Blank, Settled
    <3> QED BY <2>1, <3>1, CheckoutRows DEF Alike, Settled
  <2>2. CASE c.rec # 0
    BY <2>2 DEF Checkout, Alike
  <2> QED BY <2>1, <2>2
<1> HIDE DEF c
<1>5. ~Moving(c) /\ ~Releasing(c) /\ ~Superseding(c) /\ \A d \in Components : ~Shifting(c, d)
  BY <1>1 DEF Moving, Releasing, Superseding, Shifting
<1>6. (Deploys(f) /\ Lives(f))'
  BY <1>3 DEF Deploys, Lives, Moving
<1>7. Steady(f)'
  BY <1>1, <1>2, <1>4, <1>5, <1>6, AlikeSteady
<1> QED BY <1>1, <1>2, <1>3, <1>7, CalmStep

LEMMA BuildCalm ==
  ASSUME IInv, CalmInv, kind = "calm", NEW h \in Callers, Build(h)
  PROVE  CalmInv'
<1> DEFINE c == job[h]
<1>1. /\ c \in Job /\ c.at = "build" /\ Piped(c) /\ lock' = lock /\ FrameKnown(c)
      /\ UNCHANGED <<live, route>> /\ Goes(h, "start")
  BY InvTable DEF Build, Piped
<1>2. lock = h /\ Only(h) /\ Steady(c)
  BY <1>1, SteadyNow DEF CalmInv
<1>3. PICK f \in Job : /\ job' = [job EXCEPT ![h] = f]
                       /\ f.at = "start" /\ Differ(c, f, {"at"})
  BY <1>1, GoesTo DEF Places
<1>4. Alike
  <2>1. \A d \in Components : row[c.rec][d].status = "building"
    BY <1>1 DEF FrameKnown, InLoop
  <2>2. c.on \in Components
    BY <1>1, Fields
  <2> QED BY <2>1, <2>2, BuildRows DEF Alike, Settled
<1> HIDE DEF c
<1>5. /\ f.at = "start" /\ f.on = c.on /\ f.image = c.image /\ f.failed = c.failed
      /\ f.target = c.target /\ f.endpoints = c.endpoints /\ c.failed = "none"
  BY <1>1, <1>3 DEF Differ, FrameKnown, InLoop
<1>6. /\ Moving(c) => Moving(f)
      /\ ~Releasing(c) /\ ~Superseding(c)
      /\ \A d \in Components : Shifting(c, d) => Shifting(f, d)
  BY <1>1, <1>5 DEF Moving, Releasing, Superseding, Shifting
<1>7. (Deploys(f) /\ Lives(f))'
  <2>1. Lives(c) /\ \A d \in Components : d # c.failed
    BY <1>2, <1>5, Numbers DEF Steady
  <2>2. Moving(f) => Moving(c)
    BY <1>1, <1>5 DEF Moving
  <2> QED BY <1>1, <1>5, <2>1, <2>2 DEF Deploys, Lives, Piped, Moving
<1>8. Steady(f)'
  BY <1>1, <1>2, <1>4, <1>6, <1>7, AlikeSteady
<1> QED BY <1>1, <1>2, <1>3, <1>8, CalmStep

\* A container replaces the live one of its component.
LEMMA StartCalm ==
  ASSUME IInv, CalmInv, kind = "calm", NEW h \in Callers, Start(h)
  PROVE  CalmInv'
<1> DEFINE c == job[h]
<1>1. /\ c \in Job /\ c.at = "start" /\ Piped(c) /\ lock' = lock /\ FrameKnown(c)
      /\ UNCHANGED <<row, route>> /\ c.on \in Components
      /\ c.failed = "none" /\ c.endpoints[c.on] = 0 /\ c.endpoints["frontend"] = 0
  BY InvTable, Fields DEF Start, Piped, FrameKnown, InLoop
<1>2. lock = h /\ Only(h) /\ Steady(c)
  BY <1>1, SteadyNow DEF CalmInv
<1>3. PICK f \in Job, p \in Ports :
         /\ job' = [job EXCEPT ![h] = f]
         /\ Starts(c.on, c.image, p)
         /\ f.at = (IF c.on = "backend" THEN "build" ELSE "finish")
         /\ f.on = "frontend" /\ f.rec = c.rec /\ f.image = c.image /\ f.failed = c.failed
         /\ f.target = c.target /\ f.flip = c.flip /\ f.endpoints[c.on] = p
         /\ \A d \in Components \ {c.on} : f.endpoints[d] = c.endpoints[d]
  BY StartFrame
<1> HIDE DEF c
<1>4. /\ live'[c.on].port = p /\ live'[c.on].image = c.image
      /\ \A d \in Components \ {c.on} : live'[d] = live[d]
  BY <1>1, <1>3, InvTable DEF Starts
<1>5. p # 0 /\ c.on \in {"backend", "frontend"} /\ \A d \in Components : d # c.failed
  BY <1>1, <1>3, Numbers DEF Components
<1>6. Moving(f) /\ ~Releasing(c) /\ ~Superseding(c) /\ f.at \in {"build", "finish"}
      /\ f.failed = "none"
  BY <1>1, <1>3 DEF Moving, Releasing, Superseding
<1>7. Shifting(f, c.on) /\ \A d \in Components \ {c.on} : Shifting(c, d) => Shifting(f, d)
  BY <1>1, <1>3, <1>5, <1>6 DEF Shifting
<1>8. (Deploys(f) /\ Lives(f))'
  <2>1. /\ \A d \in Components : c.endpoints[d] # 0 => c.endpoints[d] = live[d].port
                                                       /\ live[d].image = c.image
        /\ c.on = "frontend" => c.endpoints["backend"] # 0
    BY <1>1, <1>2, <1>5 DEF Steady, Lives, Moving
  <2>2. \A d \in Components : f.endpoints[d] # 0 => f.endpoints[d] = live'[d].port
                                                    /\ live'[d].image = f.image
    BY <1>3, <1>4, <2>1
  <2>3. f.endpoints["backend"] # 0 /\ (f.at = "finish" => f.endpoints["frontend"] # 0)
    BY <1>1, <1>3, <1>5, <2>1 DEF Components
  <2> QED BY <1>3, <1>5, <1>6, <2>2, <2>3 DEF Deploys, Lives
<1>9. Steady(f)'
  <2>1. (Served => ReleasedAttempts("frontend") # {} \/ Releasing(f))'
    BY <1>1, <1>2, <1>6 DEF Steady, Served, ReleasedAttempts, Running
  <2>2. \A d \in Components : (OneRow(d) \/ (d = "frontend" /\ Superseding(f)))'
    BY <1>1, <1>2, <1>6 DEF Steady, OneRow, Running
  <2>3. ASSUME NEW d \in Components
        PROVE  (LiveRow(d) \/ Shifting(f, d))'
    <3>1. CASE d = c.on
      BY <1>7, <3>1 DEF Shifting
    <3>2. CASE d # c.on
      BY <1>1, <1>2, <1>4, <1>7, <3>2 DEF Steady, LiveRow, Running, Shifting
    <3> QED BY <3>1, <3>2
  <2>4. (~Moving(f) => RoutesLive)'
    BY <1>6 DEF Moving
  <2> QED BY <1>8, <2>1, <2>2, <2>3, <2>4 DEF Steady
<1> QED BY <1>1, <1>2, <1>3, <1>9, CalmStep

\* The frontend fails: the backend has been replaced.
LEMMA ComponentFailsCalm ==
  ASSUME IInv, CalmInv, kind = "calm", NEW h \in Callers, ComponentFails(h),
         job[h].on # "backend"
  PROVE  CalmInv'
<1> DEFINE c == job[h]
<1>1. /\ c \in Job /\ c.at \in {"build", "start"} /\ Piped(c) /\ lock' = lock /\ FrameKnown(c)
      /\ UNCHANGED <<live, route>> /\ c.on = "frontend"
      /\ c.failed = "none" /\ c.endpoints["frontend"] = 0
  BY InvTable, Fields DEF ComponentFails, Piped, FrameKnown, InLoop, Components
<1>2. lock = h /\ Only(h) /\ Steady(c)
  BY <1>1, SteadyNow DEF CalmInv
<1>3. PICK f \in Job :
         /\ job' = [job EXCEPT ![h] = f]
         /\ f.at = "restore" /\ f.rec = c.rec /\ f.on = c.on /\ f.image = c.image
         /\ f.failed = c.on /\ f.target = c.target /\ f.flip = c.flip
         /\ f.endpoints = c.endpoints
  BY ComponentFailsFrame
<1>4. Alike
  BY ComponentFailsRows DEF Alike, Settled
<1> HIDE DEF c
<1>5. Moving(c) /\ Moving(f) /\ ~Releasing(c) /\ ~Superseding(c)
      /\ \A d \in Components : Shifting(c, d) => Shifting(f, d)
  BY <1>1, <1>3 DEF Moving, Releasing, Superseding, Shifting
<1>6. (Deploys(f) /\ Lives(f))'
  <2>1. /\ c.endpoints["backend"] # 0
        /\ \A d \in Components : c.endpoints[d] # 0 => d # "frontend" /\ d # "none"
              /\ c.endpoints[d] = live[d].port /\ live[d].image = c.image
    BY <1>1, <1>2, <1>5, Numbers DEF Steady, Lives
  <2> QED BY <1>1, <1>3, <2>1 DEF Deploys, Lives
<1>7. Steady(f)'
  BY <1>1, <1>2, <1>4, <1>5, <1>6, AlikeSteady
<1> QED BY <1>1, <1>2, <1>3, <1>7, CalmStep

\* What failed in a calm behaviour is the frontend, and it has not started.
LEMMA FrontendFailed ==
  ASSUME IInv, CalmInv, kind = "calm", NEW h \in Callers, job[h].at = "restore"
  PROVE  /\ job[h].failed = "frontend" /\ job[h].endpoints["frontend"] = 0
         /\ job[h].target = 0 /\ Piped(job[h]) /\ lock = h /\ Only(h) /\ Steady(job[h])
<1>1. Piped(job[h]) /\ FrameKnown(job[h])
  BY InvTable DEF Piped
<1>2. lock = h /\ Only(h) /\ Steady(job[h])
  BY <1>1, SteadyNow DEF CalmInv
<1>3. job[h].failed = "frontend"
  BY <1>1, <1>2 DEF FrameKnown, AfterLoop, Steady, Deploys, Components
<1> QED BY <1>1, <1>2, <1>3 DEF FrameKnown, AfterLoop

LEMMA RestoreCalm ==
  ASSUME IInv, CalmInv, kind = "calm", NEW h \in Callers, Restore(h)
  PROVE  CalmInv'
<1> DEFINE c == job[h]
<1>1. /\ c \in Job /\ c.at = "restore" /\ lock' = lock /\ UNCHANGED <<row, route>>
  <2>1. PICK u \in Attempts : RestoreFrom(h, u)
    BY DEF Restore, ReleasedAttempts
  <2> QED BY <2>1, InvTable DEF Restore, RestoreFrom
<1>2. /\ c.failed = "frontend" /\ c.endpoints["frontend"] = 0 /\ Piped(c)
      /\ lock = h /\ Only(h) /\ Steady(c)
  BY <1>1, FrontendFailed
<1>3. PICK f \in Job, t \in ReleasedAttempts(c.failed), p \in Ports :
         /\ job' = [job EXCEPT ![h] = f]
         /\ Starts(c.failed, row[t][c.failed].image, p)
         /\ f.at = "finish" /\ f.rec = c.rec /\ f.on = c.on /\ f.image = c.image
         /\ f.failed = c.failed /\ f.target = t /\ f.endpoints[c.failed] = p
         /\ \A d \in Components \ {c.failed} : f.endpoints[d] = c.endpoints[d]
  BY RestoreFrame
<1> HIDE DEF c
<1>4. "backend" \in Components /\ "frontend" \in Components
      /\ \A d \in Components : d # "frontend" => d = "backend"
  BY DEF Components
<1>5. /\ live'["frontend"].port = p /\ live'["frontend"].image = row[t]["frontend"].image
      /\ live'["backend"] = live["backend"] /\ p # 0 /\ t # 0
  BY <1>2, <1>3, <1>4, InvTable, Numbers DEF Starts, ReleasedAttempts
<1>6. Moving(c) /\ Moving(f) /\ ~Releasing(c) /\ ~Superseding(c)
  BY <1>1, <1>3 DEF Moving, Releasing, Superseding
<1>7. /\ c.endpoints["backend"] # 0 /\ c.endpoints["backend"] = live["backend"].port
      /\ live["backend"].image = c.image
  BY <1>2, <1>4, <1>6 DEF Steady, Lives
<1>8. (Deploys(f) /\ Lives(f))'
  <2>1. \A d \in Components : f.endpoints[d] # 0 =>
          /\ f.endpoints[d] = live'[d].port
          /\ d # f.failed => live'[d].image = f.image
          /\ d = f.failed => f.target # 0 /\ live'[d].image = row'[f.target][d].image
    BY <1>1, <1>2, <1>3, <1>4, <1>5, <1>7
  <2>2. f.endpoints["backend"] # 0 /\ f.endpoints["frontend"] # 0
    BY <1>2, <1>3, <1>4, <1>5, <1>7
  <2> QED BY <1>2, <1>3, <2>1, <2>2 DEF Deploys, Lives
<1>9. \A d \in Components : Shifting(f, d)
  BY <1>2, <1>3, <1>4, <1>5, <1>7 DEF Shifting
<1>10. Steady(f)'
  <2>1. (Served => ReleasedAttempts("frontend") # {} \/ Releasing(f))'
    BY <1>1, <1>2, <1>6 DEF Steady, Served, ReleasedAttempts, Running
  <2>2. \A d \in Components : (OneRow(d) \/ (d = "frontend" /\ Superseding(f)))'
    BY <1>1, <1>2, <1>6 DEF Steady, OneRow, Running
  <2>3. \A d \in Components : (LiveRow(d) \/ Shifting(f, d))'
    BY <1>9 DEF Shifting
  <2>4. (~Moving(f) => RoutesLive)'
    BY <1>6 DEF Moving
  <2> QED BY <1>8, <2>1, <2>2, <2>3, <2>4 DEF Steady
<1> QED BY <1>1, <1>2, <1>3, <1>10, CalmStep

\* Without a frontend to go back to, nothing was routed and nothing ran.
LEMMA NothingToRestoreCalm ==
  ASSUME IInv, CalmInv, kind = "calm", NEW h \in Callers, NothingToRestore(h)
  PROVE  CalmInv'
<1> DEFINE c == job[h]
<1>1. /\ c \in Job /\ c.at = "restore" /\ lock' = lock /\ UNCHANGED <<row, route, live>>
      /\ ReleasedAttempts(c.failed) = {} /\ Goes(h, "finish")
  BY InvTable DEF NothingToRestore
<1>2. /\ c.failed = "frontend" /\ c.endpoints["frontend"] = 0 /\ c.target = 0 /\ Piped(c)
      /\ lock = h /\ Only(h) /\ Steady(c)
  BY <1>1, FrontendFailed
<1>3. PICK f \in Job : /\ job' = [job EXCEPT ![h] = f]
                       /\ f.at = "finish" /\ Differ(c, f, {"at"})
  BY <1>1, GoesTo DEF Places
<1> HIDE DEF c
<1>4. /\ f.at = "finish" /\ f.on = c.on /\ f.image = c.image /\ f.failed = c.failed
      /\ f.target = c.target /\ f.endpoints = c.endpoints
  BY <1>3 DEF Differ
<1>5. Moving(c) /\ Moving(f) /\ ~Releasing(c) /\ ~Superseding(c)
      /\ \A d \in Components : Shifting(c, d) => Shifting(f, d)
  BY <1>1, <1>4 DEF Moving, Releasing, Superseding, Shifting
<1>6. ~Served
  BY <1>1, <1>2, <1>5 DEF Steady
<1>7. \A d \in Components : route[d] = 0 /\ Running(d) = {}
  BY <1>6 DEF Served
<1>8. Deploys(f) /\ Lives(f)
  <2>1. Lives(c)
    BY <1>2 DEF Steady
  <2> QED BY <1>2, <1>4, <1>5, <1>7, <2>1 DEF Deploys, Lives
<1>9. (Deploys(f) /\ Lives(f))'
  BY <1>1, <1>8 DEF Deploys, Lives, Piped, Moving, Running
<1>10. Alike
  BY <1>1 DEF Alike
<1>11. Steady(f)'
  BY <1>1, <1>2, <1>5, <1>9, <1>10, AlikeSteady
<1> QED BY <1>1, <1>2, <1>3, <1>11, CalmStep

\* Both paths lead to what this pipeline started.
LEMMA ConfigureCalm ==
  ASSUME IInv, CalmInv, kind = "calm", NEW h \in Callers, Configure(h)
  PROVE  CalmInv'
<1> DEFINE c == job[h]
<1>1. /\ c \in Job /\ c.at = "finish" /\ lock' = lock /\ UNCHANGED <<row, live>> /\ Piped(c)
      /\ FrameKnown(c) /\ route' = c.endpoints /\ \A d \in Components : c.endpoints[d] # 0
  BY InvTable DEF Configure, Complete, Piped
<1>2. lock = h /\ Only(h) /\ Steady(c)
  BY <1>1, SteadyNow DEF CalmInv
<1>3. PICK f \in Job :
         /\ job' = [job EXCEPT ![h] = f]
         /\ f.at = "commit" /\ f.rec = c.rec /\ f.on = "backend" /\ f.image = c.image
         /\ f.failed = c.failed /\ f.target = c.target /\ f.flip = c.flip
         /\ f.endpoints = c.endpoints
  BY ConfigureFrame
<1> HIDE DEF c
<1>4. "backend" \in Components /\ "frontend" \in Components
  BY DEF Components
<1>5. Moving(c) /\ ~Moving(f) /\ ~Superseding(c) /\ ~Releasing(c)
  BY <1>1, <1>3 DEF Moving, Superseding, Releasing
<1>6. \A d \in Components :
          /\ c.endpoints[d] = live[d].port
          /\ d # c.failed => live[d].image = c.image
          /\ d = c.failed => c.target # 0 /\ live[d].image = row[c.target][d].image
  BY <1>1, <1>2 DEF Steady, Lives
<1>7. (Deploys(f) /\ Lives(f))'
  BY <1>1, <1>2, <1>3, <1>4, <1>5, <1>6 DEF Steady, Deploys, Lives, Piped, Moving
<1>8. RoutesLive'
  BY <1>1, <1>6 DEF RoutesLive
<1>9. (Served => ReleasedAttempts("frontend") # {} \/ Releasing(f))'
  <2>1. CASE c.failed = "none"
    BY <1>3, <2>1 DEF Releasing
  <2>2. CASE c.failed # "none"
    <3>1. c.failed = "frontend"
      BY <1>1, <1>2, <2>2, Fields DEF Steady, Deploys, Components
    <3>2. c.target \in ReleasedAttempts("frontend")
      BY <1>1, <1>4, <1>6, <3>1 DEF FrameKnown, StartedProven
    <3>3. ReleasedAttempts("frontend")' = ReleasedAttempts("frontend")
      BY <1>1 DEF ReleasedAttempts
    <3> QED BY <3>2, <3>3
  <2> QED BY <2>1, <2>2
<1>10. \A d \in Components : (OneRow(d) \/ (d = "frontend" /\ Superseding(f)))'
  BY <1>1, <1>2, <1>5 DEF Steady, OneRow, Running
<1>11. \A d \in Components : (LiveRow(d) \/ Shifting(f, d))'
  BY <1>1, <1>3 DEF Shifting
<1>12. Steady(f)'
  BY <1>7, <1>8, <1>9, <1>10, <1>11 DEF Steady
<1> QED BY <1>1, <1>2, <1>3, <1>12, CalmStep

\* What Restored changes: the row gone back to, when it was stopped.
LEMMA RestoredRows ==
  ASSUME IInv, NEW h \in Callers, job[h].at \in {"finish", "commit", "settle"}
  PROVE  /\ Restored(h) \in Table
         /\ \A a \in Attempts, d \in Components :
               /\ Restored(h)[a][d].image = row[a][d].image
               /\ d # job[h].failed \/ job[h].target = 0 => Restored(h)[a][d] = row[a][d]
<1> DEFINE c == job[h]
<1>1. Restored(h) \in Table /\ \A a \in Attempts, d \in Components :
         Restored(h)[a][d].image = row[a][d].image
  BY ClosesRestored DEF Closes
<1>2. CASE ~c.flip
  BY <1>1, <1>2 DEF Restored
<1>3. CASE c.flip
  <2>1. c.failed \in Components /\ c.target # 0 /\ c.target \in Attempts
    BY <1>3, InvTable DEF FrameKnown, StartedProven, ReleasedAttempts
  <2>2. Restored(h) = WithStatus(row, c.target, c.failed, "running")
    BY <1>3 DEF Restored, WithStatus
  <2>3. "running" \in Statuses /\ row \in Table
    BY InvTable DEF Statuses
  <2> HIDE DEF c
  <2>4. \A a \in Attempts, d \in Components : d # c.failed => Restored(h)[a][d] = row[a][d]
    BY <2>1, <2>2, <2>3, StatusSet
  <2> QED BY <1>1, <2>1, <2>4 DEF c
<1> QED BY <1>2, <1>3

\* One row of the component committed runs; the other component's are as restored.
LEMMA CommitRows ==
  ASSUME IInv, NEW h \in Callers, Commit(h), job[h].on # job[h].failed
  PROVE  LET c == job[h] IN
         /\ row'[c.rec][c.on].status = "running"
         /\ \A a \in Attempts : row'[a][c.on].status = "running" => a = c.rec
         /\ \A a \in Attempts, d \in Components :
               /\ row'[a][d].image = row[a][d].image
               /\ d # c.on /\ (d # c.failed \/ c.target = 0) => row'[a][d] = row[a][d]
<1> DEFINE c == job[h]
<1>1. /\ c.at = "commit" /\ c.rec \in Attempts /\ c.on \in Components /\ "running" \in Statuses
      /\ row' = Marked(Released(h), c.rec, c.on)
      /\ Released(h) = WithStatus(Restored(h), c.rec, c.on, "running")
  BY InvTable, Fields
     DEF Commit, Commits, Released, WithStatus, FrameKnown, StartedProven, Statuses
<1> HIDE DEF c
<1>2. /\ Restored(h) \in Table
      /\ \A a \in Attempts, d \in Components :
            /\ Restored(h)[a][d].image = row[a][d].image
            /\ d # c.failed \/ c.target = 0 => Restored(h)[a][d] = row[a][d]
  BY <1>1, RestoredRows DEF c
<1>3. /\ Released(h) \in Table /\ Released(h)[c.rec][c.on].status = "running"
      /\ \A a \in Attempts, d \in Components :
            /\ Released(h)[a][d].image = Restored(h)[a][d].image
            /\ d # c.on => Released(h)[a][d] = Restored(h)[a][d]
  BY <1>1, <1>2, StatusSet
<1>4. \A a \in Attempts, d \in Components :
         /\ row'[a][d].image = Released(h)[a][d].image
         /\ d # c.on => row'[a][d] = Released(h)[a][d]
  BY <1>1, <1>3, MarkedTable
<1>5. row'[c.rec][c.on].status = "running"
  BY <1>1, <1>3, MarkedTable
<1>6. \A a \in Attempts : a # c.rec => row'[a][c.on].status # "running"
  <2> SUFFICES ASSUME NEW a \in Attempts, a # c.rec PROVE row'[a][c.on].status # "running"
    OBVIOUS
  <2>1. CASE Released(h)[a][c.on].status = "running"
    BY <1>1, <1>3, <2>1, MarkedTable
  <2>2. CASE Released(h)[a][c.on].status # "running"
    <3>1. row'[a][c.on] = Released(h)[a][c.on]
      BY <1>1, <1>3, <2>2, MarkedTable
    <3> QED BY <2>2, <3>1
  <2> QED BY <2>1, <2>2
<1>7. \A a \in Attempts, d \in Components :
         /\ row'[a][d].image = row[a][d].image
         /\ d # c.on /\ (d # c.failed \/ c.target = 0) => row'[a][d] = row[a][d]
  BY <1>2, <1>3, <1>4
<1> QED BY <1>5, <1>6, <1>7 DEF c

\* The component committed runs the image that lives.
LEMMA CommitCalm ==
  ASSUME IInv, CalmInv, kind = "calm", NEW h \in Callers, Commit(h)
  PROVE  CalmInv'
<1> DEFINE c == job[h]
<1>1. /\ c \in Job /\ c.at = "commit" /\ lock' = lock /\ UNCHANGED <<route, live>> /\ Piped(c)
      /\ FrameKnown(c) /\ c.rec \in Attempts /\ c.on \in Components /\ c.image \in Images
      /\ \A d \in Components : c.endpoints[d] # 0
  BY InvTable, Fields
     DEF Commit, Commits, Piped, FrameKnown, AfterLoop, StartedProven
<1>2. lock = h /\ Only(h) /\ Steady(c)
  BY <1>1, SteadyNow DEF CalmInv
<1>3. PICK f \in Job :
         /\ job' = [job EXCEPT ![h] = f]
         /\ f.at = (IF c.on = "backend" THEN "commit" ELSE "settle")
         /\ f.flip = (c.flip /\ c.on = c.failed)
         /\ f.rec = c.rec /\ f.on = "frontend" /\ f.image = c.image
         /\ f.failed = c.failed /\ f.target = c.target /\ f.endpoints = c.endpoints
  BY CommitFrame
<1>r. c.on # c.failed =>
         /\ row'[c.rec][c.on].status = "running"
         /\ \A a \in Attempts : row'[a][c.on].status = "running" => a = c.rec
         /\ \A a \in Attempts, d \in Components :
               /\ row'[a][d].image = row[a][d].image
               /\ d # c.on /\ (d # c.failed \/ c.target = 0) => row'[a][d] = row[a][d]
  BY CommitRows
<1>s. c.on = c.failed => row' = row
  BY DEF Commit, Commits
<1>c. Grows(c.rec)
  BY CommitCloses, ClosesStep DEF Commit, Commits
<1> HIDE DEF c
<1>4. "backend" \in Components /\ "frontend" \in Components
      /\ (\A d \in Components : d = "backend" \/ d = "frontend")
      /\ c.failed \in {"frontend", "none"} /\ f.at \in {"commit", "settle"}
  BY <1>1, <1>2, <1>3, Fields DEF Steady, Deploys, Components
<1>5. \A d \in Components :
          /\ c.endpoints[d] = live[d].port
          /\ d # c.failed => live[d].image = c.image /\ row[c.rec][d].image = c.image
          /\ d = c.failed => c.target # 0 /\ live[d].image = row[c.target][d].image
  BY <1>1, <1>2 DEF Steady, Lives, FrameKnown, StartedProven
<1>6. c.failed = "none" => c.target = 0
  BY <1>1, Numbers DEF FrameKnown, StartedProven
<1>7. /\ ~Moving(c) /\ RoutesLive
      /\ Superseding(c) = (c.failed = "frontend")
      /\ Superseding(f) = (c.failed = "frontend")
  BY <1>1, <1>2, <1>3, <1>4 DEF Steady, Moving, Superseding
<1>8. c.failed = "frontend" =>
         c.target \in Attempts /\ c.target \in ReleasedAttempts("frontend")
  BY <1>1, <1>4, <1>5 DEF FrameKnown, StartedProven, ReleasedAttempts
<1>9. (Deploys(f) /\ Lives(f))'
  <2>1. \A a \in Attempts, d \in Components : row'[a][d].image = row[a][d].image
    BY <1>r, <1>s
  <2>2. c.failed = "frontend" => row'[c.target]["frontend"].image = row[c.target]["frontend"].image
    BY <1>4, <1>8, <2>1
  <2>3. \A d \in Components :
          /\ f.endpoints[d] = live'[d].port
          /\ d # f.failed => live'[d].image = f.image
          /\ d = f.failed => f.target # 0 /\ live'[d].image = row'[f.target][d].image
    BY <1>1, <1>3, <1>4, <1>5, <2>2
  <2> QED BY <1>1, <1>3, <1>4, <2>3 DEF Deploys, Lives
<1>10. CASE c.on = c.failed
  <2>1. Alike
    BY <1>s, <1>10 DEF Alike
  <2>2. c.on = "frontend" /\ ~Releasing(c)
    BY <1>1, <1>4, <1>10, Numbers DEF Releasing
  <2>3. \A d \in Components : Shifting(c, d) => Shifting(f, d)
    BY <1>1, <1>3, <1>4, <1>10, <2>2 DEF Shifting
  <2>4. Steady(f)'
    BY <1>1, <1>2, <1>7, <1>9, <2>1, <2>2, <2>3, AlikeSteady
  <2> QED BY <1>1, <1>2, <1>3, <2>4, CalmStep
<1>11. CASE c.on # c.failed
  <2>1. RoutesLive'
    BY <1>1, <1>7 DEF RoutesLive
  <2>2. ASSUME NEW d \in Components, d = c.on
        PROVE  OneRow(d)' /\ LiveRow(d)'
    <3>1. ASSUME NEW a \in Attempts, row'[a][c.on].status = "running"
          PROVE  a = c.rec /\ live'[c.on].image = row'[a][c.on].image
      BY <1>1, <1>5, <1>11, <1>r, <3>1
    <3> QED BY <2>2, <3>1 DEF OneRow, LiveRow, Running
  <2>3. CASE c.on = "backend"
    <3>1. (Served => ReleasedAttempts("frontend") # {} \/ Releasing(f))'
      <4>1. CASE c.failed = "none"
        BY <1>3, <2>3, <4>1 DEF Releasing
      <4>2. CASE c.failed = "frontend"
        <5>1. PICK t \in ReleasedAttempts("frontend") : TRUE
          BY <1>8, <4>2
        <5>2. (t \in ReleasedAttempts("frontend"))'
          BY <1>c, <1>4, <5>1, ReleasedStay
        <5> QED BY <5>2
      <4> QED BY <1>4, <4>1, <4>2
    <3>2. OneRow("frontend")' \/ Superseding(f)'
      <4>1. CASE c.failed = "none"
        <5>1. \A a \in Attempts : row'[a]["frontend"] = row[a]["frontend"]
          BY <1>4, <1>6, <1>11, <1>r, <2>3, <4>1
        <5>2. OneRow("frontend")
          BY <1>2, <1>4, <1>7, <4>1 DEF Steady
        <5> QED BY <5>1, <5>2 DEF OneRow, Running
      <4>2. CASE c.failed = "frontend"
        BY <1>7, <4>2 DEF Superseding
      <4> QED BY <1>4, <4>1, <4>2
    <3>3. Shifting(f, "frontend")'
      BY <1>1, <1>3, <1>4, <2>3 DEF Shifting
    <3>4. OneRow("backend")' /\ LiveRow("backend")'
      BY <1>4, <2>2, <2>3
    <3>5. Steady(f)'
      BY <1>4, <1>9, <2>1, <3>1, <3>2, <3>3, <3>4 DEF Steady
    <3> QED BY <1>1, <1>2, <1>3, <3>5, CalmStep
  <2>4. CASE c.on = "frontend"
    <3>1. c.failed = "none" /\ c.target = 0 /\ ~Superseding(c) /\ ~Shifting(c, "backend")
      BY <1>1, <1>4, <1>6, <1>11, <2>4 DEF Superseding, Shifting
    <3>2. (Served => ReleasedAttempts("frontend") # {} \/ Releasing(f))'
      <4>1. row'[c.rec]["frontend"].image \in Images
        BY <1>1, <1>4, <1>5, <1>11, <1>r, <3>1
      <4>2. row'[c.rec]["frontend"].status = "running"
        BY <1>11, <1>r, <2>4
      <4>3. PICK r \in Attempts : r = c.rec
        BY <1>1
      <4>4. (r \in ReleasedAttempts("frontend"))'
        BY <4>1, <4>2, <4>3, Numbers DEF ReleasedAttempts
      <4> QED BY <4>4
    <3>3. OneRow("backend")' /\ LiveRow("backend")'
      <4>1. \A a \in Attempts : row'[a]["backend"] = row[a]["backend"]
        BY <1>4, <1>11, <1>r, <2>4, <3>1
      <4>2. OneRow("backend") /\ LiveRow("backend")
        BY <1>2, <1>4, <3>1 DEF Steady
      <4> QED BY <1>1, <4>1, <4>2 DEF OneRow, LiveRow, Running
    <3>4. OneRow("frontend")' /\ LiveRow("frontend")'
      BY <1>4, <2>2, <2>4
    <3>5. Steady(f)'
      BY <1>4, <1>9, <2>1, <3>2, <3>3, <3>4 DEF Steady
    <3> QED BY <1>1, <1>2, <1>3, <3>5, CalmStep
  <2> QED BY <1>1, <1>4, <2>3, <2>4
<1> QED BY <1>10, <1>11

\* The restored row supersedes the others, and it names the frontend that lives.
LEMMA SettleRows ==
  ASSUME IInv, NEW h \in Callers, Settle(h), job[h].target # 0
  PROVE  LET c == job[h] IN
         /\ \A a \in Attempts : row'[a][c.failed].status = "running" => a = c.target
         /\ \A a \in Attempts, d \in Components :
               /\ row'[a][d].image = row[a][d].image
               /\ d # c.failed => row'[a][d] = row[a][d]
<1> DEFINE c == job[h]
<1>1. /\ c.at = "settle" /\ c.failed \in Components /\ c.target \in Attempts
      /\ row' = Marked(Restored(h), c.target, c.failed)
  BY InvTable DEF Settle, FrameKnown, StartedProven, ReleasedAttempts
<1> HIDE DEF c
<1>2. /\ Restored(h) \in Table
      /\ \A a \in Attempts, d \in Components :
            /\ Restored(h)[a][d].image = row[a][d].image
            /\ d # c.failed => Restored(h)[a][d] = row[a][d]
  BY <1>1, RestoredRows DEF c
<1>3. \A a \in Attempts, d \in Components :
         /\ row'[a][d].image = Restored(h)[a][d].image
         /\ d # c.failed => row'[a][d] = Restored(h)[a][d]
  BY <1>1, <1>2, MarkedTable
<1>4. ASSUME NEW a \in Attempts, a # c.target
      PROVE  row'[a][c.failed].status # "running"
  <2>1. CASE Restored(h)[a][c.failed].status = "running"
    BY <1>1, <1>2, <1>4, <2>1, MarkedTable
  <2>2. CASE Restored(h)[a][c.failed].status # "running"
    <3>1. row'[a][c.failed] = Restored(h)[a][c.failed]
      BY <1>1, <1>2, <2>2, MarkedTable
    <3> QED BY <2>2, <3>1
  <2> QED BY <2>1, <2>2
<1>5. \A a \in Attempts, d \in Components :
         /\ row'[a][d].image = row[a][d].image
         /\ d # c.failed => row'[a][d] = row[a][d]
  BY <1>2, <1>3
<1>6. \A a \in Attempts : row'[a][c.failed].status = "running" => a = c.target
  BY <1>4
<1> QED BY <1>5, <1>6 DEF c

LEMMA SettleCalm ==
  ASSUME IInv, CalmInv, kind = "calm", NEW h \in Callers, Settle(h)
  PROVE  CalmInv'
<1> DEFINE c == job[h]
<1>1. /\ c \in Job /\ c.at = "settle" /\ lock' = lock /\ UNCHANGED <<route, live>> /\ Piped(c)
      /\ FrameKnown(c) /\ Goes(h, "unlock")
  BY InvTable DEF Settle, Piped
<1>2. lock = h /\ Only(h) /\ Steady(c)
  BY <1>1, SteadyNow DEF CalmInv
<1>3. PICK f \in Job : /\ job' = [job EXCEPT ![h] = f]
                       /\ f.at = "unlock" /\ Differ(c, f, {"at"})
  BY <1>1, GoesTo DEF Places
<1>r. c.target # 0 =>
         /\ \A a \in Attempts : row'[a][c.failed].status = "running" => a = c.target
         /\ \A a \in Attempts, d \in Components :
               /\ row'[a][d].image = row[a][d].image
               /\ d # c.failed => row'[a][d] = row[a][d]
  BY SettleRows
<1>s. c.target = 0 => row' = row
  BY DEF Settle
<1>c. Grows(c.rec)
  BY SettleCloses, ClosesStep DEF Settle
<1> HIDE DEF c
<1>4. /\ f.at = "unlock" /\ f.on = c.on /\ f.image = c.image /\ f.failed = c.failed
      /\ f.target = c.target /\ f.endpoints = c.endpoints
  BY <1>3 DEF Differ
<1>5. "backend" \in Components /\ "frontend" \in Components
      /\ (\A d \in Components : d = "backend" \/ d = "frontend")
      /\ c.failed \in {"frontend", "none"}
  BY <1>1, <1>2, Fields DEF Steady, Deploys, Components
<1>6. \A d \in Components :
          /\ c.endpoints[d] = live[d].port
          /\ d # c.failed => live[d].image = c.image
          /\ d = c.failed => c.target # 0 /\ live[d].image = row[c.target][d].image
  BY <1>1, <1>2, <1>5 DEF Steady, Lives
<1>7. /\ c.target # 0 => c.failed = "frontend" /\ c.target \in ReleasedAttempts("frontend")
      /\ c.failed = "frontend" => c.target # 0
  BY <1>1, <1>5, <1>6, Numbers DEF FrameKnown, StartedProven
<1>8. ~Moving(c) /\ RoutesLive /\ ~Releasing(c)
  BY <1>1, <1>2 DEF Steady, Moving, Releasing
<1>9. (Deploys(f) /\ Lives(f))'
  <2>1. c.failed = "frontend" => row'[c.target]["frontend"].image = row[c.target]["frontend"].image
    BY <1>5, <1>7, <1>r DEF ReleasedAttempts
  <2> QED BY <1>1, <1>4, <1>5, <1>6, <2>1 DEF Deploys, Lives, Moving
<1>10. CASE c.target = 0
  <2>1. Alike
    BY <1>s, <1>10 DEF Alike
  <2>2. ~Superseding(c) /\ \A d \in Components : ~Shifting(c, d)
    BY <1>1, <1>5, <1>7, <1>10, Numbers DEF Superseding, Shifting
  <2>3. Steady(f)'
    BY <1>1, <1>2, <1>8, <1>9, <2>1, <2>2, AlikeSteady
  <2> QED BY <1>1, <1>2, <1>3, <2>3, CalmStep
<1>11. CASE c.target # 0
  <2>1. RoutesLive'
    BY <1>1, <1>8 DEF RoutesLive
  <2>2. ReleasedAttempts("frontend")' # {}
    <3>1. PICK t \in ReleasedAttempts("frontend") : TRUE
      BY <1>7, <1>11
    <3>2. (t \in ReleasedAttempts("frontend"))'
      BY <1>c, <1>5, <3>1, ReleasedStay
    <3> QED BY <3>2
  <2>3. OneRow("frontend")' /\ LiveRow("frontend")'
    <3>1. ASSUME NEW a \in Attempts, row'[a]["frontend"].status = "running"
          PROVE  a = c.target /\ live'["frontend"].image = row'[a]["frontend"].image
      BY <1>1, <1>5, <1>6, <1>7, <1>11, <1>r, <3>1
    <3> QED BY <3>1 DEF OneRow, LiveRow, Running
  <2>4. OneRow("backend")' /\ LiveRow("backend")'
    <3>1. \A a \in Attempts : row'[a]["backend"] = row[a]["backend"]
      BY <1>5, <1>7, <1>11, <1>r
    <3>2. ~Shifting(c, "backend")
      BY <1>1, <1>7, <1>11 DEF Shifting
    <3>3. OneRow("backend") /\ LiveRow("backend")
      BY <1>2, <1>5, <3>2 DEF Steady
    <3> QED BY <1>1, <3>1, <3>3 DEF OneRow, LiveRow, Running
  <2>5. Steady(f)'
    BY <1>5, <1>9, <2>1, <2>2, <2>3, <2>4 DEF Steady
  <2> QED BY <1>1, <1>2, <1>3, <2>5, CalmStep
<1> QED BY <1>10, <1>11

\* An endpoint is missing only before the first release.
LEMMA GiveUpCalm ==
  ASSUME IInv, CalmInv, kind = "calm", NEW h \in Callers, GiveUp(h)
  PROVE  CalmInv'
<1> DEFINE c == job[h]
<1>1. /\ c \in Job /\ c.at = "finish" /\ lock' = lock /\ UNCHANGED <<route, live>> /\ Piped(c)
      /\ FrameKnown(c) /\ Goes(h, "unlock") /\ c.rec \in Attempts
      /\ \E d \in Components : c.endpoints[d] = 0
  BY InvTable, Fields DEF GiveUp, Complete, Piped, FrameKnown, StartedProven
<1>2. lock = h /\ Only(h) /\ Steady(c)
  BY <1>1, SteadyNow DEF CalmInv
<1>3. PICK f \in Job : /\ job' = [job EXCEPT ![h] = f]
                       /\ f.at = "unlock" /\ Differ(c, f, {"at"})
  BY <1>1, GoesTo DEF Places
<1>4. /\ f.at = "unlock" /\ f.on = c.on /\ f.image = c.image /\ f.failed = c.failed
      /\ f.target = c.target /\ f.endpoints = c.endpoints
  BY <1>3 DEF Differ
<1>5. Moving(c) /\ ~Moving(f) /\ c.endpoints["backend"] # 0 /\ c.endpoints["frontend"] = 0
  BY <1>1, <1>2, <1>4 DEF Steady, Lives, Moving, Components
<1>6. c.target = 0 /\ \A d \in Components : route[d] = 0 /\ Running(d) = {}
  BY <1>1, <1>2, <1>5 DEF Steady, Lives
<1>7. ~c.flip
  BY <1>1, <1>6 DEF FrameKnown, StartedProven
<1>8. \A d \in Components : Running(d)' = {}
  <2> DEFINE line == [d \in Components |-> IF row[c.rec][d].status = "building"
                                           THEN [row[c.rec][d] EXCEPT !.status = "failed"]
                                           ELSE row[c.rec][d]]
  <2>1. row' = [row EXCEPT ![c.rec] = line]
    BY <1>7 DEF GiveUp, Restored
  <2> HIDE DEF c
  <2>2. ASSUME NEW d \in Components PROVE line[d].status # "running"
    <3>1. row[c.rec][d] \in Row /\ row[c.rec][d].status # "running"
      BY <1>1, <1>6, TableRows, InvTable DEF Running
    <3> QED BY <3>1 DEF Row
  <2> HIDE DEF line
  <2>3. row'[c.rec] = line /\ \A a \in Attempts \ {c.rec} : row'[a] = row[a]
    BY <1>1, <2>1, InvTable DEF Table
  <2>4. ASSUME NEW a \in Attempts, NEW d \in Components PROVE row'[a][d].status # "running"
    BY <1>6, <2>2, <2>3 DEF Running
  <2> QED BY <2>4 DEF Running
<1> HIDE DEF c
<1>9. (Deploys(f) /\ Lives(f))'
  <2>1. /\ c.endpoints["backend"] = live["backend"].port /\ c.failed # "backend"
        /\ live["backend"].image = c.image /\ "backend" \in Components
        /\ \A d \in Components : d = "backend" \/ d = "frontend"
    BY <1>1, <1>2, <1>5 DEF Steady, Deploys, Lives, Components
  <2> QED BY <1>1, <1>4, <1>5, <2>1 DEF Deploys, Lives, Moving
<1>10. Steady(f)'
  <2>1. RoutesLive' /\ ~Served'
    BY <1>1, <1>6, <1>8 DEF RoutesLive, Served
  <2>2. \A d \in Components : OneRow(d)' /\ LiveRow(d)'
    BY <1>8 DEF OneRow, LiveRow
  <2> QED BY <1>9, <2>1, <2>2 DEF Steady
<1> QED BY <1>1, <1>2, <1>3, <1>10, CalmStep

LEMMA UnlockCalm ==
  ASSUME IInv, CalmInv, kind = "calm", NEW h \in Callers, Unlock(h)
  PROVE  CalmInv'
<1> DEFINE c == job[h]
<1>1. /\ c \in Job /\ c.at = "unlock" /\ UNCHANGED <<route, live, row>> /\ Piped(c)
      /\ job' = [job EXCEPT ![h] = NoJob]
  BY InvTable DEF Unlock, Piped
<1>2. Only(h) /\ Steady(c)
  BY <1>1, SteadyNow
<1> HIDE DEF c
<1>3. ~Moving(c) /\ ~Releasing(c) /\ ~Superseding(c) /\ \A d \in Components : ~Shifting(c, d)
  BY <1>1 DEF Moving, Releasing, Superseding, Shifting
<1>4. PICK f \in Job : f = NoJob
  BY NoJobType
<1>5. ~Piped(f)
  BY <1>4, NoJobType DEF Piped
<1>6. (Deploys(f) /\ Lives(f))'
  BY <1>5 DEF Deploys, Lives, Piped
<1>7. Alike
  BY <1>1 DEF Alike
<1>8. Steady(f)'
  BY <1>1, <1>2, <1>3, <1>6, <1>7, AlikeSteady
<1>9. job' = [job EXCEPT ![h] = f]
  BY <1>1, <1>4
<1> QED BY <1>2, <1>5, <1>8, <1>9, CalmStep

----------------------------------------------------------------------------
(* Steps of those who have no lock.                                        *)

LEMMA BesideCalm ==
  ASSUME IInv, CalmInv, kind = "calm", NEW h \in Callers, NEW f \in Job,
         ~Piped(job[h]), ~Piped(f), job' = [job EXCEPT ![h] = f],
         UNCHANGED <<lock, live, route>>, Alike,
         \A a \in Attempts, c \in Components : row'[a][c].image = row[a][c].image
  PROVE  CalmInv'
<1>1. job'[h] = f /\ \A g \in Callers \ {h} : job'[g] = job[g]
  BY InvTable
<1>2. /\ ~Moving(f) /\ ~Releasing(f) /\ ~Superseding(f)
      /\ ~Moving(job[h]) /\ ~Releasing(job[h]) /\ ~Superseding(job[h])
      /\ \A c \in Components : ~Shifting(f, c) /\ ~Shifting(job[h], c)
  BY NotPiped, InvTable
<1>3. ASSUME NEW g \in Callers
      PROVE  (Piped(job[g]) => lock = g)' /\ (Deploys(job[g]) /\ Lives(job[g]))'
  <2>1. CASE g = h
    BY <1>1, <2>1 DEF Piped, Deploys, Lives
  <2>2. CASE g # h
    <3>1. PICK k \in Job : k = job[g] /\ k = job'[g]
      BY <1>1, <2>2, InvTable
    <3>2. (Piped(k) => lock = g) /\ Deploys(k) /\ Lives(k)
      BY <3>1 DEF CalmInv
    <3>3. k.target # 0 => \A c \in Components : row'[k.target][c].image = row[k.target][c].image
      BY Fields
    <3>4. \A c \in Components : Running(c)' = Running(c)
      BY AlikeSets
    <3>5. (Piped(k) => lock = g)' /\ Deploys(k)'
      BY <3>2 DEF Piped, Deploys
    <3>6. Lives(k)'
      BY <3>2, <3>3, <3>4 DEF Lives, Piped, Moving
    <3> QED BY <3>1, <3>5, <3>6 DEF Piped, Deploys, Lives, Moving
  <2> QED BY <2>1, <2>2
<1>4. \A g \in Callers : /\ Moving(job[g])' <=> Moving(job[g])
                         /\ Releasing(job[g])' <=> Releasing(job[g])
                         /\ Superseding(job[g])' <=> Superseding(job[g])
                         /\ \A c \in Components : Shifting(job[g], c)' <=> Shifting(job[g], c)
  <2> SUFFICES ASSUME NEW g \in Callers
               PROVE  /\ Moving(job[g])' <=> Moving(job[g])
                      /\ Releasing(job[g])' <=> Releasing(job[g])
                      /\ Superseding(job[g])' <=> Superseding(job[g])
                      /\ \A c \in Components : Shifting(job[g], c)' <=> Shifting(job[g], c)
    OBVIOUS
  <2>1. CASE g = h
    BY <1>1, <1>2, <2>1 DEF Moving, Releasing, Superseding, Shifting
  <2>2. CASE g # h
    BY <1>1, <2>2 DEF Moving, Releasing, Superseding, Shifting
  <2> QED BY <2>1, <2>2
<1>5. Led'
  BY <1>4 DEF CalmInv, Led, RoutesLive
<1>6. HasFrontend'
  <2>1. Served' = Served
    BY AlikeSets DEF Served
  <2>2. ReleasedAttempts("frontend")' = ReleasedAttempts("frontend")
    BY AlikeSets DEF Components
  <2> QED BY <1>4, <2>1, <2>2 DEF CalmInv, HasFrontend
<1>7. OneRuns'
  <2>1. \A c \in Components : OneRow(c)' = OneRow(c)
    BY AlikeSets DEF OneRow
  <2> QED BY <1>4, <2>1 DEF CalmInv, OneRuns
<1>8. RunsLive'
  <2>1. \A c \in Components : LiveRow(c) => LiveRow(c)'
    BY AlikeSets DEF LiveRow
  <2> QED BY <1>4, <2>1 DEF CalmInv, RunsLive
<1> QED BY <1>3, <1>5, <1>6, <1>7, <1>8 DEF CalmInv

LEMMA RequestCalm ==
  ASSUME IInv, CalmInv, kind = "calm", NEW h \in Callers, DeployRequest(h)
  PROVE  CalmInv'
<1> DEFINE f == [NoJob EXCEPT !.at = "lock"]
<1>1. f \in Job /\ f.at = "lock"
  BY FieldSet, NoJobType DEF Places
<1>2. /\ job' = [job EXCEPT ![h] = f] /\ job[h].at = "idle"
      /\ UNCHANGED <<row, lock, live, route>>
  BY DEF DeployRequest
<1> HIDE DEF f
<1>3. ~Piped(f) /\ ~Piped(job[h])
  BY <1>1, <1>2 DEF Piped
<1>4. Alike
  BY <1>2 DEF Alike
<1> QED BY <1>1, <1>2, <1>3, <1>4, BesideCalm

LEMMA QueueCalm ==
  ASSUME IInv, CalmInv, kind = "calm", NEW h \in Callers, QueueRequest(h)
  PROVE  CalmInv'
<1> DEFINE f1 == [NoJob EXCEPT !.at = "lock"]
           f2 == [f1 EXCEPT !.rec = made + 1]
           none == [c \in Components |-> NoImage]
<1>0. none \in [Components -> Images \cup {NoImage}] /\ \A c \in Components : none[c] = NoImage
  OBVIOUS
<1>1. /\ InsertRows("building", none) /\ UNCHANGED <<proven, lock, live, route>>
      /\ job' = [job EXCEPT ![h] = f2] /\ job[h].at = "idle"
  BY DEF QueueRequest
<1> HIDE DEF none
<1>2. f1 \in Job /\ f1.at = "lock"
  BY FieldSet, NoJobType DEF Places
<1> HIDE DEF f1
<1>3. /\ made + 1 \in Attempts
      /\ \A c \in Components : /\ row'[made + 1][c].status = "building"
                               /\ row'[made + 1][c].image = NoImage
      /\ \A a \in Attempts : a # made + 1 => row'[a] = row[a]
  BY <1>0, <1>1, Inserted
<1>4. f2 \in Job /\ f2.at = "lock"
  BY <1>2, <1>3, FieldSet DEF Differ
<1> HIDE DEF f2
<1>5. \A c \in Components : row[made + 1][c] = Blank
  <2>1. made + 1 > made
    BY InvTable
  <2> QED BY <1>3, <2>1 DEF IInv, FreshRows
<1>6. Alike
  BY <1>3, <1>5 DEF Alike, Settled, Blank
<1>7. \A a \in Attempts, c \in Components : row'[a][c].image = row[a][c].image
  BY <1>3, <1>5 DEF Blank
<1>8. ~Piped(f2) /\ ~Piped(job[h])
  BY <1>1, <1>4 DEF Piped
<1> QED BY <1>1, <1>4, <1>6, <1>7, <1>8, BesideCalm

LEMMA BusyCalm ==
  ASSUME IInv, CalmInv, kind = "calm", NEW h \in Callers, Busy(h)
  PROVE  CalmInv'
<1> DEFINE r == job[h].rec
           new == [c \in Components |-> [row[r][c] EXCEPT !.status = "failed"]]
<1>1. /\ job' = [job EXCEPT ![h] = NoJob] /\ job[h].at = "lock"
      /\ UNCHANGED <<lock, live, route>>
  BY DEF Busy
<1>2. r \in Attempts \cup {0} /\ FrameKnown(job[h])
  BY InvTable, Fields
<1>3. ~Piped(NoJob) /\ ~Piped(job[h])
  BY <1>1, NoJobType DEF Piped
<1>4. Alike /\ \A a \in Attempts, c \in Components : row'[a][c].image = row[a][c].image
  <2>1. CASE r = 0
    BY <2>1 DEF Busy, Alike
  <2>2. CASE r # 0
    <3>1. row' = [row EXCEPT ![r] = new]
      BY <2>2 DEF Busy
    <3>2. \A c \in Components : row[r][c].status = "building"
      BY <1>1, <1>2, <2>2 DEF FrameKnown, BeforeRows
    <3> HIDE DEF r
    <3>3. ASSUME NEW c \in Components
          PROVE  new[c].status = "failed" /\ new[c].image = row[r][c].image
      BY <1>2, <2>2, TableRows, InvTable DEF Row
    <3> HIDE DEF new
    <3>4. row'[r] = new /\ \A a \in Attempts \ {r} : row'[a] = row[a]
      BY <1>2, <2>2, <3>1, InvTable DEF Table
    <3> QED BY <3>2, <3>3, <3>4 DEF Alike, Settled
  <2> QED BY <2>1, <2>2
<1> QED BY <1>1, <1>3, <1>4, NoJobType, BesideCalm

----------------------------------------------------------------------------
(* Calm behaviours.                                                        *)

LEMMA InitMC == MCInit => MCInv
<1> SUFFICES ASSUME MCInit PROVE MCInv
  OBVIOUS
<1>1. IInv
  BY InitIInv DEF MCInit
<1>2. \A h \in Callers : job[h] = NoJob
  BY DEF MCInit, Init
<1>3. \A h \in Callers : ~Piped(job[h])
  BY <1>2, NoJobType DEF Piped
<1>4. \A c \in Components : route[c] = 0 /\ Running(c) = {}
  BY DEF MCInit, Init, Blank, Running
<1>5. Led /\ HasFrontend /\ OneRuns /\ RunsLive
  BY <1>4 DEF Led, RoutesLive, HasFrontend, Served, OneRuns, OneRow, RunsLive, LiveRow
<1>6. CalmInv
  BY <1>3, <1>5 DEF CalmInv, Deploys, Lives
<1> QED BY <1>1, <1>6 DEF MCInv

\* What may happen where deployments alone happen.
CalmJobStep(h) ==
    \/ Acquire(h) \/ Busy(h) \/ (\E i \in Images : Checkout(h, i))
    \/ Build(h) \/ Start(h) \/ (ComponentFails(h) /\ job[h].on # "backend")
    \/ Restore(h) \/ NothingToRestore(h)
    \/ Configure(h) \/ Commit(h) \/ Settle(h) \/ GiveUp(h) \/ Unlock(h)

LEMMA CalmNext ==
  ASSUME MCInv, MCNext, kind = "calm"
  PROVE  \E h \in Callers : DeployRequest(h) \/ QueueRequest(h) \/ CalmJobStep(h)
<1>1. Next /\ ~BackendFails /\ ~RolledBack /\ ~Stopped /\ ~Escaped /\ ~Restart
  BY DEF MCNext
<1>2. ASSUME NEW h \in Callers, JobStep(h)
      PROVE  CalmJobStep(h)
  <2>1. ~Escape(h) /\ (ComponentFails(h) => job[h].on # "backend")
    BY <1>1 DEF Escaped, BackendFails
  <2>2. Piped(job[h]) => job[h].at \notin {"rstart", "rproxy", "rinsert", "rmark", "rmark2"}
    BY DEF MCInv, CalmInv, Deploys
  <2>3. ~RollbackStart(h) /\ ~RollbackConfigure(h) /\ ~RollbackFails(h)
        /\ ~RollbackInsert(h) /\ ~RollbackMark(h)
    BY <2>2 DEF Piped, RollbackStart, RollbackConfigure, RollbackFails, RollbackInsert,
                RollbackMark
  <2> QED BY <1>2, <2>1, <2>3 DEF JobStep, CalmJobStep
<1> QED BY <1>1, <1>2 DEF Next, RolledBack, Stopped

LEMMA CalmJobStepCalm ==
  ASSUME IInv, CalmInv, kind = "calm", NEW h \in Callers, CalmJobStep(h)
  PROVE  CalmInv'
<1>1. CASE Acquire(h)
  BY <1>1, AcquireCalm
<1>2. CASE Busy(h)
  BY <1>2, BusyCalm
<1>3. CASE \E i \in Images : Checkout(h, i)
  BY <1>3, CheckoutCalm
<1>4. CASE Build(h)
  BY <1>4, BuildCalm
<1>5. CASE Start(h)
  BY <1>5, StartCalm
<1>6. CASE ComponentFails(h) /\ job[h].on # "backend"
  BY <1>6, ComponentFailsCalm
<1>7. CASE Restore(h)
  BY <1>7, RestoreCalm
<1>8. CASE NothingToRestore(h)
  BY <1>8, NothingToRestoreCalm
<1>9. CASE Configure(h)
  BY <1>9, ConfigureCalm
<1>10. CASE Commit(h)
  BY <1>10, CommitCalm
<1>11. CASE Settle(h)
  BY <1>11, SettleCalm
<1>12. CASE GiveUp(h)
  BY <1>12, GiveUpCalm
<1>13. CASE Unlock(h)
  BY <1>13, UnlockCalm
<1> QED BY <1>1, <1>2, <1>3, <1>4, <1>5, <1>6, <1>7, <1>8, <1>9, <1>10, <1>11, <1>12,
           <1>13 DEF CalmJobStep

LEMMA NextMCInv == MCInv /\ [MCNext]_<<vars, kind>> => MCInv'
<1> SUFFICES ASSUME MCInv, [MCNext]_<<vars, kind>> PROVE MCInv'
  OBVIOUS
<1>1. [Next]_vars /\ kind' = kind
  BY DEF MCNext
<1>2. IInv'
  BY <1>1, NextIInv DEF MCInv
<1>3. CalmInv'
  <2>1. CASE kind # "calm"
    BY <1>1, <2>1 DEF CalmInv
  <2>2. CASE kind = "calm" /\ MCNext
    <3>1. PICK h \in Callers : DeployRequest(h) \/ QueueRequest(h) \/ CalmJobStep(h)
      BY <2>2, CalmNext
    <3> QED BY <2>2, <3>1, RequestCalm, QueueCalm, CalmJobStepCalm DEF MCInv
  <2>3. CASE UNCHANGED <<vars, kind>>
    BY <2>3 DEF MCInv, CalmInv, vars, Piped, Deploys, Lives, Moving, Running, Led, RoutesLive,
                HasFrontend, Served, Releasing, ReleasedAttempts, OneRuns, OneRow,
                Superseding, RunsLive, LiveRow, Shifting
  <2> QED BY <2>1, <2>2, <2>3
<1> QED BY <1>2, <1>3 DEF MCInv

LEMMA MCInvAlways == MCSpec => []MCInv
  BY InitMC, NextMCInv, PTL DEF MCSpec

LEMMA QuietSteady ==
  ASSUME MCInv, kind = "calm", Quiet
  PROVE  RoutesLive /\ \A c \in Components : OneRow(c)
<1>1. \A h \in Callers : ~Piped(job[h])
  BY DEF Quiet, Piped
<1>2. \A h \in Callers : ~Moving(job[h]) /\ ~Superseding(job[h])
  BY <1>1, NotPiped, InvTable DEF MCInv
<1> QED BY <1>2 DEF MCInv, CalmInv, Led, OneRuns

\* Where deployments alone happen, direct and queued, whatever frontends fail and
\* are put back: when the pipelines are done, each path that was ever configured
\* leads to the live container of its component.
THEOREM RoutesServeWhenCalm == MCSpec => []RouteServesCalmly
<1>1. MCInv => RouteServesCalmly
  BY QuietSteady DEF RouteServesCalmly, RouteServes, RoutesLive
<1> QED BY <1>1, MCInvAlways, PTL

\* Where deployments alone happen: when the pipelines are done, at most one row of
\* a component says running, in whatever order they were queued and finished.
THEOREM OneRunsWhenCalm == MCSpec => []RunningOnceCalmly
<1>1. MCInv => RunningOnceCalmly
  BY QuietSteady DEF RunningOnceCalmly, RunningOnce, OneRow, Running
<1> QED BY <1>1, MCInvAlways, PTL

----------------------------------------------------------------------------
(* What a restore brings back.                                             *)

\* A step of one pipeline leaves the frames of the others alone.
LEMMA OwnFrame ==
  ASSUME IInv, NEW g \in Callers, NEW h \in Callers, g # h,
         DeployRequest(g) \/ QueueRequest(g) \/ CalmJobStep(g)
  PROVE  job'[h] = job[h]
<1>1. job \in [Callers -> Job]
  BY InvTable
<1>2. CASE DeployRequest(g) \/ QueueRequest(g) \/ Acquire(g) \/ Busy(g) \/ Build(g)
  BY <1>1, <1>2 DEF DeployRequest, QueueRequest, Acquire, Busy, Build, Goes
<1>3. CASE \E i \in Images : Checkout(g, i)
  BY <1>1, <1>3 DEF Checkout
<1>4. CASE Start(g) \/ ComponentFails(g)
  BY <1>1, <1>4 DEF Start, ComponentFails
<1>5. CASE Restore(g)
  BY <1>1, <1>5 DEF Restore, RestoreFrom
<1>6. CASE NothingToRestore(g) \/ Configure(g) \/ Commit(g)
  BY <1>1, <1>6 DEF NothingToRestore, Goes, Configure, Commit, Commits
<1>7. CASE Settle(g) \/ GiveUp(g) \/ Unlock(g)
  BY <1>1, <1>7 DEF Settle, GiveUp, Unlock, Goes
<1> QED BY <1>2, <1>3, <1>4, <1>5, <1>6, <1>7 DEF CalmJobStep

LEMMA RestoreKeeps ==
  ASSUME MCInv, kind = "calm", MCNext, NEW h \in Callers
  PROVE  RestoredAsServed(h)
<1> SUFFICES ASSUME job[h].at = "restore", job'[h].at = "finish",
                    NEW c \in Components, NEW a \in ReleasedAttempts(c),
                    live[c].port # 0, row[a][c].status = "running",
                    \A b \in ReleasedAttempts(c) : b <= a
             PROVE  live'[c].image = live[c].image
  BY DEF RestoredAsServed
<1>1. PICK g \in Callers : DeployRequest(g) \/ QueueRequest(g) \/ CalmJobStep(g)
  BY CalmNext
<1>2. g = h
  BY <1>1, OwnFrame DEF MCInv
<1>3. Restore(h) \/ NothingToRestore(h)
  BY <1>1, <1>2
     DEF CalmJobStep, DeployRequest, QueueRequest, Acquire, Busy, Checkout, Build, Start,
         ComponentFails, Configure, Commit, Commits, Settle, GiveUp, Unlock
<1>4. CASE NothingToRestore(h)
  BY <1>4 DEF NothingToRestore
<1>5. CASE Restore(h)
  <2>1. /\ job[h].failed = "frontend" /\ job[h].endpoints["frontend"] = 0 /\ Steady(job[h])
    BY FrontendFailed DEF MCInv
  <2>2. PICK t \in ReleasedAttempts("frontend"), p \in Ports :
           /\ Starts("frontend", row[t]["frontend"].image, p)
           /\ \A b \in ReleasedAttempts("frontend") : b <= t
    BY <1>5, <2>1, RestoreFrame DEF MCInv
  <2>3. CASE c = "frontend"
    <3>1. a = t
      BY <2>2, <2>3, Numbers DEF ReleasedAttempts
    <3>2. ~Shifting(job[h], "frontend") /\ "frontend" \in Components
      BY <2>1 DEF Shifting, Components
    <3>3. live["frontend"].image = row[t]["frontend"].image
      BY <2>1, <2>3, <3>1, <3>2 DEF Steady, LiveRow, Running, ReleasedAttempts
    <3>4. live'["frontend"].image = row[t]["frontend"].image
      BY <2>2, <3>2, InvTable DEF Starts, MCInv
    <3> QED BY <2>3, <3>3, <3>4
  <2>4. CASE c # "frontend"
    BY <2>2, <2>4, InvTable DEF Starts, MCInv
  <2> QED BY <2>3, <2>4
<1> QED BY <1>3, <1>4, <1>5

\* Where deployments alone happen: a component that is put back after a failed
\* deployment serves the image it served before, as long as the row released last
\* is the one that runs.
THEOREM RestoreKeepsServing == MCSpec => RestoreKeepsImageCalmly
<1>1. MCInv /\ [MCNext]_<<vars, kind>>
        => [kind = "calm" => \A h \in Callers : RestoredAsServed(h)]_<<vars, kind>>
  BY RestoreKeeps
<1> QED BY <1>1, MCInvAlways, PTL DEF MCSpec, RestoreKeepsImageCalmly
=============================================================================

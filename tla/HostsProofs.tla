---------------------------- MODULE HostsProofs ----------------------------
(***************************************************************************)
(* Proofs about the hosts of MCHosts, for any number of units, threads,    *)
(* ports, manifests and bounds.  Windows: the operator's own rules stay, a *)
(* unit that serves goes on serving while it is deployed, and what calls   *)
(* report is what the site routes.  Kubernetes: what calls report is what  *)
(* the repository, the cluster or the file holds.                          *)
(***************************************************************************)
EXTENDS MCHosts, TLAPS

----------------------------------------------------------------------------
(* Windows services (WindowsHost): the inductive invariant.                *)

Config == [managed : [Units -> Ports \cup {0}], foreign : Nat]

HostTypes ==
  /\ svc \in [Units -> [Slots -> Service]]
  /\ own \subseteq Units
  /\ fragment \in [Units -> Ports \cup {0}]
  /\ config \in [Sites -> Config]
  /\ added \subseteq Sites
  /\ call \in [Callers -> Frame]
  /\ raced \subseteq Sites /\ upset \subseteq Units
  /\ rules \in [Sites -> Nat]
  /\ last \in [Units -> {"none", "deployed", "deleted"}]

Deploys == {"look", "install", "set", "launch", "check", "teardown", "retire", "fragment",
            "site", "add"}
Rewriting == {"glob", "gather", "read", "write"}

(* What a call under way is about.                                         *)
Doing(h) ==
  /\ call[h].unit \in Units
  /\ call[h].at \in Deploys => call[h].op = "deploy"
  /\ call[h].at \in {"stopa", "stopb"} => call[h].op # "deploy"
  /\ call[h].at \in {"unlink", "drop"} => call[h].op = "delete"
  /\ call[h].at \in Rewriting => call[h].op # "stop"
  /\ call[h].op = "deploy" /\ call[h].at # "look" =>
       call[h].port \in Ports /\ call[h].old # call[h].slot
  /\ call[h].op = "deploy" /\ call[h].at \in {"glob", "gather"} => call[h].unit \notin own
  /\ call[h].at = "retire" => call[h].old \in Slots

(* A call that is sure is alone, a unit that is not upset has one call at  *)
(* most, and nothing is reported of a unit while a call works on it.       *)
Alone ==
  /\ \A h \in Active : ~call[h].unsure => Active = {h}
  /\ \A g, h \in Active : call[g].unit = call[h].unit => g = h \/ call[g].unit \in upset
  /\ \A h \in Active : last[call[h].unit] = "none"

(* A name without a service is blank, and a port is given out once.        *)
Apart ==
  /\ \A u \in Units, s \in Slots :
       svc[u][s].state = "none" => ~svc[u][s].answers /\ ~svc[u][s].passed
  /\ \A u \in Units \ upset, s \in Slots : svc[u][s].port # 0 =>
       \A v \in Units, t \in Slots : svc[v][t].port = svc[u][s].port => v = u /\ t = s

(* The service a deployment has got so far.                                *)
Starting(h) ==
  LET mine == svc[call[h].unit][call[h].slot] IN
  call[h].unit \notin upset /\ call[h].op = "deploy" =>
  /\ call[h].at \in {"set", "launch", "check", "teardown"} =>
       mine.state # "none" /\ ~mine.passed
  /\ call[h].at \in {"launch", "check"} => mine.port = call[h].port
  /\ call[h].at \in {"retire", "fragment", "site", "add"} \cup Rewriting =>
       mine.port = call[h].port /\ mine.answers
  /\ call[h].at = "retire" => mine.passed

(* The rules a call has read are those of the operator.                    *)
RulesRead(h) ==
  call[h].at = "write" /\ Rewrites(h) \notin raced => call[h].kept = rules[Rewrites(h)]

(* What a call that is to be reported has done to the rules of its unit.   *)
Routing(h) ==
  LET u == call[h].unit IN
  u \notin upset =>
  /\ call[h].op = "deploy" =>
       /\ call[h].at \in Rewriting \cup {"site", "add"} /\ u \notin own =>
            fragment[u] = call[h].port
       /\ call[h].at = "gather" => u \in call[h].listed
       /\ call[h].at \in {"read", "write"} => call[h].found[u] = call[h].port
       /\ call[h].at \in {"site", "add"} /\ ~call[h].unsure =>
            config[SiteOf(u)].managed[u] = call[h].port
  /\ call[h].op = "delete" /\ ~call[h].unsure =>
       /\ call[h].at \in Rewriting \cup {"drop"} => fragment[u] = 0
       /\ call[h].at \in {"read", "write"} => call[h].found[u] = 0
       /\ call[h].at = "drop" => config["_base"].managed[u] = 0

(* What was reported of a unit whose rules are in the shared web.config:   *)
(* its fragment says what the web.config says, and the calls under way     *)
(* find that too.                                                          *)
Reported(u) == u \notin upset /\ \/ last[u] = "deployed" /\ u \notin own
                                 \/ last[u] = "deleted"
Finds(h, u) ==
  /\ call[h].at = "gather" /\ fragment[u] # 0 => u \in call[h].listed
  /\ call[h].at \in {"read", "write"} /\ Rewrites(h) = "_base" =>
       call[h].found[u] = fragment[u]
Shared(u) == Reported(u) => /\ config["_base"].managed[u] = fragment[u]
                            /\ last[u] = "deleted" => fragment[u] = 0
                            /\ \A h \in Active : Finds(h, u)

Known(h) == Doing(h) /\ Starting(h) /\ RulesRead(h) /\ Routing(h)

IInv == /\ HostTypes /\ Alone /\ Apart
        /\ \A h \in Active : Known(h)
        /\ OperatorsRulesKept
        /\ \A u \in Units : Shared(u)
        /\ RoutedAsReported

LEMMA InitIInv == Init => IInv
<1> SUFFICES ASSUME Init PROVE IInv
  OBVIOUS
<1>1. /\ svc = [u \in Units |-> [s \in Slots |-> NoService]]
      /\ fragment = NoRules
      /\ config = [s \in Sites |-> [managed |-> NoRules, foreign |-> 0]]
      /\ call = [h \in Callers |-> NoCall]
      /\ last = [u \in Units |-> "none"]
      /\ own \subseteq Units /\ added = {} /\ raced = {} /\ upset = {}
      /\ rules = [s \in Sites |-> 0]
  BY DEF Init
<1>2. Active = {}
  BY <1>1 DEF Active, NoCall
<1>3. NoService \in Service /\ NoRules \in [Units -> Ports \cup {0}] /\ NoCall \in Frame
  BY DEF NoService, Service, NoRules, NoCall, Frame, Slots
<1>4. [managed |-> NoRules, foreign |-> 0] \in Config
  BY <1>3 DEF Config
<1>5. HostTypes
  BY <1>1, <1>3, <1>4 DEF HostTypes
<1>6. Alone /\ \A h \in Active : Known(h)
  BY <1>2 DEF Alone
<1>7. Apart
  BY <1>1 DEF Apart, NoService
<1>8. OperatorsRulesKept /\ RoutedAsReported /\ \A u \in Units : Shared(u)
  BY <1>1 DEF OperatorsRulesKept, Shared, Reported, RoutedAsReported
<1> QED BY <1>5, <1>6, <1>7, <1>8 DEF IInv

----------------------------------------------------------------------------
(* Frames.                                                                 *)

Places == {"idle", "look", "install", "set", "launch", "check", "teardown", "retire",
           "fragment", "glob", "gather", "read", "write", "site", "add",
           "stopa", "stopb", "unlink", "drop"}

\* Two frames differ in the fields of x only.
Differ(f, g, x) ==
    /\ "op" \notin x => g.op = f.op
    /\ "unit" \notin x => g.unit = f.unit
    /\ "port" \notin x => g.port = f.port
    /\ "slot" \notin x => g.slot = f.slot
    /\ "old" \notin x => g.old = f.old
    /\ "listed" \notin x => g.listed = f.listed
    /\ "found" \notin x => g.found = f.found
    /\ "kept" \notin x => g.kept = f.kept
    /\ "unsure" \notin x => g.unsure = f.unsure

\* The call goes on to another place, other calls stay where they are.
Moves(h, to, x) ==
    /\ call' \in [Callers -> Frame]
    /\ call'[h].at = to /\ Differ(call[h], call'[h], x)
    /\ \A g \in Callers \ {h} : call'[g] = call[g]

LEMMA GoesMoves ==
  ASSUME HostTypes, NEW h \in Callers, NEW to \in Places, Goes(h, to)
  PROVE  Moves(h, to, {})
<1>1. call[h] \in Frame
  BY DEF HostTypes
<1>2. [call[h] EXCEPT !.at = to] \in Frame
  BY <1>1 DEF Frame, Places
<1>3. call' = [call EXCEPT ![h] = [call[h] EXCEPT !.at = to]]
  BY DEF Goes, HostTypes
<1>4. call'[h] = [call[h] EXCEPT !.at = to] /\ \A g \in Callers \ {h} : call'[g] = call[g]
  BY <1>3 DEF HostTypes
<1>5. call' \in [Callers -> Frame]
  BY <1>2, <1>3 DEF HostTypes
<1> QED BY <1>1, <1>4, <1>5 DEF Moves, Differ, Frame

\* The call is over.
Over(h) == /\ call' \in [Callers -> Frame] /\ call'[h].at = "idle"
           /\ \A g \in Callers \ {h} : call'[g] = call[g]

LEMMA EndsOver ==
  ASSUME HostTypes, NEW h \in Callers, call' = [call EXCEPT ![h] = NoCall]
  PROVE  Over(h)
<1>1. NoCall \in Frame /\ NoCall.at = "idle"
  BY DEF NoCall, Frame, NoRules, Slots
<1> QED BY <1>1 DEF HostTypes, Over

LEMMA Moved ==
  ASSUME HostTypes, NEW h \in Callers, NEW g \in Frame, NEW to, NEW x,
         call' = [call EXCEPT ![h] = g], g.at = to, Differ(call[h], g, x)
  PROVE  Moves(h, to, x) /\ call'[h] = g
  BY DEF HostTypes, Moves

LEMMA LookMoves ==
  ASSUME HostTypes, NEW h \in Callers, Look(h)
  PROVE  /\ Moves(h, "install", {"port", "old", "slot"})
         /\ call'[h].port \in Ports /\ call'[h].old # call'[h].slot
<1> DEFINE f == call[h]
<1>0. f \in Frame
  BY DEF HostTypes
<1>1. PICK p \in Ports, o \in Slots \cup {"none"}, s \in Slots :
        /\ call' = [call EXCEPT ![h].at = "install", ![h].port = p, ![h].old = o,
                                ![h].slot = s]
        /\ o # s
  BY DEF Look, Slots
<1> DEFINE g == [f EXCEPT !.at = "install", !.port = p, !.old = o, !.slot = s]
<1>2. g \in Frame
  BY <1>0 DEF Frame, Slots
<1>3. g.at = "install" /\ g.port = p /\ g.old = o /\ g.slot = s
      /\ Differ(f, g, {"port", "old", "slot"})
  BY <1>0 DEF Frame, Differ
<1>4. call' = [call EXCEPT ![h] = g]
  BY <1>1
<1> HIDE DEF f, g
<1>5. Moves(h, "install", {"port", "old", "slot"}) /\ call'[h] = g
  BY <1>2, <1>3, <1>4, Moved DEF f
<1> QED BY <1>1, <1>3, <1>5

LEMMA OwnDomainMoves ==
  ASSUME HostTypes, NEW h \in Callers, WriteFragment(h), call[h].unit \in own
  PROVE  /\ Moves(h, "read", {"found"})
         /\ call'[h].found = [NoRules EXCEPT ![call[h].unit] = call[h].port]
<1> DEFINE f == call[h]
           found == [NoRules EXCEPT ![f.unit] = f.port]
           g == [f EXCEPT !.at = "read", !.found = found]
<1>0. f \in Frame
  BY DEF HostTypes
<1>1. found \in [Units -> Ports \cup {0}]
  BY <1>0 DEF Frame, NoRules
<1>4. call' = [call EXCEPT ![h] = g]
  BY DEF WriteFragment
<1> HIDE DEF found
<1>2. g \in Frame
  BY <1>0, <1>1 DEF Frame
<1>3. g.at = "read" /\ g.found = found /\ Differ(f, g, {"found"})
  BY <1>0 DEF Frame, Differ
<1> HIDE DEF f, g
<1>5. Moves(h, "read", {"found"}) /\ call'[h] = g
  BY <1>2, <1>3, <1>4, Moved DEF f
<1> QED BY <1>3, <1>5 DEF found, f

LEMMA GlobMoves ==
  ASSUME HostTypes, NEW h \in Callers, Glob(h)
  PROVE  /\ Moves(h, "gather", {"listed"})
         /\ call'[h].listed = {u \in Units : fragment[u] # 0}
<1> DEFINE f == call[h]
           listed == {u \in Units : fragment[u] # 0}
           g == [f EXCEPT !.at = "gather", !.listed = listed]
<1>0. f \in Frame /\ listed \subseteq Units
  BY DEF HostTypes
<1>4. call' = [call EXCEPT ![h] = g]
  BY DEF Glob
<1> HIDE DEF listed
<1>2. g \in Frame
  BY <1>0 DEF Frame
<1>3. g.at = "gather" /\ g.listed = listed /\ Differ(f, g, {"listed"})
  BY <1>0 DEF Frame, Differ
<1> HIDE DEF f, g
<1>5. Moves(h, "gather", {"listed"}) /\ call'[h] = g
  BY <1>2, <1>3, <1>4, Moved DEF f
<1> QED BY <1>3, <1>5 DEF listed

LEMMA GatherMoves ==
  ASSUME HostTypes, NEW h \in Callers, Gather(h)
  PROVE  /\ Moves(h, "read", {"listed", "found"})
         /\ call'[h].found = [u \in Units |-> IF u \in call[h].listed THEN fragment[u] ELSE 0]
<1> DEFINE f == call[h]
           found == [u \in Units |-> IF u \in f.listed THEN fragment[u] ELSE 0]
           g == [f EXCEPT !.at = "read", !.listed = {}, !.found = found]
<1>0. f \in Frame /\ found \in [Units -> Ports \cup {0}]
  BY DEF HostTypes
<1>4. call' = [call EXCEPT ![h] = g]
  BY DEF Gather
<1> HIDE DEF found
<1>2. g \in Frame
  BY <1>0 DEF Frame
<1>3. g.at = "read" /\ g.found = found /\ Differ(f, g, {"listed", "found"})
  BY <1>0 DEF Frame, Differ
<1> HIDE DEF f, g
<1>5. Moves(h, "read", {"listed", "found"}) /\ call'[h] = g
  BY <1>2, <1>3, <1>4, Moved DEF f
<1> QED BY <1>3, <1>5 DEF found, f

LEMMA ReadMoves ==
  ASSUME HostTypes, NEW h \in Callers, Read(h), Rewrites(h) \in Sites
  PROVE  /\ Moves(h, "write", {"kept"})
         /\ call'[h].kept = config[Rewrites(h)].foreign
<1> DEFINE f == call[h]
           kept == config[Rewrites(h)].foreign
           g == [f EXCEPT !.at = "write", !.kept = kept]
<1>0. f \in Frame /\ kept \in Nat
  BY DEF HostTypes, Config
<1>4. call' = [call EXCEPT ![h] = g]
  BY DEF Read
<1> HIDE DEF kept
<1>2. g \in Frame
  BY <1>0 DEF Frame
<1>3. g.at = "write" /\ g.kept = kept /\ Differ(f, g, {"kept"})
  BY <1>0 DEF Frame, Differ
<1> HIDE DEF f, g
<1>5. Moves(h, "write", {"kept"}) /\ call'[h] = g
  BY <1>2, <1>3, <1>4, Moved DEF f
<1> QED BY <1>3, <1>5 DEF kept

LEMMA WriteMoves ==
  ASSUME HostTypes, NEW h \in Callers, Write(h)
  PROVE  Moves(h, IF call[h].op = "delete" THEN "drop" ELSE "site", {"found", "kept"})
<1> DEFINE f == call[h]
           to == IF f.op = "delete" THEN "drop" ELSE "site"
           g == [f EXCEPT !.at = to, !.found = NoRules, !.kept = 0]
<1>0. f \in Frame /\ to \in {"drop", "site"} /\ NoRules \in [Units -> Ports \cup {0}]
  BY DEF HostTypes, NoRules
<1>4. call' = [call EXCEPT ![h] = g]
  BY DEF Write
<1>5. to = IF call[h].op = "delete" THEN "drop" ELSE "site"
  OBVIOUS
<1> HIDE DEF to
<1>2. g \in Frame
  BY <1>0 DEF Frame
<1>3. g.at = to /\ Differ(f, g, {"found", "kept"})
  BY <1>0 DEF Frame, Differ
<1> HIDE DEF f, g
<1>6. Moves(h, to, {"found", "kept"})
  BY <1>2, <1>3, <1>4, Moved DEF f
<1> QED BY <1>5, <1>6

LEMMA UnlinkMoves ==
  ASSUME HostTypes, NEW h \in Callers, Unlink(h)
  PROVE  LET none == fragment[call[h].unit] = 0 IN
         /\ Moves(h, IF none THEN "drop" ELSE "glob", {"unsure"})
         /\ call'[h].unsure = (call[h].unsure \/ none)
<1> DEFINE f == call[h]
           none == fragment[call[h].unit] = 0
           to == IF none THEN "drop" ELSE "glob"
           unsure == f.unsure \/ none
           g == [f EXCEPT !.at = to, !.unsure = unsure]
<1>0. f \in Frame /\ to \in {"drop", "glob"}
  BY DEF HostTypes
<1>1. unsure \in BOOLEAN
  OBVIOUS
<1>4. call' = [call EXCEPT ![h] = g]
  BY <1>0 DEF Unlink, HostTypes
<1>5. to = (IF none THEN "drop" ELSE "glob") /\ unsure = (f.unsure \/ none)
  OBVIOUS
<1> HIDE DEF to, unsure, none
<1>2. g \in Frame
  BY <1>0, <1>1 DEF Frame
<1>3. g.at = to /\ g.unsure = unsure /\ Differ(f, g, {"unsure"})
  BY <1>0 DEF Frame, Differ
<1> HIDE DEF g
<1>6. Moves(h, to, {"unsure"}) /\ call'[h] = g
  BY <1>2, <1>3, <1>4, Moved
<1> QED BY <1>3, <1>5, <1>6 DEF none

----------------------------------------------------------------------------
(* Steps of a call.                                                        *)

(* A step of a call that goes on or ends touches no other unit, and what   *)
(* it writes to the web.config leaves the rules of the reported units and  *)
(* those of the operator.                                                  *)
Advances(h) ==
  /\ own' = own /\ upset \subseteq upset' /\ last' = last /\ rules' = rules
  /\ raced' = raced
  /\ \A g \in Callers \ {h} : call'[g] = call[g]
  /\ \/ call'[h].at = "idle"
     \/ /\ call'[h].unit = call[h].unit /\ call'[h].op = call[h].op
        /\ call[h].unsure => call'[h].unsure
  /\ \A v \in Units \ {call[h].unit} :
       /\ fragment'[v] = fragment[v]
       /\ \A t \in Slots : svc'[v][t] = svc[v][t]
       /\ SiteOf(v) \in added => SiteOf(v) \in added'
       /\ v \notin upset /\ last[v] = "deployed" =>
            config'[SiteOf(v)].managed[v] = config[SiteOf(v)].managed[v]
       /\ Reported(v) => config'["_base"].managed[v] = config["_base"].managed[v]

LEMMA Advance ==
  ASSUME IInv, NEW h \in Active, Advances(h), HostTypes', Apart', OperatorsRulesKept',
         call'[h].at # "idle" => Known(h)' /\ \A u \in Units : Reported(u) => Finds(h, u)'
  PROVE  IInv'
<1> DEFINE u == call[h].unit
<1>0. /\ HostTypes /\ Alone
      /\ \A g \in Active : Known(g)
      /\ \A v \in Units : Shared(v)
      /\ RoutedAsReported
  BY DEF IInv
<1>1. u \in Units /\ last[u] = "none"
  BY <1>0 DEF Known, Doing, Alone
<1>2. h \in Callers /\ Active' \subseteq Active
  BY DEF Active, Advances
<1>3. Alone'
  <2>1. \A g \in Active' : /\ call'[g].unit = call[g].unit
                           /\ call[g].unsure => call'[g].unsure
    BY <1>2 DEF Advances, Active
  <2>2. \A g \in Active' : ~call'[g].unsure => Active' = {g}
    BY <2>1, <1>0, <1>2 DEF Alone
  <2>3. \A f, g \in Active' : call'[f].unit = call'[g].unit => f = g \/ call'[f].unit \in upset'
    BY <2>1, <1>0, <1>2 DEF Alone, Advances
  <2>4. \A g \in Active' : last'[call'[g].unit] = "none"
    BY <2>1, <1>0, <1>2 DEF Alone, Advances
  <2> QED BY <2>2, <2>3, <2>4 DEF Alone
<1>4. ASSUME NEW g \in Active', g # h PROVE Known(g)'
  <2>1. /\ g \in Active /\ call'[g] = call[g] /\ Known(g)
        /\ call[g].unit \in Units /\ call[g].unsure
        /\ call[g].unit = u => u \in upset'
    BY <1>0, <1>2, <1>4 DEF Alone, Active, Advances, Known, Doing
  <2>2. Doing(g)'
    BY <2>1 DEF Known, Doing, Advances
  <2>3. CASE u = call[g].unit
    <3>1. Starting(g)' /\ Routing(g)'
      BY <2>1, <2>3 DEF Starting, Routing
    <3>2. RulesRead(g)'
      BY <2>1 DEF Known, RulesRead, Rewrites, SiteOf, Advances
    <3> QED BY <2>2, <3>1, <3>2 DEF Known
  <2>4. CASE u # call[g].unit
    <3> DEFINE v == call[g].unit
    <3>1. call[g].slot \in Slots
      BY <1>0, <1>2, <2>1 DEF HostTypes, Frame, Active
    <3>2. svc'[v][call[g].slot] = svc[v][call[g].slot] /\ fragment'[v] = fragment[v]
      BY <2>1, <2>4, <3>1 DEF Advances
    <3>3. Starting(g)'
      BY <2>1, <3>2 DEF Known, Starting, Advances
    <3>4. Routing(g)'
      BY <2>1, <3>2 DEF Known, Routing, Advances
    <3>5. RulesRead(g)'
      BY <2>1 DEF Known, RulesRead, Rewrites, SiteOf, Advances
    <3> QED BY <2>2, <3>3, <3>4, <3>5 DEF Known
  <2> QED BY <2>3, <2>4
<1>5. \A g \in Active' : Known(g)'
  BY <1>4 DEF Active
<1>6. ASSUME NEW v \in Units, Reported(v)' PROVE Shared(v)'
  <2>1. Reported(v) /\ v # u
    BY <1>1, <1>6 DEF Reported, Advances
  <2>2. /\ fragment'[v] = fragment[v]
        /\ config'["_base"].managed[v] = config["_base"].managed[v]
    BY <2>1 DEF Advances
  <2>3. ASSUME NEW g \in Active' PROVE Finds(g, v)'
    <3>1. CASE g = h
      BY <3>1, <2>1, <2>3 DEF Active
    <3>2. CASE g # h
      <4>1. Finds(g, v) /\ call'[g] = call[g]
        BY <3>2, <2>1, <1>0, <1>2 DEF Shared, Advances, Active
      <4> QED BY <4>1, <2>2 DEF Finds, Rewrites, SiteOf, Advances
    <3> QED BY <3>1, <3>2
  <2> QED BY <2>1, <2>2, <2>3, <1>0 DEF Shared, Advances
<1>7. RoutedAsReported'
  <2> SUFFICES ASSUME NEW v \in Units \ upset', last'[v] # "none"
               PROVE  /\ last'[v] = "deployed" =>
                           /\ SiteOf(v)' \in added'
                           /\ \E s \in Slots :
                                /\ svc'[v][s].answers
                                /\ config'[SiteOf(v)'].managed[v] = svc'[v][s].port
                      /\ last'[v] = "deleted" => config'["_base"].managed[v] = 0
    BY DEF RoutedAsReported
  <2>1. v \in Units \ upset /\ v # u /\ last'[v] = last[v] /\ SiteOf(v)' = SiteOf(v)
    BY <1>1 DEF Advances, SiteOf
  <2>2. CASE last[v] = "deployed"
    BY <2>1, <2>2, <1>0 DEF RoutedAsReported, Advances
  <2>3. CASE last[v] = "deleted"
    BY <2>1, <2>3, <1>0 DEF RoutedAsReported, Advances, Reported
  <2> QED BY <2>1, <2>2, <2>3
<1> QED BY <1>3, <1>5, <1>6, <1>7 DEF IInv, Shared

(* A call that is sure reports what it made of its unit, and no call is    *)
(* under way any more.                                                     *)
LEMMA Report ==
  ASSUME IInv, NEW h \in Active, Returns(h), HostTypes', ~call[h].unsure,
         \/ /\ call[h].op = "deploy" /\ call[h].at \in {"site", "add"}
            /\ SiteOf(call[h].unit) \in added'
         \/ call[h].op = "delete" /\ call[h].at = "drop",
         \A v \in Units \ {call[h].unit} : SiteOf(v) \in added => SiteOf(v) \in added',
         UNCHANGED <<services, fragment, config, raced, own, rules>>
  PROVE  IInv'
<1> DEFINE u == call[h].unit
<1>0. /\ HostTypes /\ Alone /\ Apart /\ OperatorsRulesKept
      /\ Known(h)
      /\ \A v \in Units : Shared(v)
      /\ RoutedAsReported
  BY DEF IInv
<1>1. h \in Callers /\ u \in Units /\ call[h].slot \in Slots /\ Active = {h}
  BY <1>0 DEF Known, Doing, Alone, Active, HostTypes, Frame
<1>2. Active' = {}
  <2>1. Over(h)
    BY <1>0, <1>1, EndsOver DEF Returns
  <2> QED BY <2>1, <1>1 DEF Active, Over
<1>3. /\ last'[u] = (IF call[h].op = "deploy" THEN "deployed" ELSE "deleted")
      /\ \A v \in Units \ {u} : last'[v] = last[v]
  BY <1>0, <1>1 DEF Returns, HostTypes
<1>4. Alone' /\ Apart' /\ OperatorsRulesKept' /\ \A g \in Active' : Known(g)'
  BY <1>0, <1>2 DEF Alone, Apart, OperatorsRulesKept, services
<1>5. u \notin upset =>
        /\ last'[u] = "deployed" =>
             /\ svc[u][call[h].slot].answers
             /\ config[SiteOf(u)].managed[u] = svc[u][call[h].slot].port
             /\ u \notin own => fragment[u] = config[SiteOf(u)].managed[u]
        /\ last'[u] = "deleted" => config["_base"].managed[u] = 0 /\ fragment[u] = 0
  <2> SUFFICES ASSUME u \notin upset
               PROVE  /\ call[h].op = "deploy" =>
                           /\ svc[u][call[h].slot].answers
                           /\ config[SiteOf(u)].managed[u] = svc[u][call[h].slot].port
                           /\ u \notin own => fragment[u] = config[SiteOf(u)].managed[u]
                      /\ call[h].op = "delete" =>
                           config["_base"].managed[u] = 0 /\ fragment[u] = 0
    BY <1>3
  <2>1. CASE call[h].op = "deploy"
    BY <2>1, <1>0 DEF Known, Starting, Routing
  <2>2. CASE call[h].op = "delete"
    BY <2>2, <1>0 DEF Known, Routing
  <2> QED BY <2>1, <2>2
<1>6. ASSUME NEW v \in Units, Reported(v)' PROVE Shared(v)'
  <2>1. CASE v = u
    BY <2>1, <1>1, <1>2, <1>5, <1>6 DEF Shared, Reported, SiteOf, services
  <2>2. CASE v # u
    BY <2>2, <1>0, <1>2, <1>3, <1>6 DEF Shared, Reported, services
  <2> QED BY <2>1, <2>2
<1>7. RoutedAsReported'
  <2> SUFFICES ASSUME NEW v \in Units \ upset
               PROVE  /\ last'[v] = "deployed" =>
                           /\ SiteOf(v) \in added'
                           /\ \E s \in Slots :
                                /\ svc[v][s].answers
                                /\ config[SiteOf(v)].managed[v] = svc[v][s].port
                      /\ last'[v] = "deleted" => config["_base"].managed[v] = 0
    BY DEF RoutedAsReported, SiteOf, services
  <2>1. CASE v = u
    BY <2>1, <1>1, <1>3, <1>5
  <2>2. CASE v # u
    BY <2>2, <1>0, <1>3 DEF RoutedAsReported
  <2> QED BY <2>1, <2>2
<1> QED BY <1>4, <1>6, <1>7 DEF IInv, Shared

(* What changes nothing but one service of the call's unit.                *)
ServiceSet(u, s, new) ==
  /\ svc' \in [Units -> [Slots -> Service]]
  /\ svc'[u][s] = new
  /\ \A v \in Units, t \in Slots : v # u \/ t # s => svc'[v][t] = svc[v][t]

LEMMA SetService ==
  ASSUME HostTypes, NEW u \in Units, NEW s \in Slots, NEW new \in Service,
         svc' = [svc EXCEPT ![u][s] = new]
  PROVE  ServiceSet(u, s, new)
  BY DEF HostTypes, ServiceSet

(* A teardown leaves a service that is as before or answers no more.       *)
LEMMA Torn ==
  ASSUME HostTypes, NEW u \in Units, NEW s \in Slots, Teardown(u, s)
  PROVE  \E new \in Service :
           /\ ServiceSet(u, s, new)
           /\ \/ new = svc[u][s]
              \/ /\ ~new.answers /\ ~new.passed
                 /\ new.port \in {0, svc[u][s].port}
<1> DEFINE old == svc[u][s]
           half == [old EXCEPT !.state = "installed", !.answers = FALSE, !.passed = FALSE]
<1>1. old \in Service /\ Ports \subseteq Nat
  BY DEF HostTypes, Ports
<1>2. half \in Service /\ half.port = old.port /\ ~half.answers /\ ~half.passed
  BY <1>1 DEF Service
<1>3. NoService \in Service /\ NoService.port = 0 /\ ~NoService.answers /\ ~NoService.passed
  BY DEF NoService, Service
<1> HIDE DEF half
<1>4. CASE svc' = [svc EXCEPT ![u][s] = NoService]
  BY <1>3, <1>4, SetService
<1>5. CASE svc' = [svc EXCEPT ![u][s] = half]
  BY <1>2, <1>5, SetService
<1>6. CASE svc' = svc
  BY <1>1, <1>6 DEF ServiceSet, HostTypes
<1>7. CASE svc' = [svc EXCEPT ![u][s] = old]
  BY <1>1, <1>7, SetService
<1> QED BY <1>4, <1>5, <1>6, <1>7 DEF Teardown, half

(* What a step does to the frames.                                         *)
Onward(h) ==
  /\ call' \in [Callers -> Frame]
  /\ \A g \in Callers \ {h} : call'[g] = call[g]
  /\ \/ call'[h].at = "idle"
     \/ /\ call'[h].unit = call[h].unit /\ call'[h].op = call[h].op
        /\ call[h].unsure => call'[h].unsure

LEMMA MovesOnward ==
  /\ \A h \in Callers, to \in Places : \A x :
       Moves(h, to, x) /\ x \cap {"op", "unit", "unsure"} = {} => Onward(h)
  /\ \A h \in Callers : Over(h) => Onward(h)
  BY DEF Moves, Over, Onward, Differ

(* A step that changes frames alone, ...                                   *)
LEMMA Quiet ==
  ASSUME IInv, NEW h \in Active, Onward(h), UNCHANGED <<services, iis, own, rules, last>>
  PROVE  Advances(h) /\ HostTypes' /\ Apart' /\ OperatorsRulesKept'
<1>1. /\ svc' = svc /\ upset' = upset /\ fragment' = fragment /\ config' = config
      /\ added' = added /\ raced' = raced /\ own' = own /\ rules' = rules /\ last' = last
  BY DEF services, iis
<1>2. Advances(h)
  BY <1>1 DEF Advances, Onward, SiteOf
<1>3. HostTypes'
  BY <1>1 DEF IInv, HostTypes, Onward
<1>4. Apart' /\ OperatorsRulesKept'
  BY <1>1 DEF IInv, Apart, OperatorsRulesKept
<1> QED BY <1>2, <1>3, <1>4

(* ... one that changes a service of the call's unit, but not its port, ... *)
LEMMA Alters ==
  ASSUME IInv, NEW h \in Active, Onward(h), NEW s \in Slots, NEW new \in Service,
         ServiceSet(call[h].unit, s, new),
         new.state = "none" => ~new.answers /\ ~new.passed,
         new.port \in {0, svc[call[h].unit][s].port},
         UNCHANGED <<upset, iis, own, rules, last>>
  PROVE  Advances(h) /\ HostTypes' /\ Apart' /\ OperatorsRulesKept'
<1> DEFINE u == call[h].unit
<1>1. /\ upset' = upset /\ fragment' = fragment /\ config' = config
      /\ added' = added /\ raced' = raced /\ own' = own /\ rules' = rules /\ last' = last
  BY DEF iis
<1>2. u \in Units
  BY DEF IInv, Known, Doing
<1>3. Advances(h)
  BY <1>1, <1>2 DEF Advances, Onward, SiteOf, ServiceSet
<1>4. HostTypes'
  BY <1>1 DEF IInv, HostTypes, Onward, ServiceSet
<1>5. Apart'
  <2>1. ASSUME NEW v \in Units, NEW t \in Slots, svc'[v][t].state = "none"
        PROVE  ~svc'[v][t].answers /\ ~svc'[v][t].passed
    BY <1>2, <2>1 DEF IInv, Apart, ServiceSet
  <2>2. ASSUME NEW v \in Units, NEW t \in Slots, svc'[v][t].port # 0
        PROVE  svc'[v][t].port = svc[v][t].port
    BY <1>2, <2>2 DEF ServiceSet
  <2> QED BY <1>1, <2>1, <2>2 DEF IInv, Apart
<1>6. OperatorsRulesKept'
  BY <1>1 DEF IInv, OperatorsRulesKept
<1> QED BY <1>3, <1>4, <1>5, <1>6

(* ... or one that changes the fragment of the call's unit.                *)
LEMMA Writes ==
  ASSUME IInv, NEW h \in Active, Onward(h), NEW p \in Ports \cup {0},
         fragment' = [fragment EXCEPT ![call[h].unit] = p],
         UNCHANGED <<services, config, added, raced, own, rules, last>>
  PROVE  Advances(h) /\ HostTypes' /\ Apart' /\ OperatorsRulesKept'
<1> DEFINE u == call[h].unit
<1>1. /\ svc' = svc /\ upset' = upset /\ config' = config
      /\ added' = added /\ raced' = raced /\ own' = own /\ rules' = rules /\ last' = last
  BY DEF services
<1>2. u \in Units
  BY DEF IInv, Known, Doing
<1>3. Advances(h)
  BY <1>1, <1>2 DEF IInv, HostTypes, Advances, Onward, SiteOf
<1>4. HostTypes'
  BY <1>1 DEF IInv, HostTypes, Onward
<1>5. Apart' /\ OperatorsRulesKept'
  BY <1>1 DEF IInv, Apart, OperatorsRulesKept
<1> QED BY <1>3, <1>4, <1>5

----------------------------------------------------------------------------
(* The actions of a call.                                                  *)

LEMMA LookStep ==
  ASSUME IInv, NEW h \in Callers, Look(h)
  PROVE  IInv'
<1>0. HostTypes /\ h \in Active /\ Known(h)
  BY DEF IInv, Active, Look
<1>1. /\ Moves(h, "install", {"port", "old", "slot"})
      /\ call'[h].port \in Ports /\ call'[h].old # call'[h].slot
  BY <1>0, LookMoves
<1>2. call[h].at = "look" /\ UNCHANGED <<services, iis, own, rules, last>>
  BY DEF Look
<1>3. Advances(h) /\ HostTypes' /\ Apart' /\ OperatorsRulesKept'
  BY <1>0, <1>1, <1>2, MovesOnward, Quiet DEF Places
<1>4. Known(h)' /\ \A u \in Units : Finds(h, u)'
  BY <1>0, <1>1, <1>2 DEF Known, Doing, Starting, RulesRead, Routing, Finds, Moves, Differ,
     Deploys, Rewriting
<1> QED BY <1>0, <1>3, <1>4, Advance

LEMMA InstallStep ==
  ASSUME IInv, NEW h \in Callers, Install(h)
  PROVE  IInv'
<1> DEFINE u == call[h].unit
           s == call[h].slot
           new == [svc[u][s] EXCEPT !.state = "installed"]
<1>0. HostTypes /\ Apart /\ h \in Active /\ Known(h)
  BY DEF IInv, Active, Install
<1>1. u \in Units /\ s \in Slots /\ svc[u][s] \in Service
  BY <1>0 DEF Known, Doing, HostTypes, Frame
<1>2. /\ call[h].at = "install" /\ svc[u][s].state = "none"
      /\ svc' = [svc EXCEPT ![u][s] = new]
      /\ Goes(h, "set") /\ UNCHANGED <<upset, iis, own, rules, last>>
  BY DEF Install, There
<1>3. /\ new \in Service /\ new.state = "installed" /\ ~new.passed
      /\ new.port = svc[u][s].port
  BY <1>0, <1>1, <1>2 DEF Service, Apart
<1> HIDE DEF new
<1>4. Moves(h, "set", {})
  BY <1>0, <1>2, GoesMoves DEF Places
<1>5. ServiceSet(u, s, new)
  BY <1>0, <1>1, <1>2, <1>3, SetService
<1>6. Advances(h) /\ HostTypes' /\ Apart' /\ OperatorsRulesKept'
  BY <1>0, <1>1, <1>2, <1>3, <1>4, <1>5, MovesOnward, Alters DEF Places
<1>7. Known(h)' /\ \A v \in Units : Finds(h, v)'
  <2>1. Doing(h)' /\ RulesRead(h)' /\ Routing(h)' /\ \A v \in Units : Finds(h, v)'
    BY <1>0, <1>2, <1>4 DEF Known, Doing, RulesRead, Routing, Finds, Moves, Differ,
       Deploys, Rewriting
  <2>2. Starting(h)'
    BY <1>3, <1>4, <1>5 DEF Starting, Moves, Differ, ServiceSet, Rewriting
  <2> QED BY <2>1, <2>2 DEF Known
<1> QED BY <1>0, <1>6, <1>7, Advance

LEMMA LaunchStep ==
  ASSUME IInv, NEW h \in Callers, Launch(h)
  PROVE  IInv'
<1> DEFINE u == call[h].unit
           s == call[h].slot
           new == [svc[u][s] EXCEPT !.state = "running"]
<1>0. HostTypes /\ h \in Active /\ Known(h)
  BY DEF IInv, Active, Launch
<1>1. u \in Units /\ s \in Slots /\ svc[u][s] \in Service
  BY <1>0 DEF Known, Doing, HostTypes, Frame
<1>2. /\ call[h].at = "launch"
      /\ svc' = [svc EXCEPT ![u][s] = new]
      /\ Goes(h, "check") /\ UNCHANGED <<upset, iis, own, rules, last>>
  BY DEF Launch
<1>3. /\ new \in Service /\ new.state = "running" /\ new.passed = svc[u][s].passed
      /\ new.port = svc[u][s].port
  BY <1>1 DEF Service
<1> HIDE DEF new
<1>4. Moves(h, "check", {})
  BY <1>0, <1>2, GoesMoves DEF Places
<1>5. ServiceSet(u, s, new)
  BY <1>0, <1>1, <1>2, <1>3, SetService
<1>6. Advances(h) /\ HostTypes' /\ Apart' /\ OperatorsRulesKept'
  BY <1>0, <1>1, <1>2, <1>3, <1>4, <1>5, MovesOnward, Alters DEF Places
<1>7. Known(h)' /\ \A v \in Units : Finds(h, v)'
  <2>1. Doing(h)' /\ RulesRead(h)' /\ Routing(h)' /\ \A v \in Units : Finds(h, v)'
    BY <1>0, <1>2, <1>4 DEF Known, Doing, RulesRead, Routing, Finds, Moves, Differ,
       Deploys, Rewriting
  <2>2. Starting(h)'
    BY <1>0, <1>2, <1>3, <1>4, <1>5 DEF Known, Starting, Moves, Differ, ServiceSet, Rewriting
  <2> QED BY <2>1, <2>2 DEF Known
<1> QED BY <1>0, <1>6, <1>7, Advance

LEMMA SetStep ==
  ASSUME IInv, NEW h \in Callers, Set(h)
  PROVE  IInv'
<1> DEFINE u == call[h].unit
           s == call[h].slot
           p == call[h].port
           new == [svc[u][s] EXCEPT !.port = p]
<1>0. HostTypes /\ Apart /\ OperatorsRulesKept /\ h \in Active /\ Known(h)
  BY DEF IInv, Active, Set
<1>1. /\ call[h].at = "set" /\ There(u, s)
      /\ svc' = [svc EXCEPT ![u][s] = new]
      /\ upset' = upset \cup UNION {{u, v} : v \in {v \in Units : \E t \in Slots :
                      <<v, t>> # <<u, s>> /\ svc[v][t].port = p}}
      /\ Goes(h, "launch") /\ UNCHANGED <<iis, own, rules, last>>
  BY DEF Set
<1>2. u \in Units /\ s \in Slots /\ svc[u][s] \in Service /\ p \in Ports
  BY <1>0, <1>1 DEF Known, Doing, HostTypes, Frame, Deploys
<1>3. /\ new \in Service /\ new.port = p /\ new.state # "none"
      /\ new.passed = svc[u][s].passed
  BY <1>1, <1>2 DEF Service, There
<1> HIDE DEF new
<1>4. Moves(h, "launch", {})
  BY <1>0, <1>1, GoesMoves DEF Places
<1>5. ServiceSet(u, s, new)
  BY <1>0, <1>1, <1>2, <1>3, SetService
<1>6. /\ fragment' = fragment /\ config' = config
      /\ added' = added /\ raced' = raced /\ own' = own /\ rules' = rules /\ last' = last
  BY <1>1 DEF iis
<1>7. /\ upset \subseteq upset' /\ upset' \subseteq Units
      /\ \A v \in Units, t \in Slots : (v # u \/ t # s) /\ svc[v][t].port = p =>
           u \in upset' /\ v \in upset'
  BY <1>0, <1>1, <1>2 DEF HostTypes
<1>8. Advances(h) /\ HostTypes' /\ OperatorsRulesKept'
  <2>1. Advances(h)
    BY <1>1, <1>2, <1>4, <1>5, <1>6, <1>7 DEF Advances, Moves, Differ, SiteOf, ServiceSet
  <2>2. HostTypes'
    BY <1>0, <1>4, <1>5, <1>6, <1>7 DEF HostTypes, Moves, ServiceSet
  <2>3. OperatorsRulesKept'
    BY <1>0, <1>6 DEF OperatorsRulesKept
  <2> QED BY <2>1, <2>2, <2>3
<1>9. Apart'
  <2>1. ASSUME NEW v \in Units, NEW t \in Slots, svc'[v][t].state = "none"
        PROVE  ~svc'[v][t].answers /\ ~svc'[v][t].passed
    BY <1>0, <1>2, <1>3, <1>5, <2>1 DEF Apart, ServiceSet
  <2>2. ASSUME NEW v \in Units \ upset', NEW t \in Slots, svc'[v][t].port # 0,
               NEW w \in Units, NEW r \in Slots, svc'[w][r].port = svc'[v][t].port
        PROVE  w = v /\ r = t
    <3>1. CASE v = u /\ t = s
      BY <1>2, <1>3, <1>5, <1>7, <2>2, <3>1 DEF ServiceSet
    <3>2. CASE w = u /\ r = s
      BY <1>2, <1>3, <1>5, <1>7, <2>2, <3>2 DEF ServiceSet
    <3>3. CASE (v # u \/ t # s) /\ (w # u \/ r # s)
      BY <1>0, <1>2, <1>5, <1>7, <2>2, <3>3 DEF Apart, ServiceSet
    <3> QED BY <3>1, <3>2, <3>3
  <2> QED BY <2>1, <2>2 DEF Apart
<1>10. Known(h)' /\ \A v \in Units : Finds(h, v)'
  <2>1. Doing(h)' /\ RulesRead(h)' /\ Routing(h)' /\ \A v \in Units : Finds(h, v)'
    BY <1>0, <1>1, <1>4, <1>6 DEF Known, Doing, RulesRead, Routing, Finds, Moves, Differ,
       Deploys, Rewriting
  <2>2. Starting(h)'
    BY <1>0, <1>1, <1>3, <1>4, <1>5, <1>7 DEF Known, Starting, Moves, Differ, ServiceSet,
       Rewriting
  <2> QED BY <2>1, <2>2 DEF Known
<1> QED BY <1>0, <1>8, <1>9, <1>10, Advance

LEMMA HealthyStep ==
  ASSUME IInv, NEW h \in Callers, Healthy(h)
  PROVE  IInv'
<1> DEFINE u == call[h].unit
           s == call[h].slot
           p == call[h].port
           new == [svc[u][s] EXCEPT !.passed = There(u, s)]
           to == IF call[h].old = "none" THEN "fragment" ELSE "retire"
<1>0. HostTypes /\ Apart /\ h \in Active /\ Known(h)
  BY DEF IInv, Active, Healthy
<1>1. /\ call[h].at = "check" /\ Listening(p)
      /\ svc' = [svc EXCEPT ![u][s] = new]
      /\ Goes(h, to) /\ UNCHANGED <<upset, iis, own, rules, last>>
  BY DEF Healthy
<1>2. u \in Units /\ s \in Slots /\ svc[u][s] \in Service /\ p \in Ports
  BY <1>0, <1>1 DEF Known, Doing, HostTypes, Frame, Deploys
<1>3. /\ new \in Service /\ new.port = svc[u][s].port /\ new.state = svc[u][s].state
      /\ new.answers = svc[u][s].answers /\ new.passed = There(u, s)
  BY <1>2 DEF Service, There
<1>4. new.state = "none" => ~new.answers /\ ~new.passed
  BY <1>0, <1>2, <1>3 DEF Apart, There
<1>5. to \in {"fragment", "retire"} /\ (to = "retire" => call[h].old \in Slots)
  BY <1>0 DEF HostTypes, Frame
<1> HIDE DEF new, to
<1>6. Moves(h, to, {})
  BY <1>0, <1>1, <1>5, GoesMoves DEF Places
<1>7. ServiceSet(u, s, new)
  BY <1>0, <1>1, <1>2, <1>3, SetService
<1>8. Advances(h) /\ HostTypes' /\ Apart' /\ OperatorsRulesKept'
  BY <1>0, <1>1, <1>2, <1>3, <1>4, <1>5, <1>6, <1>7, MovesOnward, Alters DEF Places
<1>9. Known(h)' /\ \A v \in Units : Finds(h, v)'
  <2>1. Doing(h)' /\ RulesRead(h)' /\ Routing(h)' /\ \A v \in Units : Finds(h, v)'
    BY <1>0, <1>1, <1>5, <1>6 DEF Known, Doing, RulesRead, Routing, Finds, Moves, Differ,
       Deploys, Rewriting
  <2>2. u \notin upset => new.port = p /\ new.answers /\ new.passed
    <3> SUFFICES ASSUME u \notin upset PROVE new.port = p /\ new.answers /\ new.passed
      OBVIOUS
    <3>1. svc[u][s].state # "none" /\ svc[u][s].port = p
      BY <1>0, <1>1 DEF Known, Starting, Doing, Deploys
    <3>2. PICK v \in Units, t \in Slots : svc[v][t].answers /\ svc[v][t].port = p
      BY <1>1 DEF Listening
    <3>3. v = u /\ t = s
      BY <1>0, <1>2, <3>1, <3>2 DEF Apart, Ports
    <3> QED BY <1>3, <3>1, <3>2, <3>3 DEF There
  <2>3. Starting(h)'
    BY <1>1, <1>5, <1>6, <1>7, <2>2 DEF Starting, Moves, Differ, ServiceSet, Rewriting
  <2> QED BY <2>1, <2>3 DEF Known
<1> QED BY <1>0, <1>8, <1>9, Advance

(* Both stop and a deployment that gives up or retires take services down. *)
LEMMA TearsDown ==
  ASSUME IInv, NEW h \in Active, Onward(h), NEW s \in Slots,
         Teardown(call[h].unit, s) \/ UNCHANGED svc,
         UNCHANGED <<upset, iis, own, rules, last>>
  PROVE  /\ Advances(h) /\ HostTypes' /\ Apart' /\ OperatorsRulesKept'
         /\ \A t \in Slots \ {s} : svc'[call[h].unit][t] = svc[call[h].unit][t]
<1> DEFINE u == call[h].unit
<1>0. HostTypes /\ Apart /\ u \in Units
  BY DEF IInv, Known, Doing
<1>1. Teardown(u, s)
  BY DEF Teardown
<1>2. PICK new \in Service :
        /\ ServiceSet(u, s, new)
        /\ \/ new = svc[u][s]
           \/ ~new.answers /\ ~new.passed /\ new.port \in {0, svc[u][s].port}
  BY <1>0, <1>1, Torn
<1>3. new.state = "none" => ~new.answers /\ ~new.passed
  BY <1>0, <1>2 DEF Apart
<1>4. new.port \in {0, svc[u][s].port}
  BY <1>2
<1>5. Advances(h) /\ HostTypes' /\ Apart' /\ OperatorsRulesKept'
  BY <1>2, <1>3, <1>4, Alters
<1> QED BY <1>0, <1>2, <1>5 DEF ServiceSet

LEMMA TeardownSteps ==
  ASSUME IInv, NEW h \in Callers, GiveUp(h) \/ Retire(h)
  PROVE  IInv'
<1>0. HostTypes /\ h \in Active /\ Known(h) /\ call[h].slot \in Slots
  BY DEF IInv, Active, GiveUp, Retire, HostTypes, Frame
<1>1. CASE GiveUp(h)
  <2>1. /\ Over(h) /\ Teardown(call[h].unit, call[h].slot)
        /\ UNCHANGED <<upset, iis, own, rules, last>>
    BY <1>0, <1>1, EndsOver DEF GiveUp, Ends
  <2>2. Advances(h) /\ HostTypes' /\ Apart' /\ OperatorsRulesKept'
    BY <1>0, <2>1, MovesOnward, TearsDown
  <2> QED BY <1>0, <2>1, <2>2, Advance DEF Over
<1>2. CASE Retire(h)
  <2>1. /\ call[h].at = "retire" /\ Teardown(call[h].unit, call[h].old)
        /\ Moves(h, "fragment", {}) /\ UNCHANGED <<upset, iis, own, rules, last>>
    BY <1>0, <1>2, GoesMoves DEF Retire, Places
  <2>2. call[h].old \in Slots /\ call[h].old # call[h].slot
    BY <1>0, <2>1 DEF Known, Doing, Deploys
  <2>3. /\ Advances(h) /\ HostTypes' /\ Apart' /\ OperatorsRulesKept'
        /\ svc'[call[h].unit][call[h].slot] = svc[call[h].unit][call[h].slot]
    BY <1>0, <2>1, <2>2, MovesOnward, TearsDown DEF Places
  <2>4. Known(h)' /\ \A u \in Units : Finds(h, u)'
    BY <1>0, <2>1, <2>2, <2>3 DEF Known, Doing, Starting, RulesRead, Routing, Finds, Moves,
       Differ, Deploys, Rewriting
  <2> QED BY <1>0, <2>3, <2>4, Advance
<1> QED BY <1>1, <1>2

(* A call that ends early reports nothing.                                 *)
LEMMA EndSteps ==
  ASSUME IInv, NEW h \in Callers, NssmFails(h) \/ IisFails(h)
  PROVE  IInv'
<1>0. HostTypes /\ h \in Active
  BY DEF IInv, Active, NssmFails, IisFails
<1>1. Over(h) /\ UNCHANGED <<services, iis, own, rules, last>>
  BY <1>0, EndsOver DEF NssmFails, IisFails, Ends
<1>2. Advances(h) /\ HostTypes' /\ Apart' /\ OperatorsRulesKept'
  BY <1>0, <1>1, MovesOnward, Quiet
<1> QED BY <1>0, <1>1, <1>2, Advance DEF Over

LEMMA UnhealthyStep ==
  ASSUME IInv, NEW h \in Callers, Unhealthy(h)
  PROVE  IInv'
<1>0. HostTypes /\ h \in Active /\ Known(h)
  BY DEF IInv, Active, Unhealthy
<1>1. /\ call[h].at = "check" /\ Moves(h, "teardown", {})
      /\ UNCHANGED <<services, iis, own, rules, last>>
  BY <1>0, GoesMoves DEF Unhealthy, Places
<1>2. Advances(h) /\ HostTypes' /\ Apart' /\ OperatorsRulesKept'
  BY <1>0, <1>1, MovesOnward, Quiet DEF Places
<1>3. Known(h)' /\ \A u \in Units : Finds(h, u)'
  BY <1>0, <1>1 DEF Known, Doing, Starting, RulesRead, Routing, Finds, Moves, Differ,
     Deploys, Rewriting, services
<1> QED BY <1>0, <1>2, <1>3, Advance

LEMMA WriteFragmentStep ==
  ASSUME IInv, NEW h \in Callers, WriteFragment(h)
  PROVE  IInv'
<1> DEFINE u == call[h].unit
<1>0. HostTypes /\ h \in Active /\ Known(h)
  BY DEF IInv, Active, WriteFragment
<1>1. /\ call[h].at = "fragment" /\ call[h].op = "deploy" /\ call[h].port \in Ports
      /\ u \in Units /\ UNCHANGED <<services, config, added, raced, own, rules, last>>
  BY <1>0 DEF Known, Doing, Deploys, WriteFragment
<1>2. CASE u \in own
  <2>1. /\ Moves(h, "read", {"found"})
        /\ call'[h].found = [NoRules EXCEPT ![u] = call[h].port]
    BY <1>0, <1>2, OwnDomainMoves
  <2>2. fragment' = fragment
    BY <1>2 DEF WriteFragment
  <2>3. Advances(h) /\ HostTypes' /\ Apart' /\ OperatorsRulesKept'
    BY <1>0, <1>1, <2>1, <2>2, MovesOnward, Quiet DEF Places, iis
  <2>4. call'[h].found[u] = call[h].port
    BY <1>1, <2>1 DEF NoRules
  <2>5. Rewrites(h)' # "_base"
    BY <1>1, <1>2, <2>1, WindowsAssumption DEF Rewrites, SiteOf, Moves, Differ
  <2>6. Known(h)' /\ \A v \in Units : Finds(h, v)'
    BY <1>0, <1>1, <1>2, <2>1, <2>4, <2>5 DEF Known, Doing, Starting, RulesRead, Routing,
       Finds, Moves, Differ, Deploys, Rewriting, services
  <2> QED BY <1>0, <2>3, <2>6, Advance
<1>3. CASE u \notin own
  <2>1. Moves(h, "glob", {}) /\ fragment' = [fragment EXCEPT ![u] = call[h].port]
    BY <1>0, <1>3, GoesMoves DEF WriteFragment, Places
  <2>2. Advances(h) /\ HostTypes' /\ Apart' /\ OperatorsRulesKept'
    BY <1>0, <1>1, <2>1, MovesOnward, Writes DEF Places
  <2>3. fragment'[u] = call[h].port
    BY <1>0, <1>1, <2>1 DEF HostTypes
  <2>4. Known(h)' /\ \A v \in Units : Finds(h, v)'
    BY <1>0, <1>1, <1>3, <2>1, <2>3 DEF Known, Doing, Starting, RulesRead, Routing,
       Finds, Moves, Differ, Deploys, Rewriting, services
  <2> QED BY <1>0, <2>2, <2>4, Advance
<1> QED BY <1>2, <1>3

LEMMA GlobStep ==
  ASSUME IInv, NEW h \in Callers, Glob(h)
  PROVE  IInv'
<1>0. HostTypes /\ h \in Active /\ Known(h)
  BY DEF IInv, Active, Glob
<1>1. /\ call[h].at = "glob" /\ Moves(h, "gather", {"listed"})
      /\ call'[h].listed = {u \in Units : fragment[u] # 0}
      /\ UNCHANGED <<services, iis, own, rules, last>>
  BY <1>0, GlobMoves DEF Glob
<1>2. Advances(h) /\ HostTypes' /\ Apart' /\ OperatorsRulesKept'
  BY <1>0, <1>1, MovesOnward, Quiet DEF Places
<1>3. Doing(h)' /\ Starting(h)' /\ RulesRead(h)' /\ \A u \in Units : Finds(h, u)'
  BY <1>0, <1>1 DEF Known, Doing, Starting, RulesRead, Finds, Moves, Differ, Deploys,
     Rewriting, services, iis
<1>4. Routing(h)'
  BY <1>0, <1>1 DEF Known, Doing, Routing, Moves, Differ, Rewriting, services, iis, Ports
<1> QED BY <1>0, <1>2, <1>3, <1>4, Advance DEF Known

LEMMA GatherStep ==
  ASSUME IInv, NEW h \in Callers, Gather(h)
  PROVE  IInv'
<1>0. HostTypes /\ h \in Active /\ Known(h)
  BY DEF IInv, Active, Gather
<1>1. /\ call[h].at = "gather" /\ Moves(h, "read", {"listed", "found"})
      /\ \A u \in Units : call'[h].found[u] = IF u \in call[h].listed THEN fragment[u] ELSE 0
      /\ UNCHANGED <<services, iis, own, rules, last>>
  <2>1. /\ Moves(h, "read", {"listed", "found"})
        /\ call'[h].found = [u \in Units |-> IF u \in call[h].listed THEN fragment[u]
                                                                     ELSE 0]
    BY <1>0, GatherMoves
  <2>2. call[h].at = "gather" /\ UNCHANGED <<services, iis, own, rules, last>>
    BY DEF Gather
  <2> QED BY <2>1, <2>2
<1>2. Advances(h) /\ HostTypes' /\ Apart' /\ OperatorsRulesKept'
  BY <1>0, <1>1, MovesOnward, Quiet DEF Places
<1>3. Doing(h)' /\ Starting(h)' /\ RulesRead(h)'
  BY <1>0, <1>1 DEF Known, Doing, Starting, RulesRead, Moves, Differ, Deploys,
     Rewriting, services, iis
<1>4. Routing(h)'
  BY <1>0, <1>1 DEF Known, Doing, Routing, Moves, Differ, Rewriting, services, iis
<1>5. ASSUME NEW u \in Units, Reported(u) PROVE Finds(h, u)'
  <2>1. fragment[u] # 0 => u \in call[h].listed
    BY <1>0, <1>1, <1>5 DEF IInv, Shared, Finds
  <2> QED BY <1>1, <2>1 DEF Finds, Moves, iis
<1> QED BY <1>0, <1>2, <1>3, <1>4, <1>5, Advance DEF Known

LEMMA RewritesSite ==
  ASSUME HostTypes, NEW h \in Callers, Doing(h)
  PROVE  Rewrites(h) \in Sites
  BY DEF HostTypes, Doing, Rewrites, SiteOf, Sites

LEMMA ReadStep ==
  ASSUME IInv, NEW h \in Callers, Read(h)
  PROVE  IInv'
<1>0. HostTypes /\ OperatorsRulesKept /\ h \in Active /\ Known(h)
  BY DEF IInv, Active, Read
<1>1. Rewrites(h) \in Sites
  BY <1>0, RewritesSite DEF Known
<1>2. /\ call[h].at = "read" /\ Moves(h, "write", {"kept"})
      /\ call'[h].kept = config[Rewrites(h)].foreign
      /\ UNCHANGED <<services, iis, own, rules, last>>
  BY <1>0, <1>1, ReadMoves DEF Read
<1>3. Advances(h) /\ HostTypes' /\ Apart' /\ OperatorsRulesKept'
  BY <1>0, <1>2, MovesOnward, Quiet DEF Places
<1>4. Rewrites(h)' = Rewrites(h)
  BY <1>2 DEF Rewrites, SiteOf, Moves, Differ
<1>5. Doing(h)' /\ Starting(h)' /\ Routing(h)'
  BY <1>0, <1>2 DEF Known, Doing, Starting, Routing, Moves, Differ, Deploys,
     Rewriting, services, iis
<1>6. RulesRead(h)'
  BY <1>0, <1>1, <1>2, <1>4 DEF RulesRead, OperatorsRulesKept, iis
<1>7. ASSUME NEW u \in Units, Reported(u) PROVE Finds(h, u)'
  <2>1. Finds(h, u)
    BY <1>0, <1>7 DEF IInv, Shared
  <2> QED BY <1>2, <1>4, <2>1 DEF Finds, Moves, Differ, iis
<1> QED BY <1>0, <1>3, <1>5, <1>6, <1>7, Advance DEF Known

LEMMA WriteStep ==
  ASSUME IInv, NEW h \in Callers, Write(h)
  PROVE  IInv'
<1> DEFINE u == call[h].unit
           site == Rewrites(h)
           new == [managed |-> call[h].found, foreign |-> call[h].kept]
           to == IF call[h].op = "delete" THEN "drop" ELSE "site"
<1>0. HostTypes /\ Apart /\ OperatorsRulesKept /\ h \in Active /\ Known(h)
  BY DEF IInv, Active, Write
<1>1. site \in Sites /\ u \in Units
  BY <1>0, RewritesSite DEF Known, Doing
<1>2. /\ call[h].at = "write" /\ Moves(h, to, {"found", "kept"})
      /\ config' = [config EXCEPT ![site] = new]
      /\ UNCHANGED <<services, fragment, added, raced, own, rules, last>>
  BY <1>0, WriteMoves DEF Write
<1>3. call[h].op \in {"deploy", "delete"} /\ to \in {"drop", "site"}
  BY <1>0, <1>2 DEF Known, Doing, HostTypes, Frame, Rewriting
<1>4. /\ new \in Config
      /\ config'[site].managed = call[h].found /\ config'[site].foreign = call[h].kept
      /\ \A s \in Sites \ {site} : config'[s] = config[s]
  BY <1>0, <1>1, <1>2 DEF HostTypes, Frame, Config
<1>5. /\ svc' = svc /\ upset' = upset /\ fragment' = fragment /\ added' = added
      /\ raced' = raced /\ own' = own /\ rules' = rules /\ last' = last
  BY <1>2 DEF services
<1>6. HostTypes' /\ Apart'
  BY <1>0, <1>1, <1>2, <1>4, <1>5 DEF HostTypes, Moves, Apart
<1>7. OperatorsRulesKept'
  BY <1>0, <1>2, <1>4, <1>5 DEF Known, RulesRead, OperatorsRulesKept
<1>8. ASSUME NEW v \in Units \ {u}
      PROVE  /\ v \notin upset /\ last[v] = "deployed" =>
                  config'[SiteOf(v)].managed[v] = config[SiteOf(v)].managed[v]
             /\ Reported(v) => config'["_base"].managed[v] = config["_base"].managed[v]
  <2>1. SiteOf(v) \in {v, "_base"} /\ (SiteOf(v) = "_base" <=> v \notin own)
    BY WindowsAssumption DEF SiteOf
  <2>2. site # v
    BY WindowsAssumption, <1>8 DEF Rewrites, SiteOf
  <2>3. "_base" \in Sites /\ v \in Sites
    BY DEF Sites
  <2>4. Reported(v) => config'["_base"].managed[v] = config["_base"].managed[v]
    <3> SUFFICES ASSUME Reported(v), site = "_base"
                 PROVE  call[h].found[v] = config["_base"].managed[v]
      BY <1>4, <2>3
    <3>1. Shared(v) /\ Finds(h, v)
      BY <1>0 DEF IInv, Shared
    <3> QED BY <1>2, <3>1 DEF Shared, Finds
  <2> QED BY <1>4, <2>1, <2>2, <2>3, <2>4 DEF Reported
<1>9. Advances(h)
  BY <1>2, <1>5, <1>8 DEF Advances, Moves, Differ, SiteOf
<1> HIDE DEF to, new
<1>10. Known(h)' /\ \A v \in Units : Finds(h, v)'
  <2>1. Doing(h)' /\ Starting(h)' /\ RulesRead(h)' /\ \A v \in Units : Finds(h, v)'
    BY <1>0, <1>2, <1>3, <1>5 DEF Known, Doing, Starting, RulesRead, Finds, Moves, Differ,
       Deploys, Rewriting, to
  <2>2. u \notin upset =>
          /\ call[h].op = "deploy" => /\ u \notin own => fragment[u] = call[h].port
                                      /\ config'[SiteOf(u)].managed[u] = call[h].port
          /\ call[h].op = "delete" /\ ~call[h].unsure =>
               fragment[u] = 0 /\ config'["_base"].managed[u] = 0
    BY <1>0, <1>2, <1>4 DEF Known, Routing, Rewrites, Rewriting
  <2>3. Routing(h)'
    BY <1>2, <1>3, <1>5, <2>2 DEF Routing, Moves, Differ, to, Rewriting, SiteOf
  <2> QED BY <2>1, <2>3 DEF Known
<1> QED BY <1>0, <1>6, <1>7, <1>9, <1>10, Advance

(* What changes the sites changes none but that of the call's unit.        *)
LEMMA Sited ==
  ASSUME IInv, NEW h \in Active, Onward(h), added' \subseteq Sites,
         \A v \in Units \ {call[h].unit} : SiteOf(v) \in added => SiteOf(v) \in added',
         UNCHANGED <<services, fragment, config, raced, own, rules, last>>
  PROVE  Advances(h) /\ HostTypes' /\ Apart' /\ OperatorsRulesKept'
<1>1. /\ svc' = svc /\ upset' = upset /\ fragment' = fragment /\ config' = config
      /\ raced' = raced /\ own' = own /\ rules' = rules /\ last' = last
  BY DEF services
<1>2. \A v \in Units : SiteOf(v)' = SiteOf(v)
  BY <1>1 DEF SiteOf
<1>3. Advances(h)
  BY <1>1, <1>2 DEF Advances, Onward
<1>4. HostTypes'
  BY <1>1 DEF IInv, HostTypes, Onward
<1>5. Apart' /\ OperatorsRulesKept'
  BY <1>1 DEF IInv, Apart, OperatorsRulesKept
<1> QED BY <1>3, <1>4, <1>5

(* What removes a site of the call's unit does that.                       *)
LEMMA Removed ==
  ASSUME HostTypes, NEW u \in Units, added' \in {added, added \ {u}}
  PROVE  /\ added' \subseteq Sites
         /\ \A v \in Units \ {u} : SiteOf(v) \in added => SiteOf(v) \in added'
  BY WindowsAssumption DEF HostTypes, SiteOf

(* A call that is not sure, or a stop, returns and reports nothing.        *)
LEMMA ReturnsUnsure ==
  ASSUME IInv, NEW h \in Active, Returns(h), call[h].unsure \/ call[h].op = "stop"
  PROVE  Over(h) /\ last' = last
<1>1. HostTypes /\ last[call[h].unit] = "none" /\ call[h].unit \in Units /\ h \in Callers
  BY DEF IInv, Alone, Known, Doing, Active
<1>2. last' = [last EXCEPT ![call[h].unit] = "none"]
  BY DEF Returns
<1>3. last' = last
  BY <1>1, <1>2 DEF HostTypes
<1> QED BY <1>1, <1>3, EndsOver DEF Returns

(* The last step of a call, which may change the site of its unit.         *)
LEMMA ReturnsStep ==
  ASSUME IInv, NEW h \in Active, Returns(h), added' \subseteq Sites,
         \/ /\ call[h].op = "deploy" /\ call[h].at \in {"site", "add"}
            /\ SiteOf(call[h].unit) \in added'
         \/ call[h].op = "delete" /\ call[h].at = "drop",
         \A v \in Units \ {call[h].unit} : SiteOf(v) \in added => SiteOf(v) \in added',
         UNCHANGED <<services, fragment, config, raced, own, rules>>
  PROVE  IInv'
<1>1. HostTypes /\ h \in Callers
  BY DEF IInv, Active
<1>2. CASE call[h].unsure
  <2>1. Over(h) /\ last' = last
    BY <1>2, ReturnsUnsure
  <2>2. Advances(h) /\ HostTypes' /\ Apart' /\ OperatorsRulesKept'
    BY <1>1, <2>1, MovesOnward, Sited
  <2> QED BY <2>1, <2>2, Advance DEF Over
<1>3. CASE ~call[h].unsure
  <2>1. HostTypes'
    <3>1. Over(h)
      BY <1>1, EndsOver DEF Returns
    <3>2. last' \in [Units -> {"none", "deployed", "deleted"}]
      BY <1>1 DEF Returns, HostTypes
    <3> QED BY <1>1, <3>1, <3>2 DEF HostTypes, Over, services
  <2> QED BY <1>3, <2>1, Report
<1> QED BY <1>2, <1>3

LEMMA SiteSteps ==
  ASSUME IInv, NEW h \in Callers, SiteThere(h) \/ SiteToAdd(h) \/ AddSite(h)
  PROVE  IInv'
<1> DEFINE u == call[h].unit
<1>0. HostTypes /\ h \in Active /\ Known(h) /\ u \in Units /\ call[h].op = "deploy"
  BY DEF IInv, Active, SiteThere, SiteToAdd, AddSite, Known, Doing, Deploys
<1>1. CASE SiteThere(h)
  <2>1. added' = added /\ SiteOf(u) \in added /\ call[h].at = "site" /\ Returns(h)
        /\ UNCHANGED <<services, fragment, config, raced, own, rules>>
    BY <1>1 DEF SiteThere, SiteOf, iis
  <2> QED BY <1>0, <2>1, ReturnsStep DEF HostTypes
<1>2. CASE AddSite(h)
  <2>1. added' = added \cup {SiteOf(u)} /\ call[h].at = "add" /\ Returns(h)
        /\ UNCHANGED <<services, fragment, config, raced, own, rules>>
    BY <1>2 DEF AddSite
  <2>2. SiteOf(u) \in Sites
    BY <1>0 DEF SiteOf, Sites
  <2> QED BY <1>0, <2>1, <2>2, ReturnsStep DEF HostTypes
<1>3. CASE SiteToAdd(h)
  <2>1. /\ call[h].at = "site" /\ Moves(h, "add", {})
        /\ UNCHANGED <<services, fragment, config, raced, own, rules, last>>
    BY <1>0, <1>3, GoesMoves DEF SiteToAdd, Places
  <2>2. added' \in {added, added \ {u}}
    BY <1>3 DEF SiteToAdd
  <2>3. Advances(h) /\ HostTypes' /\ Apart' /\ OperatorsRulesKept'
    BY <1>0, <2>1, <2>2, MovesOnward, Removed, Sited DEF Places
  <2>4. Known(h)' /\ \A v \in Units : Finds(h, v)'
    BY <1>0, <2>1 DEF Known, Doing, Starting, RulesRead, Routing, Finds, Moves, Differ,
       Deploys, Rewriting, services, SiteOf
  <2> QED BY <1>0, <2>3, <2>4, Advance
<1> QED BY <1>1, <1>2, <1>3

LEMMA StopSlotStep ==
  ASSUME IInv, NEW h \in Callers, StopSlot(h)
  PROVE  IInv'
<1> DEFINE u == call[h].unit
           s == IF call[h].at = "stopa" THEN "a" ELSE "b"
<1>0. HostTypes /\ h \in Active /\ Known(h) /\ s \in Slots /\ call[h].op # "deploy"
  BY DEF IInv, Active, StopSlot, Known, Doing, Slots
<1>1. /\ Teardown(u, s) \/ UNCHANGED svc
      /\ UNCHANGED <<upset, iis, own, rules>>
  BY DEF StopSlot
<1>2. \/ /\ last' = last
         /\ \/ call[h].at = "stopa" /\ Goes(h, "stopb")
            \/ call[h].at = "stopb" /\ call[h].op = "delete" /\ Goes(h, "unlink")
      \/ call[h].op = "stop" /\ Returns(h)
  BY <1>0 DEF StopSlot, HostTypes, Frame, Active
<1> HIDE DEF s
<1>3. CASE call[h].op = "stop" /\ Returns(h)
  <2>1. Over(h) /\ last' = last
    BY <1>0, <1>3, ReturnsUnsure
  <2>2. Advances(h) /\ HostTypes' /\ Apart' /\ OperatorsRulesKept'
    BY <1>0, <1>1, <2>1, MovesOnward, TearsDown
  <2> QED BY <1>0, <2>1, <2>2, Advance DEF Over
<1>4. ASSUME NEW to \in {"stopb", "unlink"}, Goes(h, to), last' = last,
             to = "unlink" => call[h].op = "delete"
      PROVE  IInv'
  <2>1. Moves(h, to, {})
    BY <1>0, <1>4, GoesMoves DEF Places
  <2>2. Advances(h) /\ HostTypes' /\ Apart' /\ OperatorsRulesKept'
    BY <1>0, <1>1, <1>4, <2>1, MovesOnward, TearsDown DEF Places
  <2>3. Known(h)' /\ \A v \in Units : Finds(h, v)'
    BY <1>0, <1>4, <2>1 DEF Known, Doing, Starting, RulesRead, Routing, Finds, Moves,
       Differ, Deploys, Rewriting
  <2> QED BY <1>0, <2>2, <2>3, Advance
<1> QED BY <1>2, <1>3, <1>4

LEMMA UnlinkStep ==
  ASSUME IInv, NEW h \in Callers, Unlink(h)
  PROVE  IInv'
<1> DEFINE u == call[h].unit
           to == IF fragment[u] = 0 THEN "drop" ELSE "glob"
<1>0. HostTypes /\ h \in Active /\ Known(h) /\ u \in Units /\ call[h].op = "delete"
  BY DEF IInv, Active, Unlink, Known, Doing
<1>1. /\ Moves(h, to, {"unsure"})
      /\ call'[h].unsure = (call[h].unsure \/ fragment[u] = 0)
  BY <1>0, UnlinkMoves
<1>2. /\ call[h].at = "unlink" /\ fragment' = [fragment EXCEPT ![u] = 0]
      /\ UNCHANGED <<services, config, added, raced, own, rules, last>>
  BY DEF Unlink
<1>3. fragment'[u] = 0 /\ to \in {"drop", "glob"}
      /\ (to = "drop" => call'[h].unsure)
  BY <1>0, <1>1, <1>2 DEF HostTypes
<1> HIDE DEF to
<1>4. Onward(h)
  BY <1>1 DEF Moves, Differ, Onward
<1>5. Advances(h) /\ HostTypes' /\ Apart' /\ OperatorsRulesKept'
  BY <1>0, <1>2, <1>4, Writes
<1>6. Known(h)' /\ \A v \in Units : Finds(h, v)'
  BY <1>0, <1>1, <1>2, <1>3 DEF Known, Doing, Starting, RulesRead, Routing, Finds, Moves,
     Differ, Deploys, Rewriting, services
<1> QED BY <1>0, <1>5, <1>6, Advance

LEMMA DropStep ==
  ASSUME IInv, NEW h \in Callers, Drop(h)
  PROVE  IInv'
<1>0. /\ HostTypes /\ h \in Active /\ call[h].unit \in Units
      /\ call[h].at = "drop" /\ call[h].op = "delete"
  BY DEF IInv, Active, Drop, Known, Doing
<1>1. /\ added' \in {added, added \ {call[h].unit}} /\ Returns(h)
      /\ UNCHANGED <<services, fragment, config, raced, own, rules>>
  BY DEF Drop
<1> QED BY <1>0, <1>1, Removed, ReturnsStep

----------------------------------------------------------------------------
(* What is no step of a call.                                              *)

LEMMA BeginStep ==
  ASSUME IInv, NEW h \in Callers, NEW u \in Units, NEW op \in {"deploy", "stop", "delete"},
         Begin(h, u, op)
  PROVE  IInv'
<1> DEFINE to == IF op = "deploy" THEN "look" ELSE "stopa"
           crowd == Active # {}
           mine == [NoCall EXCEPT !.at = to, !.op = op, !.unit = u, !.unsure = crowd]
<1>0. /\ HostTypes /\ Alone /\ Apart /\ OperatorsRulesKept /\ RoutedAsReported
      /\ \A g \in Active : Known(g)
      /\ \A v \in Units : Shared(v)
  BY DEF IInv
<1>1. /\ h \notin Active
      /\ call' = [g \in Callers |-> IF g = h THEN mine
                                    ELSE [call[g] EXCEPT !.unsure = @ \/ g \in Active]]
      /\ last' = [last EXCEPT ![u] = "none"]
      /\ upset' = IF \E g \in Active : call[g].unit = u THEN upset \cup {u} ELSE upset
      /\ svc' = svc /\ fragment' = fragment /\ config' = config /\ added' = added
      /\ raced' = raced /\ own' = own /\ rules' = rules
  BY DEF Begin, Active, iis
<1>2. /\ mine \in Frame /\ mine.at = to /\ mine.op = op /\ mine.unit = u
      /\ mine.unsure = crowd
  <2> DEFINE m1 == [NoCall EXCEPT !.at = to]
             m2 == [m1 EXCEPT !.op = op]
             m3 == [m2 EXCEPT !.unit = u]
             m4 == [m3 EXCEPT !.unsure = crowd]
  <2>1. m1 \in Frame /\ m1.at = to
    BY DEF NoCall, Frame, NoRules, Slots
  <2> HIDE DEF m1, to
  <2>2. m2 \in Frame /\ m2.at = to /\ m2.op = op
    BY <2>1 DEF Frame
  <2> HIDE DEF m2
  <2>3. m3 \in Frame /\ m3.at = to /\ m3.op = op /\ m3.unit = u
    BY <2>2 DEF Frame
  <2> HIDE DEF m3
  <2>4. crowd \in BOOLEAN
    OBVIOUS
  <2> HIDE DEF crowd
  <2>5. m4 \in Frame /\ m4.at = to /\ m4.op = op /\ m4.unit = u /\ m4.unsure = crowd
    BY <2>3, <2>4 DEF Frame
  <2> QED BY <2>5 DEF m3, m2, m1
<1>3. to \in {"look", "stopa"} /\ (to = "look" <=> op = "deploy")
  OBVIOUS
<1> HIDE DEF mine, to
<1>4. call'[h] = mine
  BY <1>1
<1>5. ASSUME NEW g \in Callers \ {h}
      PROVE  /\ call'[g] \in Frame /\ call'[g].at = call[g].at
             /\ Differ(call[g], call'[g], {"unsure"})
             /\ g \in Active => call'[g].unsure
  <2>1. call[g] \in Frame
    BY <1>0 DEF HostTypes
  <2>2. call'[g] = [call[g] EXCEPT !.unsure = call[g].unsure \/ g \in Active]
    BY <1>1
  <2> QED BY <2>1, <2>2 DEF Frame, Differ
<1>6. HostTypes'
  <2>1. call' \in [Callers -> Frame]
    BY <1>1, <1>2, <1>4, <1>5
  <2> QED BY <2>1, <1>0, <1>1 DEF HostTypes
<1>7. Active' = Active \cup {h}
  BY <1>1, <1>2, <1>3, <1>4, <1>5 DEF Active
<1>8. Alone'
  <2>1. \A g \in Active' : ~call'[g].unsure => Active' = {g}
    BY <1>2, <1>4, <1>5, <1>7 DEF Active
  <2>2. \A g \in Active : call'[g].unit = call[g].unit
    BY <1>1, <1>5 DEF Differ, Active
  <2>3. \A f, g \in Active' : call'[f].unit = call'[g].unit => f = g \/ call'[f].unit \in upset'
    BY <2>2, <1>0, <1>1, <1>2, <1>4, <1>7 DEF Alone
  <2>4. \A g \in Active' : last'[call'[g].unit] = "none"
    BY <2>2, <1>0, <1>1, <1>2, <1>4, <1>7 DEF Alone, HostTypes, Known, Doing
  <2> QED BY <2>1, <2>3, <2>4 DEF Alone
<1>9. Apart' /\ OperatorsRulesKept'
  BY <1>0, <1>1 DEF Apart, OperatorsRulesKept
<1>10. ASSUME NEW g \in Active' PROVE Known(g)'
  <2>1. CASE g = h
    BY <2>1, <1>2, <1>3, <1>4 DEF Known, Doing, Starting, RulesRead, Routing, Deploys,
       Rewriting
  <2>2. CASE g # h
    <3>1. /\ Known(g) /\ call'[g].at = call[g].at /\ Differ(call[g], call'[g], {"unsure"})
          /\ call'[g].unsure
      BY <2>2, <1>0, <1>5, <1>7, <1>10 DEF Active
    <3>2. Doing(g)' /\ RulesRead(g)'
      BY <3>1, <1>1 DEF Known, Doing, RulesRead, Rewrites, SiteOf, Differ
    <3>3. upset \subseteq upset'
      BY <1>1
    <3>4. Starting(g)'
      BY <3>1, <3>3, <1>1 DEF Known, Starting, Differ
    <3>5. Routing(g)'
      <4>1. /\ call'[g].unit = call[g].unit /\ call'[g].op = call[g].op
            /\ call'[g].port = call[g].port /\ call'[g].found = call[g].found
            /\ call'[g].listed = call[g].listed
        BY <3>1 DEF Differ
      <4> QED BY <4>1, <3>1, <3>3, <1>1 DEF Known, Routing, SiteOf
    <3> QED BY <3>2, <3>4, <3>5 DEF Known
  <2> QED BY <2>1, <2>2
<1>11. ASSUME NEW v \in Units, Reported(v)' PROVE Shared(v)'
  <2>1. v # u /\ last'[v] = last[v] /\ Reported(v)
    BY <1>0, <1>1, <1>11 DEF Reported, HostTypes
  <2>2. ASSUME NEW g \in Active' PROVE Finds(g, v)'
    <3>1. CASE g = h
      BY <3>1, <1>2, <1>3, <1>4 DEF Finds
    <3>2. CASE g # h
      <4>1. /\ Finds(g, v) /\ call'[g].at = call[g].at
            /\ Differ(call[g], call'[g], {"unsure"})
        BY <3>2, <2>1, <1>0, <1>5, <1>7 DEF Shared, Active
      <4> QED BY <4>1, <1>1 DEF Finds, Rewrites, SiteOf, Differ
    <3> QED BY <3>1, <3>2
  <2> QED BY <2>1, <2>2, <1>0, <1>1 DEF Shared
<1>12. RoutedAsReported'
  <2>1. \A v \in Units : last'[v] # "none" => last'[v] = last[v]
    BY <1>0, <1>1 DEF HostTypes
  <2>2. \A v \in Units : SiteOf(v)' = SiteOf(v)
    BY <1>1 DEF SiteOf
  <2> QED BY <2>1, <2>2, <1>0, <1>1 DEF RoutedAsReported
<1> QED BY <1>6, <1>8, <1>9, <1>10, <1>11, <1>12 DEF IInv, Shared

LEMMA ListensStep ==
  ASSUME IInv, NEW u \in Units, NEW s \in Slots, Listens(u, s)
  PROVE  IInv'
<1> DEFINE new == [svc[u][s] EXCEPT !.answers = TRUE]
<1>0. /\ HostTypes /\ Alone /\ Apart /\ OperatorsRulesKept /\ RoutedAsReported
      /\ \A g \in Active : Known(g)
      /\ \A v \in Units : Shared(v)
  BY DEF IInv
<1>1. /\ svc[u][s].state = "running" /\ svc' = [svc EXCEPT ![u][s] = new]
      /\ upset' = upset /\ fragment' = fragment /\ config' = config /\ added' = added
      /\ raced' = raced /\ own' = own /\ rules' = rules /\ last' = last /\ call' = call
  BY DEF Listens, iis
<1>2. svc[u][s] \in Service
  BY <1>0 DEF HostTypes
<1>3. /\ new \in Service /\ new.state = svc[u][s].state /\ new.port = svc[u][s].port
      /\ new.answers /\ new.passed = svc[u][s].passed
  BY <1>2 DEF Service
<1> HIDE DEF new
<1>4. ServiceSet(u, s, new)
  BY <1>0, <1>1, <1>3, SetService
<1>5. \A v \in Units, t \in Slots :
        /\ svc'[v][t].state = svc[v][t].state /\ svc'[v][t].port = svc[v][t].port
        /\ svc'[v][t].passed = svc[v][t].passed
        /\ svc[v][t].answers => svc'[v][t].answers
  BY <1>3, <1>4 DEF ServiceSet
<1>6. HostTypes'
  BY <1>0, <1>1, <1>4 DEF HostTypes, ServiceSet
<1>7. Alone' /\ OperatorsRulesKept'
  BY <1>0, <1>1 DEF Alone, Active, OperatorsRulesKept
<1>8. Apart'
  <2>1. ASSUME NEW v \in Units, NEW t \in Slots, svc'[v][t].state = "none"
        PROVE  ~svc'[v][t].answers /\ ~svc'[v][t].passed
    BY <2>1, <1>0, <1>1, <1>3, <1>4 DEF Apart, ServiceSet
  <2> QED BY <2>1, <1>0, <1>1, <1>5 DEF Apart
<1>9. ASSUME NEW g \in Active' PROVE Known(g)'
  <2>1. Known(g) /\ call[g].unit \in Units /\ call[g].slot \in Slots
    BY <1>0, <1>1 DEF Active, Known, Doing, HostTypes, Frame
  <2>2. Starting(g)'
    BY <2>1, <1>1, <1>5 DEF Known, Starting
  <2>3. Doing(g)' /\ RulesRead(g)' /\ Routing(g)'
    BY <2>1, <1>1 DEF Known, Doing, RulesRead, Routing, Rewrites, SiteOf
  <2> QED BY <2>2, <2>3 DEF Known
<1>10. \A v \in Units : Shared(v)'
  BY <1>0, <1>1 DEF Shared, Reported, Finds, Active, Rewrites, SiteOf
<1>11. RoutedAsReported'
  BY <1>0, <1>1, <1>5 DEF RoutedAsReported, SiteOf
<1> QED BY <1>6, <1>7, <1>8, <1>9, <1>10, <1>11 DEF IInv

LEMMA OperatorEditsStep ==
  ASSUME IInv, NEW s \in Sites, OperatorEdits(s)
  PROVE  IInv'
<1>0. /\ HostTypes /\ Alone /\ Apart /\ OperatorsRulesKept /\ RoutedAsReported
      /\ \A g \in Active : Known(g)
      /\ \A v \in Units : Shared(v)
  BY DEF IInv
<1>1. /\ config' = [config EXCEPT ![s].foreign = @ + 1]
      /\ rules' = [rules EXCEPT ![s] = @ + 1]
      /\ raced' = IF \E h \in Active : call[h].at = "write" /\ Rewrites(h) = s
                  THEN raced \cup {s} ELSE raced
      /\ svc' = svc /\ upset' = upset /\ fragment' = fragment /\ added' = added
      /\ own' = own /\ last' = last /\ call' = call
  BY DEF OperatorEdits, services
<1>2. config[s] \in Config /\ rules[s] \in Nat
  BY <1>0 DEF HostTypes
<1>3. /\ config'[s].foreign = config[s].foreign + 1
      /\ config'[s].managed = config[s].managed /\ config'[s] \in Config
      /\ \A t \in Sites \ {s} : config'[t] = config[t]
      /\ config' \in [Sites -> Config]
  BY <1>0, <1>1, <1>2 DEF HostTypes, Config
<1>4. /\ rules'[s] = rules[s] + 1 /\ \A t \in Sites \ {s} : rules'[t] = rules[t]
      /\ rules' \in [Sites -> Nat]
  BY <1>0, <1>1, <1>2 DEF HostTypes
<1>5. \A t \in Sites : config'[t].managed = config[t].managed
  BY <1>3
<1>6. HostTypes' /\ Alone' /\ Apart'
  BY <1>0, <1>1, <1>3, <1>4 DEF HostTypes, Alone, Active, Apart
<1>7. OperatorsRulesKept'
  BY <1>0, <1>1, <1>3, <1>4 DEF OperatorsRulesKept
<1>8. ASSUME NEW g \in Active' PROVE Known(g)'
  <2>1. g \in Active /\ Known(g) /\ Rewrites(g) \in Sites /\ SiteOf(call[g].unit) \in Sites
        /\ "_base" \in Sites
    BY <1>0, <1>1, RewritesSite DEF Active, Known, Doing, SiteOf, Sites
  <2>2. Doing(g)' /\ Starting(g)'
    BY <2>1, <1>1 DEF Known, Doing, Starting
  <2>3. RulesRead(g)'
    BY <2>1, <1>1, <1>4 DEF Known, RulesRead, Rewrites, SiteOf
  <2>4. Routing(g)'
    BY <2>1, <1>1, <1>5 DEF Known, Routing, SiteOf
  <2> QED BY <2>2, <2>3, <2>4 DEF Known
<1>9. \A v \in Units : Shared(v)'
  <2>1. "_base" \in Sites
    BY DEF Sites
  <2> QED BY <2>1, <1>0, <1>1, <1>5 DEF Shared, Reported, Finds, Active, Rewrites, SiteOf
<1>10. RoutedAsReported'
  <2>1. "_base" \in Sites /\ \A v \in Units : SiteOf(v) \in Sites
    BY DEF Sites, SiteOf
  <2> QED BY <2>1, <1>0, <1>1, <1>5 DEF RoutedAsReported, SiteOf
<1> QED BY <1>6, <1>7, <1>8, <1>9, <1>10 DEF IInv

LEMMA CrashStep ==
  ASSUME IInv, Crash
  PROVE  IInv'
<1>0. /\ HostTypes /\ Apart /\ OperatorsRulesKept /\ RoutedAsReported
      /\ \A v \in Units : Shared(v)
  BY DEF IInv
<1>1. /\ call' = [h \in Callers |-> NoCall]
      /\ svc' = svc /\ upset' = upset /\ fragment' = fragment /\ added' = added
      /\ config' = config /\ raced' = raced /\ own' = own /\ rules' = rules /\ last' = last
  BY DEF Crash, services, iis
<1>2. NoCall \in Frame /\ NoCall.at = "idle"
  BY DEF NoCall, Frame, NoRules, Slots
<1>3. Active' = {}
  BY <1>1, <1>2 DEF Active
<1>4. HostTypes'
  BY <1>0, <1>1, <1>2 DEF HostTypes
<1>5. Alone' /\ Apart' /\ OperatorsRulesKept' /\ RoutedAsReported'
  BY <1>0, <1>1, <1>3 DEF Alone, Apart, OperatorsRulesKept, RoutedAsReported, SiteOf
<1>6. \A v \in Units : Shared(v)'
  BY <1>0, <1>1, <1>3 DEF Shared, Reported
<1> QED BY <1>3, <1>4, <1>5, <1>6 DEF IInv

LEMMA Stutter ==
  ASSUME IInv, UNCHANGED vars
  PROVE  IInv'
<1>1. /\ call' = call
      /\ svc' = svc /\ upset' = upset /\ fragment' = fragment /\ added' = added
      /\ config' = config /\ raced' = raced /\ own' = own /\ rules' = rules /\ last' = last
  BY DEF vars, services, iis
<1>2. HostTypes' /\ Alone' /\ Apart' /\ OperatorsRulesKept' /\ RoutedAsReported'
  BY <1>1 DEF IInv, HostTypes, Alone, Active, Apart, OperatorsRulesKept, RoutedAsReported,
     SiteOf
<1>3. \A h \in Active' : Known(h)'
  BY <1>1 DEF IInv, Known, Doing, Starting, RulesRead, Routing, Rewrites, SiteOf, Active
<1>4. \A u \in Units : Shared(u)'
  BY <1>1 DEF IInv, Shared, Reported, Finds, Rewrites, SiteOf, Active
<1> QED BY <1>2, <1>3, <1>4 DEF IInv

LEMMA Inductive == IInv /\ [Next]_vars => IInv'
<1> SUFFICES ASSUME IInv, [Next]_vars PROVE IInv'
  OBVIOUS
<1>1. ASSUME NEW h \in Callers, CallStep(h) PROVE IInv'
  BY <1>1, LookStep, InstallStep, SetStep, LaunchStep, EndSteps, HealthyStep, UnhealthyStep,
     TeardownSteps, WriteFragmentStep, GlobStep, GatherStep, ReadStep, WriteStep, SiteSteps,
     StopSlotStep, UnlinkStep, DropStep DEF CallStep
<1> QED BY <1>1, BeginStep, ListensStep, OperatorEditsStep, CrashStep, Stutter DEF Next

----------------------------------------------------------------------------
(* The theorems.                                                           *)

(* The rules the operator has in a web.config outlive every rewriting of   *)
(* the managed ones that he did not edit the file in the middle of         *)
(* (iis_proxy.py _regenerate_base_web_config).                             *)
THEOREM OperatorsRulesStay == Spec => []OperatorsRulesKept
<1>1. IInv => OperatorsRulesKept
  BY DEF IInv
<1> QED BY <1>1, InitIInv, Inductive, PTL DEF Spec

(* A deployment or a deletion that nothing overlapped has left the rules   *)
(* it reports, and other calls do not take them away (iis_proxy.py         *)
(* configure_paths, remove).                                               *)
THEOREM ReportsAreRouted == Spec => []RoutedAsReported
<1>1. IInv => RoutedAsReported
  BY DEF IInv
<1> QED BY <1>1, InitIInv, Inductive, PTL DEF Spec

\* A step of one call on a unit changes no service of another unit, and a
\* deployment tears down no service that serves its unit but the one it replaced.
LEMMA ServesOn ==
  ASSUME IInv, Next, NEW u \in Units \ upset, Serving(u),
         \A h \in Callers : call[h].unit = u => call[h].op = "deploy"
  PROVE  Serving(u)'
<1>0. HostTypes /\ Apart /\ \A h \in Active : Known(h)
  BY DEF IInv
<1>1. PICK s \in Slots : svc[u][s].answers /\ svc[u][s].passed
  BY DEF Serving
<1>2. SUFFICES ASSUME ~(svc'[u][s].answers /\ svc'[u][s].passed)
      PROVE  Serving(u)'
  BY DEF Serving
<1>3. svc[u][s].state # "none"
  BY <1>0, <1>1 DEF Apart
<1>4. CASE UNCHANGED svc
  BY <1>1, <1>4 DEF Serving
<1>5. ASSUME NEW v \in Units, NEW t \in Slots, Listens(v, t) PROVE Serving(u)'
  BY <1>0, <1>1, <1>2, <1>5 DEF Listens, HostTypes, Service
<1>6. ASSUME NEW h \in Callers, CallStep(h) PROVE Serving(u)'
  <2> DEFINE v == call[h].unit
  <2>0. h \in Active => Known(h) /\ v \in Units /\ call[h].slot \in Slots
    BY <1>0 DEF Known, Doing, HostTypes, Frame, Active
  <2>1. CASE Install(h)
    <3>1. h \in Active
      BY <2>1 DEF Install, Active
    <3> QED BY <2>0, <2>1, <3>1, <1>0, <1>1, <1>2 DEF Install, HostTypes, Service
  <2>2. CASE Set(h)
    <3>1. h \in Active
      BY <2>2 DEF Set, Active
    <3> QED BY <2>0, <2>2, <3>1, <1>0, <1>1, <1>2 DEF Set, HostTypes, Service
  <2>3. CASE Launch(h)
    <3>1. h \in Active
      BY <2>3 DEF Launch, Active
    <3> QED BY <2>0, <2>3, <3>1, <1>0, <1>1, <1>2 DEF Launch, HostTypes, Service
  <2>4. CASE Healthy(h)
    <3>1. h \in Active
      BY <2>4 DEF Healthy, Active
    <3> QED BY <2>0, <2>4, <3>1, <1>0, <1>1, <1>2, <1>3 DEF Healthy, HostTypes, Service, There
  <2>5. CASE GiveUp(h)
    <3>1. h \in Active /\ call[h].at = "teardown" /\ Teardown(v, call[h].slot)
      BY <2>5 DEF GiveUp, Active
    <3>2. PICK new \in Service : ServiceSet(v, call[h].slot, new)
      BY <2>0, <3>1, <1>0, Torn
    <3>3. v = u /\ call[h].slot = s
      BY <3>2, <1>1, <1>2 DEF ServiceSet
    <3> QED BY <2>0, <3>1, <3>3, <1>1 DEF Known, Starting, Doing, Deploys
  <2>6. CASE Retire(h)
    <3>1. h \in Active /\ call[h].at = "retire" /\ Teardown(v, call[h].old)
      BY <2>6 DEF Retire, Active
    <3>2. /\ call[h].old \in Slots /\ call[h].slot \in Slots
          /\ call[h].old # call[h].slot
          /\ v = u => svc[v][call[h].slot].answers /\ svc[v][call[h].slot].passed
      BY <2>0, <3>1 DEF Known, Starting, Doing, Deploys
    <3>3. PICK new \in Service : ServiceSet(v, call[h].old, new)
      BY <2>0, <3>1, <3>2, <1>0, Torn
    <3>4. v = u
      BY <3>3, <1>1, <1>2 DEF ServiceSet
    <3> QED BY <3>2, <3>3, <3>4 DEF ServiceSet, Serving
  <2>7. CASE StopSlot(h)
    <3>1. /\ h \in Active /\ call[h].op # "deploy"
          /\ \E t \in Slots : Teardown(v, t) \/ UNCHANGED svc
      BY <2>0, <2>7 DEF StopSlot, Active, Known, Doing, Slots
    <3>2. CASE UNCHANGED svc
      BY <3>2, <1>4
    <3>3. ASSUME NEW t \in Slots, Teardown(v, t) PROVE Serving(u)'
      <4>1. PICK new \in Service : ServiceSet(v, t, new)
        BY <2>0, <3>1, <3>3, <1>0, Torn
      <4>2. v # u
        BY <3>1
      <4> QED BY <4>1, <4>2, <1>1, <1>2 DEF ServiceSet
    <3> QED BY <3>1, <3>2, <3>3
  <2>8. CASE Look(h) \/ NssmFails(h) \/ Unhealthy(h)
    BY <2>8, <1>4 DEF Look, NssmFails, Unhealthy, services
  <2>9. CASE WriteFragment(h) \/ Glob(h) \/ Gather(h) \/ Read(h) \/ Write(h)
    BY <2>9, <1>4 DEF WriteFragment, Glob, Gather, Read, Write, services
  <2>10. CASE SiteThere(h) \/ SiteToAdd(h) \/ AddSite(h) \/ IisFails(h)
    BY <2>10, <1>4 DEF SiteThere, SiteToAdd, AddSite, IisFails, services
  <2>11. CASE Unlink(h) \/ Drop(h)
    BY <2>11, <1>4 DEF Unlink, Drop, services
  <2> QED BY <1>6, <2>1, <2>2, <2>3, <2>4, <2>5, <2>6, <2>7, <2>8, <2>9, <2>10, <2>11
          DEF CallStep
<1>7. ASSUME NEW h \in Callers, NEW v \in Units, NEW op \in {"deploy", "stop", "delete"},
             Begin(h, v, op)
      PROVE  Serving(u)'
  BY <1>4, <1>7 DEF Begin
<1>8. ASSUME NEW t \in Sites, OperatorEdits(t) PROVE Serving(u)'
  BY <1>4, <1>8 DEF OperatorEdits, services
<1>9. CASE Crash
  BY <1>4, <1>9 DEF Crash, services
<1> QED BY <1>5, <1>6, <1>7, <1>8, <1>9 DEF Next

(* A unit that serves goes on serving in every step of its deployments,    *)
(* whatever fails, stops and is left over (windows_service_runtime.py      *)
(* start).                                                                 *)
THEOREM SlotsGoOnServing == Spec => SlotsServe
<1> DEFINE Kept == \A u \in Units \ upset :
                      /\ Serving(u)
                      /\ \A h \in Callers : call[h].unit = u => call[h].op = "deploy"
                      => Serving(u)'
<1>1. IInv /\ [Next]_vars => [Kept]_vars
  BY ServesOn
<1> QED BY <1>1, InitIInv, Inductive, PTL DEF Spec, SlotsServe

----------------------------------------------------------------------------
(* Kubernetes (K8sRuntime): the inductive invariant.                       *)

Trees == [K8s!Files -> Nat]
GitPlaces == {"idle", "look", "clone", "fetch", "list", "checkout", "write", "add",
            "status", "commit", "push", "apply", "file"}

ClusterTypes ==
  /\ mode \in {"gitops", "cluster", "files"}
  /\ remote \in Seq(Trees) /\ tracking \in Seq(Trees) /\ head \in Seq(Trees)
  /\ index \in Trees /\ work \in Trees
  /\ cluster \in [Units -> [K8s!Kinds -> Nat]]
  /\ file \in [Units -> Nat]
  /\ start \in [Callers -> K8s!Frame]
  /\ meant \in [Units -> SUBSET Nat]

(* Whatever is or may yet be in place of a unit was asked for since it was *)
(* last sure what is: in the repository, in the clone on its way there, or *)
(* in the cluster or the file.                                             *)
Accounted ==
  /\ mode = "gitops" => \A u \in Units :
       {K8s!Tree(remote)[u], K8s!Tree(tracking)[u], K8s!Tree(head)[u], index[u], work[u]}
         \subseteq meant[u]
  /\ mode = "cluster" => \A u \in Units, d \in K8s!Kinds : cluster[u][d] \in meant[u]
  /\ mode = "files" => \A u \in Units : file[u] \in meant[u]

(* Two branches with the same manifests of all units.                      *)
Alike(a, b) == \A u \in Units : K8s!Tree(a)[u] = K8s!Tree(b)[u]

\* No other call touches what the call touches.
Unrivalled(h) == \A g \in K8s!Active \ {h} : mode # "gitops" /\ start[g].unit # start[h].unit

\* How far a call that no other crossed has got.
Reached(h) ==
  LET u == start[h].unit
      m == start[h].manifest
      at == start[h].at IN
  /\ at \in {"list", "checkout", "write", "add", "status", "commit", "push"} =>
       Alike(tracking, remote)
  /\ at \in {"write", "add", "status", "commit"} /\ ~start[h].local => Alike(head, remote)
  /\ at \in {"add", "status", "commit", "push"} => work[u] = m
  /\ at \in {"status", "commit", "push"} => index = work
  /\ at = "push" => K8s!Tree(head) = index
  /\ at = "apply" => \A i \in 1..(start[h].doc - 1) : cluster[u][K8s!Documents[i]] = m

\* A call follows the configuration, and what it puts in place is accounted for.
Configured(h) ==
  /\ start[h].unit \in Units /\ start[h].manifest \in meant[start[h].unit]
  /\ mode = "gitops" => start[h].at \notin {"apply", "file"}
  /\ mode = "cluster" => start[h].at = "apply"
  /\ mode = "files" => start[h].at = "file"

Starts(h) == Configured(h) /\ (~start[h].crossed => Unrivalled(h) /\ Reached(h))

ClusterInv == ClusterTypes /\ Accounted /\ \A h \in K8s!Active : Starts(h)

LEMMA ClusterPublished == ClusterInv => PublishedAsReported
<1> SUFFICES ASSUME ClusterInv, NEW u \in Units PROVE K8s!InPlace(u) \subseteq meant[u]
  BY DEF PublishedAsReported, K8s!PublishedAsReported
<1>1. CASE mode = "gitops"
  BY <1>1 DEF ClusterInv, Accounted, K8s!InPlace
<1>2. CASE mode = "cluster"
  BY <1>2 DEF ClusterInv, Accounted, K8s!InPlace
<1>3. CASE mode = "files"
  BY <1>3 DEF ClusterInv, Accounted, K8s!InPlace
<1> QED BY <1>1, <1>2, <1>3 DEF ClusterInv, ClusterTypes

LEMMA NoFrame == K8s!NoCall \in K8s!Frame /\ K8s!NoCall.at = "idle"
<1>1. Len(K8s!Documents) = 5 /\ 1 \in 1..5 /\ 0 \in K8s!Manifests
  BY ClusterAssumption DEF K8s!Documents, K8s!Manifests
<1> QED BY <1>1 DEF K8s!NoCall, K8s!Frame

LEMMA ClusterInit == K8s!Init => ClusterInv
<1> SUFFICES ASSUME K8s!Init PROVE ClusterInv
  OBVIOUS
<1>1. K8s!NoFiles \in Trees /\ \A u \in Units : K8s!NoFiles[u] = 0
  BY DEF K8s!NoFiles, Trees, K8s!Files
<1>2. /\ mode \in {"gitops", "cluster", "files"} /\ remote \in {<<>>, <<K8s!NoFiles>>}
      /\ tracking = <<>> /\ head = <<>> /\ index = K8s!NoFiles /\ work = K8s!NoFiles
      /\ cluster = [u \in Units |-> [d \in K8s!Kinds |-> 0]]
      /\ file = [u \in Units |-> 0]
      /\ start = [h \in Callers |-> K8s!NoCall]
      /\ meant = [u \in Units |-> {0}]
  BY ClusterAssumption DEF K8s!Init
<1>3. K8s!Tree(remote) = K8s!NoFiles /\ K8s!Tree(<<>>) = K8s!NoFiles
  <2>1. K8s!Tree(<<>>) = K8s!NoFiles
    BY DEF K8s!Tree
  <2>2. K8s!Tree(<<K8s!NoFiles>>) = K8s!NoFiles
    BY DEF K8s!Tree, K8s!Last
  <2> QED BY <1>2, <2>1, <2>2
<1>4. remote \in Seq(Trees) /\ tracking \in Seq(Trees) /\ head \in Seq(Trees)
  <2>1. <<>> \in Seq(Trees)
    OBVIOUS
  <2>2. ASSUME NEW t \in Trees PROVE <<t>> \in Seq(Trees)
    OBVIOUS
  <2>3. <<K8s!NoFiles>> \in Seq(Trees)
    BY <1>1, <2>2, Zenon
  <2> QED BY <1>2, <2>1, <2>3, Zenon
<1>5. ClusterTypes
  BY <1>1, <1>2, <1>4, NoFrame DEF ClusterTypes
<1>6. Accounted
  BY <1>1, <1>2, <1>3 DEF Accounted
<1>7. K8s!Active = {}
  BY <1>2, NoFrame DEF K8s!Active
<1> QED BY <1>5, <1>6, <1>7 DEF ClusterInv

LEMMA TreeOf ==
  ASSUME NEW s \in Seq(Trees), NEW t \in Trees
  PROVE  K8s!Tree(Append(s, t)) = t /\ Append(s, t) \in Seq(Trees)
<1>1. Append(s, t) # <<>> /\ K8s!Last(Append(s, t)) = t /\ Append(s, t) \in Seq(Trees)
  BY DEF K8s!Last
<1> QED BY <1>1 DEF K8s!Tree

LEMMA TreeIs ==
  ASSUME NEW s \in Seq(Trees)
  PROVE  K8s!Tree(s) \in Trees
<1>1. CASE s = <<>>
  BY <1>1 DEF K8s!Tree, K8s!NoFiles, Trees
<1>2. CASE s # <<>>
  <2>1. Len(s) \in 1..Len(s)
    BY <1>2
  <2> QED BY <1>2, <2>1 DEF K8s!Tree, K8s!Last
<1> QED BY <1>1, <1>2

----------------------------------------------------------------------------
(* What a step of a call leaves of the others.                             *)

LEMMA GoesOn ==
  ASSUME ClusterTypes, NEW h \in Callers, NEW to \in GitPlaces, K8s!Goes(h, to)
  PROVE  /\ start' \in [Callers -> K8s!Frame]
         /\ start'[h].at = to /\ start'[h].unit = start[h].unit
         /\ start'[h].manifest = start[h].manifest /\ start'[h].doc = start[h].doc
         /\ start'[h].local = start[h].local /\ start'[h].crossed = start[h].crossed
         /\ \A g \in Callers \ {h} : start'[g] = start[g]
<1>1. start[h] \in K8s!Frame /\ start' = [start EXCEPT ![h].at = to]
  BY DEF ClusterTypes, K8s!Goes
<1>2. [start[h] EXCEPT !.at = to] \in K8s!Frame
  BY <1>1 DEF K8s!Frame, GitPlaces
<1> QED BY <1>1, <1>2 DEF ClusterTypes, K8s!Frame

LEMMA Leaves ==
  ASSUME ClusterTypes, NEW h \in Callers, start' = [start EXCEPT ![h] = K8s!NoCall]
  PROVE  /\ start' \in [Callers -> K8s!Frame] /\ start'[h].at = "idle"
         /\ \A g \in Callers \ {h} : start'[g] = start[g]
BY NoFrame DEF ClusterTypes

LEMMA CallKept ==
  ASSUME ClusterInv, NEW h \in K8s!Active, ClusterTypes', Accounted', mode' = mode,
         \A g \in Callers \ {h} : start'[g] = start[g],
         \A g \in Callers \ {h} : start[g].at # "idle" =>
             start[g].manifest \in meant'[start[g].unit],
         mode = "cluster" => \A u \in Units \ {start[h].unit} : cluster'[u] = cluster[u],
         start'[h].at # "idle" =>
             /\ start'[h].unit = start[h].unit /\ start'[h].crossed = start[h].crossed
             /\ Configured(h)'
             /\ ~start[h].crossed => Reached(h)'
  PROVE  ClusterInv'
<1>1. SUFFICES ASSUME NEW g \in K8s!Active' PROVE Starts(g)'
  BY DEF ClusterInv
<1>2. K8s!Active' \subseteq K8s!Active /\ g \in K8s!Active
  BY DEF K8s!Active
<1>3. \A f \in K8s!Active' : start'[f].unit = start[f].unit
  BY <1>2 DEF K8s!Active
<1>4. Starts(g)
  BY <1>2 DEF ClusterInv
<1>5. ~start[g].crossed => Unrivalled(g)'
  BY <1>2, <1>3, <1>4 DEF Starts, Unrivalled
<1>6. CASE g = h
  BY <1>5, <1>6 DEF Starts, K8s!Active
<1>7. CASE g # h
  <2>1. start'[g] = start[g] /\ start[g].at # "idle"
    BY <1>2, <1>7 DEF K8s!Active
  <2>2. Configured(g)'
    BY <1>4, <2>1, <1>2, <1>7 DEF Starts, Configured, K8s!Active
  <2>3. ASSUME ~start[g].crossed PROVE Reached(g)'
    <3>1. mode # "gitops" /\ start[h].unit # start[g].unit /\ Reached(g)
      BY <1>4, <1>7, <2>3 DEF Starts, Unrivalled
    <3>2. start[g].at \in {"apply", "file"} /\ start[g].unit \in Units
      BY <1>4, <3>1 DEF Starts, Configured, ClusterInv, ClusterTypes
    <3>3. start[g].at = "apply" => cluster'[start[g].unit] = cluster[start[g].unit]
      BY <1>4, <3>1, <3>2 DEF Starts, Configured, ClusterInv, ClusterTypes
    <3> QED BY <2>1, <3>1, <3>2, <3>3 DEF Reached
  <2> QED BY <1>5, <2>1, <2>2, <2>3 DEF Starts
<1> QED BY <1>6, <1>7

LEMMA ByGit ==
  ASSUME ClusterInv, NEW h \in K8s!Active, start[h].at \notin {"apply", "file"}
  PROVE  mode = "gitops"
BY DEF ClusterInv, ClusterTypes, Starts, Configured

\* What stands for a unit in the repository and in the clone.
Versions(u) == {K8s!Tree(remote)[u], K8s!Tree(tracking)[u], K8s!Tree(head)[u],
                index[u], work[u]}

\* A step in the clone that goes on to another.
LEMMA GitGoes ==
  ASSUME ClusterInv, NEW h \in K8s!Active, mode = "gitops",
         NEW to \in GitPlaces \ {"idle", "apply", "file"}, K8s!Goes(h, to),
         UNCHANGED <<mode, cluster, meant>>, file' \in [Units -> Nat],
         remote' \in Seq(Trees), tracking' \in Seq(Trees), head' \in Seq(Trees),
         index' \in Trees, work' \in Trees,
         \A u \in Units : Versions(u)' \subseteq meant[u],
         Starts(h) /\ ~start[h].crossed => Reached(h)'
  PROVE  ClusterInv'
<1>1. h \in Callers /\ ClusterTypes /\ Starts(h)
  BY DEF ClusterInv, K8s!Active
<1>2. /\ start' \in [Callers -> K8s!Frame]
      /\ start'[h].at = to /\ start'[h].unit = start[h].unit
      /\ start'[h].manifest = start[h].manifest /\ start'[h].crossed = start[h].crossed
      /\ \A g \in Callers \ {h} : start'[g] = start[g]
  BY <1>1, GoesOn
<1>3. ClusterTypes'
  BY <1>1, <1>2 DEF ClusterTypes
<1>4. Accounted'
  BY DEF Accounted, Versions
<1>5. \A g \in Callers \ {h} : start[g].at # "idle" => start[g].manifest \in meant'[start[g].unit]
  BY DEF ClusterInv, Starts, Configured, K8s!Active
<1>6. Configured(h)'
  BY <1>1, <1>2 DEF Starts, Configured
<1> QED BY <1>1, <1>2, <1>3, <1>4, <1>5, <1>6, CallKept

\* Every file of a unit in the repository and in the clone is accounted for.
LEMMA VersionsMeant ==
  ASSUME ClusterInv, mode = "gitops", NEW u \in Units
  PROVE  Versions(u) \subseteq meant[u]
BY DEF ClusterInv, Accounted, Versions

LEMMA LookKept ==
  ASSUME ClusterInv, NEW h \in Callers, K8s!Look(h)
  PROVE  ClusterInv'
<1> DEFINE to == IF cloned THEN "fetch" ELSE "clone"
<1>1. h \in K8s!Active /\ mode = "gitops" /\ to \in GitPlaces \ {"idle", "apply", "file"}
  BY ByGit DEF K8s!Look, K8s!Active, GitPlaces
<1>2. /\ K8s!Goes(h, to) /\ UNCHANGED <<mode, cluster, meant, file>>
      /\ UNCHANGED <<remote, tracking, head, index, work>>
  BY DEF K8s!Look, K8s!GitOnly
<1>3. start'[h].at = to
  BY <1>1, <1>2, GoesOn DEF ClusterInv, GitPlaces
<1>4. Reached(h)'
  BY <1>3 DEF Reached
<1>5. \A u \in Units : Versions(u)' \subseteq meant[u]
  BY <1>1, <1>2, VersionsMeant DEF Versions
<1> HIDE DEF to
<1> QED BY <1>1, <1>2, <1>4, <1>5, GitGoes DEF ClusterInv, ClusterTypes

LEMMA CloneKept ==
  ASSUME ClusterInv, NEW h \in Callers, K8s!Clone(h)
  PROVE  ClusterInv'
<1>1. h \in K8s!Active /\ mode = "gitops" /\ "fetch" \in GitPlaces \ {"idle", "apply", "file"}
  BY ByGit DEF K8s!Clone, K8s!Active, GitPlaces
<1>2. /\ K8s!Goes(h, "fetch") /\ UNCHANGED <<mode, cluster, meant, file>>
      /\ remote' = remote /\ tracking' = remote /\ head' = remote
      /\ index' = K8s!Tree(remote) /\ work' = K8s!Tree(remote)
  BY DEF K8s!Clone, K8s!GitOnly
<1>3. start'[h].at = "fetch"
  BY <1>1, <1>2, GoesOn DEF ClusterInv
<1>4. Reached(h)'
  BY <1>3 DEF Reached
<1>5. \A u \in Units : Versions(u)' \subseteq meant[u]
  BY <1>1, <1>2, VersionsMeant DEF Versions
<1>6. remote \in Seq(Trees) /\ K8s!Tree(remote) \in Trees /\ file \in [Units -> Nat]
  BY TreeIs DEF ClusterInv, ClusterTypes
<1> QED BY <1>1, <1>2, <1>4, <1>5, <1>6, GitGoes

LEMMA FetchKept ==
  ASSUME ClusterInv, NEW h \in Callers, K8s!Fetch(h)
  PROVE  ClusterInv'
<1>1. h \in K8s!Active /\ mode = "gitops" /\ "list" \in GitPlaces \ {"idle", "apply", "file"}
  BY ByGit DEF K8s!Fetch, K8s!Active, GitPlaces
<1>2. /\ K8s!Goes(h, "list") /\ UNCHANGED <<mode, cluster, meant, file>>
      /\ tracking' = remote /\ UNCHANGED <<remote, head, index, work>>
  BY DEF K8s!Fetch, K8s!GitOnly
<1>3. start'[h].at = "list"
  BY <1>1, <1>2, GoesOn DEF ClusterInv
<1>4. Reached(h)'
  BY <1>2, <1>3 DEF Reached, Alike
<1>5. \A u \in Units : Versions(u)' \subseteq meant[u]
  BY <1>1, <1>2, VersionsMeant DEF Versions
<1> QED BY <1>1, <1>2, <1>4, <1>5, GitGoes DEF ClusterInv, ClusterTypes

LEMMA ListKept ==
  ASSUME ClusterInv, NEW h \in Callers, K8s!List(h)
  PROVE  ClusterInv'
<1>1. h \in K8s!Active /\ mode = "gitops" /\ start[h].at = "list"
  BY ByGit DEF K8s!List, K8s!Active
<1>2. PICK local \in BOOLEAN :
        start' = [start EXCEPT ![h].at = "checkout", ![h].local = local]
  BY DEF K8s!List
<1>3. UNCHANGED <<mode, cluster, meant, file, remote, tracking, head, index, work>>
  BY DEF K8s!List, K8s!GitOnly
<1>4. ClusterTypes /\ Starts(h) /\ start[h] \in K8s!Frame
  BY <1>1 DEF ClusterInv, ClusterTypes
<1>5. [start[h] EXCEPT !.at = "checkout", !.local = local] \in K8s!Frame
  BY <1>4 DEF K8s!Frame
<1>6. start' = [start EXCEPT ![h] = [start[h] EXCEPT !.at = "checkout", !.local = local]]
  BY <1>2 DEF ClusterInv, ClusterTypes
<1>7. /\ start' \in [Callers -> K8s!Frame]
      /\ start'[h] = [start[h] EXCEPT !.at = "checkout", !.local = local]
      /\ \A g \in Callers \ {h} : start'[g] = start[g]
  BY <1>4, <1>5, <1>6 DEF ClusterTypes
<1>8. /\ start'[h].at = "checkout" /\ start'[h].unit = start[h].unit
      /\ start'[h].manifest = start[h].manifest /\ start'[h].crossed = start[h].crossed
  BY <1>4, <1>7 DEF K8s!Frame
<1>9. ClusterTypes'
  BY <1>3, <1>4, <1>7 DEF ClusterTypes
<1>10. Accounted'
  BY <1>3 DEF ClusterInv, Accounted
<1>11. Configured(h)'
  BY <1>1, <1>3, <1>4, <1>8 DEF Starts, Configured
<1>12. ~start[h].crossed => Reached(h)'
  BY <1>1, <1>3, <1>4, <1>8 DEF Starts, Reached, Alike
<1>13. \A g \in Callers \ {h} : start[g].at # "idle" => start[g].manifest \in meant'[start[g].unit]
  BY <1>3 DEF ClusterInv, Starts, Configured, K8s!Active
<1> QED BY <1>1, <1>3, <1>7, <1>8, <1>9, <1>10, <1>11, <1>12, <1>13, CallKept

LEMMA KeepKept ==
  ASSUME ClusterInv, NEW h \in Callers, K8s!Keep(h)
  PROVE  ClusterInv'
<1>1. /\ h \in K8s!Active /\ mode = "gitops" /\ start[h].at = "checkout" /\ start[h].local
      /\ "write" \in GitPlaces \ {"idle", "apply", "file"}
  BY ByGit DEF K8s!Keep, K8s!Active, GitPlaces
<1>2. /\ K8s!Goes(h, "write") /\ UNCHANGED <<mode, cluster, meant, file>>
      /\ UNCHANGED <<remote, tracking, head, index, work>>
  BY DEF K8s!Keep, K8s!GitOnly
<1>3. start'[h].at = "write" /\ start'[h].local = start[h].local
  BY <1>1, <1>2, GoesOn DEF ClusterInv
<1>4. Starts(h) /\ ~start[h].crossed => Reached(h)'
  BY <1>1, <1>2, <1>3 DEF Starts, Reached, Alike
<1>5. \A u \in Units : Versions(u)' \subseteq meant[u]
  BY <1>1, <1>2, VersionsMeant DEF Versions
<1> QED BY <1>1, <1>2, <1>4, <1>5, GitGoes DEF ClusterInv, ClusterTypes

LEMMA ResetKept ==
  ASSUME ClusterInv, NEW h \in Callers, K8s!Reset(h)
  PROVE  ClusterInv'
<1> DEFINE old == K8s!Tree(head)
           new == K8s!Tree(tracking)
<1>1. /\ h \in K8s!Active /\ mode = "gitops" /\ start[h].at = "checkout"
      /\ "write" \in GitPlaces \ {"idle", "apply", "file"}
  BY ByGit DEF K8s!Reset, K8s!Active, GitPlaces
<1>2. /\ K8s!Goes(h, "write") /\ UNCHANGED <<mode, cluster, meant, file>>
      /\ UNCHANGED <<remote, tracking>> /\ head' = tracking
      /\ index' = [f \in K8s!Files |-> IF old[f] = new[f] THEN index[f] ELSE new[f]]
      /\ work' = [f \in K8s!Files |-> IF old[f] = new[f] \/ index[f] = new[f]
                                      THEN work[f] ELSE new[f]]
  BY DEF K8s!Reset, K8s!GitOnly
<1>3. start'[h].at = "write"
  BY <1>1, <1>2, GoesOn DEF ClusterInv
<1>4. Starts(h) /\ ~start[h].crossed => Reached(h)'
  BY <1>1, <1>2, <1>3 DEF Starts, Reached, Alike
<1>5. old \in Trees /\ new \in Trees /\ index \in Trees /\ work \in Trees
  BY TreeIs DEF ClusterInv, ClusterTypes
<1>6. index' \in Trees /\ work' \in Trees
  BY <1>2, <1>5 DEF Trees
<1>7. \A u \in Units : index'[u] \in {index[u], new[u]} /\ work'[u] \in {work[u], new[u]}
  BY <1>2 DEF K8s!Files
<1>8. \A u \in Units : Versions(u)' \subseteq Versions(u)
  BY <1>2, <1>7 DEF Versions
<1>9. \A u \in Units : Versions(u)' \subseteq meant[u]
  BY <1>1, <1>8, VersionsMeant
<1> HIDE DEF old, new
<1> QED BY <1>1, <1>2, <1>4, <1>6, <1>9, GitGoes DEF ClusterInv, ClusterTypes

LEMMA WriteKept ==
  ASSUME ClusterInv, NEW h \in Callers, K8s!Write(h)
  PROVE  ClusterInv'
<1> DEFINE u == start[h].unit
           m == start[h].manifest
<1>1. /\ h \in K8s!Active /\ mode = "gitops" /\ start[h].at = "write"
      /\ "add" \in GitPlaces \ {"idle", "apply", "file"}
  BY ByGit DEF K8s!Write, K8s!Active, GitPlaces
<1>2. /\ K8s!Goes(h, "add") /\ UNCHANGED <<mode, cluster, meant>>
      /\ UNCHANGED <<remote, tracking, head, index>>
      /\ work' = [work EXCEPT ![u] = m] /\ file' = [file EXCEPT ![u] = m]
  BY DEF K8s!Write
<1>3. /\ start'[h].at = "add" /\ start'[h].unit = u /\ start'[h].manifest = m
      /\ start'[h].local = start[h].local
  BY <1>1, <1>2, GoesOn DEF ClusterInv
<1>4. /\ u \in Units /\ m \in meant[u] /\ m \in Nat /\ u \in K8s!Files
      /\ work \in Trees /\ file \in [Units -> Nat] /\ meant \in [Units -> SUBSET Nat]
  BY <1>1 DEF ClusterInv, ClusterTypes, Starts, Configured, K8s!Files
<1>5. work' \in Trees /\ file' \in [Units -> Nat] /\ work'[u] = m
  BY <1>2, <1>4 DEF Trees
<1>6. Starts(h) /\ ~start[h].crossed => Reached(h)'
  BY <1>1, <1>2, <1>3, <1>5 DEF Starts, Reached, Alike
<1>7. \A v \in Units : work'[v] = work[v] \/ v = u
  BY <1>2, <1>4 DEF Trees, K8s!Files
<1>8. \A v \in Units : Versions(v)' \subseteq meant[v]
  BY <1>1, <1>2, <1>4, <1>5, <1>7, VersionsMeant DEF Versions
<1> HIDE DEF u, m
<1> QED BY <1>1, <1>2, <1>5, <1>6, <1>8, GitGoes DEF ClusterInv, ClusterTypes

LEMMA AddKept ==
  ASSUME ClusterInv, NEW h \in Callers, K8s!Add(h)
  PROVE  ClusterInv'
<1>1. /\ h \in K8s!Active /\ mode = "gitops" /\ start[h].at = "add"
      /\ "status" \in GitPlaces \ {"idle", "apply", "file"}
  BY ByGit DEF K8s!Add, K8s!Active, GitPlaces
<1>2. /\ K8s!Goes(h, "status") /\ UNCHANGED <<mode, cluster, meant, file>>
      /\ UNCHANGED <<remote, tracking, head, work>> /\ index' = work
  BY DEF K8s!Add, K8s!GitOnly
<1>3. /\ start'[h].at = "status" /\ start'[h].unit = start[h].unit
      /\ start'[h].manifest = start[h].manifest /\ start'[h].local = start[h].local
  BY <1>1, <1>2, GoesOn DEF ClusterInv
<1>4. Starts(h) /\ ~start[h].crossed => Reached(h)'
  BY <1>1, <1>2, <1>3 DEF Starts, Reached, Alike
<1>5. \A u \in Units : Versions(u)' \subseteq meant[u]
  BY <1>1, <1>2, VersionsMeant DEF Versions
<1> QED BY <1>1, <1>2, <1>4, <1>5, GitGoes DEF ClusterInv, ClusterTypes

LEMMA DirtyKept ==
  ASSUME ClusterInv, NEW h \in Callers, K8s!Dirty(h)
  PROVE  ClusterInv'
<1>1. /\ h \in K8s!Active /\ mode = "gitops" /\ start[h].at = "status"
      /\ "commit" \in GitPlaces \ {"idle", "apply", "file"}
  BY ByGit DEF K8s!Dirty, K8s!Active, GitPlaces
<1>2. /\ K8s!Goes(h, "commit") /\ UNCHANGED <<mode, cluster, meant, file>>
      /\ UNCHANGED <<remote, tracking, head, index, work>>
  BY DEF K8s!Dirty, K8s!GitOnly
<1>3. /\ start'[h].at = "commit" /\ start'[h].unit = start[h].unit
      /\ start'[h].manifest = start[h].manifest /\ start'[h].local = start[h].local
  BY <1>1, <1>2, GoesOn DEF ClusterInv
<1>4. Starts(h) /\ ~start[h].crossed => Reached(h)'
  BY <1>1, <1>2, <1>3 DEF Starts, Reached, Alike
<1>5. \A u \in Units : Versions(u)' \subseteq meant[u]
  BY <1>1, <1>2, VersionsMeant DEF Versions
<1> QED BY <1>1, <1>2, <1>4, <1>5, GitGoes DEF ClusterInv, ClusterTypes

LEMMA CommitKept ==
  ASSUME ClusterInv, NEW h \in Callers, K8s!Commit(h)
  PROVE  ClusterInv'
<1>1. /\ h \in K8s!Active /\ mode = "gitops" /\ start[h].at = "commit"
      /\ "push" \in GitPlaces \ {"idle", "apply", "file"}
  BY ByGit DEF K8s!Commit, K8s!Active, GitPlaces
<1>2. /\ K8s!Goes(h, "push") /\ UNCHANGED <<mode, cluster, meant, file>>
      /\ UNCHANGED <<remote, tracking, index, work>> /\ head' = Append(head, index)
  BY DEF K8s!Commit, K8s!GitOnly
<1>3. /\ start'[h].at = "push" /\ start'[h].unit = start[h].unit
      /\ start'[h].manifest = start[h].manifest
  BY <1>1, <1>2, GoesOn DEF ClusterInv
<1>4. K8s!Tree(head') = index /\ head' \in Seq(Trees)
  BY <1>2, TreeOf DEF ClusterInv, ClusterTypes
<1>5. Starts(h) /\ ~start[h].crossed => Reached(h)'
  BY <1>1, <1>2, <1>3, <1>4 DEF Starts, Reached, Alike
<1>6. \A u \in Units : Versions(u)' \subseteq meant[u]
  BY <1>1, <1>2, <1>4, VersionsMeant DEF Versions
<1> QED BY <1>1, <1>2, <1>4, <1>5, <1>6, GitGoes DEF ClusterInv, ClusterTypes

----------------------------------------------------------------------------
(* Calls that end.                                                         *)

\* What start() reports when it returns.
Says(h, surely) ==
  IF surely /\ ~start[h].crossed
  THEN meant' = [meant EXCEPT ![start[h].unit] = {start[h].manifest}]
  ELSE meant' = meant

LEMMA ReturnsSays ==
  ASSUME NEW h \in Callers, NEW surely \in BOOLEAN, K8s!Returns(h, surely)
  PROVE  start' = [start EXCEPT ![h] = K8s!NoCall] /\ Says(h, surely)
BY DEF K8s!Returns, Says

LEMMA SaysTypes ==
  ASSUME ClusterInv, NEW h \in K8s!Active, NEW surely \in BOOLEAN, Says(h, surely)
  PROVE  meant' \in [Units -> SUBSET Nat]
<1>1. start[h] \in K8s!Frame /\ meant \in [Units -> SUBSET Nat]
  BY DEF ClusterInv, ClusterTypes, K8s!Active
<1>2. {start[h].manifest} \in SUBSET Nat
  BY <1>1, ClusterAssumption DEF K8s!Frame, K8s!Manifests
<1> QED BY <1>1, <1>2 DEF Says

LEMMA Ended ==
  ASSUME ClusterInv, NEW h \in K8s!Active, start' = [start EXCEPT ![h] = K8s!NoCall],
         NEW surely \in BOOLEAN, Says(h, surely),
         ClusterTypes', Accounted', mode' = mode,
         mode = "cluster" => \A u \in Units \ {start[h].unit} : cluster'[u] = cluster[u]
  PROVE  ClusterInv'
<1>1. h \in Callers /\ ClusterTypes /\ Starts(h)
  BY DEF ClusterInv, K8s!Active
<1>2. start'[h].at = "idle" /\ \A g \in Callers \ {h} : start'[g] = start[g]
  BY <1>1, Leaves
<1>3. ASSUME NEW g \in Callers \ {h}, start[g].at # "idle"
      PROVE  start[g].manifest \in meant'[start[g].unit]
  <2>1. g \in K8s!Active /\ start[g].unit \in Units /\ start[g].manifest \in meant[start[g].unit]
    BY <1>3 DEF ClusterInv, Starts, Configured, K8s!Active
  <2>2. CASE surely /\ ~start[h].crossed
    <3>1. start[g].unit # start[h].unit
      BY <1>1, <1>3, <2>1, <2>2 DEF Starts, Unrivalled
    <3>2. meant'[start[g].unit] = meant[start[g].unit]
      BY <1>1, <2>1, <2>2, <3>1 DEF Says, ClusterTypes
    <3> QED BY <2>1, <3>2
  <2>3. CASE ~(surely /\ ~start[h].crossed)
    BY <2>1, <2>3 DEF Says
  <2> QED BY <2>2, <2>3
<1> QED BY <1>2, <1>3, CallKept

\* A call that ends in the clone: when it is sure, every file of its unit is
\* the manifest it was to put in place.
LEMMA GitEnds ==
  ASSUME ClusterInv, NEW h \in K8s!Active, mode = "gitops",
         start' = [start EXCEPT ![h] = K8s!NoCall],
         NEW surely \in BOOLEAN, Says(h, surely),
         UNCHANGED <<mode, cluster, file>>,
         remote' \in Seq(Trees), tracking' \in Seq(Trees), head' \in Seq(Trees),
         index' \in Trees, work' \in Trees,
         \A u \in Units : Versions(u)' \subseteq meant[u],
         \A u \in Units : Starts(h) /\ surely /\ ~start[h].crossed /\ u = start[h].unit =>
             Versions(u)' = {start[h].manifest}
  PROVE  ClusterInv'
<1>1. h \in Callers /\ ClusterTypes /\ Starts(h) /\ start[h].unit \in Units
  BY DEF ClusterInv, K8s!Active, Starts, Configured
<1>2. ClusterTypes'
  BY <1>1, Leaves, SaysTypes DEF ClusterTypes
<1>3. ASSUME NEW u \in Units PROVE Versions(u)' \subseteq meant'[u]
  <2>1. CASE surely /\ ~start[h].crossed /\ u = start[h].unit
    BY <1>1, <2>1 DEF Says, ClusterTypes
  <2>2. CASE ~(surely /\ ~start[h].crossed /\ u = start[h].unit)
    <3>1. meant'[u] = meant[u]
      BY <1>1, <2>2 DEF Says, ClusterTypes
    <3> QED BY <3>1
  <2> QED BY <2>1, <2>2
<1>4. Accounted'
  BY <1>3 DEF Accounted, Versions
<1> QED BY <1>1, <1>2, <1>4, Ended

LEMMA CleanKept ==
  ASSUME ClusterInv, NEW h \in Callers, K8s!Clean(h)
  PROVE  ClusterInv'
<1> DEFINE surely == start[h].local => head = remote
<1>1. h \in K8s!Active /\ mode = "gitops" /\ start[h].at = "status"
  BY ByGit DEF K8s!Clean, K8s!Active
<1>2. /\ index = K8s!Tree(head) /\ work = index /\ K8s!Returns(h, surely)
      /\ UNCHANGED <<mode, cluster, file, remote, tracking, head, index, work>>
  BY DEF K8s!Clean, K8s!repo
<1>3. surely \in BOOLEAN
  BY <1>1 DEF ClusterInv, ClusterTypes, K8s!Frame, K8s!Active
<1>4. ASSUME NEW u \in Units, Starts(h), surely, ~start[h].crossed, u = start[h].unit
      PROVE  Versions(u)' = {start[h].manifest}
  <2>1. start[h].unit \in Units /\ Reached(h)
    BY <1>4 DEF Starts, Configured
  <2>2. Alike(tracking, remote) /\ work[start[h].unit] = start[h].manifest
    BY <1>1, <2>1 DEF Reached
  <2>3. Alike(head, remote)
    BY <1>1, <1>4, <2>1 DEF Reached, Alike
  <2> QED BY <1>2, <1>4, <2>2, <2>3 DEF Alike, Versions
<1>5. \A u \in Units : Versions(u)' \subseteq meant[u]
  BY <1>1, <1>2, VersionsMeant DEF Versions
<1> HIDE DEF surely
<1>6. start' = [start EXCEPT ![h] = K8s!NoCall] /\ Says(h, surely)
  BY <1>2, <1>3, ReturnsSays
<1> QED BY <1>1, <1>2, <1>3, <1>4, <1>5, <1>6, GitEnds DEF ClusterInv, ClusterTypes

LEMMA PushKept ==
  ASSUME ClusterInv, NEW h \in Callers, K8s!Push(h)
  PROVE  ClusterInv'
<1>1. h \in K8s!Active /\ mode = "gitops" /\ start[h].at = "push"
  BY ByGit DEF K8s!Push, K8s!Active
<1>2. /\ remote' = head /\ tracking' = head /\ K8s!Returns(h, TRUE)
      /\ UNCHANGED <<mode, cluster, file, head, index, work>>
  BY DEF K8s!Push, K8s!Pushed
<1>3. ASSUME NEW u \in Units, Starts(h), ~start[h].crossed, u = start[h].unit
      PROVE  Versions(u)' = {start[h].manifest}
  <2>1. Reached(h)
    BY <1>3 DEF Starts
  <2>2. work[start[h].unit] = start[h].manifest /\ index = work /\ K8s!Tree(head) = index
    BY <1>1, <2>1 DEF Reached
  <2> QED BY <1>2, <1>3, <2>2 DEF Versions
<1>4. \A u \in Units : Versions(u)' \subseteq meant[u]
  BY <1>1, <1>2, VersionsMeant DEF Versions
<1>5. start' = [start EXCEPT ![h] = K8s!NoCall] /\ Says(h, TRUE)
  BY <1>2, ReturnsSays
<1> QED BY <1>1, <1>2, <1>3, <1>4, <1>5, GitEnds DEF ClusterInv, ClusterTypes

LEMMA PushUnansweredKept ==
  ASSUME ClusterInv, NEW h \in Callers, K8s!PushUnanswered(h)
  PROVE  ClusterInv'
<1>1. h \in K8s!Active /\ mode = "gitops"
  BY ByGit DEF K8s!PushUnanswered, K8s!Active
<1>2. /\ remote' = head /\ start' = [start EXCEPT ![h] = K8s!NoCall]
      /\ UNCHANGED <<mode, cluster, file, tracking, head, index, work, meant>>
  BY DEF K8s!PushUnanswered, K8s!Pushed
<1>3. \A u \in Units : Versions(u)' \subseteq meant[u]
  BY <1>1, <1>2, VersionsMeant DEF Versions
<1>4. Says(h, FALSE)
  BY <1>2 DEF Says
<1> QED BY <1>1, <1>2, <1>3, <1>4, GitEnds DEF ClusterInv, ClusterTypes

LEMMA FailsKept ==
  ASSUME ClusterInv, NEW h \in Callers, K8s!Fails(h)
  PROVE  ClusterInv'
<1>1. h \in K8s!Active
  BY DEF K8s!Fails, K8s!Active
<1>2. /\ start' = [start EXCEPT ![h] = K8s!NoCall]
      /\ UNCHANGED <<mode, cluster, file, remote, tracking, head, index, work, meant>>
  BY DEF K8s!Fails, K8s!repo
<1>3. Says(h, FALSE)
  BY <1>2 DEF Says
<1>4. ClusterTypes'
  BY <1>2, Leaves DEF ClusterInv, ClusterTypes
<1>5. Accounted'
  BY <1>2 DEF ClusterInv, Accounted
<1> QED BY <1>1, <1>2, <1>3, <1>4, <1>5, Ended

----------------------------------------------------------------------------
(* The cluster and the files.                                              *)

LEMMA FiveDocuments ==
  /\ Len(K8s!Documents) = 5
  /\ \A i \in 1..5 : K8s!Documents[i] \in K8s!Kinds
  /\ \A d \in K8s!Kinds : \E i \in 1..5 : d = K8s!Documents[i]
  /\ "Deployment" \in K8s!Kinds
<1>1. Len(K8s!Documents) = 5 /\ K8s!Documents[2] = "Deployment"
  BY DEF K8s!Documents
<1>2. K8s!Kinds = {K8s!Documents[i] : i \in DOMAIN K8s!Documents}
  BY DEF K8s!Kinds, K8s!ToSet
<1>3. DOMAIN K8s!Documents = 1..5
  BY DEF K8s!Documents
<1> QED BY <1>1, <1>2, <1>3

\* The cluster after a document of a call was applied.
LEMMA AppliedTypes ==
  ASSUME ClusterInv, NEW h \in K8s!Active, mode = "cluster", K8s!Applied(h)
  PROVE  LET u == start[h].unit
             d == K8s!Documents[start[h].doc] IN
         /\ cluster' \in [Units -> [K8s!Kinds -> Nat]]
         /\ cluster'[u][d] = start[h].manifest
         /\ \A e \in K8s!Kinds \ {d} : cluster'[u][e] = cluster[u][e]
         /\ \A v \in Units \ {u} : cluster'[v] = cluster[v]
<1> DEFINE u == start[h].unit
           m == start[h].manifest
           d == K8s!Documents[start[h].doc]
<1>1. start[h] \in K8s!Frame /\ cluster \in [Units -> [K8s!Kinds -> Nat]]
  BY DEF ClusterInv, ClusterTypes, K8s!Active
<1>2. u \in Units
  BY DEF ClusterInv, Starts, Configured
<1>3. m \in Nat /\ start[h].doc \in 1..5
  BY <1>1, ClusterAssumption, FiveDocuments DEF K8s!Frame, K8s!Manifests
<1>4. d \in K8s!Kinds
  BY <1>3, FiveDocuments
<1>5. cluster' = [cluster EXCEPT ![u][d] = m]
  BY DEF K8s!Applied
<1> HIDE DEF u, m, d
<1>6. [cluster[u] EXCEPT ![d] = m] \in [K8s!Kinds -> Nat]
  BY <1>1, <1>2, <1>3, <1>4
<1>7. cluster' = [cluster EXCEPT ![u] = [cluster[u] EXCEPT ![d] = m]]
  BY <1>1, <1>2, <1>5
<1>8. /\ cluster' \in [Units -> [K8s!Kinds -> Nat]]
      /\ cluster'[u] = [cluster[u] EXCEPT ![d] = m]
      /\ \A v \in Units \ {u} : cluster'[v] = cluster[v]
  BY <1>1, <1>2, <1>6, <1>7
<1>9. cluster[u] \in [K8s!Kinds -> Nat]
  BY <1>1, <1>2
<1>10. cluster'[u][d] = m /\ \A e \in K8s!Kinds \ {d} : cluster'[u][e] = cluster[u][e]
  BY <1>4, <1>8, <1>9
<1> QED BY <1>8, <1>10 DEF u, m, d

\* What applying a document leaves is accounted for before the call reports.
LEMMA AppliedMeant ==
  ASSUME ClusterInv, NEW h \in K8s!Active, mode = "cluster",
         K8s!Applied(h) \/ cluster' = cluster
  PROVE  /\ cluster' \in [Units -> [K8s!Kinds -> Nat]]
         /\ \A v \in Units, d \in K8s!Kinds : cluster'[v][d] \in meant[v]
         /\ \A v \in Units \ {start[h].unit} : cluster'[v] = cluster[v]
<1>1. \A v \in Units, d \in K8s!Kinds : cluster[v][d] \in meant[v]
  BY DEF ClusterInv, Accounted
<1>2. start[h].unit \in Units /\ start[h].manifest \in meant[start[h].unit]
  BY DEF ClusterInv, Starts, Configured
<1>3. CASE K8s!Applied(h)
  <2> DEFINE u == start[h].unit
             d == K8s!Documents[start[h].doc]
  <2>1. /\ cluster' \in [Units -> [K8s!Kinds -> Nat]]
        /\ cluster'[u][d] = start[h].manifest
        /\ \A e \in K8s!Kinds \ {d} : cluster'[u][e] = cluster[u][e]
        /\ \A v \in Units \ {u} : cluster'[v] = cluster[v]
    BY <1>3, AppliedTypes
  <2> HIDE DEF d
  <2> QED BY <1>1, <1>2, <2>1
<1>4. CASE cluster' = cluster
  BY <1>1, <1>4 DEF ClusterInv, ClusterTypes
<1> QED BY <1>3, <1>4

LEMMA ByApply ==
  ASSUME ClusterInv, NEW h \in Callers, start[h].at = "apply"
  PROVE  h \in K8s!Active /\ mode = "cluster"
<1>1. h \in K8s!Active
  BY DEF K8s!Active
<1>2. Starts(h) /\ mode \in {"gitops", "cluster", "files"}
  BY <1>1 DEF ClusterInv, ClusterTypes
<1> QED BY <1>1, <1>2 DEF Starts, Configured

LEMMA ApplyKept ==
  ASSUME ClusterInv, NEW h \in Callers, K8s!Apply(h)
  PROVE  ClusterInv'
<1> DEFINE u == start[h].unit
           m == start[h].manifest
           d == K8s!Documents[start[h].doc]
<1>1. start[h].at = "apply" /\ h \in K8s!Active /\ mode = "cluster" /\ K8s!Applied(h)
  BY ByApply DEF K8s!Apply
<1>2. UNCHANGED <<mode, file, remote, tracking, head, index, work>>
  BY DEF K8s!Apply, K8s!repo
<1>3. /\ cluster' \in [Units -> [K8s!Kinds -> Nat]]
      /\ \A v \in Units, e \in K8s!Kinds : cluster'[v][e] \in meant[v]
      /\ \A v \in Units \ {u} : cluster'[v] = cluster[v]
  BY <1>1, AppliedMeant
<1>4. cluster'[u][d] = m /\ \A e \in K8s!Kinds \ {d} : cluster'[u][e] = cluster[u][e]
  BY <1>1, AppliedTypes
<1>5. /\ ClusterTypes /\ Starts(h) /\ start[h] \in K8s!Frame /\ start[h].doc \in 1..5
      /\ u \in Units /\ m \in meant[u] /\ meant \in [Units -> SUBSET Nat]
  BY <1>1, FiveDocuments DEF ClusterInv, ClusterTypes, Starts, Configured, K8s!Frame
<1>6. ~start[h].crossed => \A i \in 1..start[h].doc : cluster'[u][K8s!Documents[i]] = m
  <2>1. SUFFICES ASSUME ~start[h].crossed, NEW i \in 1..start[h].doc
                 PROVE  cluster'[u][K8s!Documents[i]] = m
    OBVIOUS
  <2>2. CASE K8s!Documents[i] = d
    BY <1>4, <2>2
  <2>3. CASE K8s!Documents[i] # d
    <3>1. i \in 1..(start[h].doc - 1) /\ i \in 1..5
      BY <1>5, <2>3
    <3>2. cluster[u][K8s!Documents[i]] = m
      BY <1>1, <1>5, <2>1, <3>1 DEF Starts, Reached
    <3>3. K8s!Documents[i] \in K8s!Kinds \ {d}
      BY <2>3, <3>1, FiveDocuments
    <3> QED BY <1>4, <3>2, <3>3
  <2> QED BY <2>2, <2>3
<1> HIDE DEF u, m, d
<1>7. CASE start[h].doc = 5
  <2>1. K8s!Returns(h, TRUE)
    BY <1>7, FiveDocuments DEF K8s!Apply
  <2>2. start' = [start EXCEPT ![h] = K8s!NoCall] /\ Says(h, TRUE)
    BY <2>1, ReturnsSays
  <2>3. meant' \in [Units -> SUBSET Nat]
    BY <1>1, <2>2, SaysTypes
  <2>4. ClusterTypes'
    BY <1>2, <1>3, <1>5, <2>2, <2>3, Leaves DEF ClusterTypes
  <2>5. ASSUME NEW v \in Units, NEW e \in K8s!Kinds PROVE cluster'[v][e] \in meant'[v]
    <3>1. CASE ~start[h].crossed /\ v = u
      <4>1. meant'[u] = {m}
        BY <1>5, <2>2, <3>1 DEF Says, u, m
      <4>2. PICK i \in 1..5 : e = K8s!Documents[i]
        BY FiveDocuments
      <4>3. cluster'[u][K8s!Documents[i]] = m
        BY <1>6, <1>7, <3>1, <4>2
      <4> QED BY <3>1, <4>1, <4>2, <4>3
    <3>2. CASE ~(~start[h].crossed /\ v = u)
      <4>1. meant'[v] = meant[v]
        BY <1>5, <2>2, <3>2 DEF Says, u, m
      <4> QED BY <1>3, <4>1
    <3> QED BY <3>1, <3>2
  <2>6. Accounted'
    BY <1>1, <1>2, <2>5 DEF Accounted
  <2> QED BY <1>1, <1>2, <1>3, <2>2, <2>4, <2>6, Ended DEF u
<1>8. CASE start[h].doc # 5
  <2> DEFINE g == [start[h] EXCEPT !.doc = @ + 1]
  <2>1. start' = [start EXCEPT ![h].doc = @ + 1] /\ meant' = meant
    BY <1>8, FiveDocuments DEF K8s!Apply
  <2>2. g \in K8s!Frame
    BY <1>5, <1>8, FiveDocuments DEF K8s!Frame
  <2>3. /\ start' \in [Callers -> K8s!Frame] /\ start'[h] = g
        /\ \A f \in Callers \ {h} : start'[f] = start[f]
    BY <1>5, <2>1, <2>2 DEF ClusterTypes
  <2>4. /\ start'[h].at = "apply" /\ start'[h].unit = u /\ start'[h].manifest = m
        /\ start'[h].crossed = start[h].crossed /\ start'[h].doc - 1 = start[h].doc
    BY <1>1, <1>5, <2>3 DEF K8s!Frame, u, m
  <2> HIDE DEF g
  <2>5. ClusterTypes'
    BY <1>2, <1>3, <1>5, <2>1, <2>3 DEF ClusterTypes
  <2>6. Accounted'
    BY <1>1, <1>2, <1>3, <2>1 DEF Accounted
  <2>7. Configured(h)'
    BY <1>1, <1>2, <1>5, <2>1, <2>4 DEF Configured
  <2>8. ~start[h].crossed => Reached(h)'
    BY <1>6, <2>4 DEF Reached
  <2>9. \A f \in Callers \ {h} : start[f].at # "idle" => start[f].manifest \in meant'[start[f].unit]
    BY <2>1 DEF ClusterInv, Starts, Configured, K8s!Active
  <2> QED BY <1>1, <1>2, <1>3, <2>3, <2>4, <2>5, <2>6, <2>7, <2>8, <2>9, CallKept DEF u
<1> QED BY <1>7, <1>8

LEMMA ApplyFailsKept ==
  ASSUME ClusterInv, NEW h \in Callers, K8s!ApplyFails(h)
  PROVE  ClusterInv'
<1>1. start[h].at = "apply" /\ h \in K8s!Active /\ mode = "cluster"
  BY ByApply DEF K8s!ApplyFails
<1>2. UNCHANGED <<mode, file, remote, tracking, head, index, work, meant>>
  BY DEF K8s!ApplyFails, K8s!repo
<1>3. /\ cluster' \in [Units -> [K8s!Kinds -> Nat]]
      /\ \A v \in Units, e \in K8s!Kinds : cluster'[v][e] \in meant[v]
      /\ \A v \in Units \ {start[h].unit} : cluster'[v] = cluster[v]
  <2>1. K8s!Applied(h) \/ cluster' = cluster
    BY DEF K8s!ApplyFails
  <2> QED BY <1>1, <2>1, AppliedMeant
<1>4. ClusterTypes /\ Starts(h) /\ start[h] \in K8s!Frame
  BY <1>1 DEF ClusterInv, ClusterTypes
<1>5. Accounted'
  BY <1>1, <1>2, <1>3 DEF Accounted
<1>6. CASE start' = [start EXCEPT ![h] = K8s!NoCall]
  <2>1. Says(h, FALSE)
    BY <1>2 DEF Says
  <2>2. ClusterTypes'
    BY <1>2, <1>3, <1>4, <1>6, Leaves DEF ClusterTypes
  <2> QED BY <1>1, <1>2, <1>3, <1>5, <1>6, <2>1, <2>2, Ended
<1>7. CASE start[h].tries # 2
  <2> DEFINE n == start[h].tries + 1
             g == [start[h] EXCEPT !.doc = 1, !.tries = n]
  <2>1. start' = [start EXCEPT ![h] = g]
    <3> DEFINE f == IF start[h].tries = 2 THEN K8s!NoCall
                    ELSE [start[h] EXCEPT !.doc = 1, !.tries = @ + 1]
    <3>1. start' = [start EXCEPT ![h] = f]
      BY DEF K8s!ApplyFails
    <3>2. f = g
      BY <1>4, <1>7 DEF K8s!Frame
    <3> HIDE DEF f, g
    <3> QED BY <3>1, <3>2
  <2>2. g \in K8s!Frame
    <3>1. n \in 0..2 /\ 1 \in 1..Len(K8s!Documents)
      BY <1>4, <1>7, FiveDocuments DEF K8s!Frame
    <3> HIDE DEF n
    <3>2. [start[h] EXCEPT !.doc = 1] \in K8s!Frame
      BY <1>4, <3>1 DEF K8s!Frame
    <3> QED BY <1>4, <3>1, <3>2 DEF K8s!Frame
  <2>3. /\ g.at = "apply" /\ g.unit = start[h].unit /\ g.manifest = start[h].manifest
        /\ g.crossed = start[h].crossed /\ g.doc = 1
    BY <1>1, <1>4 DEF K8s!Frame
  <2> HIDE DEF g
  <2>4. /\ start' \in [Callers -> K8s!Frame] /\ start'[h] = g
        /\ \A f \in Callers \ {h} : start'[f] = start[f]
    BY <1>4, <2>1, <2>2 DEF ClusterTypes
  <2>5. ClusterTypes'
    BY <1>2, <1>3, <1>4, <2>4 DEF ClusterTypes
  <2>6. Configured(h)'
    BY <1>1, <1>2, <1>4, <2>3, <2>4 DEF Starts, Configured
  <2>7. Reached(h)'
    BY <2>3, <2>4 DEF Reached
  <2>8. \A f \in Callers \ {h} : start[f].at # "idle" => start[f].manifest \in meant'[start[f].unit]
    BY <1>2 DEF ClusterInv, Starts, Configured, K8s!Active
  <2> QED BY <1>1, <1>2, <1>3, <1>5, <2>3, <2>4, <2>5, <2>6, <2>7, <2>8, CallKept
<1>8. start[h].tries = 2 => start' = [start EXCEPT ![h] = K8s!NoCall]
  BY <1>4 DEF K8s!ApplyFails, ClusterTypes
<1> QED BY <1>6, <1>7, <1>8

LEMMA WriteFileKept ==
  ASSUME ClusterInv, NEW h \in Callers, K8s!WriteFile(h)
  PROVE  ClusterInv'
<1> DEFINE u == start[h].unit
           m == start[h].manifest
<1>1. h \in K8s!Active /\ start[h].at = "file"
  BY DEF K8s!WriteFile, K8s!Active
<1>2. /\ ClusterTypes /\ Starts(h) /\ start[h] \in K8s!Frame /\ mode = "files"
      /\ u \in Units /\ m \in meant[u] /\ m \in Nat
      /\ meant \in [Units -> SUBSET Nat] /\ file \in [Units -> Nat]
  BY <1>1 DEF ClusterInv, ClusterTypes, Starts, Configured
<1>3. /\ file' = [file EXCEPT ![u] = m] /\ K8s!Returns(h, TRUE)
      /\ UNCHANGED <<mode, cluster, remote, tracking, head, index, work>>
  BY DEF K8s!WriteFile, K8s!repo
<1>4. start' = [start EXCEPT ![h] = K8s!NoCall] /\ Says(h, TRUE)
  BY <1>3, ReturnsSays
<1>5. meant' \in [Units -> SUBSET Nat]
  BY <1>1, <1>4, SaysTypes
<1>6. file' \in [Units -> Nat]
  BY <1>2, <1>3
<1>7. ClusterTypes'
  BY <1>2, <1>3, <1>4, <1>5, <1>6, Leaves DEF ClusterTypes
<1>8. ASSUME NEW v \in Units PROVE file'[v] \in meant'[v]
  <2>1. file[v] \in meant[v]
    BY <1>2 DEF ClusterInv, Accounted
  <2>2. m \in meant'[u]
    BY <1>2, <1>4 DEF Says
  <2>3. v # u => meant'[v] = meant[v]
    BY <1>2, <1>4 DEF Says
  <2> HIDE DEF u, m
  <2> QED BY <1>2, <1>3, <2>1, <2>2, <2>3
<1>9. Accounted'
  BY <1>2, <1>3, <1>8 DEF Accounted
<1> QED BY <1>1, <1>2, <1>3, <1>4, <1>7, <1>9, Ended

----------------------------------------------------------------------------
(* What is not a step of a call.                                           *)

LEMMA StartKept ==
  ASSUME ClusterInv, NEW h \in Callers, NEW u \in Units, NEW m \in K8s!Manifests \ {0},
         K8s!Start(h, u, m)
  PROVE  ClusterInv'
<1> DEFINE to == CASE mode = "gitops" -> "look" [] mode = "cluster" -> "apply"
                   [] mode = "files" -> "file"
           rivals == K8s!Rivals(h, u)
           f == [K8s!NoCall EXCEPT !.at = to, !.unit = u, !.manifest = m,
                                   !.crossed = rivals # {}]
<1>1. /\ start[h].at = "idle" /\ meant' = [meant EXCEPT ![u] = @ \cup {m}]
      /\ UNCHANGED <<mode, file, cluster, remote, tracking, head, index, work>>
  BY DEF K8s!Start, K8s!repo
<1>2. ClusterTypes
  BY DEF ClusterInv
<1>3. \/ mode = "gitops" /\ to = "look"
      \/ mode = "cluster" /\ to = "apply"
      \/ mode = "files" /\ to = "file"
  BY <1>2 DEF ClusterTypes
<1>4. start' = [g \in Callers |-> IF g = h THEN f
                  ELSE [start[g] EXCEPT !.crossed = @ \/ g \in rivals]]
  BY DEF K8s!Start
<1>5. f \in K8s!Frame
  BY <1>3, NoFrame DEF K8s!Frame
<1>6. /\ f.at = to /\ f.unit = u /\ f.manifest = m /\ f.doc = 1
      /\ f.crossed = (rivals # {})
  BY NoFrame DEF K8s!NoCall
<1>7. rivals = {g \in K8s!Active \ {h} : mode = "gitops" \/ start[g].unit = u}
  BY DEF K8s!Rivals
<1> HIDE DEF to, rivals, f
<1>8. start'[h] = f
  BY <1>4
<1>9. ASSUME NEW g \in Callers \ {h}
      PROVE  /\ start'[g] \in K8s!Frame
             /\ start'[g].at = start[g].at /\ start'[g].unit = start[g].unit
             /\ start'[g].manifest = start[g].manifest /\ start'[g].doc = start[g].doc
             /\ start'[g].local = start[g].local
             /\ start'[g].crossed = (start[g].crossed \/ g \in rivals)
  <2>1. start'[g] = [start[g] EXCEPT !.crossed = start[g].crossed \/ g \in rivals]
    BY <1>4
  <2>2. start[g] \in K8s!Frame /\ (start[g].crossed \/ g \in rivals) \in BOOLEAN
    BY <1>2 DEF ClusterTypes
  <2> DEFINE c == start[g].crossed \/ g \in rivals
  <2> HIDE DEF c
  <2> QED BY <2>1, <2>2 DEF K8s!Frame, c
<1>10. start' \in [Callers -> K8s!Frame]
  BY <1>4, <1>5, <1>8, <1>9
<1>11. meant' \in [Units -> SUBSET Nat] /\ m \in meant'[u] /\ \A v \in Units : meant[v] \subseteq meant'[v]
  BY <1>1, <1>2, ClusterAssumption DEF ClusterTypes, K8s!Manifests
<1>12. ClusterTypes'
  BY <1>1, <1>2, <1>10, <1>11 DEF ClusterTypes
<1>13. Accounted'
  BY <1>1, <1>11 DEF ClusterInv, Accounted
<1>14. Starts(h)'
  <2>1. start'[h].at = to /\ start'[h].unit = u /\ start'[h].manifest = m
        /\ start'[h].doc = 1 /\ start'[h].crossed = (rivals # {})
    BY <1>6, <1>8
  <2>2. Configured(h)'
    BY <1>1, <1>3, <1>11, <2>1 DEF Configured
  <2>3. Reached(h)'
    BY <1>3, <2>1 DEF Reached
  <2>4. ~start'[h].crossed => Unrivalled(h)'
    <3>1. SUFFICES ASSUME rivals = {}, NEW g \in K8s!Active' \ {h}
                   PROVE  mode # "gitops" /\ start'[g].unit # u
      BY <1>1, <2>1 DEF Unrivalled
    <3>2. g \in K8s!Active \ {h}
      BY <1>9 DEF K8s!Active
    <3> QED BY <1>7, <1>9, <3>1, <3>2 DEF K8s!Active
  <2> QED BY <2>2, <2>3, <2>4 DEF Starts
<1>15. ASSUME NEW g \in K8s!Active', g # h PROVE Starts(g)'
  <2>1. g \in Callers \ {h} /\ g \in K8s!Active /\ Starts(g)
    BY <1>9, <1>15 DEF K8s!Active, ClusterInv
  <2>2. Configured(g)'
    BY <1>1, <1>9, <1>11, <2>1 DEF Starts, Configured
  <2>3. ASSUME ~start'[g].crossed PROVE Unrivalled(g)' /\ Reached(g)'
    <3>1. ~start[g].crossed /\ mode # "gitops" /\ start[g].unit # u
      BY <1>7, <1>9, <2>1, <2>3
    <3>2. Unrivalled(g) /\ Reached(g)
      BY <2>1, <3>1 DEF Starts
    <3>3. Reached(g)'
      BY <1>1, <1>9, <2>1, <3>2 DEF Reached, Alike
    <3>4. ASSUME NEW k \in K8s!Active' \ {g} PROVE mode # "gitops" /\ start'[k].unit # start'[g].unit
      <4>1. CASE k = h
        BY <1>6, <1>8, <1>9, <2>1, <3>1, <4>1
      <4>2. CASE k # h
        <5>1. k \in K8s!Active \ {g} /\ start'[k].unit = start[k].unit
          BY <1>9, <4>2 DEF K8s!Active
        <5> QED BY <1>9, <2>1, <3>1, <3>2, <5>1 DEF Unrivalled
      <4> QED BY <4>1, <4>2
    <3> QED BY <1>1, <3>3, <3>4 DEF Unrivalled
  <2> QED BY <2>2, <2>3 DEF Starts
<1> QED BY <1>12, <1>13, <1>14, <1>15 DEF ClusterInv

LEMMA StopKept ==
  ASSUME ClusterInv, NEW u \in Units, K8s!Stop(u)
  PROVE  ClusterInv'
<1>1. /\ mode = "cluster" /\ meant' = [meant EXCEPT ![u] = @ \cup {0}]
      /\ cluster' = [cluster EXCEPT ![u]["Deployment"] = 0]
      /\ start' = [h \in Callers |-> [start[h] EXCEPT !.crossed = @ \/
                                         (start[h].at # "idle" /\ start[h].unit = u)]]
      /\ UNCHANGED <<mode, file, remote, tracking, head, index, work>>
  BY DEF K8s!Stop, K8s!repo
<1>2. ClusterTypes /\ Accounted
  BY DEF ClusterInv
<1>3. meant' \in [Units -> SUBSET Nat] /\ 0 \in meant'[u] /\ \A v \in Units : meant[v] \subseteq meant'[v]
  BY <1>1, <1>2 DEF ClusterTypes
<1>4. ASSUME NEW g \in Callers
      PROVE  /\ start'[g] \in K8s!Frame
             /\ start'[g].at = start[g].at /\ start'[g].unit = start[g].unit
             /\ start'[g].manifest = start[g].manifest /\ start'[g].doc = start[g].doc
             /\ start'[g].local = start[g].local
             /\ start'[g].crossed = (start[g].crossed \/ (start[g].at # "idle" /\ start[g].unit = u))
  <2> DEFINE c == start[g].crossed \/ (start[g].at # "idle" /\ start[g].unit = u)
  <2>1. start[g] \in K8s!Frame /\ c \in BOOLEAN
    BY <1>2 DEF ClusterTypes, K8s!Frame
  <2>2. start'[g] = [start[g] EXCEPT !.crossed = c]
    BY <1>1
  <2> HIDE DEF c
  <2> QED BY <2>1, <2>2 DEF K8s!Frame, c
<1>5. start' \in [Callers -> K8s!Frame]
  BY <1>1, <1>4
<1>6. /\ cluster' \in [Units -> [K8s!Kinds -> Nat]]
      /\ \A v \in Units \ {u} : cluster'[v] = cluster[v]
      /\ \A d \in K8s!Kinds : cluster'[u][d] \in {0, cluster[u][d]}
  <2>1. cluster[u] \in [K8s!Kinds -> Nat] /\ "Deployment" \in K8s!Kinds
    BY <1>2, FiveDocuments DEF ClusterTypes
  <2>2. [cluster[u] EXCEPT !["Deployment"] = 0] \in [K8s!Kinds -> Nat]
    BY <2>1
  <2>3. cluster' = [cluster EXCEPT ![u] = [cluster[u] EXCEPT !["Deployment"] = 0]]
    BY <1>1, <1>2 DEF ClusterTypes
  <2>4. cluster'[u] = [cluster[u] EXCEPT !["Deployment"] = 0]
    BY <1>2, <2>3 DEF ClusterTypes
  <2> QED BY <1>2, <2>1, <2>2, <2>3, <2>4 DEF ClusterTypes
<1>7. ClusterTypes'
  BY <1>1, <1>2, <1>3, <1>5, <1>6 DEF ClusterTypes
<1>8. \A v \in Units, d \in K8s!Kinds : cluster'[v][d] \in meant'[v]
  BY <1>1, <1>2, <1>3, <1>6 DEF Accounted
<1>9. Accounted'
  BY <1>1, <1>8 DEF Accounted
<1>10. ASSUME NEW g \in K8s!Active' PROVE Starts(g)'
  <2>1. g \in Callers /\ g \in K8s!Active /\ Starts(g)
    BY <1>4 DEF K8s!Active, ClusterInv
  <2>2. Configured(g)'
    BY <1>1, <1>3, <1>4, <2>1 DEF Starts, Configured
  <2>3. ASSUME ~start'[g].crossed PROVE Unrivalled(g)' /\ Reached(g)'
    <3>1. ~start[g].crossed /\ start[g].unit # u /\ start[g].unit \in Units
      BY <1>4, <2>1, <2>3 DEF K8s!Active, Starts, Configured
    <3>2. Unrivalled(g) /\ Reached(g)
      BY <2>1, <3>1 DEF Starts
    <3>3. start[g].at = "apply" /\ cluster'[start[g].unit] = cluster[start[g].unit]
      BY <1>1, <1>6, <2>1, <3>1 DEF Starts, Configured
    <3>4. Reached(g)'
      BY <1>4, <2>1, <3>2, <3>3 DEF Reached
    <3>5. \A k \in K8s!Active' : k \in K8s!Active /\ start'[k].unit = start[k].unit
      BY <1>4 DEF K8s!Active
    <3> QED BY <1>1, <2>1, <1>4, <3>2, <3>4, <3>5 DEF Unrivalled
  <2> QED BY <2>2, <2>3 DEF Starts
<1> QED BY <1>7, <1>9, <1>10 DEF ClusterInv

LEMMA OthersPushKept ==
  ASSUME ClusterInv, K8s!OthersPush
  PROVE  ClusterInv'
<1> DEFINE old == K8s!Tree(remote)
           new == [old EXCEPT !["others"] = @ + 1]
<1>1. /\ mode = "gitops" /\ remote' = Append(remote, new)
      /\ UNCHANGED <<mode, tracking, head, index, work, cluster, file, start, meant>>
  BY DEF K8s!OthersPush
<1>2. ClusterTypes /\ Accounted /\ old \in Trees /\ "others" \notin Units
  BY TreeIs, ClusterAssumption DEF ClusterInv, ClusterTypes
<1>3. new \in Trees /\ \A u \in Units : new[u] = old[u]
  BY <1>2 DEF Trees, K8s!Files
<1> HIDE DEF new
<1>4. K8s!Tree(remote') = new /\ remote' \in Seq(Trees)
  BY <1>1, <1>2, <1>3, TreeOf DEF ClusterTypes
<1>5. \A u \in Units : K8s!Tree(remote')[u] = K8s!Tree(remote)[u]
  BY <1>3, <1>4
<1>6. ClusterTypes'
  BY <1>1, <1>2, <1>4 DEF ClusterTypes
<1>7. Accounted'
  BY <1>1, <1>2, <1>5 DEF Accounted
<1>8. ASSUME NEW g \in K8s!Active' PROVE Starts(g)'
  <2>1. g \in K8s!Active /\ Starts(g) /\ K8s!Active' = K8s!Active
    BY <1>1 DEF K8s!Active, ClusterInv
  <2>2. Reached(g) => Reached(g)'
    BY <1>1, <1>5 DEF Reached, Alike
  <2> QED BY <1>1, <2>1, <2>2 DEF Starts, Configured, Unrivalled
<1> QED BY <1>6, <1>7, <1>8 DEF ClusterInv

LEMMA ClusterNext ==
  ASSUME ClusterInv, K8s!Next
  PROVE  ClusterInv'
<1>1. ASSUME NEW h \in Callers, NEW u \in Units, NEW m \in K8s!Manifests \ {0},
             K8s!Start(h, u, m)
      PROVE  ClusterInv'
  BY <1>1, StartKept
<1>2. ASSUME NEW h \in Callers, K8s!CallStep(h)
      PROVE  ClusterInv'
  BY <1>2, LookKept, CloneKept, FetchKept, ListKept, KeepKept, ResetKept, WriteKept,
     AddKept, CleanKept, DirtyKept, CommitKept, PushKept, PushUnansweredKept, FailsKept,
     ApplyKept, ApplyFailsKept, WriteFileKept DEF K8s!CallStep
<1>3. ASSUME NEW u \in Units, K8s!Stop(u)
      PROVE  ClusterInv'
  BY <1>3, StopKept
<1>4. CASE K8s!OthersPush
  BY <1>4, OthersPushKept
<1>5. CASE K8s!Crash
  <2>1. /\ start' = [h \in Callers |-> K8s!NoCall]
        /\ UNCHANGED <<mode, remote, tracking, head, index, work, cluster, file, meant>>
    BY <1>5 DEF K8s!Crash, K8s!repo
  <2>2. ClusterTypes' /\ Accounted'
    BY <2>1, NoFrame DEF ClusterInv, ClusterTypes, Accounted
  <2>3. K8s!Active' = {}
    BY <2>1, NoFrame DEF K8s!Active
  <2> QED BY <2>2, <2>3 DEF ClusterInv
<1> QED BY <1>1, <1>2, <1>3, <1>4, <1>5 DEF K8s!Next

LEMMA ClusterStutter ==
  ASSUME ClusterInv, UNCHANGED K8s!vars
  PROVE  ClusterInv'
<1>1. UNCHANGED <<mode, remote, tracking, head, index, work, cluster, file, start, meant>>
  BY DEF K8s!vars, K8s!repo
<1>2. K8s!Active' = K8s!Active
  BY <1>1 DEF K8s!Active
<1>3. ASSUME NEW h \in K8s!Active PROVE Starts(h)'
  BY <1>1, <1>2 DEF ClusterInv, Starts, Configured, Unrivalled, Reached, Alike
<1> QED BY <1>1, <1>2, <1>3 DEF ClusterInv, ClusterTypes, Accounted

(* A start() that returned has put the unit's manifests where the          *)
(* configuration says, in the cluster, its file or the GitOps repository,  *)
(* and nothing but its next start() or stop() changes them: not for any    *)
(* order of git commands, failed and unanswered pushes and requests,       *)
(* pushes by others and crashes of the control plane, with any number of   *)
(* units and threads.                                                      *)
THEOREM ManifestsArePublished == K8s!Spec => []PublishedAsReported
<1>1. ClusterInv /\ [K8s!Next]_K8s!vars => ClusterInv'
  BY ClusterNext, ClusterStutter
<1> QED BY <1>1, ClusterInit, ClusterPublished, PTL DEF K8s!Spec

----------------------------------------------------------------------------

(* What the theorems say of either runtime holds of the hosts together: a  *)
(* behaviour of MCHosts is one of WindowsHost, and one of K8sRuntime.      *)
THEOREM HostsRunBoth == MCSpec => Spec /\ K8s!Spec
<1>1. MCInit => Init /\ K8s!Init
  BY DEF MCInit
<1>2. [Windows \/ Kubernetes]_<<host, vars, k8s>> => [Next]_vars /\ [K8s!Next]_K8s!vars
  <2>1. SUFFICES ASSUME [Windows \/ Kubernetes]_<<host, vars, k8s>>
                 PROVE  [Next]_vars /\ [K8s!Next]_K8s!vars
    OBVIOUS
  <2>2. UNCHANGED k8s => UNCHANGED K8s!vars
    BY DEF k8s, K8s!vars, K8s!repo
  <2> QED BY <2>1, <2>2 DEF Windows, Kubernetes
<1> QED BY <1>1, <1>2, PTL DEF MCSpec, Spec, K8s!Spec
=============================================================================

---------------------------- MODULE WindowsHost ----------------------------
(***************************************************************************)
(* A Windows host: applications as services                                *)
(* (services/runtime/windows_service_runtime.py) behind IIS                *)
(* (services/proxy/iis_proxy.py), driven by deployments, stops and         *)
(* deletions.                                                              *)
(*                                                                         *)
(* A unit has two service names, slots "a" and "b", used in turn.  Its     *)
(* rules are in a fragment file of its own; the web.config of the site all *)
(* units share is put together from the fragments, between two markers.  A *)
(* unit with a domain of its own has a site and a web.config of its own.   *)
(***************************************************************************)
EXTENDS Naturals, FiniteSets

CONSTANTS
    Callers,        \* threads of the control plane
    Units,          \* <project>-<profile>
    PortEnd,        \* the ports are 1..PortEnd, 0 is none
    MaxCalls,       \* bound of the model: deployments, stops, deletions
    MaxEvents       \* bound of the model: rules the operator adds, and times
                    \* the control plane dies

ASSUME WindowsAssumption ==
    /\ {PortEnd, MaxCalls, MaxEvents} \subseteq Nat
    /\ Units \cap {"none", "_base"} = {}

VARIABLES
    svc,            \* [unit -> [slot -> its service]]
    own,            \* units with a domain of their own
    fragment,       \* [unit -> the port in its fragment file, 0: no file]
    config,         \* [site -> its web.config]
    added,          \* the sites IIS has
    call,           \* [caller -> the frame of what it does]
    rules,          \* history: [site -> rules the operator added to it]
    raced,          \* history: sites edited while a call rewrote them
    upset,          \* history: units two calls worked on at once, or with a port
                    \* that another service was given
    last,           \* history: [unit -> what the last call made of it]
    count           \* bounds of the model

services == <<svc, upset>>
iis == <<fragment, config, added, raced>>
vars == <<services, iis, own, call, rules, last, count>>

Slots == {"a", "b"}
Ports == 1..PortEnd
Sites == Units \cup {"_base"}
NoRules == [u \in Units |-> 0]

\* answers: the application listens on its port; passed: history, a health check
\* of its start() succeeded.
Service == [state : {"none", "installed", "running"}, port : Ports \cup {0},
            answers : BOOLEAN, passed : BOOLEAN]
NoService == [state |-> "none", port |-> 0, answers |-> FALSE, passed |-> FALSE]

\* port, slot, old: host_port, slot and old_slot of start(); listed: the
\* fragments the glob found; found: the rules read from them; kept: the rules
\* of the operator that were read; unsure: another call was under way, or the
\* fragment to remove was gone already.
Frame == [at : {"idle", "look", "install", "set", "launch", "check", "teardown", "retire",
                "fragment", "glob", "gather", "read", "write", "site", "add",
                "stopa", "stopb", "unlink", "drop"},
          op : {"deploy", "stop", "delete"}, unit : Units \cup {"none"},
          port : Ports \cup {0}, slot : Slots, old : Slots \cup {"none"},
          listed : SUBSET Units, found : [Units -> Ports \cup {0}], kept : Nat,
          unsure : BOOLEAN]
NoCall == [at |-> "idle", op |-> "deploy", unit |-> "none", port |-> 0, slot |-> "a",
           old |-> "none", listed |-> {}, found |-> NoRules, kept |-> 0, unsure |-> FALSE]
Active == {h \in Callers : call[h].at # "idle"}

TypeOK ==
    /\ svc \in [Units -> [Slots -> Service]]
    /\ own \subseteq Units
    /\ fragment \in [Units -> Ports \cup {0}]
    /\ \A s \in Sites : /\ config[s].managed \in [Units -> Ports \cup {0}]
                        /\ config[s].foreign \in 0..MaxEvents
    /\ added \subseteq Sites
    /\ call \in [Callers -> Frame]
    /\ raced \subseteq Sites /\ upset \subseteq Units
    /\ rules \in [Sites -> 0..MaxEvents]
    /\ last \in [Units -> {"none", "deployed", "deleted"}]

Init ==
    /\ svc = [u \in Units |-> [s \in Slots |-> NoService]]
    /\ own \in SUBSET Units
    /\ fragment = NoRules
    /\ config = [s \in Sites |-> [managed |-> NoRules, foreign |-> 0]]
    /\ added = {}
    /\ call = [h \in Callers |-> NoCall]
    /\ rules = [s \in Sites |-> 0]
    /\ raced = {} /\ upset = {}
    /\ last = [u \in Units |-> "none"]
    /\ count = [calls |-> 0, events |-> 0]

Counted(what, limit) == count[what] < limit /\ count' = [count EXCEPT ![what] = @ + 1]
Goes(h, to) == call' = [call EXCEPT ![h].at = to]
Ends(h) == call' = [call EXCEPT ![h] = NoCall] /\ UNCHANGED last

\* The call has done all it had to; what it made of its unit is sure unless
\* the frame says otherwise.
Returns(h) ==
    /\ call' = [call EXCEPT ![h] = NoCall]
    /\ last' = [last EXCEPT ![call[h].unit] =
          IF call[h].unsure \/ call[h].op = "stop" THEN "none"
          ELSE IF call[h].op = "deploy" THEN "deployed" ELSE "deleted"]

Listening(p) == \E u \in Units, s \in Slots : svc[u][s].answers /\ svc[u][s].port = p
There(u, s) == svc[u][s].state # "none"

----------------------------------------------------------------------------
(* A call begins: deploy_sync, POST /stop, DELETE of a project or preview. *)

Begin(h, u, op) ==
    /\ call[h].at = "idle" /\ Counted("calls", MaxCalls)
    /\ call' = [g \in Callers |->
          IF g = h THEN [NoCall EXCEPT !.at = IF op = "deploy" THEN "look" ELSE "stopa",
                                       !.op = op, !.unit = u, !.unsure = Active # {}]
          ELSE [call[g] EXCEPT !.unsure = @ \/ g \in Active]]
    /\ last' = [last EXCEPT ![u] = "none"]
    /\ upset' = IF \E g \in Active : call[g].unit = u THEN upset \cup {u} ELSE upset
    /\ UNCHANGED <<svc, iis, own, rules>>

----------------------------------------------------------------------------
(* WindowsServiceRuntime.start                                             *)

\* allocate_port: the first port nobody answers on; _current_slot: "a" if it is
\* there, whatever its state.
Look(h) ==
    LET u == call[h].unit
        old == IF There(u, "a") THEN "a" ELSE IF There(u, "b") THEN "b" ELSE "none" IN
    /\ call[h].at = "look"
    /\ \E p \in Ports :
          /\ ~Listening(p) /\ \A q \in Ports : q < p => Listening(q)
          /\ call' = [call EXCEPT ![h].at = "install", ![h].port = p, ![h].old = old,
                                  ![h].slot = IF old = "a" THEN "b" ELSE "a"]
    /\ UNCHANGED <<services, iis, own, rules, last, count>>

\* nssm install, which fails when the name is taken.
Install(h) ==
    /\ call[h].at = "install" /\ ~There(call[h].unit, call[h].slot)
    /\ svc' = [svc EXCEPT ![call[h].unit][call[h].slot].state = "installed"]
    /\ Goes(h, "set")
    /\ UNCHANGED <<upset, iis, own, rules, last, count>>

\* The four nssm set; PORT is in the environment from here on.
Set(h) ==
    LET u == call[h].unit  s == call[h].slot IN
    /\ call[h].at = "set" /\ There(u, s)
    /\ svc' = [svc EXCEPT ![u][s].port = call[h].port]
    /\ upset' = upset \cup UNION {{u, v} : v \in {v \in Units : \E t \in Slots :
                     <<v, t>> # <<u, s>> /\ svc[v][t].port = call[h].port}}
    /\ Goes(h, "launch")
    /\ UNCHANGED <<iis, own, rules, last, count>>

\* nssm start; the application gets its port, now or later, unless another one
\* listens there.
Launch(h) ==
    LET u == call[h].unit  s == call[h].slot IN
    /\ call[h].at = "launch" /\ There(u, s)
    /\ svc' = [svc EXCEPT ![u][s].state = "running"]
    /\ Goes(h, "check")
    /\ UNCHANGED <<upset, iis, own, rules, last, count>>

\* An application listens, at its first try or when nssm starts it again.
Listens(u, s) ==
    /\ svc[u][s].state = "running" /\ ~svc[u][s].answers /\ svc[u][s].port # 0
    /\ ~Listening(svc[u][s].port)
    /\ svc' = [svc EXCEPT ![u][s].answers = TRUE]
    /\ UNCHANGED <<upset, iis, own, call, rules, last, count>>

\* WindowsServiceError of nssm: what was installed stays.
NssmFails(h) ==
    /\ call[h].at \in {"install", "set", "launch"}
    /\ Ends(h)
    /\ UNCHANGED <<services, iis, own, rules, count>>

\* _wait_healthy: somebody answers on the port.
Healthy(h) ==
    /\ call[h].at = "check" /\ Listening(call[h].port)
    /\ svc' = [svc EXCEPT ![call[h].unit][call[h].slot].passed = There(call[h].unit, call[h].slot)]
    /\ Goes(h, IF call[h].old = "none" THEN "fragment" ELSE "retire")
    /\ UNCHANGED <<upset, iis, own, rules, last, count>>
Unhealthy(h) ==
    /\ call[h].at = "check"
    /\ Goes(h, "teardown")
    /\ UNCHANGED <<services, iis, own, rules, last, count>>

\* _teardown of a service: stopped and removed, or only stopped, or neither,
\* when nssm fails, which is passed over.
Teardown(u, s) ==
    \/ svc' = [svc EXCEPT ![u][s] = NoService]
    \/ svc' = [svc EXCEPT ![u][s] = IF @.state = "running"
                                    THEN [@ EXCEPT !.state = "installed", !.answers = FALSE, !.passed = FALSE]
                                    ELSE @]
    \/ UNCHANGED svc

\* The new service is given up; mutant: with the old one.
GiveUpBoth(h) ==
    LET u == call[h].unit IN
    /\ call[h].at = "teardown"
    /\ svc' = [svc EXCEPT ![u] = [s \in Slots |-> NoService]]
    /\ Ends(h)
    /\ UNCHANGED <<upset, iis, own, rules, count>>
GiveUp(h) ==
    /\ call[h].at = "teardown"
    /\ Teardown(call[h].unit, call[h].slot)
    /\ Ends(h)
    /\ UNCHANGED <<upset, iis, own, rules, count>>

Retire(h) ==
    /\ call[h].at = "retire"
    /\ Teardown(call[h].unit, call[h].old)
    /\ Goes(h, "fragment")
    /\ UNCHANGED <<upset, iis, own, rules, last, count>>

----------------------------------------------------------------------------
(* IISProxy.configure_paths                                                *)

SiteOf(u) == IF u \in own THEN u ELSE "_base"
\* The web.config a call rewrites: its unit's, and in remove() the shared one.
Rewrites(h) == IF call[h].op = "delete" THEN "_base" ELSE SiteOf(call[h].unit)

\* Shared: the fragment is written.  Own domain: there is none.
WriteFragment(h) ==
    LET u == call[h].unit IN
    /\ call[h].at = "fragment"
    /\ IF u \in own
       THEN /\ call' = [call EXCEPT ![h].at = "read",
                                    ![h].found = [NoRules EXCEPT ![u] = call[h].port]]
            /\ UNCHANGED fragment
       ELSE /\ fragment' = [fragment EXCEPT ![u] = call[h].port]
            /\ Goes(h, "glob")
    /\ UNCHANGED <<services, config, added, raced, own, rules, last, count>>

\* _regenerate_base_web_config: the fragment files are listed, then read; one
\* that is gone by then ends the call.  Mutant: only the unit's own is listed.
GlobOwn(h) ==
    /\ call[h].at = "glob"
    /\ call' = [call EXCEPT ![h].at = "gather",
                            ![h].listed = {u \in {call[h].unit} : fragment[u] # 0}]
    /\ UNCHANGED <<services, iis, own, rules, last, count>>
Glob(h) ==
    /\ call[h].at = "glob"
    /\ call' = [call EXCEPT ![h].at = "gather",
                            ![h].listed = {u \in Units : fragment[u] # 0}]
    /\ UNCHANGED <<services, iis, own, rules, last, count>>
Gather(h) ==
    /\ call[h].at = "gather" /\ \A u \in call[h].listed : fragment[u] # 0
    /\ call' = [call EXCEPT ![h].at = "read", ![h].listed = {},
                            ![h].found = [u \in Units |-> IF u \in call[h].listed
                                                          THEN fragment[u] ELSE 0]]
    /\ UNCHANGED <<services, iis, own, rules, last, count>>

\* The existing web.config is read, and written with the managed rules
\* replaced; mutant: it is started afresh.
ReadNothing(h) ==
    /\ call[h].at = "read"
    /\ Goes(h, "write")
    /\ UNCHANGED <<services, iis, own, rules, last, count>>
Read(h) ==
    /\ call[h].at = "read"
    /\ call' = [call EXCEPT ![h].at = "write", ![h].kept = config[Rewrites(h)].foreign]
    /\ UNCHANGED <<services, iis, own, rules, last, count>>
Write(h) ==
    /\ call[h].at = "write"
    /\ config' = [config EXCEPT ![Rewrites(h)] =
                      [managed |-> call[h].found, foreign |-> call[h].kept]]
    /\ call' = [call EXCEPT ![h].at = IF call[h].op = "delete" THEN "drop" ELSE "site",
                            ![h].found = NoRules, ![h].kept = 0]
    /\ UNCHANGED <<services, fragment, added, raced, own, rules, last, count>>

\* _ensure_base_site finds the site.
SiteThere(h) ==
    /\ call[h].at = "site" /\ call[h].unit \notin own /\ "_base" \in added
    /\ Returns(h)
    /\ UNCHANGED <<services, iis, own, rules, count>>
\* The site is to be added: there is no shared one, or it is one of a unit,
\* deleted first (a failure of which is passed over).
SiteToAdd(h) ==
    /\ call[h].at = "site"
    /\ IF call[h].unit \in own
       THEN added' \in {added, added \ {call[h].unit}}
       ELSE "_base" \notin added /\ UNCHANGED added
    /\ Goes(h, "add")
    /\ UNCHANGED <<services, fragment, config, raced, own, rules, last, count>>
\* appcmd add site, which fails when there is one of the name.
AddSite(h) ==
    /\ call[h].at = "add" /\ SiteOf(call[h].unit) \notin added
    /\ added' = added \cup {SiteOf(call[h].unit)}
    /\ Returns(h)
    /\ UNCHANGED <<services, fragment, config, raced, own, rules, count>>

\* IISError, or an exception of a file: what was written stays.
IisFails(h) ==
    /\ call[h].at \in {"fragment", "gather", "read", "write", "site", "add"}
    /\ Ends(h)
    /\ UNCHANGED <<services, iis, own, rules, count>>

----------------------------------------------------------------------------
(* WindowsServiceRuntime.stop and IISProxy.remove                          *)

StopSlot(h) ==
    LET u == call[h].unit  s == IF call[h].at = "stopa" THEN "a" ELSE "b" IN
    /\ call[h].at \in {"stopa", "stopb"}
    /\ IF There(u, s) THEN Teardown(u, s) ELSE UNCHANGED svc
    /\ IF call[h].at = "stopa" THEN Goes(h, "stopb") /\ UNCHANGED last
       ELSE IF call[h].op = "stop" THEN Returns(h)
       ELSE Goes(h, "unlink") /\ UNCHANGED last
    /\ UNCHANGED <<upset, iis, own, rules, count>>

\* The fragment, if there is one, goes, and the shared web.config is made again.
Unlink(h) ==
    LET u == call[h].unit IN
    /\ call[h].at = "unlink"
    /\ fragment' = [fragment EXCEPT ![u] = 0]
    /\ call' = [call EXCEPT ![h].at = IF fragment[u] = 0 THEN "drop" ELSE "glob",
                            ![h].unsure = @ \/ fragment[u] = 0]
    /\ UNCHANGED <<services, config, added, raced, own, rules, last, count>>

\* A site of the unit's name is deleted, or not.
Drop(h) ==
    /\ call[h].at = "drop"
    /\ added' \in {added, added \ {call[h].unit}}
    /\ Returns(h)
    /\ UNCHANGED <<services, fragment, config, raced, own, rules, count>>

----------------------------------------------------------------------------

\* The operator adds a rule of his own to a web.config.
OperatorEdits(s) ==
    /\ Counted("events", MaxEvents)
    /\ config' = [config EXCEPT ![s].foreign = @ + 1]
    /\ rules' = [rules EXCEPT ![s] = @ + 1]
    /\ raced' = IF \E h \in Active : call[h].at = "write" /\ Rewrites(h) = s
                THEN raced \cup {s} ELSE raced
    /\ UNCHANGED <<services, fragment, added, own, call, last>>

\* The control plane dies; services, files and sites stay.
Crash ==
    /\ Counted("events", MaxEvents)
    /\ call' = [h \in Callers |-> NoCall]
    /\ UNCHANGED <<services, iis, own, rules, last>>

CallStep(h) ==
    \/ Look(h) \/ Install(h) \/ Set(h) \/ Launch(h) \/ NssmFails(h)
    \/ Healthy(h) \/ Unhealthy(h) \/ GiveUp(h) \/ Retire(h)
    \/ WriteFragment(h) \/ Glob(h) \/ Gather(h) \/ Read(h) \/ Write(h)
    \/ SiteThere(h) \/ SiteToAdd(h) \/ AddSite(h) \/ IisFails(h)
    \/ StopSlot(h) \/ Unlink(h) \/ Drop(h)

Next ==
    \/ \E h \in Callers, u \in Units, op \in {"deploy", "stop", "delete"} : Begin(h, u, op)
    \/ \E h \in Callers : CallStep(h)
    \/ \E u \in Units, s \in Slots : Listens(u, s)
    \/ \E s \in Sites : OperatorEdits(s)
    \/ Crash

Spec == Init /\ [][Next]_vars

----------------------------------------------------------------------------
(* Properties.                                                             *)

Serving(u) == \E s \in Slots : svc[u][s].answers /\ svc[u][s].passed

\* A unit that serves goes on serving while it is deployed, whatever nssm fails
\* at and whatever services earlier failures and a crash left in its two slots,
\* unless two calls work on it at once or its port was given out twice.
SlotsServe ==
    [][\A u \in Units \ upset :
          /\ Serving(u)
          /\ \A h \in Callers : call[h].unit = u => call[h].op = "deploy"
          => Serving(u)']_vars

\* A deployment that nothing overlapped leads the unit's path, or its domain,
\* to a service of the unit that answers, and what is done to other units,
\* overlapping or not, does not take the route away; a deletion that nothing
\* overlapped and that removed the fragment leaves no rule for the unit in the
\* shared web.config.
RoutedAsReported ==
    \A u \in Units \ upset :
        /\ last[u] = "deployed" =>
              /\ SiteOf(u) \in added
              /\ \E s \in Slots : /\ svc[u][s].answers
                                  /\ config[SiteOf(u)].managed[u] = svc[u][s].port
        /\ last[u] = "deleted" => config["_base"].managed[u] = 0

\* What the operator wrote outside the markers stays, however often the
\* managed rules are replaced, unless he writes between the read and the write
\* of a call.
OperatorsRulesKept == \A s \in Sites \ raced : config[s].foreign = rules[s]
=============================================================================

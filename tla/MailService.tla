---------------------------- MODULE MailService ----------------------------
(***************************************************************************)
(* The mail function: requests that send a mail from a template, and       *)
(* requests that write or delete the template, on instances that each keep *)
(* a cache of the template.  The cache holds the promise of the read and   *)
(* the time it was asked for; a write forgets the entry of its own         *)
(* instance only, the others keep theirs for at most CacheTTL.             *)
(***************************************************************************)
EXTENDS Integers, Sequences, FiniteSetsExt

CONSTANTS Instances,   \* running instances of the function
          Dispatches,  \* requests that send a mail
          Writers,     \* requests that write or delete the template
          CacheTTL,    \* CACHE_TTL
          MaxTime,     \* bound of the clock
          None         \* no value

VARIABLES
  commits,   \* when each version of the template was written
  deleted,   \* the versions without a template; version 0 may be one
  cache,     \* per instance: whose promise, asked for when
  promise,   \* of the dispatch that asked for it: None, a version, Failed
  call,      \* the dispatches
  writer,    \* the writers
  answered,  \* history: the latest version whose writer each instance answered
  clock

vars == <<commits, deleted, cache, promise, call, writer, answered, clock>>

Version == Len(commits)
Failed == -1   \* a promise that was rejected
NoCall == [step |-> "idle", at |-> None, awaits |-> None, floor |-> 0, got |-> None]
Ended == [NoCall EXCEPT !.step = "ended"]
NoWrite == [step |-> "idle", at |-> None, deletes |-> FALSE, found |-> FALSE,
            version |-> 0]
Done == [NoWrite EXCEPT !.step = "done"]

(* The versions an answer may still be made of: the present one, and those *)
(* replaced less than CacheTTL ago.                                        *)
Recent == {v \in 0..Version : v = Version \/ clock - commits[v + 1] < CacheTTL}

Init ==
  /\ commits = <<>>
  /\ deleted \in {{}, {0}}
  /\ cache = [i \in Instances |-> None]
  /\ promise = [d \in Dispatches |-> None]
  /\ call = [d \in Dispatches |-> NoCall]
  /\ writer = [w \in Writers |-> NoWrite]
  /\ answered = [i \in Instances |-> 0]
  /\ clock = 0

Tick == /\ clock < MaxTime
        /\ clock' = clock + 1
        /\ UNCHANGED <<commits, deleted, cache, promise, call, writer, answered>>

---------------------------------------------------------------------------
(* getTemplate.                                                            *)

(* A mutant: an entry lives a moment longer.                               *)
ValidTooLong(i) == cache[i] # None /\ clock - cache[i].since <= CacheTTL

Valid(i) == cache[i] # None /\ clock - cache[i].since < CacheTTL

(* dispatch, from POST /mail/send or a resend: an entry that is young      *)
(* enough is awaited, pending or settled; otherwise a read is asked for    *)
(* and its promise cached at once.                                         *)
Dispatch(d, i) ==
  /\ call[d].step = "idle"
  /\ LET own == IF Valid(i) THEN cache[i].by ELSE d IN
     /\ call' = [call EXCEPT ![d] =
          [NoCall EXCEPT !.step = "awaits", !.at = i, !.awaits = own,
                         !.floor = Max({answered[i], Min(Recent)})]]
     /\ cache' = [cache EXCEPT ![i] =
          IF own = d THEN [by |-> d, since |-> clock] ELSE @]
  /\ UNCHANGED <<commits, deleted, promise, writer, answered, clock>>

Pending(d) == call[d].step = "awaits" /\ call[d].awaits = d /\ promise[d] = None

ReadTemplate(d) ==
  /\ Pending(d)
  /\ promise' = [promise EXCEPT ![d] = Version]
  /\ UNCHANGED <<commits, deleted, cache, call, writer, answered, clock>>

(* A failed read leaves the cache, unless another took its place there.    *)
ReadFails(d) ==
  LET i == call[d].at IN
  /\ Pending(d)
  /\ promise' = [promise EXCEPT ![d] = Failed]
  /\ cache' = [cache EXCEPT ![i] =
       IF @ # None /\ @.by = d THEN None ELSE @]
  /\ UNCHANGED <<commits, deleted, call, writer, answered, clock>>

(* What the promise held.  A failed one rejects the request.  Otherwise    *)
(* the mail is sent and logged, or a failure is logged: no such template,  *)
(* a relay that refuses, or a log that could not be written after the mail *)
(* was sent.                                                               *)
Answer(d) ==
  LET p == promise[call[d].awaits] IN
  /\ call[d].step = "awaits"
  /\ p # None
  /\ call' = [call EXCEPT ![d] =
       IF p = Failed THEN Ended ELSE [Ended EXCEPT !.floor = call[d].floor,
                                                   !.got = p]]
  /\ UNCHANGED <<commits, deleted, cache, promise, writer, answered, clock>>

---------------------------------------------------------------------------
(* POST /mail/templates and DELETE /mail/templates/:key.                   *)

Look(w, i, deletes) ==
  LET found == Version \notin deleted IN
  /\ writer[w].step = "idle"
  /\ writer' = [writer EXCEPT ![w] =
       IF deletes /\ ~found THEN Done
       ELSE [NoWrite EXCEPT !.step = "looked", !.at = i,
                            !.deletes = deletes, !.found = found]]
  /\ UNCHANGED <<commits, deleted, cache, promise, call, answered, clock>>

(* set and delete take a document that is not there, update does not.      *)
Written(w) ==
  LET w0 == writer[w] IN
  /\ w0.step = "looked"
  /\ IF ~w0.deletes /\ w0.found /\ Version \in deleted
       THEN /\ writer' = [writer EXCEPT ![w] = Done]
            /\ UNCHANGED <<commits, deleted>>
       ELSE /\ commits' = Append(commits, clock)
            /\ deleted' = IF w0.deletes THEN deleted \cup {Version + 1} ELSE deleted
            /\ writer' = [writer EXCEPT ![w].step = "written",
                                        ![w].version = Version + 1]
  /\ UNCHANGED <<cache, promise, call, answered, clock>>

(* invalidateTemplateCache, and the answer.                                *)
Invalidate(w) ==
  LET i == writer[w].at IN
  /\ writer[w].step = "written"
  /\ cache' = [cache EXCEPT ![i] = None]
  /\ answered' = [answered EXCEPT ![i] = Max({@, writer[w].version})]
  /\ writer' = [writer EXCEPT ![w] = Done]
  /\ UNCHANGED <<commits, deleted, promise, call, clock>>

(* An instance is replaced: its requests end unanswered.                   *)
Replaced(i) ==
  /\ cache' = [cache EXCEPT ![i] = None]
  /\ call' = [d \in Dispatches |->
       IF call[d].at = i THEN Ended ELSE call[d]]
  /\ writer' = [w \in Writers |->
       IF writer[w].at = i THEN Done ELSE writer[w]]
  /\ UNCHANGED <<commits, deleted, promise, answered, clock>>

Next ==
  \/ Tick
  \/ \E d \in Dispatches, i \in Instances : Dispatch(d, i)
  \/ \E d \in Dispatches : ReadTemplate(d) \/ ReadFails(d) \/ Answer(d)
  \/ \E w \in Writers, i \in Instances, del \in BOOLEAN : Look(w, i, del)
  \/ \E w \in Writers : Written(w) \/ Invalidate(w)
  \/ \E i \in Instances : Replaced(i)

Spec == Init /\ [][Next]_vars

---------------------------------------------------------------------------
(* Every mail is made of a template that was in force when its request     *)
(* came or, at most CacheTTL earlier; on the instance that answered a      *)
(* write, of that write or a later one, whatever reads were under way when *)
(* it was written (mailService.js getTemplate, mail.js).                   *)
TemplateFresh ==
  \A d \in Dispatches : call[d].got # None => call[d].got >= call[d].floor
=============================================================================

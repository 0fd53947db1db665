------------------------------ MODULE Keyring ------------------------------
(***************************************************************************)
(* The secrets of the platform: values of project variables, API keys of   *)
(* LLM providers and sensitive fields of modules, stored encrypted, and    *)
(* the rotation of the key they are encrypted with.  The operator follows  *)
(* config.py and README.md: a new key takes the place of the present one,  *)
(* which moves to the list of old keys; restart; POST                      *)
(* /admin/rotate-secrets; remove the old key.  The process reads its       *)
(* settings when it starts and builds its key list at the first use (with  *)
(* OpenBao the first key is fetched then).  It may die at any time.        *)
(***************************************************************************)
EXTENDS Naturals

CONSTANTS Keys,      \* Fernet keys
          Texts,     \* the values the users set
          NoKey,     \* a row without a value
          Rows,      \* rows (or fields of a row) that hold a secret
          TableOf    \* the table of a row: 1 variables, 2 providers, 3 modules

ASSUME KeyringAssumption == NoKey \notin Keys /\ TableOf \in [Rows -> 1..3]

VARIABLES
  settings,   \* the key, whether OpenBao keeps it, and the old keys
  progress,   \* how far the operator is: "settled", "changed", "rotated"
  env,        \* the settings the running process was started with
  ring,       \* _fernet of the running process
  store,      \* the rows: the key a value is encrypted with, and the value
  rotation,   \* the request rotate_secrets: tables read so far, rows read
  last,       \* history: what the users set last
  overtaken   \* history: rows set while a rotation had already read them

vars == <<settings, progress, env, ring, store, rotation, last, overtaken>>

Settings == [key: Keys, old: SUBSET Keys, bao: BOOLEAN]
Known(s) == {s.key} \cup s.old
NoRing == [key |-> NoKey, known |-> {}]
Blank == [key |-> NoKey, text |-> NoKey]
Idle == [read |-> 0, rows |-> [r \in Rows |-> Blank], gone |-> FALSE]

Stored(r) == store[r].key # NoKey
Copied(r) == rotation.rows[r].key # NoKey
Loaded == ring # NoRing

Init ==
  /\ settings \in [key: Keys, old: {{}}, bao: BOOLEAN]
  /\ progress = "settled"
  /\ env = settings
  /\ ring = NoRing
  /\ store = [r \in Rows |-> Blank]
  /\ rotation = Idle
  /\ last = [r \in Rows |-> NoKey]
  /\ overtaken = {}

---------------------------------------------------------------------------
(* The operator.                                                           *)

ChangeKey(k) ==
  /\ progress = "settled"
  /\ k # settings.key
  /\ settings' = [settings EXCEPT !.key = k, !.old = {settings.key}]
  /\ progress' = "changed"
  /\ UNCHANGED <<env, ring, store, rotation, last, overtaken>>

DropOld ==
  /\ progress = "rotated"
  /\ settings' = [settings EXCEPT !.old = {}]
  /\ progress' = "settled"
  /\ UNCHANGED <<env, ring, store, rotation, last, overtaken>>

(* A restart, or a crash: an uncommitted rotation is lost.                 *)
Restart ==
  /\ env' = settings
  /\ ring' = NoRing
  /\ rotation' = Idle
  /\ UNCHANGED <<settings, progress, store, last, overtaken>>

---------------------------------------------------------------------------
(* get_fernet, at the first use.                                           *)
Load ==
  /\ ~Loaded
  /\ LET k == IF env.bao THEN settings.key ELSE env.key IN
       ring' = [key |-> k, known |-> {k} \cup env.old]
  /\ UNCHANGED <<settings, progress, env, store, rotation, last, overtaken>>

(* encrypt_value under the first key, and the commit of the request.       *)
Save(r, t) ==
  /\ Loaded
  /\ store' = [store EXCEPT ![r] = [key |-> ring.key, text |-> t]]
  /\ last' = [last EXCEPT ![r] = t]
  /\ overtaken' = overtaken \ {r}
  /\ UNCHANGED <<settings, progress, env, ring, rotation>>

(* set_env_var: a variable is created or overwritten.                      *)
SetEnvVar(r, t) == TableOf[r] = 1 /\ Save(r, t)

(* create_provider, create_module: a name is taken once.                   *)
Create(r, t) == TableOf[r] # 1 /\ ~Stored(r) /\ Save(r, t)

(* A synchronisation deletes a project and its variables.  A request that  *)
(* has read one of them finds no row to update at its commit.              *)
DeleteEnvVar(r) ==
  /\ TableOf[r] = 1
  /\ Stored(r)
  /\ store' = [store EXCEPT ![r] = Blank]
  /\ rotation' = [rotation EXCEPT !.gone = @ \/ Copied(r)]
  /\ UNCHANGED <<settings, progress, env, ring, last, overtaken>>

---------------------------------------------------------------------------
(* rotate_secrets: one table after the other is read and its tokens are    *)
(* re-encrypted in memory; nothing is written before the commit.           *)

Table(t) == {r \in Rows : TableOf[r] = t}

ReadTable ==
  LET t == rotation.read + 1 IN
  /\ Loaded
  /\ t \in 1..3
  /\ \A r \in Table(t) : Stored(r) => store[r].key \in ring.known
  /\ rotation' = [rotation EXCEPT
       !.read = t,
       !.rows = [r \in Rows |-> IF r \in Table(t) THEN store[r] ELSE @[r]]]
  /\ UNCHANGED <<settings, progress, env, ring, store, last, overtaken>>

(* A mutant: the configurations of the modules are forgotten.              *)
CommitNoModules ==
  /\ rotation.read = 3
  /\ ~rotation.gone
  /\ store' = [r \in Rows |->
       IF Copied(r) /\ TableOf[r] # 3
         THEN [rotation.rows[r] EXCEPT !.key = ring.key]
         ELSE store[r]]
  /\ overtaken' = overtaken \cup {r \in Rows :
                                    Copied(r) /\ store[r] # rotation.rows[r]}
  /\ rotation' = Idle
  /\ progress' = IF progress = "changed" /\ env = settings THEN "rotated"
                                                           ELSE progress
  /\ UNCHANGED <<settings, env, ring, last>>

(* The rotation that ends well lets the operator remove the old key, if he *)
(* had restarted the process before.                                       *)
Commit ==
  /\ rotation.read = 3
  /\ ~rotation.gone
  /\ store' = [r \in Rows |->
       IF Copied(r) THEN [rotation.rows[r] EXCEPT !.key = ring.key]
                    ELSE store[r]]
  /\ overtaken' = overtaken \cup {r \in Rows :
                                    Copied(r) /\ store[r] # rotation.rows[r]}
  /\ rotation' = Idle
  /\ progress' = IF progress = "changed" /\ env = settings THEN "rotated"
                                                           ELSE progress
  /\ UNCHANGED <<settings, env, ring, last>>

(* A token no key of the list opens, a row deleted meanwhile, a database   *)
(* that refuses: the request fails and nothing is written.                 *)
RotationFails ==
  /\ rotation.read \in 1..3
  /\ rotation' = Idle
  /\ UNCHANGED <<settings, progress, env, ring, store, last, overtaken>>

Next ==
  \/ \E k \in Keys : ChangeKey(k)
  \/ DropOld
  \/ Restart
  \/ Load
  \/ \E r \in Rows, t \in Texts : SetEnvVar(r, t) \/ Create(r, t)
  \/ \E r \in Rows : DeleteEnvVar(r)
  \/ ReadTable
  \/ Commit
  \/ RotationFails

Spec == Init /\ [][Next]_vars

---------------------------------------------------------------------------
(* The types of the variables.                                             *)
RowType == [key: Keys \cup {NoKey}, text: Texts \cup {NoKey}]
TypeOK ==
  /\ settings \in Settings
  /\ progress \in {"settled", "changed", "rotated"}
  /\ env \in Settings
  /\ ring \in [key: Keys, known: SUBSET Keys] \cup {NoRing}
  /\ store \in [Rows -> RowType]
  /\ rotation \in [read: 0..3, rows: [Rows -> RowType], gone: BOOLEAN]
  /\ last \in [Rows -> Texts \cup {NoKey}]
  /\ overtaken \subseteq Rows

(* With OpenBao a process that started before the change may fetch the new *)
(* key and not know the old one: it needs the restart the procedure asks   *)
(* for.                                                                    *)
Hurried == env.bao /\ env.key # settings.key

(* No rotation, restart, crash or failure, in any order with the users'    *)
(* requests, makes a secret unreadable: every stored value is under a key  *)
(* of the settings and, but in the window above, under a key the running   *)
(* process has, and decrypts to what was set last (security.py get_fernet, *)
(* system.py rotate_secrets).  Left out: a value that was set while a      *)
(* rotation had already read its row, which the rotation takes back.       *)
SecretsSurvive ==
  \A r \in Rows : Stored(r) =>
    /\ store[r].key \in Known(settings)
    /\ Loaded /\ ~Hurried => store[r].key \in ring.known
    /\ r \notin overtaken => store[r].text = last[r]
=============================================================================

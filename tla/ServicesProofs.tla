--------------------------- MODULE ServicesProofs ---------------------------
(***************************************************************************)
(* Whatever the keys, rows and values: the rotation of the key loses no    *)
(* secret (Keyring.tla).  Whatever the instances and requests: no mail is  *)
(* made of a template older than its cache allows (MailService.tla).       *)
(***************************************************************************)
EXTENDS MCServices, Integers, Sequences, TLAPS

(* The running process knows the key it was started with and the old ones; *)
(* the key it writes with is one of the present settings.                  *)
RingInv ==
  /\ env.bao = settings.bao
  /\ rotation.read > 0 => Loaded
  /\ Loaded => /\ ring.key \in Keys
               /\ ring.known = {ring.key} \cup env.old
               /\ ring.key \in Known(settings)
               /\ env.bao \/ ring.key = env.key

(* Before a change and after a rotation there is one key only, ...         *)
OneKey ==
  progress # "changed" =>
    /\ env.key = settings.key
    /\ Loaded => ring.key = settings.key
    /\ \A r \in Rows : Stored(r) => store[r].key = settings.key

(* ... in between two, and the process knows the first one only until its  *)
(* restart.                                                                *)
TwoKeys ==
  /\ progress = "settled" => settings.old = {}
  /\ progress = "rotated" => env = settings
  /\ progress = "changed" =>
       /\ settings.key \notin settings.old
       /\ env # settings =>
            /\ env.key \in settings.old
            /\ ~env.bao => \A r \in Rows : Stored(r) => store[r].key = env.key
       /\ env = settings /\ Loaded => ring.key = settings.key

(* A rotation has not missed a row of the tables behind it, but rows       *)
(* written since, under the key it rotates to.                             *)
NoneMissed ==
  rotation.read > 0 => \A r \in Rows :
    Stored(r) /\ TableOf[r] <= rotation.read
      => Copied(r) \/ store[r].key = ring.key

(* A stored value is under a key of the settings and is what was set last. *)
Kept ==
  \A r \in Rows : Stored(r) =>
    /\ store[r].key \in Known(settings)
    /\ r \notin overtaken => store[r].text = last[r]

IInv == TypeOK /\ RingInv /\ OneKey /\ TwoKeys /\ NoneMissed /\ Kept

LEMMA InitIInv == Init => IInv
  BY KeyringAssumption DEF Init, IInv, TypeOK, RingInv, OneKey, TwoKeys, NoneMissed, Kept,
     Settings, Known, NoRing, Blank, Idle, Stored, Loaded, RowType

(* The invariant contains what is promised.                                *)
LEMMA IInvSurvive == IInv => SecretsSurvive
<1> SUFFICES ASSUME IInv, NEW r \in Rows, Stored(r), Loaded, ~Hurried
             PROVE  store[r].key \in ring.known
  BY DEF IInv, Kept, SecretsSurvive
<1>1. CASE progress # "changed"
  BY <1>1 DEF IInv, RingInv, OneKey
<1>2. CASE progress = "changed" /\ env = settings
  BY <1>2 DEF IInv, RingInv, TwoKeys, Kept, Known
<1>3. CASE progress = "changed" /\ env # settings
  BY <1>3 DEF IInv, RingInv, TwoKeys, Hurried
<1> QED BY <1>1, <1>2, <1>3

LEMMA TypeStep == IInv /\ [Next]_vars => TypeOK'
<1> SUFFICES ASSUME IInv, [Next]_vars PROVE TypeOK'
  OBVIOUS
<1> USE KeyringAssumption DEF IInv, TypeOK, Settings, RowType, Blank, NoRing
<1>1. ASSUME NEW k \in Keys, ChangeKey(k) PROVE TypeOK'
  BY <1>1 DEF ChangeKey
<1>2. CASE DropOld
  BY <1>2 DEF DropOld
<1>3. CASE Restart
  BY <1>3 DEF Restart, Idle
<1>4. CASE Load
  BY <1>4 DEF Load
<1>5. ASSUME NEW r \in Rows, NEW t \in Texts, Save(r, t) PROVE TypeOK'
  <2>1. ring \in [key: Keys, known: SUBSET Keys]
    BY <1>5 DEF Save, Loaded
  <2> QED BY <1>5, <2>1 DEF Save
<1>6. ASSUME NEW r \in Rows, DeleteEnvVar(r) PROVE TypeOK'
  BY <1>6 DEF DeleteEnvVar, Copied
<1>7. CASE ReadTable
  <2> DEFINE t == rotation.read + 1
             rows == [r \in Rows |-> IF r \in Table(t) THEN store[r]
                                                      ELSE rotation.rows[r]]
  <2>1. t \in 0..3 /\ rows \in [Rows -> RowType]
    BY <1>7 DEF ReadTable
  <2>2. rotation' = [rotation EXCEPT !.read = t, !.rows = rows]
    BY <1>7 DEF ReadTable
  <2>3. rotation' \in [read: 0..3, rows: [Rows -> RowType], gone: BOOLEAN]
    BY <2>1, <2>2
  <2> QED BY <1>7, <2>3 DEF ReadTable
<1>8. CASE Commit
  <2>1. ring \in [key: Keys, known: SUBSET Keys]
    BY <1>8 DEF Commit, RingInv, Loaded
  <2> QED BY <1>8, <2>1 DEF Commit, Idle
<1>9. CASE RotationFails
  BY <1>9 DEF RotationFails, Idle
<1>10. CASE UNCHANGED vars
  BY <1>10 DEF vars
<1> QED BY <1>1, <1>2, <1>3, <1>4, <1>5, <1>6, <1>7, <1>8, <1>9, <1>10
        DEF Next, SetEnvVar, Create

LEMMA Inductive == IInv /\ [Next]_vars => IInv'
<1> SUFFICES ASSUME IInv, [Next]_vars PROVE IInv'
  OBVIOUS
<1>0. TypeOK'
  BY TypeStep
<1>t. TypeOK
  BY DEF IInv
<1> DEFINE Parts == RingInv /\ OneKey /\ TwoKeys /\ NoneMissed /\ Kept
<1> SUFFICES Parts'
  BY <1>0 DEF IInv
<1>1. ASSUME NEW k \in Keys, ChangeKey(k) PROVE Parts'
  BY <1>1, <1>t DEF ChangeKey, IInv, RingInv, OneKey, TwoKeys, NoneMissed, Kept,
     TypeOK, Settings, Known, Loaded, Stored, Copied
<1>2. CASE DropOld
  BY <1>2, <1>t DEF DropOld, IInv, RingInv, OneKey, TwoKeys, NoneMissed, Kept,
     TypeOK, Settings, Known, Loaded, Stored, Copied
<1>3. CASE Restart
  BY <1>3, <1>t DEF Restart, IInv, RingInv, OneKey, TwoKeys, NoneMissed, Kept,
     TypeOK, Settings, Known, Loaded, Stored, Copied, Idle
<1>4. CASE Load
  BY <1>4, <1>t DEF Load, IInv, RingInv, OneKey, TwoKeys, NoneMissed, Kept,
     TypeOK, Settings, Known, Loaded, Stored, Copied
<1>5. ASSUME NEW r \in Rows, NEW t \in Texts, Save(r, t) PROVE Parts'
  <2>1. /\ store'[r] = [key |-> ring.key, text |-> t]
        /\ last'[r] = t
        /\ \A q \in Rows \ {r} : store'[q] = store[q] /\ last'[q] = last[q]
    BY <1>5, <1>t DEF Save, TypeOK
  <2>2. Loaded /\ UNCHANGED <<settings, progress, env, ring, rotation>>
        /\ overtaken' = overtaken \ {r}
    BY <1>5 DEF Save
  <2>3. (RingInv /\ OneKey /\ TwoKeys)'
    BY <2>1, <2>2 DEF IInv, RingInv, OneKey, TwoKeys, Known, Loaded, Stored
  <2>4. (NoneMissed /\ Kept)'
    BY <2>1, <2>2 DEF IInv, RingInv, NoneMissed, Kept, Known, Loaded, Stored, Copied
  <2> QED BY <2>3, <2>4
<1>6. ASSUME NEW r \in Rows, DeleteEnvVar(r) PROVE Parts'
  <2>1. /\ store'[r] = Blank
        /\ \A q \in Rows \ {r} : store'[q] = store[q]
        /\ rotation'.read = rotation.read
        /\ rotation'.rows = rotation.rows
    BY <1>6, <1>t DEF DeleteEnvVar, TypeOK
  <2>2. UNCHANGED <<settings, progress, env, ring, last, overtaken>>
    BY <1>6 DEF DeleteEnvVar
  <2> QED BY <2>1, <2>2 DEF IInv, RingInv, OneKey, TwoKeys, NoneMissed, Kept,
          Known, Loaded, Stored, Copied, Blank
<1>7. CASE ReadTable
  <2>1. /\ Loaded
        /\ rotation'.read = rotation.read + 1
        /\ \A r \in Rows : rotation'.rows[r] =
             IF TableOf[r] = rotation.read + 1 THEN store[r] ELSE rotation.rows[r]
        /\ UNCHANGED <<settings, progress, env, ring, store, last, overtaken>>
    BY <1>7, <1>t DEF ReadTable, TypeOK, Table
  <2>2. (RingInv /\ OneKey /\ TwoKeys /\ Kept)'
    BY <2>1 DEF IInv, RingInv, OneKey, TwoKeys, Kept, Known, Loaded, Stored
  <2>3. ASSUME NEW r \in Rows, Stored(r), TableOf[r] <= rotation.read + 1
        PROVE  Copied(r)' \/ store[r].key = ring.key
    <3>1. CASE TableOf[r] = rotation.read + 1
      BY <3>1, <2>1, <2>3 DEF Copied, Stored
    <3>2. CASE TableOf[r] # rotation.read + 1
      <4>1. TableOf[r] \in 1..3 /\ rotation.read \in 0..3
        BY <1>t, KeyringAssumption DEF TypeOK
      <4>2. TableOf[r] <= rotation.read /\ rotation.read > 0
        BY <4>1, <3>2, <2>3
      <4>3. Copied(r) \/ store[r].key = ring.key
        BY <4>2, <2>3 DEF IInv, NoneMissed
      <4> QED BY <4>3, <3>2, <2>1 DEF Copied
    <3> QED BY <3>1, <3>2
  <2>4. NoneMissed'
    BY <2>1, <2>3 DEF NoneMissed, Stored
  <2> QED BY <2>2, <2>4
<1>8. CASE Commit
  <2>1. /\ rotation.read = 3
        /\ \A r \in Rows : store'[r] =
             IF Copied(r) THEN [rotation.rows[r] EXCEPT !.key = ring.key] ELSE store[r]
        /\ \A r \in Rows : r \notin overtaken' =>
             r \notin overtaken /\ (Copied(r) => store[r] = rotation.rows[r])
        /\ rotation'.read = 0
        /\ UNCHANGED <<settings, env, ring, last>>
    BY <1>8 DEF Commit, Idle
  <2>2. progress' = IF progress = "changed" /\ env = settings THEN "rotated" ELSE progress
    BY <1>8 DEF Commit
  <2>3. Loaded /\ ring.key \in Keys /\ ring.key \in Known(settings)
    BY <2>1 DEF IInv, RingInv
  <2>4. ASSUME NEW r \in Rows, Stored(r)'
        PROVE  /\ store'[r].key = ring.key
               /\ r \notin overtaken' => store'[r].text = last[r]
    <3>1. CASE Copied(r)
      <4>1. store'[r].key = ring.key /\ store'[r].text = rotation.rows[r].text
        BY <3>1, <2>1, <1>t DEF TypeOK, RowType
      <4>2. ASSUME r \notin overtaken' PROVE store'[r].text = last[r]
        <5>1. store[r] = rotation.rows[r] /\ r \notin overtaken
          BY <4>2, <3>1, <2>1
        <5>2. Stored(r)
          BY <5>1, <3>1 DEF Stored, Copied
        <5> QED BY <4>1, <5>1, <5>2 DEF IInv, Kept
      <4> QED BY <4>1, <4>2
    <3>2. CASE ~Copied(r)
      <4>1. store'[r] = store[r] /\ Stored(r)
        BY <3>2, <2>1, <2>4 DEF Stored
      <4>2. TableOf[r] <= rotation.read
        BY <2>1, KeyringAssumption
      <4>3. store[r].key = ring.key
        BY <4>1, <4>2, <3>2, <2>1 DEF IInv, NoneMissed
      <4> QED BY <4>1, <4>3, <2>1 DEF IInv, Kept
    <3> QED BY <3>1, <3>2
  <2>5. RingInv' /\ NoneMissed' /\ Kept'
    BY <2>1, <2>3, <2>4 DEF IInv, RingInv, NoneMissed, Kept, Known, Loaded
  <2>6. OneKey'
    BY <2>1, <2>2, <2>3, <2>4 DEF IInv, OneKey, TwoKeys, Loaded
  <2>7. TwoKeys'
    BY <2>1, <2>2, <2>3, <2>4 DEF IInv, TwoKeys, RingInv, Loaded
  <2> QED BY <2>5, <2>6, <2>7
<1>9. CASE RotationFails
  BY <1>9, <1>t DEF RotationFails, IInv, RingInv, OneKey, TwoKeys, NoneMissed, Kept,
     Known, Loaded, Stored, Copied, Idle
<1>10. CASE UNCHANGED vars
  BY <1>10 DEF vars, IInv, RingInv, OneKey, TwoKeys, NoneMissed, Kept,
     Known, Loaded, Stored, Copied
<1> QED
  BY <1>1, <1>2, <1>3, <1>4, <1>5, <1>6, <1>7, <1>8, <1>9, <1>10
     DEF Next, SetEnvVar, Create

(* The variables keep their types.                                         *)
THEOREM KeyringTypes == Spec => []TypeOK
<1>1. IInv => TypeOK
  BY DEF IInv
<1> QED BY <1>1, InitIInv, Inductive, PTL DEF Spec

(* No rotation, crash or failure makes a stored secret unreadable, for any *)
(* set of keys, rows and values (system.py rotate_secrets, security.py     *)
(* get_fernet).                                                            *)
THEOREM SecretsAlwaysSurvive == Spec => []SecretsSurvive
  BY IInvSurvive, InitIInv, Inductive, PTL DEF Spec
---------------------------------------------------------------------------
(* The mail function (MailService).                                        *)

Calls == [step : {"idle", "awaits", "ended"}, at : Instances \cup {None},
          awaits : Dispatches \cup {None}, floor : Int, got : Int \cup {None}]
Writes == [step : {"idle", "looked", "written", "done"}, at : Instances \cup {None},
           deletes : BOOLEAN, found : BOOLEAN, version : Nat]

MailTypes ==
  /\ clock \in Nat /\ commits \in Seq(Nat)
  /\ cache \in [Instances -> [by : Dispatches, since : Nat] \cup {None}]
  /\ promise \in [Dispatches -> Int \cup {None}]
  /\ call \in [Dispatches -> Calls]
  /\ writer \in [Writers -> Writes]
  /\ answered \in [Instances -> Nat]

(* Nothing is of the future.                                               *)
Past ==
  /\ \A v \in 1..Len(commits) : commits[v] <= clock
  /\ \A i \in Instances : /\ answered[i] <= Len(commits)
                          /\ cache[i] # None => cache[i].since <= clock
  /\ \A w \in Writers : writer[w].version <= Len(commits)

(* At any moment there is an oldest version that was replaced less than    *)
(* CacheTTL before.                                                        *)
Ordered ==
  \A t \in Int : \E m \in 0..Len(commits) :
    \A v \in 0..(Len(commits) - 1) : (t - commits[v + 1] < CacheTTL) <=> m <= v

(* A promise that was kept.                                                *)
Fulfilled(p) == p \notin {None, Mail!Failed}

(* What is in a cache was read after the last write its instance answered, *)
(* and was in force at the time of the entry or later.                     *)
EntryFresh(i, v) == /\ v \in 0..Len(commits)
                    /\ answered[i] <= v
                    /\ v = Len(commits) \/ cache[i].since <= commits[v + 1]
CachesFresh ==
  \A i \in Instances :
    cache[i] # None /\ Fulfilled(promise[cache[i].by]) => EntryFresh(i, promise[cache[i].by])

(* What a dispatch waits for is not too old, or not read yet.              *)
AwaitsFresh ==
  \A d \in Dispatches :
    /\ call[d].step = "idle" => promise[d] = None
    /\ call[d].step = "awaits" =>
         /\ call[d].awaits \in Dispatches
         /\ call[d].floor <= Len(commits)
         /\ Fulfilled(promise[call[d].awaits]) => promise[call[d].awaits] >= call[d].floor

MailInv == MailTypes /\ Past /\ Ordered /\ CachesFresh /\ AwaitsFresh /\ TemplateFresh

LEMMA MailInit == Mail!Init => MailInv
<1> SUFFICES ASSUME Mail!Init PROVE MailInv
  OBVIOUS
<1>1. MailTypes
  BY DEF Mail!Init, MailTypes, Calls, Writes, Mail!NoCall, Mail!NoWrite
<1>2. Past /\ Ordered /\ CachesFresh
  BY DEF Mail!Init, Past, Ordered, CachesFresh, Mail!NoWrite
<1>3. AwaitsFresh /\ TemplateFresh
  BY DEF Mail!Init, AwaitsFresh, TemplateFresh, Mail!TemplateFresh, Mail!NoCall
<1> QED BY <1>1, <1>2, <1>3 DEF MailInv

LEMMA Greater ==
  ASSUME NEW a \in Int, NEW b \in Int
  PROVE  Mail!Max({a, b}) \in {a, b} /\ Mail!Max({a, b}) >= a /\ Mail!Max({a, b}) >= b
<1>1. \E x \in {a, b} : \A y \in {a, b} : x >= y
  OBVIOUS
<1> QED BY <1>1 DEF Mail!Max

(* The oldest version an answer may be made of.                            *)
LEMMA Oldest ==
  ASSUME MailTypes, Ordered
  PROVE  /\ Mail!Min(Mail!Recent) \in 0..Len(commits)
         /\ \A v \in 0..(Len(commits) - 1) :
               clock - commits[v + 1] < CacheTTL => Mail!Min(Mail!Recent) <= v
<1>0. Len(commits) \in Nat
  BY DEF MailTypes
<1>1. PICK m \in 0..Len(commits) :
         \A v \in 0..(Len(commits) - 1) : (clock - commits[v + 1] < CacheTTL) <=> m <= v
  <2>1. clock \in Int
    BY DEF MailTypes
  <2> QED BY <2>1, Zenon DEF Ordered
<1>2. m \in Mail!Recent
  BY <1>0, <1>1 DEF Mail!Recent, Mail!Version
<1>3. \A y \in Mail!Recent : m <= y
  BY <1>0, <1>1 DEF Mail!Recent, Mail!Version
<1>4. Mail!Min(Mail!Recent) \in Mail!Recent /\ \A y \in Mail!Recent : Mail!Min(Mail!Recent) <= y
  BY <1>2, <1>3 DEF Mail!Min
<1> QED BY <1>0, <1>4 DEF Mail!Recent, Mail!Version

(* What becomes of the record of a dispatch.                                *)
Awaiting(i, e, f) == [Mail!NoCall EXCEPT !.step = "awaits", !.at = i, !.awaits = e,
                                         !.floor = f]
Replied(f, p) == [Mail!Ended EXCEPT !.floor = f, !.got = p]

LEMMA Asked ==
  ASSUME NEW i \in Instances, NEW e \in Dispatches, NEW f \in Int
  PROVE  LET mine == Awaiting(i, e, f)
         IN  /\ mine \in Calls
             /\ mine.step = "awaits" /\ mine.awaits = e
             /\ mine.floor = f /\ mine.got = None
<1> DEFINE c1 == [Mail!NoCall EXCEPT !.step = "awaits"]
           c2 == [c1 EXCEPT !.at = i]
           c3 == [c2 EXCEPT !.awaits = e]
           c4 == [c3 EXCEPT !.floor = f]
<1>1. c1 \in Calls /\ c1.step = "awaits" /\ c1.got = None
  BY DEF Mail!NoCall, Calls
<1> HIDE DEF c1
<1>2. c2 \in Calls /\ c2.step = "awaits" /\ c2.got = None
  BY <1>1 DEF Calls
<1> HIDE DEF c2
<1>3. c3 \in Calls /\ c3.step = "awaits" /\ c3.got = None /\ c3.awaits = e
  BY <1>2 DEF Calls
<1> HIDE DEF c3
<1>4. /\ c4 \in Calls /\ c4.step = "awaits" /\ c4.got = None
      /\ c4.awaits = e /\ c4.floor = f
  BY <1>3 DEF Calls
<1> QED BY <1>4 DEF c3, c2, c1, Awaiting

(* An answer held back by no write it may be made of: what is read now, or *)
(* an entry that is still young.                                           *)
LEMMA MailDispatch ==
  ASSUME MailInv, NEW d \in Dispatches, NEW i \in Instances, Mail!Dispatch(d, i)
  PROVE  MailInv'
<1> DEFINE own == IF Mail!Valid(i) THEN cache[i].by ELSE d
           floor == Mail!Max({answered[i], Mail!Min(Mail!Recent)})
           mine == Awaiting(i, own, floor)
<1>0. MailTypes /\ Past /\ Ordered /\ CachesFresh /\ AwaitsFresh /\ TemplateFresh
  BY DEF MailInv
<1>1. /\ call[d].step = "idle"
      /\ call' = [call EXCEPT ![d] = mine]
      /\ cache' = [cache EXCEPT ![i] = IF own = d THEN [by |-> d, since |-> clock] ELSE @]
      /\ UNCHANGED <<commits, deleted, promise, writer, answered, clock>>
  BY DEF Mail!Dispatch, Awaiting
<1>2. own \in Dispatches /\ promise[d] = None
  BY <1>0, <1>1 DEF Mail!Valid, MailTypes, AwaitsFresh
<1>3. Len(commits) \in Nat /\ answered[i] \in Nat /\ answered[i] <= Len(commits)
  BY <1>0 DEF MailTypes, Past
<1>4. Mail!Min(Mail!Recent) \in 0..Len(commits)
  BY <1>0, Oldest
<1>5. /\ floor \in {answered[i], Mail!Min(Mail!Recent)}
      /\ floor \in Int /\ floor <= Len(commits)
  <2>1. \A a, b \in Int : /\ Mail!Max({a, b}) \in {a, b}
                           /\ Mail!Max({a, b}) >= a /\ Mail!Max({a, b}) >= b
    BY Greater
  <2>2. answered[i] \in Int /\ Mail!Min(Mail!Recent) \in Int
    BY <1>3, <1>4
  <2>3. /\ floor \in {answered[i], Mail!Min(Mail!Recent)}
        /\ floor >= answered[i] /\ floor >= Mail!Min(Mail!Recent)
    BY <2>1, <2>2, Zenon
  <2> HIDE DEF floor
  <2> QED BY <2>3, <1>3, <1>4
<1> HIDE DEF floor, own
<1>6. /\ mine \in Calls
      /\ mine.step = "awaits" /\ mine.awaits = own
      /\ mine.floor = floor /\ mine.got = None
  <2>1. own \in Dispatches /\ floor \in Int
    BY <1>2, <1>5
  <2> QED BY <2>1, Asked
<1> HIDE DEF mine
<1>7. call'[d] = mine /\ \A e \in Dispatches \ {d} : call'[e] = call[e]
  BY <1>0, <1>1 DEF MailTypes
<1>8. \A j \in Instances : cache'[j] = cache[j]
                             \/ (j = i /\ own = d /\ cache'[j] = [by |-> d, since |-> clock])
  BY <1>0, <1>1 DEF MailTypes
<1>9. MailTypes'
  <2>1. mine \in Calls
    BY <1>6
  <2>2. call' \in [Dispatches -> Calls]
    BY <2>1, <1>0, <1>1 DEF MailTypes
  <2>3. clock \in Nat
    BY <1>0 DEF MailTypes
  <2>4. [by |-> d, since |-> clock] \in [by : Dispatches, since : Nat]
    BY <2>3
  <2>5. cache' \in [Instances -> [by : Dispatches, since : Nat] \cup {None}]
    BY <2>4, <1>0, <1>1 DEF MailTypes
  <2> QED BY <2>2, <2>5, <1>0, <1>1 DEF MailTypes
<1>10. Past'
  <2>1. clock \in Nat
    BY <1>0 DEF MailTypes
  <2> QED BY <2>1, <1>0, <1>1, <1>8 DEF Past
<1>11. Ordered'
  BY <1>0, <1>1 DEF Ordered
<1>12. CachesFresh'
  <2> SUFFICES ASSUME NEW j \in Instances, cache'[j] # None, Fulfilled(promise'[cache'[j].by])
               PROVE  EntryFresh(j, promise[cache[j].by])'
    BY DEF CachesFresh, Fulfilled, Mail!Failed
  <2>1. cache'[j] = cache[j]
    BY <1>1, <1>2, <1>8 DEF Fulfilled
  <2> QED BY <2>1, <1>0, <1>1 DEF CachesFresh, EntryFresh
<1>13. Fulfilled(promise[own]) => promise[own] >= floor
  <2> SUFFICES ASSUME Fulfilled(promise[own]) PROVE promise[own] >= floor
    OBVIOUS
  <2>1. Mail!Valid(i) /\ own = cache[i].by
    BY <1>2 DEF Fulfilled, own
  <2> DEFINE v == promise[own]
  <2>2. EntryFresh(i, v)
    BY <2>1, <1>0 DEF CachesFresh, Mail!Valid
  <2>3. v \in 0..Len(commits) /\ answered[i] <= v
    BY <2>2 DEF EntryFresh
  <2>4. Mail!Min(Mail!Recent) <= v
    <3>1. CASE v = Len(commits)
      BY <3>1, <1>3, <1>4
    <3>2. CASE v # Len(commits)
      <4>1. v \in 0..(Len(commits) - 1) /\ cache[i].since <= commits[v + 1]
        BY <3>2, <2>2, <2>3, <1>3 DEF EntryFresh
      <4>2. clock - cache[i].since < CacheTTL
        BY <2>1 DEF Mail!Valid
      <4>3. clock \in Nat /\ cache[i].since \in Nat /\ commits[v + 1] \in Nat
        BY <4>1, <2>1, <1>0 DEF MailTypes, Mail!Valid
      <4>4. clock - commits[v + 1] < CacheTTL
        BY <4>1, <4>2, <4>3, MailAssumption
      <4> QED BY <4>1, <4>4, <1>0, Oldest
    <3> QED BY <3>1, <3>2
  <2> QED BY <2>3, <2>4, <1>5
<1>14. AwaitsFresh'
  <2>1. ASSUME NEW e \in Dispatches \ {d} PROVE
          /\ call'[e].step = "idle" => promise[e] = None
          /\ call'[e].step = "awaits" =>
               /\ call'[e].awaits \in Dispatches
               /\ call'[e].floor <= Len(commits)
               /\ Fulfilled(promise[call'[e].awaits]) =>
                    promise[call'[e].awaits] >= call'[e].floor
    BY <1>0, <1>7 DEF AwaitsFresh
  <2>2. call'[d].step = "awaits" /\ call'[d].awaits = own /\ call'[d].floor = floor
    BY <1>6, <1>7
  <2> QED BY <2>1, <2>2, <1>1, <1>2, <1>5, <1>13 DEF AwaitsFresh, Fulfilled, Mail!Failed
<1>15. TemplateFresh'
  <2>1. call'[d].got = None
    BY <1>6, <1>7
  <2> QED BY <2>1, <1>0, <1>7 DEF TemplateFresh, Mail!TemplateFresh
<1> QED BY <1>9, <1>10, <1>11, <1>12, <1>14, <1>15 DEF MailInv

LEMMA Answered ==
  ASSUME NEW p \in Int, NEW f \in Int
  PROVE  LET mine == Replied(f, p)
         IN  mine \in Calls /\ mine.step = "ended" /\ mine.floor = f /\ mine.got = p
<1> DEFINE c1 == [Mail!Ended EXCEPT !.floor = f]
           c2 == [c1 EXCEPT !.got = p]
<1>1. Mail!Ended \in Calls /\ Mail!Ended.step = "ended"
  BY DEF Mail!NoCall, Mail!Ended, Calls
<1>2. c1 \in Calls /\ c1.step = "ended" /\ c1.floor = f
  BY <1>1 DEF Calls
<1> HIDE DEF c1
<1>3. c2 \in Calls /\ c2.step = "ended" /\ c2.floor = f /\ c2.got = p
  BY <1>2 DEF Calls
<1> QED BY <1>3 DEF c1, Replied

(* The settling of a promise, and the mail that is made of it.             *)
LEMMA MailAnswers ==
  ASSUME MailInv, NEW d \in Dispatches,
         Mail!ReadTemplate(d) \/ Mail!ReadFails(d) \/ Mail!Answer(d)
  PROVE  MailInv'
<1>0. MailTypes /\ Past /\ Ordered /\ CachesFresh /\ AwaitsFresh /\ TemplateFresh
  BY DEF MailInv
<1>1. CASE Mail!ReadTemplate(d)
  <2>1. /\ call[d].step = "awaits"
        /\ promise' = [promise EXCEPT ![d] = Len(commits)]
        /\ UNCHANGED <<commits, deleted, cache, call, writer, answered, clock>>
    BY <1>1 DEF Mail!ReadTemplate, Mail!Pending, Mail!Version
  <2>2. Len(commits) \in Nat
    BY <1>0 DEF MailTypes
  <2>3. promise'[d] = Len(commits) /\ \A e \in Dispatches \ {d} : promise'[e] = promise[e]
    BY <2>1, <1>0 DEF MailTypes
  <2>4. MailTypes' /\ Past' /\ Ordered' /\ TemplateFresh'
    <3>1. promise' \in [Dispatches -> Int \cup {None}]
      BY <2>1, <2>2, <1>0 DEF MailTypes
    <3>2. MailTypes'
      BY <3>1, <2>1, <1>0 DEF MailTypes
    <3>3. Past' /\ TemplateFresh'
      BY <2>1, <1>0 DEF Past, TemplateFresh, Mail!TemplateFresh
    <3>4. Ordered'
      BY <2>1, <1>0 DEF Ordered
    <3> QED BY <3>2, <3>3, <3>4
  <2>5. CachesFresh'
    <3> SUFFICES ASSUME NEW j \in Instances, cache[j] # None, Fulfilled(promise[cache[j].by])'
                 PROVE  EntryFresh(j, promise[cache[j].by])'
      BY <2>1 DEF CachesFresh
    <3>1. CASE cache[j].by = d
      BY <3>1, <2>1, <2>2, <2>3, <1>0 DEF EntryFresh, Past
    <3>2. CASE cache[j].by # d
      <4>1. promise'[cache[j].by] = promise[cache[j].by]
        BY <3>2, <2>1
      <4> QED BY <4>1, <2>1, <1>0 DEF CachesFresh, EntryFresh, Fulfilled, Mail!Failed
    <3> QED BY <3>1, <3>2
  <2>6. AwaitsFresh'
    <3>1. ASSUME NEW e \in Dispatches, call[e].step = "awaits", call[e].awaits = d
          PROVE  promise'[d] >= call[e].floor
      <4>1. call[e].floor \in Int /\ call[e].floor <= Len(commits)
        BY <3>1, <1>0 DEF AwaitsFresh, MailTypes, Calls
      <4> QED BY <4>1, <2>2, <2>3
    <3> QED BY <3>1, <2>1, <2>3, <1>0 DEF AwaitsFresh, Fulfilled, Mail!Failed
  <2> QED BY <2>4, <2>5, <2>6 DEF MailInv
<1>2. CASE Mail!ReadFails(d)
  <2>1. /\ call[d].step = "awaits"
        /\ promise' = [promise EXCEPT ![d] = Mail!Failed]
        /\ UNCHANGED <<commits, deleted, call, writer, answered, clock>>
    BY <1>2 DEF Mail!ReadFails, Mail!Pending
  <2>2. \A j \in Instances : cache'[j] \in {cache[j], None}
    BY <1>2, <1>0 DEF Mail!ReadFails, MailTypes
  <2>3. promise'[d] = Mail!Failed /\ \A e \in Dispatches \ {d} : promise'[e] = promise[e]
    BY <2>1, <1>0 DEF MailTypes
  <2>4. MailTypes'
    <3>1. cache' \in [Instances -> [by : Dispatches, since : Nat] \cup {None}]
      BY <1>2, <1>0 DEF Mail!ReadFails, MailTypes
    <3>2. promise' \in [Dispatches -> Int \cup {None}]
      BY <2>1, <1>0 DEF MailTypes, Mail!Failed
    <3> QED BY <3>1, <3>2, <2>1, <1>0 DEF MailTypes
  <2>5. Past' /\ Ordered' /\ TemplateFresh'
    BY <2>1, <2>2, <1>0 DEF Past, Ordered, TemplateFresh, Mail!TemplateFresh
  <2>6. CachesFresh'
    <3> SUFFICES ASSUME NEW j \in Instances, cache'[j] # None, Fulfilled(promise[cache[j].by])'
                 PROVE  EntryFresh(j, promise[cache[j].by])'
      BY <2>2 DEF CachesFresh
    <3>1. cache'[j] = cache[j] /\ cache[j].by # d
      BY <2>2, <2>3 DEF Fulfilled
    <3>2. promise'[cache[j].by] = promise[cache[j].by]
      BY <3>1, <2>1
    <3> QED BY <3>1, <3>2, <2>1, <1>0 DEF CachesFresh, EntryFresh, Fulfilled, Mail!Failed
  <2>7. AwaitsFresh'
    BY <2>1, <2>3, <1>0 DEF AwaitsFresh, Fulfilled, Mail!Failed
  <2> QED BY <2>4, <2>5, <2>6, <2>7 DEF MailInv
<1>3. CASE Mail!Answer(d)
  <2> DEFINE p == promise[call[d].awaits]
             mine == IF p = Mail!Failed THEN Mail!Ended
                     ELSE Replied(call[d].floor, p)
  <2>1. /\ call[d].step = "awaits" /\ p # None
        /\ call' = [call EXCEPT ![d] = mine]
        /\ UNCHANGED <<commits, deleted, cache, promise, writer, answered, clock>>
    BY <1>3 DEF Mail!Answer, Replied
  <2>2. /\ call[d].awaits \in Dispatches /\ call[d].floor \in Int
        /\ p \in Int
        /\ p # Mail!Failed => p >= call[d].floor
    BY <2>1, <1>0 DEF MailTypes, Calls, AwaitsFresh, Fulfilled
  <2>3. /\ mine \in Calls /\ mine.step = "ended"
        /\ mine.got # None => mine.got >= mine.floor
    <3>1. CASE p = Mail!Failed
      <4>1. Mail!Ended \in Calls /\ Mail!Ended.step = "ended" /\ Mail!Ended.got = None
        BY DEF Mail!Ended, Mail!NoCall, Calls
      <4> QED BY <3>1, <4>1
    <3>2. CASE p # Mail!Failed
      <4> DEFINE good == Replied(call[d].floor, p)
      <4>1. /\ good \in Calls /\ good.step = "ended"
            /\ good.floor = call[d].floor /\ good.got = p
        BY <2>2, Answered
      <4>2. mine = good
        BY <3>2
      <4> HIDE DEF good, mine
      <4> QED BY <4>1, <4>2, <3>2, <2>2
    <3> QED BY <3>1, <3>2
  <2> HIDE DEF mine
  <2>4. call'[d] = mine /\ \A e \in Dispatches \ {d} : call'[e] = call[e]
    BY <2>1, <1>0 DEF MailTypes
  <2>5. MailTypes' /\ Past' /\ Ordered'
    BY <2>1, <2>3, <1>0 DEF MailTypes, Past, Ordered
  <2>6. CachesFresh'
    BY <2>1, <1>0 DEF CachesFresh, EntryFresh, Fulfilled, Mail!Failed
  <2>7. AwaitsFresh'
    BY <2>1, <2>3, <2>4, <1>0 DEF AwaitsFresh, Fulfilled, Mail!Failed
  <2>8. TemplateFresh'
    BY <2>3, <2>4, <1>0 DEF TemplateFresh, Mail!TemplateFresh
  <2> QED BY <2>5, <2>6, <2>7, <2>8 DEF MailInv
<1> QED BY <1>1, <1>2, <1>3

(* A write makes every entry one that was in force after it was asked for. *)
LEMMA MailWritten ==
  ASSUME MailInv, NEW w \in Writers, Mail!Written(w)
  PROVE  MailInv'
<1>0. MailTypes /\ Past /\ Ordered /\ CachesFresh /\ AwaitsFresh /\ TemplateFresh
  BY DEF MailInv
<1> DEFINE n == Len(commits)
<1>1. n \in Nat /\ clock \in Nat /\ \A v \in 1..n : commits[v] \in Nat /\ commits[v] <= clock
  BY <1>0 DEF MailTypes, Past
<1>2. UNCHANGED <<cache, promise, call, answered, clock>>
  BY DEF Mail!Written
<1>3. CASE commits' = commits /\ writer' = [writer EXCEPT ![w] = Mail!Done]
  <2>1. Mail!Done \in Writes /\ Mail!Done.version = 0
    BY DEF Mail!Done, Mail!NoWrite, Writes
  <2>2. MailTypes' /\ Past'
    BY <2>1, <1>1, <1>2, <1>3, <1>0 DEF MailTypes, Past
  <2>3. Ordered' /\ CachesFresh' /\ AwaitsFresh' /\ TemplateFresh'
    BY <1>2, <1>3, <1>0 DEF Ordered, CachesFresh, AwaitsFresh, TemplateFresh, EntryFresh,
       Fulfilled, Mail!Failed, Mail!TemplateFresh
  <2> QED BY <2>2, <2>3 DEF MailInv
<1>4. CASE /\ commits' = Append(commits, clock)
           /\ writer' = [writer EXCEPT ![w].step = "written", ![w].version = n + 1]
  <2>1. /\ Len(commits') = n + 1 /\ commits'[n + 1] = clock
        /\ \A v \in 1..n : commits'[v] = commits[v]
        /\ commits' \in Seq(Nat)
    BY <1>0, <1>1, <1>4 DEF MailTypes
  <2>2. MailTypes'
    <3>1. writer' \in [Writers -> Writes]
      <4>1. [writer[w] EXCEPT !.step = "written", !.version = n + 1] \in Writes
        <5>1. writer[w] \in Writes /\ n + 1 \in Nat
          BY <1>0, <1>1 DEF MailTypes
        <5> QED BY <5>1 DEF Writes
      <4> QED BY <4>1, <1>0, <1>4 DEF MailTypes
    <3> QED BY <3>1, <2>1, <1>0, <1>2 DEF MailTypes
  <2>3. Past'
    <3>1. \A v \in 1..Len(commits') : commits'[v] <= clock
      BY <2>1, <1>1
    <3>2. \A x \in Writers : writer'[x].version <= n + 1
      <4>1. ASSUME NEW x \in Writers PROVE writer'[x].version <= n + 1
        <5>1. writer[x].version \in Nat /\ writer[x].version <= n
          BY <1>0 DEF MailTypes, Writes, Past
        <5>2. CASE x = w
          BY <5>2, <1>0, <1>1, <1>4 DEF MailTypes, Writes
        <5>3. CASE x # w
          BY <5>1, <5>3, <1>0, <1>1, <1>4 DEF MailTypes
        <5> QED BY <5>2, <5>3
      <4> QED BY <4>1
    <3>3. \A i \in Instances : answered[i] <= n + 1
      BY <1>0, <1>1 DEF MailTypes, Past
    <3> QED BY <3>1, <3>2, <3>3, <2>1, <1>0, <1>2 DEF Past
  <2>4. Ordered'
    <3> SUFFICES ASSUME NEW t \in Int
                 PROVE  \E m \in 0..(n + 1) : \A v \in 0..n :
                          (t - commits'[v + 1] < CacheTTL) <=> m <= v
      <4>1. Len(commits') = n + 1 /\ Len(commits') - 1 = n
        BY <2>1, <1>1
      <4> QED BY <4>1, Zenon DEF Ordered
    <3>1. PICK m \in 0..n : \A v \in 0..(n - 1) : (t - commits[v + 1] < CacheTTL) <=> m <= v
      BY <1>0 DEF Ordered
    <3>2. \A v \in 0..(n - 1) : commits'[v + 1] = commits[v + 1] /\ commits[v + 1] \in Nat
                                /\ commits[v + 1] <= clock
      BY <2>1, <1>1
    <3>3. CASE t - clock < CacheTTL
      <4>1. \A v \in 0..n : (t - commits'[v + 1] < CacheTTL) <=> m <= v
        <5> SUFFICES ASSUME NEW v \in 0..n
                     PROVE  (t - commits'[v + 1] < CacheTTL) <=> m <= v
          OBVIOUS
        <5>1. CASE v = n
          BY <5>1, <3>1, <3>3, <2>1, <1>1
        <5>2. CASE v # n
          <6>1. v \in 0..(n - 1)
            BY <5>2, <1>1
          <6> QED BY <6>1, <3>1, <3>2
        <5> QED BY <5>1, <5>2
      <4>2. m \in 0..(n + 1)
        BY <1>1
      <4> QED BY <4>1, <4>2, Zenon
    <3>4. CASE ~(t - clock < CacheTTL)
      <4>1. \A v \in 0..n : ~(t - commits'[v + 1] < CacheTTL)
        <5> SUFFICES ASSUME NEW v \in 0..n PROVE ~(t - commits'[v + 1] < CacheTTL)
          OBVIOUS
        <5>1. CASE v = n
          BY <5>1, <3>4, <2>1
        <5>2. CASE v # n
          <6>1. v \in 0..(n - 1)
            BY <5>2, <1>1
          <6>2. commits'[v + 1] \in Nat /\ commits'[v + 1] <= clock
            BY <6>1, <3>2
          <6> QED BY <6>2, <3>4, <1>1, MailAssumption
        <5> QED BY <5>1, <5>2
      <4>2. n + 1 \in 0..(n + 1) /\ \A v \in 0..n : ~(n + 1 <= v)
        BY <1>1
      <4> QED BY <4>1, <4>2
    <3> QED BY <3>3, <3>4
  <2>5. CachesFresh'
    <3> SUFFICES ASSUME NEW i \in Instances, cache[i] # None, Fulfilled(promise[cache[i].by])
                 PROVE  EntryFresh(i, promise[cache[i].by])'
      BY <1>2 DEF CachesFresh, Fulfilled, Mail!Failed
    <3> DEFINE v == promise[cache[i].by]
    <3>1. /\ v \in 0..n /\ answered[i] <= v
          /\ v = n \/ cache[i].since <= commits[v + 1]
          /\ cache[i].since <= clock
      BY <1>0 DEF CachesFresh, EntryFresh, Past
    <3>2. v \in 0..(n + 1)
      BY <3>1, <1>1
    <3>3. cache[i].since <= commits'[v + 1]
      <4>1. CASE v = n
        BY <4>1, <3>1, <2>1
      <4>2. CASE v # n
        <5>1. v + 1 \in 1..n
          BY <4>2, <3>1, <1>1
        <5> QED BY <5>1, <4>2, <3>1, <2>1
      <4> QED BY <4>1, <4>2
    <3> QED BY <3>1, <3>2, <3>3, <2>1, <1>2 DEF EntryFresh
  <2>6. AwaitsFresh'
    <3>1. \A e \in Dispatches : call[e].floor \in Int
      BY <1>0 DEF MailTypes, Calls
    <3> QED BY <3>1, <2>1, <1>0, <1>1, <1>2 DEF AwaitsFresh, Fulfilled, Mail!Failed
  <2>7. TemplateFresh'
    BY <1>0, <1>2 DEF TemplateFresh, Mail!TemplateFresh
  <2> QED BY <2>2, <2>3, <2>4, <2>5, <2>6, <2>7 DEF MailInv
<1> QED BY <1>3, <1>4 DEF Mail!Written, Mail!Version

(* The rest: time passes, a writer looks or forgets, an instance goes.     *)
LEMMA MailOthers ==
  ASSUME MailInv,
         \/ Mail!Tick
         \/ \E w \in Writers, i \in Instances, del \in BOOLEAN : Mail!Look(w, i, del)
         \/ \E w \in Writers : Mail!Invalidate(w)
         \/ \E i \in Instances : Mail!Replaced(i)
         \/ UNCHANGED mailVars
  PROVE  MailInv'
<1>0. MailTypes /\ Past /\ Ordered /\ CachesFresh /\ AwaitsFresh /\ TemplateFresh
  BY DEF MailInv
<1> USE DEF Mail!Failed
<1>1. CASE Mail!Tick
  <2>1. clock \in Nat /\ clock' = clock + 1
        /\ UNCHANGED <<commits, deleted, cache, promise, call, writer, answered>>
    BY <1>1, <1>0 DEF Mail!Tick, MailTypes
  <2>2. MailTypes'
    BY <2>1, <1>0 DEF MailTypes
  <2>3. Past'
    <3>1. \A v \in 1..Len(commits) : commits[v] \in Nat
      BY <1>0 DEF MailTypes
    <3>2. \A i \in Instances : cache[i] # None => cache[i].since \in Nat
      BY <1>0 DEF MailTypes
    <3> QED BY <3>1, <3>2, <2>1, <1>0 DEF Past
  <2>4. Ordered' /\ CachesFresh' /\ AwaitsFresh' /\ TemplateFresh'
    BY <2>1, <1>0 DEF Ordered, CachesFresh, AwaitsFresh, TemplateFresh, EntryFresh,
       Fulfilled, Mail!TemplateFresh
  <2> QED BY <2>2, <2>3, <2>4 DEF MailInv
<1>2. ASSUME NEW w \in Writers, NEW i \in Instances, NEW del \in BOOLEAN, Mail!Look(w, i, del)
      PROVE  MailInv'
  <2>1. PICK rec \in Writes : rec.version = 0 /\ writer' = [writer EXCEPT ![w] = rec]
    <3>1. Mail!Done \in Writes /\ Mail!Done.version = 0
      BY DEF Mail!Done, Mail!NoWrite, Writes
    <3>2. ASSUME NEW found \in BOOLEAN
          PROVE  LET new == [Mail!NoWrite EXCEPT !.step = "looked", !.at = i,
                                                 !.deletes = del, !.found = found]
                 IN  new \in Writes /\ new.version = 0
      BY <1>2 DEF Mail!NoWrite, Writes
    <3> QED BY <1>2, <3>1, <3>2 DEF Mail!Look
  <2>2. UNCHANGED <<commits, deleted, cache, promise, call, answered, clock>>
    BY <1>2 DEF Mail!Look
  <2>3. MailTypes'
    BY <2>1, <2>2, <1>0 DEF MailTypes
  <2>4. Past'
    <3>1. 0 <= Len(commits)
      BY <1>0 DEF MailTypes
    <3> QED BY <3>1, <2>1, <2>2, <1>0 DEF Past, MailTypes
  <2>5. Ordered' /\ CachesFresh' /\ AwaitsFresh' /\ TemplateFresh'
    BY <2>2, <1>0 DEF Ordered, CachesFresh, AwaitsFresh, TemplateFresh, EntryFresh,
       Fulfilled, Mail!TemplateFresh
  <2> QED BY <2>3, <2>4, <2>5 DEF MailInv
<1>3. ASSUME NEW w \in Writers, Mail!Invalidate(w) PROVE MailInv'
  <2> DEFINE i == writer[w].at
             latest == Mail!Max({answered[i], writer[w].version})
  <2>1. /\ cache' = [cache EXCEPT ![i] = None]
        /\ answered' = [answered EXCEPT ![i] = latest]
        /\ writer' = [writer EXCEPT ![w] = Mail!Done]
        /\ UNCHANGED <<commits, deleted, promise, call, clock>>
    BY <1>3 DEF Mail!Invalidate
  <2>2. writer[w].version \in Nat /\ writer[w].version <= Len(commits)
    BY <1>0 DEF MailTypes, Writes, Past
  <2>3. Mail!Done \in Writes /\ Mail!Done.version = 0
    BY DEF Mail!Done, Mail!NoWrite, Writes
  <2>4. i \in Instances => latest \in Nat /\ latest <= Len(commits)
    <3> SUFFICES ASSUME i \in Instances PROVE latest \in Nat /\ latest <= Len(commits)
      OBVIOUS
    <3>1. answered[i] \in Nat /\ answered[i] <= Len(commits)
      BY <1>0 DEF MailTypes, Past
    <3>2. latest \in {answered[i], writer[w].version}
      <4>1. \A a, b \in Int : Mail!Max({a, b}) \in {a, b}
        BY Greater
      <4>2. answered[i] \in Int /\ writer[w].version \in Int
        BY <3>1, <2>2
      <4> QED BY <4>1, <4>2, Zenon
    <3> QED BY <3>1, <3>2, <2>2
  <2> HIDE DEF latest
  <2>5. \A j \in Instances : \/ cache'[j] = None
                             \/ cache'[j] = cache[j] /\ answered'[j] = answered[j]
    BY <2>1, <1>0 DEF MailTypes
  <2>6. MailTypes'
    <3>1. cache' \in [Instances -> [by : Dispatches, since : Nat] \cup {None}]
      BY <2>1, <1>0 DEF MailTypes
    <3>2. answered' \in [Instances -> Nat]
      BY <2>1, <2>4, <1>0 DEF MailTypes
    <3>3. writer' \in [Writers -> Writes]
      BY <2>1, <2>3, <1>0 DEF MailTypes
    <3> QED BY <3>1, <3>2, <3>3, <2>1, <1>0 DEF MailTypes
  <2>7. Past'
    <3>1. \A j \in Instances : answered'[j] <= Len(commits)
      BY <2>1, <2>4, <1>0 DEF MailTypes, Past
    <3>2. \A x \in Writers : writer'[x].version <= Len(commits)
      BY <2>1, <2>3, <1>0 DEF MailTypes, Past
    <3> QED BY <3>1, <3>2, <2>1, <2>5, <1>0 DEF Past
  <2>8. CachesFresh'
    BY <2>1, <2>5, <1>0 DEF CachesFresh, EntryFresh, Fulfilled
  <2>9. Ordered' /\ AwaitsFresh' /\ TemplateFresh'
    BY <2>1, <1>0 DEF Ordered, AwaitsFresh, TemplateFresh, Fulfilled, Mail!TemplateFresh
  <2> QED BY <2>6, <2>7, <2>8, <2>9 DEF MailInv
<1>4. ASSUME NEW i \in Instances, Mail!Replaced(i) PROVE MailInv'
  <2>1. /\ cache' = [cache EXCEPT ![i] = None]
        /\ call' = [d \in Dispatches |-> IF call[d].at = i THEN Mail!Ended ELSE call[d]]
        /\ writer' = [w \in Writers |-> IF writer[w].at = i THEN Mail!Done ELSE writer[w]]
        /\ UNCHANGED <<commits, deleted, promise, answered, clock>>
    BY <1>4 DEF Mail!Replaced
  <2>2. Mail!Done \in Writes /\ Mail!Done.version = 0
    BY DEF Mail!Done, Mail!NoWrite, Writes
  <2>3. Mail!Ended \in Calls /\ Mail!Ended.step = "ended" /\ Mail!Ended.got = None
    BY DEF Mail!Ended, Mail!NoCall, Calls
  <2>4. \A d \in Dispatches : call'[d] \in {call[d], Mail!Ended}
    BY <2>1
  <2>5. \A j \in Instances : cache'[j] \in {None, cache[j]}
    BY <2>1, <1>0 DEF MailTypes
  <2>6. MailTypes'
    <3>1. call' \in [Dispatches -> Calls] /\ writer' \in [Writers -> Writes]
      BY <2>1, <2>2, <2>3, <1>0 DEF MailTypes
    <3> QED BY <3>1, <2>1, <1>0 DEF MailTypes
  <2>7. Past'
    <3>1. \A x \in Writers : writer'[x].version <= Len(commits)
      <4>1. 0 <= Len(commits)
        BY <1>0 DEF MailTypes
      <4> QED BY <4>1, <2>1, <2>2, <1>0 DEF Past
    <3> QED BY <3>1, <2>1, <2>5, <1>0 DEF Past
  <2>8. Ordered' /\ CachesFresh'
    BY <2>1, <2>5, <1>0 DEF Ordered, CachesFresh, EntryFresh, Fulfilled
  <2>9. AwaitsFresh' /\ TemplateFresh'
    BY <2>1, <2>3, <2>4, <1>0 DEF AwaitsFresh, TemplateFresh, Fulfilled, Mail!TemplateFresh
  <2> QED BY <2>6, <2>7, <2>8, <2>9 DEF MailInv
<1>5. CASE UNCHANGED mailVars
  BY <1>0, <1>5 DEF mailVars, MailInv, MailTypes, Past, Ordered, CachesFresh, AwaitsFresh,
     TemplateFresh, EntryFresh, Fulfilled, Mail!TemplateFresh
<1> QED BY <1>1, <1>2, <1>3, <1>4, <1>5

(* No mail is made of a template that an earlier write of its instance, or *)
(* one CacheTTL ago, has replaced, for any instances and requests and any  *)
(* CacheTTL (mailService.js getTemplate, mail.js).                         *)
THEOREM MailsAreFresh == MCSpec => []TemplateFresh
<1>1. MCInit => MailInv
  BY MailInit DEF MCInit
<1>2. MailInv /\ [MCNext]_<<service, vars, mailVars>> => MailInv'
  <2> SUFFICES ASSUME MailInv, [MCNext]_<<service, vars, mailVars>> PROVE MailInv'
    OBVIOUS
  <2>1. CASE Mail!Next
    <3>1. ASSUME NEW w \in Writers, Mail!Written(w) \/ Mail!Invalidate(w) PROVE MailInv'
      BY <3>1, MailWritten, MailOthers
    <3> QED BY <2>1, <3>1, MailDispatch, MailAnswers, MailOthers DEF Mail!Next
  <2>2. CASE UNCHANGED mailVars
    BY <2>2, MailOthers
  <2> QED BY <2>1, <2>2 DEF MCNext
<1>3. MailInv => TemplateFresh
  BY DEF MailInv
<1> QED BY <1>1, <1>2, <1>3, PTL DEF MCSpec
=============================================================================

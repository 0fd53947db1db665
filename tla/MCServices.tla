---------------------------- MODULE MCServices ----------------------------
(***************************************************************************)
(* Two small services side by side, one at a time: the secrets (Keyring)   *)
(* and the mail function (MailService).                                    *)
(***************************************************************************)
EXTENDS Keyring, Integers, FiniteSets, TLC

CONSTANTS Instances, Dispatches, Writers, CacheTTL, MaxTime, None

ASSUME MailAssumption == CacheTTL \in Nat /\ None \notin Int

CONSTANTS anEnvVar, aProvider, aModule    \* the rows that hold a secret

VARIABLES service, commits, deleted, cache, promise, call, writer, answered, clock

Mail == INSTANCE MailService

mailVars == <<commits, deleted, cache, promise, call, writer, answered, clock>>

MCRows == {anEnvVar, aProvider, aModule}
MCTableOf == anEnvVar :> 1 @@ aProvider :> 2 @@ aModule :> 3

(* What the mail function does not look at is fixed for it.                *)
MCInit == /\ Init /\ Mail!Init
          /\ \/ service = "secrets"
             \/ service = "mail" /\ settings = CHOOSE s \in Settings : s.old = {}

MCNext == \/ service = "secrets" /\ Next /\ UNCHANGED <<service, mailVars>>
          \/ service = "mail" /\ Mail!Next /\ UNCHANGED <<service, vars>>

MCSpec == MCInit /\ [][MCNext]_<<service, vars, mailVars>>

(* Instances and requests are interchangeable.                             *)
Symmetric == Permutations(Instances) \cup Permutations(Dispatches)
             \cup Permutations(Writers)

(* The mails are made of fresh templates (MailService.tla).                *)
TemplateFresh == Mail!TemplateFresh
===========================================================================

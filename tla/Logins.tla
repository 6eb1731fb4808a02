-------------------------------- MODULE Logins --------------------------------
(***************************************************************************)
(* The stored login of a service (auth/credential-store.js): one file of   *)
(* its owner, changed under a lock file by whatever ETNPilot runs on the   *)
(* machine; the renewal of an expiring login, whose refresh token the      *)
(* service accepts once (auth/device-flow.js); and the system's own store, *)
(* to which the secrets can be moved (auth/vault.js).                      *)
(*                                                                         *)
(* A login is numbered by the token the service gave out last for it.      *)
(***************************************************************************)
EXTENDS Naturals

CONSTANTS Procs,      \* processes that use the store
          Renewing,   \* those whose store was opened with a refresher
          MaxToken,   \* bound: tokens given out
          MaxIds,     \* bound: items sealed in the system's store
          MaxMishaps, \* bound: crashes, failed writes, lost answers and broken locks
          None

ASSUME LoginsAssumption == /\ None \notin Procs
                           /\ MaxToken \in Nat /\ MaxIds \in Nat /\ MaxMishaps \in Nat

VARIABLES file,     \* the login in the file, and whether the file says that secrets go to the system
          lock,     \* who holds the lock file, and whether it is older than the limit
          service,  \* the tokens the service gave out, and those it would renew
          vault,    \* the items in the system's store
          sealed,   \* how many there ever were
          proc,     \* per process: where it is, in what, on which data, with which new token
          refused,  \* history: the service was given a refresh token that was spent
          mishaps,  \* history: how often something went wrong
          torn      \* history: a process stopped between forgetting and writing, or the lock of one
            \* that was at work was broken

vars == <<file, lock, service, vault, sealed, proc, refused, mishaps, torn>>

Ages == {"fresh", "due", "over"}
Empty == [there |-> FALSE, token |-> 0, at |-> 0, age |-> "fresh", needs |-> FALSE, mode |-> "file"]
Unlocked == [by |-> None, stale |-> FALSE]
Idle == [pc |-> "idle", op |-> "none", data |-> Empty, got |-> 0]

Goes(p, pc) == proc' = [proc EXCEPT ![p].pc = pc]
Ends(p) == proc' = [proc EXCEPT ![p] = Idle]
At(p, pc, ops) == proc[p].pc = pc /\ proc[p].op \in ops

-----------------------------------------------------------------------------
(* reveal: a secret is in the file, or in the system's store.              *)
Opens(login) == login.at = 0 \/ login.at \in vault

Expiring(login) == login.age \in {"due", "over"}

(* resolve: a login that expires is renewed first, if this process can; if *)
(* not it is handed out for as long as it lasts.                           *)
Renews(p) == file.there /\ Expiring(file) /\ p \in Renewing

Resolved(p) ==
  IF ~file.there \/ file.age = "over" THEN "nothing" ELSE IF Opens(file) THEN "value" ELSE "refused"

(* What is read here, outside the lock, another may renew before this      *)
(* process has the lock.                                                   *)
Resolve(p) ==
  /\ proc[p].pc = "idle" /\ Renews(p)
  /\ proc' = [proc EXCEPT ![p] = [Idle EXCEPT !.pc = "locking", !.op = "renew", !.data = file]]
  /\ UNCHANGED <<file, lock, service, vault, sealed, refused, mishaps, torn>>

(* The service gives out a token, and renews the ones before it no more.   *)
GivesOut(spends) ==
  /\ service.out < MaxToken
  /\ service' = [out |-> service.out + 1, good |-> (service.good \ spends) \cup {service.out + 1}]

(* A sign-in was confirmed: the service gave out a token to be stored.     *)
Save(p) ==
  /\ proc[p].pc = "idle" /\ GivesOut({})
  /\ proc' = [proc EXCEPT ![p] = [Idle EXCEPT !.pc = "locking", !.op = "save", !.got = service.out + 1]]
  /\ UNCHANGED <<file, lock, vault, sealed, refused, mishaps, torn>>

Remove(p) ==
  /\ proc[p].pc = "idle" /\ proc' = [proc EXCEPT ![p] = [Idle EXCEPT !.pc = "locking", !.op = "remove"]]
  /\ UNCHANGED <<file, lock, service, vault, sealed, refused, mishaps, torn>>

UseVault(p, mode) ==
  /\ proc[p].pc = "idle" /\ mode # file.mode
  /\ proc' = [proc EXCEPT ![p] = [Idle EXCEPT !.pc = "locking", !.op = mode]]
  /\ UNCHANGED <<file, lock, service, vault, sealed, refused, mishaps, torn>>

-----------------------------------------------------------------------------
(* locked: the lock file is made by one; a lock that is old is removed,    *)
(* whoever's it is by then, as it is when the work is done.                *)

(* A plausible fault: the login is not read again under the lock.          *)
SlipReRead(p) == IF proc[p].op = "renew" THEN proc[p].data ELSE file

ReRead(p) == file

Acquire(p) ==
  /\ proc[p].pc = "locking" /\ lock = Unlocked
  /\ lock' = [by |-> p, stale |-> FALSE]
  /\ proc' = [proc EXCEPT ![p].pc = "locked", ![p].data = ReRead(p)]
  /\ UNCHANGED <<file, service, vault, sealed, refused, mishaps, torn>>

TurnsStale ==
  /\ lock # Unlocked /\ ~lock.stale /\ mishaps < MaxMishaps /\ lock' = [lock EXCEPT !.stale = TRUE]
  /\ mishaps' = mishaps + 1
  /\ UNCHANGED <<file, service, vault, sealed, proc, refused, torn>>

SeesStale(p) ==
  /\ proc[p].pc = "locking" /\ lock.stale /\ Goes(p, "breaking")
  /\ UNCHANGED <<file, lock, service, vault, sealed, refused, mishaps, torn>>

Inside == {"locked", "asking", "got", "spent", "writing", "written"}

Break(p) ==
  /\ proc[p].pc = "breaking" /\ lock' = Unlocked /\ Goes(p, "locking")
  /\ torn' = (torn \/ \E q \in Procs : lock.by = q /\ proc[q].pc \in Inside)
  /\ UNCHANGED <<file, service, vault, sealed, refused, mishaps>>

WaitsTooLong(p) ==
  /\ proc[p].pc = "locking" /\ lock # Unlocked /\ Ends(p)
  /\ UNCHANGED <<file, lock, service, vault, sealed, refused, mishaps, torn>>

Unlock(p) == lock' = Unlocked /\ Ends(p)

-----------------------------------------------------------------------------
(* renew, under the lock.                                                  *)
Renew(p) ==
  /\ At(p, "locked", {"renew"})
  /\ LET d == proc[p].data
     IN  IF d.there /\ Expiring(d) /\ Opens(d) THEN Goes(p, "asking") /\ UNCHANGED lock
         ELSE Unlock(p)
  /\ UNCHANGED <<file, service, vault, sealed, refused, mishaps, torn>>

(* refreshToken, at the service.                                           *)
RefreshToken(p) ==
  /\ At(p, "asking", {"renew"})
  /\ IF proc[p].data.token \in service.good
     THEN /\ GivesOut({proc[p].data.token})
          /\ proc' = [proc EXCEPT ![p].pc = "got", ![p].got = service.out + 1] /\ UNCHANGED refused
     ELSE Goes(p, "spent") /\ refused' = TRUE /\ UNCHANGED service
  /\ UNCHANGED <<file, lock, vault, sealed, mishaps, torn>>

(* The request, or its answer, did not get there.                          *)
Unreachable(p) ==
  /\ At(p, "asking", {"renew"}) /\ mishaps < MaxMishaps /\ mishaps' = mishaps + 1
  /\ UNCHANGED service \/ (proc[p].data.token \in service.good /\ GivesOut({proc[p].data.token}))
  /\ Unlock(p)
  /\ UNCHANGED <<file, vault, sealed, refused, torn>>

(* invalid_grant: the person has to sign in again.                         *)
NeedsSignIn(p) ==
  /\ proc[p].pc = "spent" /\ file' = [proc[p].data EXCEPT !.needs = TRUE]
  /\ Unlock(p)
  /\ UNCHANGED <<service, vault, sealed, refused, mishaps, torn>>

-----------------------------------------------------------------------------
(* A secret goes into the file, or is kept by the system under a new id.   *)
Place(mode) == IF mode = "system" THEN sealed + 1 ELSE 0

(* conceal: the new secret goes to the system's store if that was chosen,  *)
(* and the item it replaces is removed; then the file is written.          *)
Conceal(p) ==
  /\ At(p, "got", {"renew"}) \/ At(p, "locked", {"save"})
  /\ LET d == proc[p].data
         at == Place(d.mode)
     IN  /\ d.mode = "system" => sealed < MaxIds
         /\ sealed' = IF at = 0 THEN sealed ELSE at
         /\ vault' = (vault \ {d.at}) \cup ({at} \ {0})
         /\ proc' = [proc EXCEPT ![p].pc = "writing",
              ![p].data = [there |-> TRUE, token |-> proc[p].got, at |-> at, age |-> "fresh",
                           needs |-> FALSE, mode |-> d.mode]]
  /\ UNCHANGED <<file, lock, service, refused, mishaps, torn>>

ForgetRemoved(p) ==
  /\ At(p, "locked", {"remove"}) /\ vault' = vault \ {proc[p].data.at}
  /\ proc' = [proc EXCEPT ![p].pc = "writing", ![p].data = [Empty EXCEPT !.mode = proc[p].data.mode]]
  /\ UNCHANGED <<file, lock, service, sealed, refused, mishaps, torn>>

(* useVault: every secret is moved, or none.                               *)
MoveSecrets(p) ==
  /\ At(p, "locked", {"system", "file"})
  /\ LET d == proc[p].data
         mode == proc[p].op
         seals == mode = "system" /\ d.there
     IN  IF d.there /\ ~Opens(d) THEN Unlock(p) /\ UNCHANGED <<vault, sealed>>
         ELSE /\ seals => sealed < MaxIds
              /\ sealed' = IF seals THEN sealed + 1 ELSE sealed
              /\ vault' = IF seals THEN vault \cup {sealed + 1} ELSE vault
              /\ proc' = [proc EXCEPT ![p].pc = "writing",
                   ![p].data = [d EXCEPT !.mode = mode, !.at = IF seals THEN sealed + 1 ELSE 0]]
              /\ UNCHANGED lock
  /\ UNCHANGED <<file, service, refused, mishaps, torn>>

(* What goes when the file has been written: the items the moved secrets   *)
(* had before.                                                             *)
Forgotten(p) == IF proc[p].op \in {"system", "file"} THEN {file.at} \ {proc[p].data.at} ELSE {}

(* A plausible fault: they go first, as they do when a login is replaced.  *)
SlipWrite(p) ==
  /\ proc[p].pc = "writing"
  /\ \/ Forgotten(p) \cap vault # {} /\ vault' = vault \ Forgotten(p) /\ UNCHANGED <<file, proc>>
     \/ /\ Forgotten(p) \cap vault = {} /\ file' = proc[p].data /\ Goes(p, "written")
        /\ UNCHANGED vault
  /\ UNCHANGED <<lock, service, sealed, refused, mishaps, torn>>

Write(p) ==
  /\ proc[p].pc = "writing" /\ file' = proc[p].data /\ vault' = vault
  /\ proc' = [proc EXCEPT ![p].pc = "written", ![p].data.at = IF Forgotten(p) = {} THEN 0 ELSE file.at]
  /\ UNCHANGED <<lock, service, sealed, refused, mishaps, torn>>

ForgetReplaced(p) ==
  /\ proc[p].pc = "written"
  /\ vault' = IF proc[p].op \in {"system", "file"} THEN vault \ {proc[p].data.at} ELSE vault
  /\ Unlock(p)
  /\ UNCHANGED <<file, service, sealed, refused, mishaps, torn>>

-----------------------------------------------------------------------------
Tears(p) == proc[p].pc = "writing" /\ proc[p].op \in {"renew", "save", "remove"} /\ file.at # 0

WriteFails(p) ==
  /\ proc[p].pc = "writing" /\ mishaps < MaxMishaps /\ mishaps' = mishaps + 1
  /\ torn' = (torn \/ Tears(p)) /\ Unlock(p)
  /\ UNCHANGED <<file, service, vault, sealed, refused>>

Crash(p) ==
  /\ proc[p].pc # "idle" /\ mishaps < MaxMishaps /\ mishaps' = mishaps + 1
  /\ torn' = (torn \/ Tears(p)) /\ proc' = [proc EXCEPT ![p] = Idle]
  /\ UNCHANGED <<file, lock, service, vault, sealed, refused>>

TimePasses ==
  /\ file.there /\ file.age # "over"
  /\ file' = [file EXCEPT !.age = IF file.age = "fresh" THEN "due" ELSE "over"]
  /\ UNCHANGED <<lock, service, vault, sealed, proc, refused, mishaps, torn>>

Init == /\ file = Empty /\ lock = Unlocked /\ service = [out |-> 0, good |-> {}] /\ vault = {} /\ sealed = 0
        /\ proc = [p \in Procs |-> Idle] /\ refused = FALSE /\ mishaps = 0 /\ torn = FALSE

Next ==
  \/ \E p \in Procs :
       \/ Resolve(p) \/ Save(p) \/ Remove(p) \/ UseVault(p, "file") \/ UseVault(p, "system")
       \/ Acquire(p) \/ SeesStale(p) \/ Break(p) \/ WaitsTooLong(p)
       \/ Renew(p) \/ RefreshToken(p) \/ Unreachable(p) \/ NeedsSignIn(p)
       \/ Conceal(p) \/ ForgetRemoved(p) \/ MoveSecrets(p) \/ Write(p) \/ ForgetReplaced(p)
       \/ WriteFails(p) \/ Crash(p)
  \/ TurnsStale \/ TimePasses

Spec == Init /\ [][Next]_vars

-----------------------------------------------------------------------------
Login == [there : BOOLEAN, token : 0..MaxToken, at : 0..MaxIds, age : Ages, needs : BOOLEAN,
          mode : {"file", "system"}]

Work == [pc : Inside \cup {"idle", "locking", "breaking"},
         op : {"none", "renew", "save", "remove", "file", "system"},
         data : Login, got : 0..MaxToken]

TypeOK == /\ file \in Login /\ lock \in [by : Procs \cup {None}, stale : BOOLEAN]
          /\ service \in [out : 0..MaxToken, good : SUBSET (1..MaxToken)]
          /\ vault \subseteq 1..MaxIds /\ sealed \in 0..MaxIds
          /\ proc \in [Procs -> Work]
          /\ refused \in BOOLEAN /\ mishaps \in 0..MaxMishaps /\ torn \in BOOLEAN

(* "The page and the terminal can both renew the same login, and a renewal *)
(* uses up the refresh token it was given" (79-81): as long as nothing     *)
(* goes wrong - no crash, no failed write, no lost answer, no lock that    *)
(* outlives its limit - the service is never given a spent one, however    *)
(* renewals, sign-ins, sign-outs and moves overlap.                        *)
SpentOnce == refused => mishaps > 0

(* The secrets of the stored login can be opened wherever the file says    *)
(* they are: a move to the system's store or back leaves nothing behind    *)
(* that cannot be read, whenever it is interrupted (284).  Replacing a     *)
(* login does, if it stops between forgetting the old item and writing the *)
(* file; a broken lock lets two processes do so to each other.             *)
StaysReadable ==
  file.there /\ ~Opens(file) => torn \/ \E p \in Procs : proc[p].pc = "writing"

(* A refresh token is spent once, and the login that was stored can be     *)
(* read: whatever two processes do to the file at once, and wherever one   *)
(* of them stops.                                                          *)
LoginsKept == SpentOnce /\ StaysReadable

(* Not so: "the access token is renewed by itself" (docs/login.md 19). A   *)
(* run's secrets come from a store without a refresher.                    *)
RenewedByItself ==
  \A p \in Procs : file.there /\ Opens(file) /\ file.token \in service.good =>
    Renews(p) \/ Resolved(p) = "value"
=============================================================================

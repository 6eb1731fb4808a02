----------------------------- MODULE LoginsProof -----------------------------
(***************************************************************************)
(* Theorems about Logins, for any number of processes, tokens, sealed      *)
(* items and mishaps.                                                      *)
(***************************************************************************)
EXTENDS Logins, TLAPS

Works(p) == proc[p].pc \in Inside

\* The same login, though time may have passed for one of them.
Same(a, b) == a.there = b.there /\ a.token = b.token /\ a.at = b.at /\ a.mode = b.mode

\* The old item of the login is gone from the system's store, the new login not in the file yet.
Forgets(p) == proc[p].pc = "writing" /\ proc[p].op \in {"renew", "save", "remove"}

\* What a process that has the lock knows of the file, and what it is going to write.
WorkFit(p) ==
  LET w == proc[p] IN
  /\ w.pc \in {"locked", "asking", "got", "spent"} => Same(w.data, file)
  /\ w.pc = "asking" => w.op = "renew" /\ w.data.there
  /\ w.pc = "writing" =>
       /\ w.op # "none" /\ (w.data.there => Opens(w.data))
       /\ w.op \in {"renew", "save"} => w.data.there /\ w.data.token = w.got
       /\ w.op = "remove" => ~w.data.there /\ w.data.token = 0
       /\ w.op \in {"system", "file"} => /\ w.data.there = file.there /\ w.data.token = file.token
                                         /\ file.there => Opens(file)
  /\ w.pc = "written" /\ w.op \in {"system", "file"} => file.at = 0 \/ file.at # w.data.at

\* As long as nothing tore, whoever works on the file has the lock, and the login can be read
\* but for the moment in which it is replaced.
Whole == /\ \A p \in Procs : Works(p) => lock.by = p /\ WorkFit(p)
         /\ file.there => Opens(file) \/ \E p \in Procs : Forgets(p)
Sound == ~torn => Whole

LEMMA Rests == Empty \in Login /\ Unlocked \in [by : Procs \cup {None}, stale : BOOLEAN] /\ Idle \in Work
<1>1. Empty \in Login
  BY LoginsAssumption DEF Empty, Login, Ages
<1> QED
  BY <1>1, LoginsAssumption DEF Unlocked, Idle, Work

LEMMA StartsTyped == ASSUME Init PROVE TypeOK
<1>1. /\ service \in [out : 0..MaxToken, good : SUBSET (1..MaxToken)]
      /\ sealed \in 0..MaxIds /\ mishaps \in 0..MaxMishaps
  BY LoginsAssumption DEF Init
<1>2. proc \in [Procs -> Work] /\ file \in Login /\ lock \in [by : Procs \cup {None}, stale : BOOLEAN]
  BY Rests DEF Init
<1> QED
  BY <1>1, <1>2 DEF Init, TypeOK

\* What a process becomes stays one.
LEMMA Becomes ==
  ASSUME NEW w \in Work, NEW d \in Login, NEW n \in 0..MaxToken,
         NEW pc \in Inside \cup {"idle", "locking", "breaking"}
  PROVE  /\ [w EXCEPT !.pc = pc] \in Work
         /\ [w EXCEPT !.pc = pc, !.data = d] \in Work
         /\ [w EXCEPT !.pc = pc, !.got = n] \in Work
  BY DEF Work

LEMMA NextTyped ==
  ASSUME TypeOK, [Next]_vars
  PROVE  TypeOK'
<1> USE LoginsAssumption DEF TypeOK
<1>1. ASSUME NEW p \in Procs, Resolve(p) PROVE TypeOK'
  BY Rests, <1>1 DEF Resolve, Work
<1>2. ASSUME NEW p \in Procs, Save(p) \/ Remove(p) PROVE TypeOK'
  <2>1. service' \in [out : 0..MaxToken, good : SUBSET (1..MaxToken)]
    BY <1>2 DEF Save, Remove, GivesOut
  <2>2. /\ service.out + 1 \in 0..MaxToken => 
              [Idle EXCEPT !.pc = "locking", !.op = "save", !.got = service.out + 1] \in Work
        /\ [Idle EXCEPT !.pc = "locking", !.op = "remove"] \in Work
    BY Rests DEF Work
  <2>3. proc' \in [Procs -> Work]
    BY <1>2, <2>2 DEF Save, Remove, GivesOut
  <2> QED
    BY <1>2, <2>1, <2>3 DEF Save, Remove
<1>3. ASSUME NEW p \in Procs, NEW mode \in {"file", "system"}, UseVault(p, mode) PROVE TypeOK'
  BY Rests, <1>3 DEF UseVault, Idle, Work
<1>4. ASSUME NEW p \in Procs, Acquire(p) PROVE TypeOK'
  <2>1. [proc[p] EXCEPT !.pc = "locked", !.data = file] \in Work
    BY Becomes DEF Inside
  <2> QED
    BY <1>4, <2>1 DEF Acquire, ReRead
<1>5. ASSUME NEW p \in Procs, NEW pc \in Inside \cup {"locking", "breaking"}, Goes(p, pc)
      PROVE  proc' \in [Procs -> Work]
  <2>1. [proc[p] EXCEPT !.pc = pc] \in Work
    BY Becomes DEF Inside
  <2> QED
    BY <1>5, <2>1 DEF Goes
<1>6. ASSUME NEW p \in Procs, Ends(p) PROVE proc' \in [Procs -> Work]
  BY <1>6, Rests DEF Ends
<1>7. ASSUME NEW p \in Procs, SeesStale(p) \/ Break(p) \/ WaitsTooLong(p) PROVE TypeOK'
  BY Rests, <1>5, <1>6, <1>7 DEF SeesStale, Break, WaitsTooLong
<1>8. ASSUME NEW p \in Procs, Renew(p) PROVE TypeOK'
  BY Rests, <1>5, <1>6, <1>8 DEF Renew, Unlock, Inside
<1>9. ASSUME NEW p \in Procs, RefreshToken(p) PROVE TypeOK'
  <2>1. CASE Goes(p, "spent") /\ refused' = TRUE /\ UNCHANGED service
    BY <1>5, <1>9, <2>1 DEF RefreshToken, Inside
  <2>2. CASE /\ GivesOut({proc[p].data.token}) /\ UNCHANGED refused
             /\ proc' = [proc EXCEPT ![p].pc = "got", ![p].got = service.out + 1]
    <3>1. service.out + 1 \in 0..MaxToken /\ service' \in [out : 0..MaxToken, good : SUBSET (1..MaxToken)]
      BY <2>2 DEF GivesOut
    <3>2. [proc[p] EXCEPT !.pc = "got", !.got = service.out + 1] \in Work
      BY <3>1, Becomes DEF Inside
    <3> QED
      BY <1>9, <2>2, <3>1, <3>2 DEF RefreshToken
  <2> QED
    BY <1>9, <2>1, <2>2 DEF RefreshToken
<1>10. ASSUME NEW p \in Procs, Unreachable(p) PROVE TypeOK'
  BY Rests, <1>6, <1>10 DEF Unreachable, Unlock, GivesOut
<1>11. ASSUME NEW p \in Procs, NeedsSignIn(p) PROVE TypeOK'
  <2>1. file' \in Login
    BY <1>11 DEF NeedsSignIn, Login, Work
  <2> QED
    BY Rests, <1>6, <1>11, <2>1 DEF NeedsSignIn, Unlock
<1>12. ASSUME NEW p \in Procs, Conceal(p) PROVE TypeOK'
  <2> DEFINE d == proc[p].data
             new == [there |-> TRUE, token |-> proc[p].got, at |-> Place(d.mode), age |-> "fresh",
                     needs |-> FALSE, mode |-> d.mode]
  <2>1. /\ d \in Login /\ proc[p].got \in 0..MaxToken
        /\ Place(d.mode) \in 0..MaxIds /\ sealed' \in 0..MaxIds /\ vault' \subseteq 1..MaxIds
    BY <1>12 DEF Conceal, Place, Work
  <2>2. new \in Login
    BY <2>1 DEF Login, Ages
  <2>3. [proc[p] EXCEPT !.pc = "writing", !.data = new] \in Work
    BY <2>2, Becomes DEF Inside
  <2> HIDE DEF new
  <2> QED
    BY <1>12, <2>1, <2>3 DEF Conceal, new
<1>13. ASSUME NEW p \in Procs, ForgetRemoved(p) PROVE TypeOK'
  <2>1. [Empty EXCEPT !.mode = proc[p].data.mode] \in Login
    BY Rests DEF Login, Work
  <2>2. [proc[p] EXCEPT !.pc = "writing", !.data = [Empty EXCEPT !.mode = proc[p].data.mode]] \in Work
    BY <2>1, Becomes DEF Inside
  <2> QED
    BY <1>13, <2>2 DEF ForgetRemoved
<1>14. ASSUME NEW p \in Procs, MoveSecrets(p) PROVE TypeOK'
  <2> DEFINE d == proc[p].data
             seals == proc[p].op = "system" /\ d.there
             new == [d EXCEPT !.mode = proc[p].op, !.at = IF seals THEN sealed + 1 ELSE 0]
  <2>1. CASE Unlock(p) /\ UNCHANGED <<vault, sealed>>
    BY Rests, <1>6, <1>14, <2>1 DEF MoveSecrets, Unlock
  <2>2. CASE /\ seals => sealed < MaxIds
             /\ sealed' = IF seals THEN sealed + 1 ELSE sealed
             /\ vault' = IF seals THEN vault \cup {sealed + 1} ELSE vault
             /\ proc' = [proc EXCEPT ![p].pc = "writing", ![p].data = new]
             /\ UNCHANGED lock
    <3>1. d \in Login /\ proc[p].op \in {"system", "file"}
      BY <1>14 DEF MoveSecrets, At, Work
    <3>2. sealed' \in 0..MaxIds /\ vault' \subseteq 1..MaxIds
      BY <2>2
    <3>4. (IF seals THEN sealed + 1 ELSE 0) \in 0..MaxIds
      BY <2>2
    <3>5. new \in Login
      BY <3>1, <3>4 DEF Login
    <3>3. [proc[p] EXCEPT !.pc = "writing", !.data = new] \in Work
      BY <3>5, Becomes DEF Inside
    <3> HIDE DEF new
    <3> QED
      BY <1>14, <2>2, <3>2, <3>3 DEF MoveSecrets
  <2> QED
    BY <1>14, <2>1, <2>2 DEF MoveSecrets
<1>15. ASSUME NEW p \in Procs, Write(p) PROVE TypeOK'
  <2> DEFINE at == IF Forgotten(p) = {} THEN 0 ELSE file.at
  <2>1. at \in 0..MaxIds /\ proc[p].data \in Login
    BY DEF Login, Work
  <2>2. [proc[p].data EXCEPT !.at = at] \in Login
    BY <2>1 DEF Login
  <2>3. [proc[p] EXCEPT !.pc = "written", !.data.at = at] \in Work
    BY <2>2 DEF Work, Inside
  <2> HIDE DEF at
  <2> QED
    BY <1>15, <2>1, <2>3 DEF Write, at
<1>16. ASSUME NEW p \in Procs, ForgetReplaced(p) PROVE TypeOK'
  BY Rests, <1>6, <1>16 DEF ForgetReplaced, Unlock
<1>17. ASSUME NEW p \in Procs, WriteFails(p) \/ Crash(p) PROVE TypeOK'
  <2>1. torn' \in BOOLEAN
    BY <1>17, Zenon DEF WriteFails, Crash
  <2>3. mishaps' \in 0..MaxMishaps
    BY <1>17 DEF WriteFails, Crash
  <2>2. proc' \in [Procs -> Work] /\ lock' \in [by : Procs \cup {None}, stale : BOOLEAN]
    BY <1>6, <1>17, Rests DEF WriteFails, Crash, Unlock
  <2> QED
    BY <1>17, <2>1, <2>2, <2>3 DEF WriteFails, Crash
<1>18. ASSUME TurnsStale PROVE TypeOK'
  <2>1. [lock EXCEPT !.stale = TRUE] \in [by : Procs \cup {None}, stale : BOOLEAN]
    OBVIOUS
  <2>2. mishaps' \in 0..MaxMishaps
    BY <1>18 DEF TurnsStale
  <2> QED
    BY <1>18, <2>1, <2>2 DEF TurnsStale
<1>20. ASSUME UNCHANGED vars PROVE TypeOK'
  BY <1>20 DEF vars
<1>19. ASSUME TimePasses PROVE TypeOK'
  <2>1. file' \in Login
    BY <1>19 DEF TimePasses, Login, Ages
  <2> QED
    BY <1>19, <2>1 DEF TimePasses
<1> QED
  BY <1>1, <1>2, <1>3, <1>4, <1>7, <1>8, <1>9, <1>10, <1>11, <1>12, <1>13, <1>14, <1>15, <1>16,
     <1>17, <1>18, <1>19, <1>20 DEF Next

LEMMA Grows ==
  ASSUME TypeOK, [Next]_vars
  PROVE  (torn => torn') /\ (mishaps' = 0 => mishaps = 0)
<1>1. mishaps \in Nat /\ torn \in BOOLEAN
  BY LoginsAssumption DEF TypeOK
<1>2. ASSUME NEW p \in Procs, \/ WriteFails(p) \/ Crash(p) \/ Break(p) \/ Unreachable(p)
      PROVE  (torn => torn') /\ (mishaps' = 0 => mishaps = 0)
  <2>1. CASE WriteFails(p)
    BY <1>1, <2>1 DEF WriteFails
  <2>2. CASE Crash(p)
    BY <1>1, <2>2 DEF Crash
  <2>3. CASE Break(p)
    BY <1>1, <2>3 DEF Break
  <2>4. CASE Unreachable(p)
    BY <1>1, <2>4 DEF Unreachable
  <2> QED
    BY <1>2, <2>1, <2>2, <2>3, <2>4
<1>3. ASSUME TurnsStale \/ TimePasses \/ UNCHANGED vars
      PROVE  (torn => torn') /\ (mishaps' = 0 => mishaps = 0)
  BY <1>1, <1>3 DEF TurnsStale, TimePasses, vars
<1>4. ASSUME NEW p \in Procs,
             \/ Resolve(p) \/ Save(p) \/ Remove(p) \/ UseVault(p, "file") \/ UseVault(p, "system")
             \/ Acquire(p) \/ SeesStale(p) \/ WaitsTooLong(p) \/ Renew(p) \/ RefreshToken(p)
             \/ NeedsSignIn(p) \/ Conceal(p) \/ ForgetRemoved(p) \/ MoveSecrets(p) \/ Write(p)
             \/ ForgetReplaced(p)
      PROVE  UNCHANGED <<mishaps, torn>>
  BY <1>4 DEF Resolve, Save, Remove, UseVault, Acquire, SeesStale, WaitsTooLong, Renew,
     RefreshToken, NeedsSignIn, Conceal, ForgetRemoved, MoveSecrets, Write, ForgetReplaced
<1> QED
  BY <1>2, <1>3, <1>4 DEF Next

LEMMA OneWorks ==
  ASSUME Whole, NEW p \in Procs, NEW q \in Procs, Works(p), Works(q)
  PROVE  p = q
  BY DEF Whole

LEMMA NextSound ==
  ASSUME TypeOK, Sound, [Next]_vars
  PROVE  Sound'
<1> SUFFICES ASSUME ~torn' PROVE Whole'
  BY DEF Sound
<1>0. ~torn /\ Whole /\ file \in Login /\ proc \in [Procs -> Work] /\ vault \subseteq 1..MaxIds
  BY Grows DEF Sound, TypeOK
<1> USE LoginsAssumption DEF Works, At
\* A step beside the lock.
<1>1. ASSUME UNCHANGED <<vault, lock>>, Same(file', file),
             \A q \in Procs : proc'[q] = proc[q] \/ (~Works(q) /\ ~Works(q)')
      PROVE  Whole'
  <2>1. ASSUME NEW q \in Procs, Works(q)' PROVE lock'.by = q /\ WorkFit(q)'
    <3>1. Works(q) /\ proc'[q] = proc[q]
      BY <1>1, <2>1
    <3>2. lock.by = q /\ WorkFit(q)
      BY <1>0, <3>1 DEF Whole
    <3> QED
      BY <1>1, <3>1, <3>2 DEF WorkFit, Same, Opens
  <2>2. ASSUME file'.there PROVE Opens(file)' \/ \E q \in Procs : Forgets(q)'
    <3>1. CASE Opens(file)
      BY <1>1, <3>1 DEF Opens, Same
    <3>2. CASE ~Opens(file)
      <4>1. PICK q \in Procs : Forgets(q)
        BY <1>0, <1>1, <2>2, <3>2 DEF Whole, Same
      <4> QED
        BY <1>1, <4>1 DEF Forgets, Inside
    <3> QED
      BY <3>1, <3>2
  <2> QED
    BY <2>1, <2>2 DEF Whole
\* A step of whoever has the lock.
<1>2. ASSUME NEW p \in Procs, Works(p), \A q \in Procs \ {p} : proc'[q] = proc[q],
             Works(p)' => UNCHANGED lock /\ WorkFit(p)',
             file'.there => Opens(file)' \/ Forgets(p)'
      PROVE  Whole'
  BY <1>0, <1>2, OneWorks DEF Whole
<1>3. ASSUME NEW p \in Procs, Unlock(p) \/ (Ends(p) /\ UNCHANGED lock) PROVE proc' \in [Procs -> Work] /\ proc'[p] = Idle /\ ~Works(p)' /\ \A q \in Procs \ {p} : proc'[q] = proc[q]
  BY <1>0, <1>3, Rests DEF Unlock, Ends, Idle, Inside
<1>4. ASSUME NEW p \in Procs, Resolve(p) \/ Save(p) \/ Remove(p) PROVE Whole'
  <2>1. /\ UNCHANGED <<file, vault, lock>> /\ ~Works(p)
        /\ \A q \in Procs \ {p} : proc'[q] = proc[q]
    BY <1>0, <1>4 DEF Resolve, Save, Remove, Inside
  <2>2. proc'[p].pc = "locking"
    BY <1>0, <1>4 DEF Resolve, Save, Remove, Idle
  <2> QED
    BY <1>1, <2>1, <2>2 DEF Same, Inside
<1>5. ASSUME NEW p \in Procs, NEW mode \in {"file", "system"}, UseVault(p, mode) PROVE Whole'
  BY <1>0, <1>1, <1>5 DEF UseVault, Idle, Inside, Same
<1>6. ASSUME NEW p \in Procs, Acquire(p) PROVE Whole'
  <2>1. \A q \in Procs : ~Works(q)
    BY <1>0, <1>6 DEF Acquire, Whole, Unlocked
  <2>2. lock'.by = p /\ proc'[p].pc = "locked" /\ proc'[p].data = file /\ \A q \in Procs \ {p} : proc'[q] = proc[q]
    BY <1>0, <1>6 DEF Acquire, ReRead, Work
  <2>3. WorkFit(p)' 
    BY <1>6, <2>2 DEF WorkFit, Same, Acquire
  <2>4. file.there => Opens(file)
    BY <1>0, <2>1 DEF Whole, Forgets, Inside
  <2> QED
    BY <1>6, <2>1, <2>2, <2>3, <2>4 DEF Whole, Acquire, Opens
<1>7. ASSUME NEW p \in Procs, SeesStale(p) PROVE Whole'
  <2>1. /\ UNCHANGED <<file, vault, lock>> /\ ~Works(p) /\ proc'[p].pc = "breaking"
        /\ \A q \in Procs \ {p} : proc'[q] = proc[q]
    BY <1>0, <1>7 DEF SeesStale, Goes, Inside, Work
  <2> QED
    BY <1>1, <2>1 DEF Same, Inside
<1>8. ASSUME NEW p \in Procs, WaitsTooLong(p) PROVE Whole'
  BY <1>0, <1>1, <1>3, <1>8 DEF WaitsTooLong, Ends, Inside, Same, Idle
<1>9. ASSUME NEW p \in Procs, Break(p) PROVE Whole'
  <2>1. \A q \in Procs : ~Works(q)
    BY <1>0, <1>9 DEF Break, Whole
  <2>2. \A q \in Procs : ~Works(q)'
    BY <1>0, <1>9, <2>1 DEF Break, Goes, Inside, Work
  <2> QED
    BY <1>0, <1>9, <2>1, <2>2 DEF Whole, Break, Opens, Forgets, Inside
<1>10. ASSUME TurnsStale \/ TimePasses \/ UNCHANGED vars PROVE Whole'
  BY <1>0, <1>10 DEF TurnsStale, TimePasses, vars, Whole, WorkFit, Forgets, Same, Opens, Login, TypeOK
<1>11. ASSUME NEW p \in Procs, Renew(p) PROVE Whole'
  <2>1. Works(p) /\ WorkFit(p)
    BY <1>0, <1>11 DEF Renew, Inside, Whole
  <2>2. CASE Goes(p, "asking") /\ UNCHANGED lock /\ proc[p].data.there
    <3>1. /\ proc'[p].pc = "asking" /\ proc'[p].data = proc[p].data /\ proc'[p].op = proc[p].op
          /\ \A q \in Procs \ {p} : proc'[q] = proc[q]
      BY <1>0, <2>2 DEF Goes, Work
    <3>2. WorkFit(p)'
      BY <1>11, <2>1, <2>2, <3>1 DEF Renew, WorkFit, Same
    <3>3. file'.there => Opens(file)'
      BY <1>0, <1>11, <2>1, OneWorks DEF Renew, Whole, Forgets, Opens, Inside
    <3> QED
      BY <1>2, <2>1, <2>2, <3>1, <3>2, <3>3
  <2>3. CASE Unlock(p)
    <3>1. file'.there => Opens(file)'
      BY <1>0, <1>11, <2>1, OneWorks DEF Renew, Whole, Forgets, Opens, Inside
    <3> QED
      BY <1>2, <1>3, <2>1, <2>3, <3>1
  <2> QED
    BY <1>11, <2>2, <2>3 DEF Renew
\* Nobody else is replacing the login while this process is not.
<1>12. ASSUME NEW p \in Procs, Works(p), ~Forgets(p) PROVE file.there => Opens(file)
  BY <1>0, <1>12, OneWorks DEF Whole, Forgets, Inside
<1>13. ASSUME NEW p \in Procs, RefreshToken(p) PROVE Whole'
  <2>1. Works(p) /\ ~Forgets(p) /\ WorkFit(p)
    BY <1>0, <1>13 DEF RefreshToken, Inside, Whole, Forgets
  <2>2. /\ proc'[p].pc \in {"got", "spent"} /\ proc'[p].data = proc[p].data
        /\ \A q \in Procs \ {p} : proc'[q] = proc[q]
    BY <1>0, <1>13 DEF RefreshToken, Goes, Work
  <2>3. WorkFit(p)'
    BY <1>13, <2>1, <2>2 DEF RefreshToken, WorkFit, Same
  <2> QED
    BY <1>2, <1>12, <1>13, <2>1, <2>2, <2>3 DEF RefreshToken, Opens
<1>14. ASSUME NEW p \in Procs, Unreachable(p) PROVE Whole'
  <2>1. Works(p) /\ ~Forgets(p)
    BY <1>14 DEF Unreachable, Inside, Forgets
  <2> QED
    BY <1>2, <1>3, <1>12, <1>14, <2>1 DEF Unreachable, Opens
<1>15. ASSUME NEW p \in Procs, NeedsSignIn(p) PROVE Whole'
  <2>1. Works(p) /\ ~Forgets(p) /\ WorkFit(p)
    BY <1>0, <1>15 DEF NeedsSignIn, Inside, Whole, Forgets
  <2>2. Same(file', file) /\ vault' = vault
    BY <1>0, <1>15, <2>1 DEF NeedsSignIn, WorkFit, Same, Work, Login
  <2> QED
    BY <1>2, <1>3, <1>12, <1>15, <2>1, <2>2 DEF NeedsSignIn, Opens, Same
<1>16. ASSUME NEW p \in Procs, Conceal(p) PROVE Whole'
  <2> DEFINE d == proc[p].data
             new == [there |-> TRUE, token |-> proc[p].got, at |-> Place(d.mode), age |-> "fresh",
                     needs |-> FALSE, mode |-> d.mode]
  <2>1. Works(p) /\ proc[p].op \in {"renew", "save"}
    BY <1>16 DEF Conceal, Inside
  <2>2. /\ proc'[p].pc = "writing" /\ proc'[p].op = proc[p].op /\ proc'[p].got = proc[p].got
        /\ proc'[p].data = new /\ \A q \in Procs \ {p} : proc'[q] = proc[q]
    BY <1>0, <1>16 DEF Conceal, Work
  <2>3. new.at = 0 \/ new.at \in vault'
    BY <1>16 DEF Conceal
  <2> HIDE DEF new
  <2>6. new.there /\ new.token = proc[p].got
    BY DEF new
  <2>4. WorkFit(p)'
    BY <2>1, <2>2, <2>3, <2>6 DEF WorkFit, Opens
  <2>5. Forgets(p)' /\ UNCHANGED lock
    BY <1>16, <2>1, <2>2 DEF Conceal, Forgets
  <2> QED
    BY <1>2, <2>1, <2>2, <2>4, <2>5
<1>17. ASSUME NEW p \in Procs, ForgetRemoved(p) PROVE Whole'
  <2>1. Works(p)
    BY <1>17 DEF ForgetRemoved, Inside
  <2>2. /\ proc'[p].pc = "writing" /\ proc'[p].op = "remove"
        /\ ~proc'[p].data.there /\ proc'[p].data.token = 0
        /\ \A q \in Procs \ {p} : proc'[q] = proc[q]
    BY <1>0, <1>17 DEF ForgetRemoved, Work, Empty
  <2>3. WorkFit(p)'
    BY <2>2 DEF WorkFit
  <2> QED
    BY <1>2, <1>17, <2>1, <2>2, <2>3 DEF ForgetRemoved, Forgets
<1>18. ASSUME NEW p \in Procs, MoveSecrets(p) PROVE Whole'
  <2> DEFINE d == proc[p].data
             seals == proc[p].op = "system" /\ d.there
             new == [d EXCEPT !.mode = proc[p].op, !.at = IF seals THEN sealed + 1 ELSE 0]
  <2>1. Works(p) /\ ~Forgets(p) /\ Same(d, file) /\ d \in Login
    BY <1>0, <1>18 DEF MoveSecrets, Inside, Whole, Forgets, WorkFit, Work
  <2>2. CASE Unlock(p) /\ UNCHANGED <<vault, sealed>>
    BY <1>2, <1>3, <1>12, <1>18, <2>1, <2>2 DEF MoveSecrets, Opens
  <2>3. CASE /\ vault' = IF seals THEN vault \cup {sealed + 1} ELSE vault
             /\ proc' = [proc EXCEPT ![p].pc = "writing", ![p].data = new]
             /\ UNCHANGED lock
    <3>1. /\ proc'[p].pc = "writing" /\ proc'[p].op = proc[p].op /\ proc'[p].data = new
          /\ proc[p].op \in {"system", "file"} /\ \A q \in Procs \ {p} : proc'[q] = proc[q]
      BY <1>0, <1>18, <2>3 DEF MoveSecrets, Work
    <3>2. /\ new.there = file.there /\ new.token = file.token
          /\ new.there => new.at = 0 \/ new.at \in vault'
      BY <2>1, <2>3 DEF Login, Same
    <3>3. file' = file /\ (file.there => Opens(file)')
      BY <1>12, <1>18, <2>1, <2>3 DEF MoveSecrets, Opens
    <3> HIDE DEF new
    <3>4. WorkFit(p)'
      BY <3>1, <3>2, <3>3 DEF WorkFit, Opens
    <3> QED
      BY <1>2, <2>1, <2>3, <3>1, <3>3, <3>4
  <2> QED
    BY <1>18, <2>2, <2>3 DEF MoveSecrets
<1>19. ASSUME NEW p \in Procs, Write(p) PROVE Whole'
  <2>1. Works(p) /\ WorkFit(p) /\ proc[p].pc = "writing" /\ proc[p].data \in Login
    BY <1>0, <1>19 DEF Write, Inside, Whole, Work
  <2>2. /\ proc'[p].pc = "written" /\ proc'[p].op = proc[p].op
        /\ proc'[p].data.at = IF Forgotten(p) = {} THEN 0 ELSE file.at
        /\ \A q \in Procs \ {p} : proc'[q] = proc[q]
    BY <1>0, <1>19, <2>1 DEF Write, Work, Login
  <2>3. proc[p].op \in {"system", "file"} => file'.at = 0 \/ file'.at # proc'[p].data.at
    BY <1>19, <2>2 DEF Write, Forgotten
  <2>4. WorkFit(p)'
    BY <2>2, <2>3 DEF WorkFit
  <2> QED
    BY <1>2, <1>19, <2>1, <2>2, <2>4 DEF Write, WorkFit, Opens
<1>20. ASSUME NEW p \in Procs, ForgetReplaced(p) PROVE Whole'
  <2>1. Works(p) /\ WorkFit(p) /\ ~Forgets(p)
    BY <1>0, <1>20 DEF ForgetReplaced, Inside, Whole, Forgets
  <2>2. file'.there => Opens(file)'
    BY <1>12, <1>20, <2>1 DEF ForgetReplaced, WorkFit, Opens
  <2> QED
    BY <1>2, <1>3, <1>20, <2>1, <2>2 DEF ForgetReplaced
\* A process that stops before it has written leaves the login as it was, unless its old item is
\* gone: then something tore.
<1>21. ASSUME NEW p \in Procs, Works(p), ~Tears(p) PROVE file.there => Opens(file)
  BY <1>0, <1>12, <1>21 DEF Tears, Forgets, Opens, Login
<1>22. ASSUME NEW p \in Procs, WriteFails(p) PROVE Whole'
  <2>1. Works(p) /\ ~Tears(p)
    BY <1>22 DEF WriteFails, Inside
  <2> QED
    BY <1>2, <1>3, <1>21, <1>22, <2>1 DEF WriteFails, Opens
<1>23. ASSUME NEW p \in Procs, Crash(p) PROVE Whole'
  <2>1. /\ UNCHANGED <<file, vault, lock>> /\ ~Tears(p) /\ Ends(p)
    BY <1>23 DEF Crash, Ends
  <2>2. CASE Works(p)
    BY <1>2, <1>3, <1>21, <2>1, <2>2 DEF Opens
  <2>3. CASE ~Works(p)
    BY <1>1, <1>3, <2>1, <2>3 DEF Same
  <2> QED
    BY <2>2, <2>3
<1> QED
  BY <1>4, <1>5, <1>6, <1>7, <1>8, <1>9, <1>10, <1>11, <1>13, <1>14, <1>15, <1>16, <1>17, <1>18,
     <1>19, <1>20, <1>22, <1>23 DEF Next

-----------------------------------------------------------------------------
(* Tokens, as long as nothing went wrong.                                  *)

\* A token that the service gave out to this process, and that is not in the file yet.
New(p) == \/ proc[p].op = "save" /\ proc[p].pc \in {"locking", "locked", "writing"}
          \/ proc[p].op = "renew" /\ proc[p].pc \in {"got", "writing"}

\* The refresh token in the file is used up, and the one it was used up for not written yet.
Spends(p) == proc[p].op = "renew" /\ proc[p].pc \in {"got", "writing"}

Calm == /\ ~torn /\ ~lock.stale /\ ~refused
        /\ \A p \in Procs : proc[p].pc \notin {"breaking", "spent"}

\* What the service would renew: the login in the file, but while it is replaced; and what it
\* gave out since, to one process each.
TokensFit ==
  /\ service.good \subseteq 1..service.out /\ file.token \in 0..service.out
  /\ file.there => file.token \in service.good \/ \E p \in Procs : Spends(p)
  /\ \A p \in Procs : New(p) => proc[p].got \in service.good /\ (file.there => proc[p].got # file.token)
  /\ \A p, q \in Procs : New(p) /\ New(q) /\ p # q => proc[p].got # proc[q].got

Orderly == mishaps = 0 => Calm /\ TokensFit

LEMMA NextCalm ==
  ASSUME TypeOK, Sound, Orderly, [Next]_vars, mishaps' = 0
  PROVE  Calm'
<1>0. mishaps = 0 /\ Calm /\ TokensFit /\ Whole /\ proc \in [Procs -> Work] /\ mishaps \in Nat
  BY Grows, LoginsAssumption DEF Orderly, Sound, Calm, TypeOK
<1> USE <1>0 DEF Calm
<1>1. ASSUME UNCHANGED <<torn, refused>>, lock' \in {lock, Unlocked},
             NEW p \in Procs, proc'[p].pc \notin {"breaking", "spent"},
             \A q \in Procs \ {p} : proc'[q] = proc[q]
      PROVE  Calm'
  BY <1>1 DEF Unlocked
<1>2. ASSUME NEW p \in Procs, Ends(p)
      PROVE  proc'[p].pc = "idle" /\ \A q \in Procs \ {p} : proc'[q] = proc[q]
  BY <1>2 DEF Ends, Idle
<1>3. ASSUME NEW p \in Procs, Resolve(p) \/ Save(p) \/ Remove(p) \/ UseVault(p, "file") \/ UseVault(p, "system")
      PROVE  Calm'
  <2>1. UNCHANGED <<torn, refused, lock>> /\ proc'[p].pc = "locking" /\ \A q \in Procs \ {p} : proc'[q] = proc[q]
    BY <1>3 DEF Resolve, Save, Remove, UseVault, Idle
  <2> QED
    BY <1>1, <2>1
<1>4. ASSUME NEW p \in Procs, Acquire(p) PROVE Calm'
  BY <1>4 DEF Acquire, Work
<1>5. ASSUME NEW p \in Procs, WaitsTooLong(p) PROVE Calm'
  BY <1>1, <1>2, <1>5 DEF WaitsTooLong
<1>6. ASSUME NEW p \in Procs, Renew(p) PROVE Calm'
  <2>1. CASE Goes(p, "asking") /\ UNCHANGED lock
    BY <1>1, <1>6, <2>1 DEF Renew, Goes, Work
  <2> QED
    BY <1>1, <1>2, <1>6, <2>1 DEF Renew, Unlock
\* The one that asks holds the lock, and has the token that is in the file.
<1>7. ASSUME NEW p \in Procs, At(p, "asking", {"renew"})
      PROVE  /\ proc[p].data.there = file.there /\ proc[p].data.token = file.token
             /\ file.there /\ file.token \in service.good
  <2>1. Works(p) /\ WorkFit(p)
    BY <1>7 DEF At, Works, Inside, Whole
  <2>2. /\ proc[p].data.there = file.there /\ proc[p].data.token = file.token /\ file.there
    BY <1>7, <2>1 DEF At, WorkFit, Same
  <2>3. \A q \in Procs : ~Spends(q)
    BY <1>7, <2>1, OneWorks DEF Spends, At, Works, Inside
  <2> QED
    BY <2>2, <2>3 DEF TokensFit
<1>8. ASSUME NEW p \in Procs, RefreshToken(p) PROVE Calm'
  <2>1. /\ proc' = [proc EXCEPT ![p].pc = "got", ![p].got = service.out + 1]
        /\ UNCHANGED <<refused, lock, torn>>
    BY <1>7, <1>8 DEF RefreshToken
  <2>2. proc'[p].pc = "got"
    BY <2>1 DEF Work
  <2> QED
    BY <1>1, <2>1, <2>2
<1>9. ASSUME NEW p \in Procs, Conceal(p) \/ ForgetRemoved(p) \/ Write(p) PROVE Calm'
  <2>1. UNCHANGED <<torn, refused, lock>> /\ proc'[p].pc \in {"writing", "written"}
        /\ \A q \in Procs \ {p} : proc'[q] = proc[q]
    BY <1>9 DEF Conceal, ForgetRemoved, Write, Work
  <2> QED
    BY <1>1, <2>1
<1>10. ASSUME NEW p \in Procs, MoveSecrets(p) PROVE Calm'
  <2>1. CASE Unlock(p)
    BY <1>1, <1>2, <1>10, <2>1 DEF MoveSecrets, Unlock
  <2>2. CASE ~Unlock(p)
    <3>1. UNCHANGED <<torn, refused, lock>> /\ proc'[p].pc = "writing"
          /\ \A q \in Procs \ {p} : proc'[q] = proc[q]
      BY <1>10, <2>2 DEF MoveSecrets, Work
    <3> QED
      BY <1>1, <3>1
  <2> QED
    BY <2>1, <2>2
<1>11. ASSUME NEW p \in Procs, ForgetReplaced(p) PROVE Calm'
  BY <1>1, <1>2, <1>11 DEF ForgetReplaced, Unlock
<1>12. ASSUME TimePasses \/ UNCHANGED vars PROVE Calm'
  BY <1>12 DEF TimePasses, vars
<1>13. ASSUME NEW p \in Procs, \/ SeesStale(p) \/ Break(p) \/ NeedsSignIn(p) \/ Unreachable(p)
                               \/ WriteFails(p) \/ Crash(p) \/ TurnsStale
       PROVE FALSE
  BY <1>13 DEF SeesStale, Break, NeedsSignIn, Unreachable, WriteFails, Crash, TurnsStale
<1>14. ASSUME TurnsStale PROVE FALSE
  BY <1>14 DEF TurnsStale
<1> QED
  BY <1>3, <1>4, <1>5, <1>6, <1>8, <1>9, <1>10, <1>11, <1>12, <1>13, <1>14 DEF Next

\* A step that gives out and uses up no token.
LEMMA NextTokens ==
  ASSUME TypeOK, Sound, Orderly, [Next]_vars, mishaps' = 0
  PROVE  TokensFit'
<1>0. mishaps = 0 /\ Calm /\ TokensFit /\ Whole /\ proc \in [Procs -> Work]
      /\ service.out \in Nat /\ service.good \in SUBSET Nat
  BY Grows, LoginsAssumption DEF Orderly, Sound, Calm, TypeOK
<1> USE <1>0
\* A step of one process that leaves service and file, and begins nothing new.
<1>1. ASSUME UNCHANGED service, file'.token = file.token, file'.there = file.there,
             NEW p \in Procs, \A q \in Procs \ {p} : proc'[q] = proc[q],
             New(p)' => New(p) /\ proc'[p].got = proc[p].got, Spends(p) => Spends(p)'
      PROVE  TokensFit'
  BY <1>1 DEF TokensFit, New, Spends
<1>2. ASSUME NEW p \in Procs, Ends(p)
      PROVE  /\ ~New(p)' /\ \A q \in Procs \ {p} : proc'[q] = proc[q]
  BY <1>2 DEF Ends, Idle, New
<1>3. ASSUME NEW p \in Procs, Save(p) PROVE TokensFit'
  <2>1. /\ service'.out = service.out + 1 /\ service'.good = service.good \cup {service.out + 1}
        /\ file' = file /\ ~Spends(p) /\ proc'[p].got = service.out + 1
        /\ \A q \in Procs \ {p} : proc'[q] = proc[q]
    BY <1>3 DEF Save, GivesOut, Idle, Spends
  <2>2. file.token \in 0..service.out /\ service.good \subseteq 1..service.out
    BY DEF TokensFit
  <2>3. \A q \in Procs : New(q)' =>
          IF q = p THEN proc'[q].got = service.out + 1 ELSE New(q) /\ proc'[q].got = proc[q].got
    BY <2>1 DEF New
  <2>4. \A q \in Procs : Spends(q) => Spends(q)'
    BY <2>1 DEF Spends
  <2>5. /\ service'.good \subseteq 1..service'.out /\ file'.token \in 0..service'.out
        /\ service.good \subseteq service'.good /\ service.out + 1 \in service'.good
        /\ service.out + 1 \notin service.good /\ service.out + 1 # file.token
    BY <2>1, <2>2
  <2>6. file'.there => file'.token \in service'.good \/ \E q \in Procs : Spends(q)'
    BY <2>1, <2>4, <2>5 DEF TokensFit
  <2>7. ASSUME NEW q \in Procs, New(q)'
        PROVE  proc'[q].got \in service'.good /\ (file'.there => proc'[q].got # file'.token)
    BY <2>1, <2>3, <2>5, <2>7 DEF TokensFit
  <2>8. ASSUME NEW q \in Procs, NEW r \in Procs, New(q)', New(r)', q # r PROVE proc'[q].got # proc'[r].got
    BY <2>3, <2>5, <2>8 DEF TokensFit
  <2> QED
    BY <2>5, <2>6, <2>7, <2>8 DEF TokensFit
<1>4. ASSUME NEW p \in Procs, Resolve(p) \/ Remove(p) \/ UseVault(p, "file") \/ UseVault(p, "system")
      PROVE  TokensFit'
  <2>1. /\ UNCHANGED <<service, file>> /\ \A q \in Procs \ {p} : proc'[q] = proc[q]
        /\ proc[p].pc = "idle" /\ proc'[p].pc = "locking" /\ proc'[p].op \in {"renew", "remove", "file", "system"}
    BY <1>4 DEF Resolve, Remove, UseVault, Idle
  <2> QED
    BY <1>1, <2>1 DEF New, Spends
<1>5. ASSUME NEW p \in Procs, Acquire(p) PROVE TokensFit'
  <2>1. /\ UNCHANGED <<service, file>> /\ \A q \in Procs \ {p} : proc'[q] = proc[q]
        /\ proc[p].pc = "locking" /\ proc'[p].pc = "locked"
        /\ proc'[p].op = proc[p].op /\ proc'[p].got = proc[p].got
    BY <1>5 DEF Acquire, Work
  <2> QED
    BY <1>1, <2>1 DEF New, Spends
<1>6. ASSUME NEW p \in Procs, WaitsTooLong(p) PROVE TokensFit'
  BY <1>1, <1>2, <1>6 DEF WaitsTooLong, Spends
<1>7. ASSUME NEW p \in Procs, Renew(p) PROVE TokensFit'
  <2>1. CASE Goes(p, "asking")
    <3>1. \A q \in Procs \ {p} : proc'[q] = proc[q]
      BY <2>1 DEF Goes
    <3>2. proc'[p].pc = "asking" /\ proc'[p].op = "renew" 
      BY <1>7, <2>1 DEF Goes, Renew, At, Work
    <3> QED
      BY <1>1, <1>7, <3>1, <3>2 DEF Renew, At, New, Spends
  <2>2. CASE Ends(p)
    BY <1>1, <1>2, <1>7, <2>2 DEF Renew, At, Spends
  <2> QED
    BY <1>7, <2>1, <2>2 DEF Renew, Unlock
<1>8. ASSUME NEW p \in Procs, Works(p)
      PROVE  WorkFit(p) /\ \A q \in Procs \ {p} : ~Works(q) /\ ~Spends(q)
  BY <1>8, OneWorks DEF Whole, Works, Spends, Inside
<1>9. ASSUME NEW p \in Procs, RefreshToken(p) PROVE TokensFit'
  <2>1. Works(p) /\ ~Spends(p) /\ proc[p].pc = "asking" /\ proc[p].op = "renew"
    BY <1>9 DEF RefreshToken, At, Works, Inside, Spends
  <2>2. proc[p].data.token = file.token /\ file.there /\ file.token \in service.good
    BY <1>8, <2>1 DEF WorkFit, Same, TokensFit
  <2>3. /\ service'.out = service.out + 1 /\ service'.good = (service.good \ {file.token}) \cup {service.out + 1}
        /\ file' = file /\ proc' = [proc EXCEPT ![p].pc = "got", ![p].got = service.out + 1]
    BY <1>9, <2>2 DEF RefreshToken, GivesOut
  <2>4. /\ proc'[p].got = service.out + 1 /\ proc'[p].pc = "got" /\ proc'[p].op = "renew"
        /\ \A q \in Procs \ {p} : proc'[q] = proc[q]
    BY <2>1, <2>3 DEF Work
  <2>5. file.token \in 0..service.out /\ service.good \subseteq 1..service.out
    BY DEF TokensFit
  <2>6. \A q \in Procs : New(q)' =>
          IF q = p THEN proc'[q].got = service.out + 1 ELSE New(q) /\ proc'[q].got = proc[q].got
    BY <2>4 DEF New
  <2>7. Spends(p)'
    BY <2>4 DEF Spends
  <2>8. /\ service'.good \subseteq 1..service'.out /\ file'.token \in 0..service'.out
        /\ service.good \ {file.token} \subseteq service'.good /\ service.out + 1 \in service'.good
        /\ service.out + 1 \notin service.good /\ service.out + 1 # file.token
    BY <2>2, <2>3, <2>5
  <2>9. ASSUME NEW q \in Procs, New(q)'
        PROVE  proc'[q].got \in service'.good /\ (file'.there => proc'[q].got # file'.token)
    BY <2>2, <2>3, <2>6, <2>8, <2>9 DEF TokensFit
  <2>10. ASSUME NEW q \in Procs, NEW r \in Procs, New(q)', New(r)', q # r PROVE proc'[q].got # proc'[r].got
    BY <2>6, <2>8, <2>10 DEF TokensFit
  <2> QED
    BY <2>7, <2>8, <2>9, <2>10 DEF TokensFit
<1>10. ASSUME NEW p \in Procs, Conceal(p) PROVE TokensFit'
  <2>1. /\ UNCHANGED <<service, file>> /\ \A q \in Procs \ {p} : proc'[q] = proc[q]
        /\ proc'[p].pc = "writing" /\ proc'[p].op = proc[p].op /\ proc'[p].got = proc[p].got
    BY <1>10 DEF Conceal, Work
  <2> QED
    BY <1>1, <1>10, <2>1 DEF Conceal, At, New, Spends
<1>11. ASSUME NEW p \in Procs, ForgetRemoved(p) PROVE TokensFit'
  <2>1. /\ UNCHANGED <<service, file>> /\ \A q \in Procs \ {p} : proc'[q] = proc[q]
        /\ proc[p].op = "remove" /\ proc'[p].op = "remove"
    BY <1>11 DEF ForgetRemoved, At, Work
  <2> QED
    BY <1>1, <2>1 DEF New, Spends
<1>12. ASSUME NEW p \in Procs, MoveSecrets(p) PROVE TokensFit'
  <2>1. UNCHANGED <<service, file>> /\ ~Spends(p)
    BY <1>12 DEF MoveSecrets, At, Spends
  <2>2. CASE Unlock(p)
    BY <1>1, <1>2, <2>1, <2>2 DEF Unlock
  <2>3. CASE ~Unlock(p)
    <3>1. /\ \A q \in Procs \ {p} : proc'[q] = proc[q]
          /\ proc'[p].op \in {"system", "file"}
      BY <1>12, <2>3 DEF MoveSecrets, At, Work
    <3> QED
      BY <1>1, <2>1, <3>1 DEF New
  <2> QED
    BY <2>2, <2>3
<1>13. ASSUME NEW p \in Procs, Write(p) PROVE TokensFit'
  <2>1. /\ Works(p) /\ WorkFit(p) /\ \A q \in Procs \ {p} : ~Spends(q)
        /\ proc[p].pc = "writing" /\ proc[p].op \in {"renew", "save", "remove", "system", "file"}
    <3>1. Works(p) /\ proc[p].pc = "writing"
      BY <1>13 DEF Write, Works, Inside
    <3> QED
      BY <1>8, <3>1 DEF WorkFit, Work
  <2>2. /\ UNCHANGED service /\ file' = proc[p].data /\ \A q \in Procs \ {p} : proc'[q] = proc[q]
        /\ proc'[p].pc = "written"
    BY <1>13 DEF Write, Work
  <2>3. \A q \in Procs : New(q)' => q # p /\ New(q) /\ proc'[q].got = proc[q].got
    BY <2>2 DEF New
  <2>5. CASE proc[p].op \in {"renew", "save"}
    <3>1. New(p) /\ file'.token = proc[p].got /\ file'.there
      BY <2>1, <2>2, <2>5 DEF New, WorkFit
    <3>2. file'.token \in service'.good /\ service'.good \subseteq 1..service'.out
      BY <2>2, <3>1 DEF TokensFit
    <3>3. file'.token \in 0..service'.out
      BY <2>2, <3>2
    <3>4. ASSUME NEW q \in Procs, New(q)'
          PROVE  proc'[q].got \in service'.good /\ proc'[q].got # file'.token
      BY <2>2, <2>3, <3>1, <3>4 DEF TokensFit
    <3>5. ASSUME NEW q \in Procs, NEW r \in Procs, New(q)', New(r)', q # r PROVE proc'[q].got # proc'[r].got
      BY <2>3, <3>5 DEF TokensFit
    <3> QED
      BY <3>2, <3>3, <3>4, <3>5 DEF TokensFit
  <2>6. CASE proc[p].op = "remove"
    BY <2>1, <2>2, <2>3, <2>6 DEF TokensFit, WorkFit
  <2>7. CASE proc[p].op \in {"system", "file"}
    BY <2>1, <2>2, <2>3, <2>7 DEF TokensFit, WorkFit, Spends
  <2> QED
    BY <2>1, <2>5, <2>6, <2>7
<1>14. ASSUME NEW p \in Procs, ForgetReplaced(p) PROVE TokensFit'
  BY <1>1, <1>2, <1>14 DEF ForgetReplaced, Unlock, Spends
<1>15. ASSUME TimePasses \/ UNCHANGED vars PROVE TokensFit'
  <2>1. UNCHANGED <<service, proc>> /\ file'.token = file.token /\ file'.there = file.there
    BY <1>15 DEF TimePasses, vars, TypeOK, Login
  <2> QED
    BY <2>1 DEF TokensFit, New, Spends
<1>16. ASSUME \/ TurnsStale
              \/ \E p \in Procs : SeesStale(p) \/ Break(p) \/ NeedsSignIn(p) \/ Unreachable(p)
                                 \/ WriteFails(p) \/ Crash(p)
       PROVE  FALSE
  <2>1. mishaps \in Nat
    BY LoginsAssumption DEF TypeOK
  <2> QED
    BY <1>16, <2>1 DEF SeesStale, Break, NeedsSignIn, Unreachable, WriteFails, Crash, TurnsStale, Calm
<1> QED
  BY <1>3, <1>4, <1>5, <1>6, <1>7, <1>9, <1>10, <1>11, <1>12, <1>13, <1>14, <1>15, <1>16 DEF Next
-----------------------------------------------------------------------------
LEMMA StartsFit == ASSUME Init PROVE Sound /\ Orderly
<1>1. \A p \in Procs : proc[p].pc = "idle"
  BY DEF Init, Idle
<1>2. Whole
  BY <1>1 DEF Init, Whole, Works, Inside, Empty
<1>3. Calm
  BY <1>1 DEF Init, Calm, Unlocked
<1>4. TokensFit
  BY <1>1 DEF Init, TokensFit, New, Empty
<1> QED
  BY <1>2, <1>3, <1>4 DEF Sound, Orderly

LEMMA NextOrderly ==
  ASSUME TypeOK, Sound, Orderly, [Next]_vars
  PROVE  Orderly'
BY NextCalm, NextTokens DEF Orderly

\* Every variable keeps its type.
THEOREM TypeCorrect == Spec => []TypeOK
<1>1. Init => TypeOK
  BY StartsTyped
<1>2. TypeOK /\ [Next]_vars => TypeOK'
  BY NextTyped
<1> QED
  BY <1>1, <1>2, PTL DEF Spec

\* The work under the lock fits the file, as long as no process was torn away from it; and as
\* long as nothing went wrong the service would renew the login in the file, and what it gave out
\* since is known to one process each (credential-store.js 79-81, 284).
THEOREM WorkFits == Spec => [](Sound /\ Orderly)
<1>1. Init => Sound /\ Orderly
  BY StartsFit
<1>2. TypeOK /\ Sound /\ Orderly /\ [Next]_vars => (Sound /\ Orderly)'
  BY NextSound, NextOrderly
<1> QED
  BY <1>1, <1>2, TypeCorrect, PTL DEF Spec

\* The service is never given a refresh token that was spent, as long as nothing goes wrong; and
\* the login in the file can be read, unless a process stopped between forgetting the old item
\* and writing the file (credential-store.js 79-81, 284).
THEOREM LoginsAreKept == Spec => []LoginsKept
<1>1. TypeOK /\ Sound /\ Orderly => LoginsKept
  <2> SUFFICES ASSUME TypeOK, Sound, Orderly PROVE LoginsKept
    OBVIOUS
  <2>1. SpentOnce
    <3>1. mishaps \in Nat
      BY LoginsAssumption DEF TypeOK
    <3> QED
      BY <3>1 DEF Orderly, Calm, SpentOnce
  <2>2. StaysReadable
    BY DEF Sound, Whole, StaysReadable, Forgets
  <2> QED
    BY <2>1, <2>2 DEF LoginsKept
<1> QED
  BY <1>1, TypeCorrect, WorkFits, PTL
=============================================================================

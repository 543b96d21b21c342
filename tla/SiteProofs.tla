------------------------------- MODULE SiteProofs -------------------------------
(***************************************************************************)
(* Proofs about Site, whose parts take their steps in any order, for any   *)
(* accounts, devices, modules, cards, nodes, names and numbers of rows.    *)
(***************************************************************************)
EXTENDS Site, FiniteSetTheorems, SequenceTheorems, WellFoundedInduction, TLAPS

-----------------------------------------------------------------------------
(* What a step of the site is to each part. *)
LEMMA CombosMove ==
  ASSUME Next
  PROVE  ComboStep \/ (\E u \in Users : CombosLose(u)) \/ combo' = combo
  BY Zenon DEF Next, PartStep, LimitStep, DeleteUser, Restart
LEMMA BackupsMove ==
  ASSUME Next
  PROVE  BackupStep \/ (\E u \in Users : OpsLose(u)) \/ UNCHANGED backups
<1>1. ASSUME OpsStep
      PROVE  BackupStep \/ UNCHANGED backups
  BY <1>1, Zenon DEF OpsStep, IncidentStep, StateStep
<1>2. UNCHANGED ops => UNCHANGED backups
  BY DEF ops
<1> QED BY <1>1, <1>2, Zenon DEF Next, PartStep, DeleteUser, Restart
LEMMA NodesMove ==
  ASSUME Next
  PROVE  \/ RegistryStep /\ UNCHANGED nodes
         \/ NodeStep
         \/ UNCHANGED <<module, nodes>>
<1>1. CardStep => UNCHANGED module
  BY DEF CardStep
<1> QED BY <1>1, Zenon DEF Next, PartStep, DeleteUser, Restart

-----------------------------------------------------------------------------
(* Device combos. *)
ComboTypes == combo \in [Pairs -> ComboRows]

LEMMA ComboRow ==
  /\ NoCombo \in ComboRows
  /\ \A h \in {"none", "set", "empty"}, f \in 0..MaxFailures, l \in {"null", "running", "over"} :
       [hash |-> h, failures |-> f, lock |-> l] \in ComboRows
  BY CombosConstants DEF CombosConstants, NoCombo, ComboRows
LEMMA LockOnly ==
  ASSUME NEW x \in ComboRows, NEW l
  PROVE  [x EXCEPT !.lock = l] = [hash |-> x.hash, failures |-> x.failures, lock |-> l]
  BY DEF ComboRows

(* What a request, or the clock, does to one row. *)
Renewed(p) ==
  \E h \in {"set", "empty"} :
    combo' = [combo EXCEPT ![p] = [hash |-> h, failures |-> 0, lock |-> "null"]]
Guessed(p) ==
  /\ combo[p].lock # "running" /\ combo[p].failures + 1 <= MaxFailures
  /\ combo' = [combo EXCEPT ![p] =
       [hash |-> "set", failures |-> combo[p].failures + 1,
        lock |-> Locked(combo[p].failures + 1)]]
Clocked(p) ==
  /\ combo[p].lock # "null"
  /\ combo' = [combo EXCEPT ![p] =
       [hash |-> combo[p].hash, failures |-> combo[p].failures,
        lock |-> IF combo[p].lock = "running" THEN "over" ELSE "running"]]

LEMMA ComboEffect ==
  ASSUME ComboTypes, ComboStep
  PROVE  \E p \in Pairs : Renewed(p) \/ Guessed(p) \/ Clocked(p)
<1>1. ASSUME NEW u \in Users, NEW d \in Devices,
             SetRoute(u, d) \/ VerifyRoute(u, d) \/ ResetRoute(u, d)
      PROVE  Renewed(<<u, d>>) \/ Guessed(<<u, d>>)
  BY <1>1 DEF SetRoute, SetCombo, VerifyRoute, VerifyCombo, ResetRoute, ResetCombo, Renewed,
     Guessed
<1>2. ASSUME NEW p \in Pairs, ClockMoves(p)
      PROVE  Clocked(p)
  <2> DEFINE l == IF combo[p].lock = "running" THEN "over" ELSE "running"
  <2>1. combo' = [combo EXCEPT ![p] = [combo[p] EXCEPT !.lock = l]]
    BY <1>2, Zenon DEF ClockMoves
  <2>2. [combo[p] EXCEPT !.lock = l] =
          [hash |-> combo[p].hash, failures |-> combo[p].failures, lock |-> l]
    <3>1. combo[p] \in ComboRows
      BY DEF ComboTypes
    <3> HIDE DEF l
    <3> QED BY <3>1, LockOnly
  <2> QED BY <1>2, <2>1, <2>2, Zenon DEF ClockMoves, Clocked
<1>3. \A u \in Users, d \in Devices : <<u, d>> \in Pairs
  BY DEF Pairs
<1> QED BY <1>1, <1>2, <1>3, Zenon DEF ComboStep

LEMMA ComboTypesNext ==
  ASSUME ComboTypes, [Next]_vars
  PROVE  ComboTypes'
<1>1. CASE ComboStep
  <2>1. PICK p \in Pairs : Renewed(p) \/ Guessed(p) \/ Clocked(p)
    BY <1>1, ComboEffect
  <2>2. combo[p] \in ComboRows
    BY DEF ComboTypes
  <2>3. combo[p].failures \in 0..MaxFailures /\ combo[p].hash \in {"none", "set", "empty"}
    BY <2>2 DEF ComboRows
  <2>4. PICK x \in ComboRows : combo' = [combo EXCEPT ![p] = x]
    <3>1. CASE Renewed(p)
      <4>1. PICK h \in {"set", "empty"} :
              combo' = [combo EXCEPT ![p] = [hash |-> h, failures |-> 0, lock |-> "null"]]
        BY <3>1, Zenon DEF Renewed
      <4>2. 0 \in 0..MaxFailures /\ h \in {"none", "set", "empty"}
        BY CombosConstants DEF CombosConstants
      <4>3. [hash |-> h, failures |-> 0, lock |-> "null"] \in ComboRows
        BY <4>2, ComboRow
      <4> QED BY <4>1, <4>3, Zenon
    <3>2. CASE Guessed(p)
      <4>1. combo[p].failures + 1 \in 0..MaxFailures
        BY <2>3, <3>2, CombosConstants DEF CombosConstants, Guessed
      <4>2. Locked(combo[p].failures + 1) \in {"null", "running", "over"}
        BY DEF Locked
      <4> QED BY <3>2, <4>1, <4>2, ComboRow, Zenon DEF Guessed
    <3>3. CASE Clocked(p)
      <4>1. (IF combo[p].lock = "running" THEN "over" ELSE "running") \in {"null", "running", "over"}
        OBVIOUS
      <4> QED BY <2>3, <3>3, <4>1, ComboRow, Zenon DEF Clocked
    <3> QED BY <2>1, <3>1, <3>2, <3>3
  <2> QED BY <2>4 DEF ComboTypes
<1>2. ASSUME NEW u \in Users, CombosLose(u)
      PROVE  ComboTypes'
  BY <1>2, ComboRow DEF CombosLose, ComboTypes
<1>3. CASE combo' = combo
  BY <1>3 DEF ComboTypes, Pairs
<1>4. UNCHANGED vars => combo' = combo
  BY DEF vars
<1> QED BY <1>1, <1>2, <1>3, <1>4, CombosMove

-----------------------------------------------------------------------------
(* The ration of guesses. *)
LEMMA LeftIsNat ==
  ASSUME NEW x \in ComboRows
  PROVE  Left(x) \in Nat /\ x.failures \in Nat
  BY CombosConstants DEF CombosConstants, ComboRows, Left

LEMMA OneRow ==
  ASSUME ComboTypes, NEW p \in Pairs, NEW x \in ComboRows, combo' = [combo EXCEPT ![p] = x]
  PROVE  /\ [q \in Pairs |-> Left(combo[q])]' = [[q \in Pairs |-> Left(combo[q])] EXCEPT ![p] = Left(x)]
         /\ [q \in Pairs |-> combo[q].failures]' =
              [[q \in Pairs |-> combo[q].failures] EXCEPT ![p] = x.failures]
<1>1. Pairs' = Pairs
  BY DEF Pairs
<1>2. \A q \in Pairs : combo'[q] = IF q = p THEN x ELSE combo[q]
  BY DEF ComboTypes
<1>3. \A q \in Pairs : Left(combo[q])' = IF q = p THEN Left(x) ELSE Left(combo[q])
  BY <1>2 DEF Left
<1>4. \A q \in Pairs : (combo[q].failures)' = IF q = p THEN x.failures ELSE combo[q].failures
  BY <1>2
<1>5. [q \in Pairs |-> Left(combo[q])]' = [[q \in Pairs |-> Left(combo[q])] EXCEPT ![p] = Left(x)]
  BY <1>1, <1>3
<1>6. [q \in Pairs |-> combo[q].failures]' =
        [[q \in Pairs |-> combo[q].failures] EXCEPT ![p] = x.failures]
  BY <1>1, <1>4
<1> QED BY <1>5, <1>6

LEMMA RationStep ==
  ASSUME ComboTypes, [Next]_vars
  PROVE  \/ R!Next
         \/ UNCHANGED <<[p \in Pairs |-> Left(combo[p])], [p \in Pairs |-> combo[p].failures]>>
<1> DEFINE left == [p \in Pairs |-> Left(combo[p])]
           tried == [p \in Pairs |-> combo[p].failures]
<1>0. Pairs' = Pairs
  BY DEF Pairs
<1>1. CASE combo' = combo
  BY <1>0, <1>1 DEF Left
<1>2. ASSUME NEW u \in Users, CombosLose(u)
      PROVE  R!Next
  <2> DEFINE S == {p \in Pairs : p[1] = u}
  <2>1. \A p \in Pairs : combo'[p] = IF p \in S THEN NoCombo ELSE combo[p]
    BY <1>2 DEF CombosLose
  <2>2. Left(NoCombo) = LockAfter /\ NoCombo.failures = 0
    BY CombosConstants DEF CombosConstants, Left, NoCombo
  <2>3. left' = [p \in Pairs |-> IF p \in S THEN LockAfter ELSE left[p]]
    BY <1>0, <2>1, <2>2 DEF Left
  <2>4. tried' = [p \in Pairs |-> IF p \in S THEN 0 ELSE tried[p]]
    BY <1>0, <2>1, <2>2
  <2>5. R!Renew(S)
    BY <2>3, <2>4 DEF R!Renew
  <2>6. S \in SUBSET Pairs
    OBVIOUS
  <2> QED BY <2>5, <2>6, Zenon DEF R!Next
<1>3. CASE ComboStep
  <2>1. PICK p \in Pairs : Renewed(p) \/ Guessed(p) \/ Clocked(p)
    BY <1>3, ComboEffect
  <2>2. combo[p] \in ComboRows /\ left[p] = Left(combo[p]) /\ tried[p] = combo[p].failures
    BY DEF ComboTypes
  <2>3. combo[p].failures \in 0..MaxFailures /\ combo[p].hash \in {"none", "set", "empty"}
        /\ combo[p].lock \in {"null", "running", "over"}
    BY <2>2 DEF ComboRows
  <2>4. CASE Renewed(p)
    <3>1. PICK h \in {"set", "empty"} :
            combo' = [combo EXCEPT ![p] = [hash |-> h, failures |-> 0, lock |-> "null"]]
      BY <2>4 DEF Renewed
    <3> DEFINE x == [hash |-> h, failures |-> 0, lock |-> "null"]
    <3>2. x \in ComboRows /\ Left(x) = LockAfter /\ x.failures = 0
      <4>1. 0 \in 0..MaxFailures /\ h \in {"none", "set", "empty"}
        BY CombosConstants DEF CombosConstants
      <4>2. x.failures = 0 /\ x \in ComboRows
        BY <4>1, ComboRow
      <4> HIDE DEF x
      <4> QED BY <4>2, CombosConstants DEF CombosConstants, Left
    <3> HIDE DEF x
    <3>3. left' = [left EXCEPT ![p] = LockAfter] /\ tried' = [tried EXCEPT ![p] = 0]
      BY <3>1, <3>2, OneRow DEF x
    <3>4. left' = [q \in Pairs |-> IF q \in {p} THEN LockAfter ELSE left[q]]
          /\ tried' = [q \in Pairs |-> IF q \in {p} THEN 0 ELSE tried[q]]
      BY <3>3
    <3>5. R!Renew({p}) /\ {p} \in SUBSET Pairs
      BY <3>4 DEF R!Renew
    <3> QED BY <3>5, Zenon DEF R!Next
  <2>5. CASE Guessed(p)
    <3> DEFINE x == [hash |-> "set", failures |-> combo[p].failures + 1,
                     lock |-> Locked(combo[p].failures + 1)]
    <3>1. x \in ComboRows
      <4>1. combo[p].failures + 1 \in 0..MaxFailures
        BY <2>3, <2>5, CombosConstants DEF CombosConstants, Guessed
      <4>2. Locked(combo[p].failures + 1) \in {"null", "running", "over"}
        BY DEF Locked
      <4> QED BY <4>1, <4>2, ComboRow, Zenon
    <3>2. Left(combo[p]) > 0 /\ Left(x) = Left(combo[p]) - 1
      BY <2>3, <2>5, CombosConstants DEF CombosConstants, Guessed, Left, Locked
    <3>3. x.failures = combo[p].failures + 1 /\ combo' = [combo EXCEPT ![p] = x]
      BY <2>5 DEF Guessed
    <3> HIDE DEF x
    <3>4. left' = [left EXCEPT ![p] = Left(x)] /\ tried' = [tried EXCEPT ![p] = x.failures]
      BY <3>1, <3>3, OneRow
    <3>5. R!Guess(p)
      BY <2>2, <3>2, <3>3, <3>4 DEF R!Guess
    <3> QED BY <3>5, Zenon DEF R!Next
  <2>6. CASE Clocked(p)
    <3> DEFINE x == [hash |-> combo[p].hash, failures |-> combo[p].failures,
                     lock |-> IF combo[p].lock = "running" THEN "over" ELSE "running"]
    <3>1. x \in ComboRows
      BY <2>3, ComboRow
    <3>2. x.failures = combo[p].failures /\ combo' = [combo EXCEPT ![p] = x]
      BY <2>6 DEF Clocked
    <3>3. \/ Left(x) = Left(combo[p])
          \/ Left(combo[p]) = 0 /\ Left(x) = 1
          \/ Left(combo[p]) = 1 /\ Left(x) = 0 /\ combo[p].failures >= LockAfter
      BY <2>3, CombosConstants DEF CombosConstants, Left
    <3> HIDE DEF x
    <3>4. left' = [left EXCEPT ![p] = Left(x)] /\ tried' = [tried EXCEPT ![p] = x.failures]
      BY <3>1, <3>2, OneRow
    <3>5. tried' = tried
      BY <2>2, <3>2, <3>4
    <3>6. CASE Left(x) = Left(combo[p])
      <4>1. left' = left
        BY <2>2, <3>4, <3>6
      <4> QED BY <3>5, <4>1
    <3>7. CASE Left(combo[p]) = 0 /\ Left(x) = 1
      <4>1. R!Wait(p)
        BY <2>2, <3>4, <3>5, <3>7 DEF R!Wait
      <4> QED BY <4>1, Zenon DEF R!Next
    <3>8. CASE Left(combo[p]) = 1 /\ Left(x) = 0 /\ combo[p].failures >= LockAfter
      <4>1. R!Delay(p)
        BY <2>2, <3>4, <3>5, <3>8 DEF R!Delay
      <4> QED BY <4>1, Zenon DEF R!Next
    <3> QED BY <3>3, <3>6, <3>7, <3>8
  <2> QED BY <2>1, <2>4, <2>5, <2>6
<1>4. UNCHANGED vars => combo' = combo
  BY DEF vars
<1> QED BY <1>1, <1>2, <1>3, <1>4, CombosMove

LEMMA ComboInit ==
  ASSUME Init
  PROVE  ComboTypes /\ R!Init
<1>1. combo = [p \in Pairs |-> NoCombo]
  BY DEF Init, CombosInit
<1>2. Left(NoCombo) = LockAfter /\ NoCombo.failures = 0
  BY CombosConstants DEF CombosConstants, Left, NoCombo
<1>3. [p \in Pairs |-> Left(combo[p])] = [p \in Pairs |-> LockAfter]
      /\ [p \in Pairs |-> combo[p].failures] = [p \in Pairs |-> 0]
  BY <1>1, <1>2
<1> QED BY <1>1, <1>3, ComboRow DEF ComboTypes, R!Init

(* The combos of the whole server implement the ration of guesses, however *)
(* many failures lock one.                                                 *)
THEOREM RationCorrect == Spec => ImplementsRation
<1>1. Init => ComboTypes /\ R!Init
  BY ComboInit
<1>2. ComboTypes /\ [Next]_vars => ComboTypes'
  BY ComboTypesNext
<1>3. ComboTypes /\ [Next]_vars =>
        [R!Next]_<<[p \in Pairs |-> Left(combo[p])], [p \in Pairs |-> combo[p].failures]>>
  BY RationStep
<1> QED BY <1>1, <1>2, <1>3, PTL DEF Spec, ImplementsRation, R!Spec

-----------------------------------------------------------------------------
(* Backups.  A file is never newer than the database, so that a second     *)
(* copy under a name holds no less than the first.                         *)
BackupTypes ==
  /\ now \in Times /\ data \in 1..MaxData /\ file \in [Times -> 0..MaxData]
  /\ backup \in [Times -> BackupRows]
BackupInv ==
  /\ BackupTypes
  /\ \A t \in Times : file[t] <= data
  /\ BackupsRestore

LEMMA ActorOnly ==
  ASSUME NEW x \in BackupRows, NEW v
  PROVE  [x EXCEPT !.actor = v] = [status |-> x.status, sum |-> x.sum, actor |-> v]
  BY DEF BackupRows

LEMMA OpsLoseBackups ==
  ASSUME BackupTypes, NEW u \in Users, OpsLose(u)
  PROVE  /\ BackupTypes' /\ UNCHANGED <<now, data, file, reused>>
         /\ \A t \in Times : /\ backup'[t].status = backup[t].status
                             /\ backup'[t].sum = backup[t].sum
<1> DEFINE v(t) == IF backup[t].actor = u THEN NoUser ELSE backup[t].actor
<1>1. UNCHANGED <<now, data, file, reused>>
  BY Zenon DEF OpsLose
<1>2. backup' = [t \in Times |-> [backup[t] EXCEPT !.actor = v(t)]]
  BY Zenon DEF OpsLose
<1>3. ASSUME NEW t \in Times
      PROVE  /\ backup'[t] = [status |-> backup[t].status, sum |-> backup[t].sum, actor |-> v(t)]
             /\ backup'[t] \in BackupRows
  <2>1. backup[t] \in BackupRows
    BY DEF BackupTypes
  <2>2. v(t) \in Somebody
    BY <2>1 DEF BackupRows, Somebody
  <2> HIDE DEF v
  <2>3. backup'[t] = [backup[t] EXCEPT !.actor = v(t)]
    BY <1>2, Zenon
  <2>4. backup'[t] = [status |-> backup[t].status, sum |-> backup[t].sum, actor |-> v(t)]
    BY <2>1, <2>3, ActorOnly
  <2> QED BY <2>1, <2>2, <2>4 DEF BackupRows
<1> HIDE DEF v
<1>4. backup' \in [Times -> BackupRows]
  BY <1>2, <1>3
<1> QED BY <1>1, <1>3, <1>4 DEF BackupTypes

(* What an attempt leaves in the history. *)
LEMMA RecordedEffect ==
  ASSUME BackupTypes, NEW u \in Users, NEW state \in {"dry_run", "completed"},
         NEW sum \in 0..MaxData, Recorded(u, state, sum)
  PROVE  /\ backup' \in [Times -> BackupRows]
         /\ \A t \in Times : t # now => backup'[t] = backup[t] /\ (t \in reused' <=> t \in reused)
         /\ \/ backup[now].status = "none" /\ backup'[now].status = state /\ backup'[now].sum = sum
            \/ backup'[now] = backup[now] /\ now \in reused' /\ backup[now].status # "none"
<1> DEFINE x == [status |-> state, sum |-> sum, actor |-> u]
<1>1. x \in BackupRows
  BY DEF BackupRows, Somebody
<1> QED BY <1>1 DEF Recorded, BackupTypes

LEMMA BackupNext ==
  ASSUME BackupInv, [Next]_vars
  PROVE  BackupInv'
<1>0. /\ MaxData \in Nat /\ now \in Times /\ data \in Nat /\ data \in 0..MaxData
      /\ \A t \in Times : file[t] \in Nat /\ backup[t].sum \in Nat
  BY OpsConstants DEF OpsConstants, BackupInv, BackupTypes, BackupRows
<1>1. ASSUME NEW u \in Users, CreateBackup(u)
      PROVE  BackupInv'
  <2>1. file' = [file EXCEPT ![now] = data] /\ now' = now /\ data' = data
    BY <1>1 DEF CreateBackup, Copied
  <2>2. /\ backup' \in [Times -> BackupRows]
        /\ \A t \in Times : t # now => backup'[t] = backup[t] /\ (t \in reused' <=> t \in reused)
        /\ \/ /\ backup[now].status = "none"
              /\ backup'[now].status = "completed" /\ backup'[now].sum = data
           \/ backup'[now] = backup[now] /\ now \in reused' /\ backup[now].status # "none"
    BY <1>0, <1>1, RecordedEffect DEF CreateBackup, BackupInv
  <2>3. BackupTypes' /\ \A t \in Times : file'[t] <= data'
    <3>1. file' \in [Times -> 0..MaxData] /\ \A t \in Times : file'[t] <= data
      BY <1>0, <2>1 DEF BackupInv, BackupTypes
    <3> QED BY <2>1, <2>2, <3>1 DEF BackupInv, BackupTypes
  <2>4. data # 0
    BY DEF BackupInv, BackupTypes
  <2>5. BackupsRestore'
    BY <1>0, <2>1, <2>2, <2>4 DEF BackupInv, BackupTypes, BackupsRestore, Offered
  <2> QED BY <2>3, <2>5 DEF BackupInv
<1>2. ASSUME NEW u \in Users, BackupCut(u)
      PROVE  BackupInv'
  <2>1. /\ file' = [file EXCEPT ![now] = data] /\ UNCHANGED <<now, data, backup>>
        /\ reused' = IF backup[now].status = "none" THEN reused ELSE reused \cup {now}
    BY <1>2 DEF BackupCut, Copied
  <2>2. BackupTypes' /\ \A t \in Times : file'[t] <= data'
    BY <1>0, <2>1 DEF BackupInv, BackupTypes
  <2>3. data # 0
    BY DEF BackupInv, BackupTypes
  <2>4. BackupsRestore'
    BY <1>0, <2>1, <2>3 DEF BackupInv, BackupTypes, BackupsRestore, Offered
  <2> QED BY <2>2, <2>4 DEF BackupInv
<1>3. ASSUME NEW u \in Users, DryRun(u)
      PROVE  BackupInv'
  <2>1. UNCHANGED <<now, data, file>>
    BY <1>3 DEF DryRun
  <2>2. /\ backup' \in [Times -> BackupRows]
        /\ \A t \in Times : t # now => backup'[t] = backup[t] /\ (t \in reused' <=> t \in reused)
        /\ \/ backup'[now].status = "dry_run"
           \/ backup'[now] = backup[now] /\ now \in reused' /\ backup[now].status # "none"
    BY <1>0, <1>3, RecordedEffect DEF DryRun, BackupInv
  <2>3. BackupTypes' /\ \A t \in Times : file'[t] <= data'
    BY <2>1, <2>2 DEF BackupInv, BackupTypes
  <2>4. BackupsRestore'
    BY <1>0, <2>1, <2>2 DEF BackupInv, BackupTypes, BackupsRestore, Offered
  <2> QED BY <2>3, <2>4 DEF BackupInv
<1>4. CASE SetClock
  BY <1>4 DEF SetClock, BackupInv, BackupTypes, BackupsRestore, Offered
<1>5. CASE Write
  <2>1. data' = data + 1 /\ data < MaxData /\ UNCHANGED <<now, file, backup, reused>>
    BY <1>5 DEF Write
  <2>2. data' \in 1..MaxData /\ data <= data'
    BY <1>0, <2>1
  <2>3. BackupTypes'
    BY <2>1, <2>2 DEF BackupInv, BackupTypes
  <2>4. \A t \in Times : file'[t] <= data'
    BY <1>0, <2>1, <2>2 DEF BackupInv
  <2> QED BY <2>1, <2>3, <2>4 DEF BackupInv, BackupsRestore, Offered
<1>6. ASSUME NEW u \in Users, OpsLose(u)
      PROVE  BackupInv'
  <2>1. /\ BackupTypes' /\ UNCHANGED <<now, data, file, reused>>
        /\ \A t \in Times : /\ backup'[t].status = backup[t].status
                            /\ backup'[t].sum = backup[t].sum
    BY <1>6, OpsLoseBackups DEF BackupInv
  <2> QED BY <2>1 DEF BackupInv, BackupsRestore, Offered
<1>7. ASSUME UNCHANGED backups
      PROVE  BackupInv'
  BY <1>7 DEF backups, BackupInv, BackupTypes, BackupsRestore, Offered
<1>8. UNCHANGED vars => UNCHANGED backups
  BY DEF vars, ops
<1>9. BackupStep => BackupInv'
  BY <1>1, <1>2, <1>3, <1>4, <1>5, Zenon DEF BackupStep, BackupRoute, DryRunRoute
<1> QED BY <1>6, <1>7, <1>8, <1>9, BackupsMove, Zenon

LEMMA BackupInit == ASSUME Init PROVE BackupInv
<1>1. NoBackup \in BackupRows /\ NoBackup.status = "none"
  BY OpsConstants DEF OpsConstants, NoBackup, BackupRows, Somebody
<1> QED BY <1>1, OpsConstants DEF OpsConstants, Init, OpsInit, BackupInv, BackupTypes,
           BackupsRestore, Offered

(* Whatever was cut short and however the clock was set, a backup that the *)
(* history calls completed can be restored from, and is not older than it  *)
(* says.                                                                   *)
THEOREM BackupsCorrect == Spec => []BackupsRestore
<1>1. Init => BackupInv
  BY BackupInit
<1>2. BackupInv /\ [Next]_vars => BackupInv'
  BY BackupNext
<1>3. BackupInv => BackupsRestore
  BY DEF BackupInv
<1> QED BY <1>1, <1>2, <1>3, PTL DEF Spec

-----------------------------------------------------------------------------
(* Edge nodes.  Modules of active deployments are different, so that there *)
(* are no more active deployments than modules they are on.                *)
NodeTypesOK ==
  /\ deployment \in [DeploymentIds -> DeploymentRows]
  /\ lastDeployment \in 0..MaxDeployments
Distinct ==
  \A i, j \in ActiveDeployments : deployment[i].module = deployment[j].module => i = j
NodeInv ==
  /\ NodeTypesOK /\ Distinct
  /\ \A i \in DeploymentIds : i > lastDeployment => deployment[i].status = "none"

LEMMA DeploymentStatus ==
  ASSUME NEW x \in DeploymentRows, NEW s
  PROVE  [x EXCEPT !.status = s] = [status |-> s, module |-> x.module, by |-> x.by]
  BY DEF DeploymentRows

LEMMA NodeNext ==
  ASSUME NodeInv, [Next]_vars
  PROVE  NodeInv'
<1>0. DeploymentIds' = DeploymentIds
  BY DEF DeploymentIds
<1>1. ASSUME UNCHANGED nodes
      PROVE  NodeInv'
  BY <1>0, <1>1 DEF nodes, NodeInv, NodeTypesOK, Distinct, ActiveDeployments
<1>2. ASSUME NEW u \in Users, NEW x \in EdgeModules, DeployNode(u, x)
      PROVE  NodeInv'
  <2> DEFINE n == lastDeployment + 1
             d == [status |-> "requested", module |-> x, by |-> u]
  <2>1. n \in DeploymentIds /\ n \in 0..MaxDeployments /\ lastDeployment \in Nat
    BY <1>2, NodesConstants DEF NodesConstants, DeployNode, DeploymentIds, NodeInv, NodeTypesOK
  <2>2. d \in DeploymentRows
    BY DEF DeploymentRows
  <2>3. deployment' = [deployment EXCEPT ![n] = d] /\ lastDeployment' = n
    BY <1>2 DEF DeployNode
  <2>4. NodeTypesOK'
    BY <1>0, <2>1, <2>2, <2>3 DEF NodeInv, NodeTypesOK
  <2>5. \A i \in DeploymentIds : i # n => deployment'[i] = deployment[i]
    BY <2>3 DEF NodeInv, NodeTypesOK
  <2>6. \A i \in ActiveDeployments : i # n => deployment[i].module # x
    BY <1>2 DEF DeployNode, Deployable
  <2>7. deployment'[n] = d
    BY <2>1, <2>3 DEF NodeInv, NodeTypesOK
  <2> HIDE DEF n
  <2>8. Distinct'
    BY <1>0, <2>5, <2>6, <2>7 DEF NodeInv, Distinct, ActiveDeployments
  <2>9. \A i \in DeploymentIds : i > lastDeployment' => deployment'[i].status = "none"
    BY <2>1, <2>3, <2>5 DEF NodeInv, DeploymentIds, n
  <2> QED BY <1>0, <2>4, <2>8, <2>9 DEF NodeInv
<1>3. ASSUME NEW i \in DeploymentIds, StopNode(i)
      PROVE  NodeInv'
  <2> DEFINE d == [status |-> "stopped", module |-> deployment[i].module, by |-> deployment[i].by]
  <2>1. deployment[i] \in DeploymentRows
    BY DEF NodeInv, NodeTypesOK
  <2>2. [deployment[i] EXCEPT !.status = "stopped"] = d
    BY <2>1, DeploymentStatus
  <2>3. deployment' = [deployment EXCEPT ![i] = [deployment[i] EXCEPT !.status = "stopped"]]
        /\ lastDeployment' = lastDeployment /\ deployment[i].status # "none"
    BY <1>3, Zenon DEF StopNode
  <2>4. d \in DeploymentRows /\ d.status = "stopped"
    BY <2>1 DEF DeploymentRows
  <2> HIDE DEF d
  <2>5. deployment' = [deployment EXCEPT ![i] = d]
    BY <2>2, <2>3, Zenon
  <2> QED BY <1>0, <2>3, <2>4, <2>5 DEF NodeInv, NodeTypesOK, Distinct, ActiveDeployments
<1>4. NodeStep => NodeInv'
  BY <1>2, <1>3, Zenon DEF NodeStep, StartDeployment, StopDeployment
<1>5. UNCHANGED <<module, nodes>> => NodeInv'
  BY <1>1
<1>6. UNCHANGED vars => UNCHANGED nodes
  BY DEF vars
<1> QED BY <1>1, <1>4, <1>5, <1>6, NodesMove

LEMMA NodeInit == ASSUME Init PROVE NodeInv
<1>1. NoDeployment \in DeploymentRows /\ NoDeployment.status = "none"
  BY DEF NoDeployment, DeploymentRows
<1> QED BY <1>1, NodesConstants DEF NodesConstants, Init, NodesInit, NodeInv, NodeTypesOK,
           Distinct, ActiveDeployments

LEMMA NodeCapacity ==
  ASSUME NodeInv
  PROVE  CapacityReachable
<1> SUFFICES ASSUME \A i \in ActiveDeployments : deployment[i].module \in Usable,
                    NEW x \in Usable, \A i \in ActiveDeployments : deployment[i].module # x
             PROVE  ActiveCount < EdgeLimit
  BY DEF CapacityReachable, EdgeCapabilities
<1>1. IsFiniteSet(Usable) /\ Cardinality(Usable) \in Nat /\ Cardinality(Usable) <= MaxEdge
  <2>1. Usable \in SUBSET EdgeModules
    BY DEF Usable
  <2>2. IsFiniteSet(EdgeModules) /\ Cardinality(EdgeModules) <= MaxEdge /\ MaxEdge \in Nat
    BY RegistryConstants DEF RegistryConstants
  <2>3. IsFiniteSet(Usable) /\ Cardinality(Usable) <= Cardinality(EdgeModules)
    BY <2>1, <2>2, FS_Subset
  <2>4. Cardinality(Usable) \in Nat /\ Cardinality(EdgeModules) \in Nat
    BY <2>2, <2>3, FS_CardinalityType
  <2> QED BY <2>2, <2>3, <2>4
<1>2. IsFiniteSet(Usable \ {x}) /\ Cardinality(Usable \ {x}) = Cardinality(Usable) - 1
  BY <1>1, FS_RemoveElement
<1> DEFINE f == [i \in ActiveDeployments |-> deployment[i].module]
<1>3. f \in Injection(ActiveDeployments, Usable \ {x})
  <2>1. \A i, j \in ActiveDeployments : f[i] = f[j] => i = j
    BY DEF NodeInv, Distinct
  <2>2. f \in [ActiveDeployments -> Usable \ {x}]
    OBVIOUS
  <2> QED BY <2>1, <2>2 DEF Injection, IsInjective
<1> HIDE DEF f
<1>4. IsFiniteSet(ActiveDeployments)
      /\ Cardinality(ActiveDeployments) <= Cardinality(Usable \ {x})
  BY <1>2, <1>3, FS_Injection
<1>5. Cardinality(ActiveDeployments) \in Nat /\ MaxEdge \in Nat
  BY <1>4, FS_CardinalityType, RegistryConstants DEF RegistryConstants
<1> QED BY <1>1, <1>2, <1>4, <1>5 DEF ActiveCount, EdgeLimit

(* A detected module without a deployment finds room, as long as the       *)
(* modules of the others are detected: two counts over two tables agree.   *)
THEOREM CapacityCorrect == Spec => []CapacityReachable
<1>1. Init => NodeInv
  BY NodeInit
<1>2. NodeInv /\ [Next]_vars => NodeInv'
  BY NodeNext
<1>3. NodeInv => CapacityReachable
  BY NodeCapacity
<1> QED BY <1>1, <1>2, <1>3, PTL DEF Spec

-----------------------------------------------------------------------------
(* Cards.  Their logs first, whichever they are: the last thing done to    *)
(* the card with this id was to enroll it or to turn it on.                *)
LastOpens(log, id) ==
  \E j \in 1..Len(log) :
    /\ log[j].card = id /\ log[j].kind \in {"enroll", "on"}
    /\ \A k \in 1..Len(log) : log[k].card = id /\ log[k].kind \in AdminKinds => k <= j
Explained(log) ==
  \A i \in 1..Len(log) :
    log[i].kind \in CardKinds /\ log[i].granted /\ log[i].card # 0 =>
      \E j \in 1..(i - 1) :
        /\ log[j].card = log[i].card /\ log[j].kind \in {"enroll", "on"}
        /\ \A k \in 1..(i - 1) : log[k].card = log[i].card /\ log[k].kind \in AdminKinds => k <= j

LEMMA AppendIs ==
  ASSUME NEW log \in Seq(EventRows), NEW e \in EventRows
  PROVE  /\ Append(log, e) \in Seq(EventRows)
         /\ Len(log) \in Nat /\ Len(Append(log, e)) = Len(log) + 1
         /\ Append(log, e)[Len(log) + 1] = e
         /\ \A i \in 1..Len(log) : Append(log, e)[i] = log[i]
  OBVIOUS

LEMMA AppendKeeps ==
  ASSUME NEW log \in Seq(EventRows), NEW e \in EventRows, Explained(log),
         e.kind \in CardKinds /\ e.granted /\ e.card # 0 => LastOpens(log, e.card)
  PROVE  Explained(Append(log, e))
<1> DEFINE new == Append(log, e)
<1>1. /\ Len(log) \in Nat /\ Len(new) = Len(log) + 1 /\ new[Len(log) + 1] = e
      /\ \A i \in 1..Len(log) : new[i] = log[i]
  BY AppendIs
<1> HIDE DEF new
<1> SUFFICES ASSUME NEW i \in 1..Len(new), new[i].kind \in CardKinds, new[i].granted,
                    new[i].card # 0
             PROVE  \E j \in 1..(i - 1) :
                      /\ new[j].card = new[i].card /\ new[j].kind \in {"enroll", "on"}
                      /\ \A k \in 1..(i - 1) :
                           new[k].card = new[i].card /\ new[k].kind \in AdminKinds => k <= j
  BY DEF Explained, new
<1>2. CASE i = Len(log) + 1
  <2>1. PICK j \in 1..Len(log) :
          /\ log[j].card = e.card /\ log[j].kind \in {"enroll", "on"}
          /\ \A k \in 1..Len(log) : log[k].card = e.card /\ log[k].kind \in AdminKinds => k <= j
    BY <1>1, <1>2 DEF LastOpens
  <2>2. 1..(i - 1) = 1..Len(log)
    BY <1>1, <1>2
  <2> QED BY <1>1, <1>2, <2>1, <2>2
<1>3. CASE i \in 1..Len(log)
  <2>1. PICK j \in 1..(i - 1) :
          /\ log[j].card = log[i].card /\ log[j].kind \in {"enroll", "on"}
          /\ \A k \in 1..(i - 1) : log[k].card = log[i].card /\ log[k].kind \in AdminKinds => k <= j
    BY <1>1, <1>3 DEF Explained
  <2>2. \A k \in 1..(i - 1) : k \in 1..Len(log)
    BY <1>1, <1>3
  <2> QED BY <1>1, <1>3, <2>1, <2>2
<1> QED BY <1>1, <1>2, <1>3

LEMMA AppendOther ==
  ASSUME NEW log \in Seq(EventRows), NEW e \in EventRows, NEW id, LastOpens(log, id),
         e.card # id \/ e.kind \notin AdminKinds
  PROVE  LastOpens(Append(log, e), id)
<1>1. PICK j \in 1..Len(log) :
        /\ log[j].card = id /\ log[j].kind \in {"enroll", "on"}
        /\ \A k \in 1..Len(log) : log[k].card = id /\ log[k].kind \in AdminKinds => k <= j
  BY DEF LastOpens
<1>2. /\ Len(log) \in Nat /\ Len(Append(log, e)) = Len(log) + 1
      /\ Append(log, e)[Len(log) + 1] = e
      /\ \A i \in 1..Len(log) : Append(log, e)[i] = log[i]
  BY AppendIs
<1> DEFINE new == Append(log, e)
<1>3. j \in 1..Len(new) /\ new[j].card = id /\ new[j].kind \in {"enroll", "on"}
  BY <1>1, <1>2
<1>4. ASSUME NEW k \in 1..Len(new), new[k].card = id, new[k].kind \in AdminKinds
      PROVE  k <= j
  <2>1. k # Len(log) + 1
    BY <1>2, <1>4
  <2>2. k \in 1..Len(log)
    BY <1>2, <2>1
  <2> QED BY <1>1, <1>2, <1>4, <2>2
<1> HIDE DEF new
<1> QED BY <1>3, <1>4 DEF LastOpens, new

LEMMA AppendOpens ==
  ASSUME NEW log \in Seq(EventRows), NEW e \in EventRows, e.kind \in {"enroll", "on"}
  PROVE  LastOpens(Append(log, e), e.card)
<1>1. /\ Len(log) \in Nat /\ Len(Append(log, e)) = Len(log) + 1
      /\ Append(log, e)[Len(log) + 1] = e
  BY AppendIs
<1> QED BY <1>1 DEF LastOpens

(* The rows of a log lose the reference to one card, or to an account. *)
Forgets(log, new, id) ==
  /\ new \in Seq(EventRows) /\ Len(new) = Len(log)
  /\ \A i \in 1..Len(log) :
       /\ new[i].kind = log[i].kind /\ new[i].granted = log[i].granted
       /\ new[i].card = IF log[i].card = id THEN 0 ELSE log[i].card

LEMMA ForgetKeeps ==
  ASSUME NEW log \in Seq(EventRows), NEW new, NEW id, Forgets(log, new, id), Explained(log)
  PROVE  Explained(new)
<1>1. Len(log) \in Nat /\ Len(new) = Len(log)
  BY DEF Forgets
<1> SUFFICES ASSUME NEW i \in 1..Len(log), new[i].kind \in CardKinds, new[i].granted,
                    new[i].card # 0
             PROVE  \E j \in 1..(i - 1) :
                      /\ new[j].card = new[i].card /\ new[j].kind \in {"enroll", "on"}
                      /\ \A k \in 1..(i - 1) :
                           new[k].card = new[i].card /\ new[k].kind \in AdminKinds => k <= j
  BY <1>1 DEF Explained
<1>2. new[i].card = log[i].card /\ log[i].card # id
  BY DEF Forgets
<1>3. PICK j \in 1..(i - 1) :
        /\ log[j].card = log[i].card /\ log[j].kind \in {"enroll", "on"}
        /\ \A k \in 1..(i - 1) : log[k].card = log[i].card /\ log[k].kind \in AdminKinds => k <= j
  BY <1>2 DEF Explained, Forgets
<1>4. \A k \in 1..(i - 1) : k \in 1..Len(log)
  BY <1>1
<1>5. \A k \in 1..(i - 1) : /\ new[k].kind = log[k].kind
                            /\ new[k].card = log[i].card => log[k].card = log[i].card
  BY <1>2, <1>4 DEF Forgets
<1>6. new[j].card = log[j].card /\ new[j].kind = log[j].kind
  BY <1>2, <1>3, <1>4 DEF Forgets
<1> QED BY <1>2, <1>3, <1>5, <1>6

LEMMA ForgetOther ==
  ASSUME NEW log \in Seq(EventRows), NEW new, NEW id, Forgets(log, new, id),
         NEW other, other # id, other # 0, LastOpens(log, other)
  PROVE  LastOpens(new, other)
<1>1. PICK j \in 1..Len(log) :
        /\ log[j].card = other /\ log[j].kind \in {"enroll", "on"}
        /\ \A k \in 1..Len(log) : log[k].card = other /\ log[k].kind \in AdminKinds => k <= j
  BY DEF LastOpens
<1>2. \A k \in 1..Len(log) : /\ new[k].kind = log[k].kind
                             /\ new[k].card = other <=> log[k].card = other
  BY DEF Forgets
<1> QED BY <1>1, <1>2 DEF LastOpens, Forgets

-----------------------------------------------------------------------------
(* The two tables.  Ids are given once, so that a card's events are not    *)
(* those of another one.                                                   *)
CardTypes ==
  /\ card \in [Uids -> CardRows] /\ lastCard \in 0..MaxCards
  /\ event \in Seq(EventRows)
OneId ==
  \A x \in Uids :
    /\ card[x].id <= lastCard
    /\ \A y \in Uids : card[x].id # 0 /\ card[x].id = card[y].id => x = y
CardInv ==
  /\ CardTypes /\ OneId /\ Explained(event)
  /\ \A x \in Uids : Opens(x) => LastOpens(event, card[x].id)

LEMMA CardsMove ==
  ASSUME Next
  PROVE  CardStep \/ (\E u \in Users : CardsLose(u)) \/ UNCHANGED cards
  BY Zenon DEF Next, PartStep, LimitStep, DeleteUser, Restart

LEMMA ActiveOnly ==
  ASSUME NEW x \in CardRows, NEW on
  PROVE  [x EXCEPT !.active = on] = [id |-> x.id, active |-> on, maker |-> x.maker]
  BY DEF CardRows
LEMMA EventCardOnly ==
  ASSUME NEW e \in EventRows, NEW v
  PROVE  [e EXCEPT !.card = v] =
           [kind |-> e.kind, card |-> v, granted |-> e.granted, actor |-> e.actor]
  BY DEF EventRows
LEMMA EventActorOnly ==
  ASSUME NEW e \in EventRows, NEW v
  PROVE  [e EXCEPT !.actor = v] =
           [kind |-> e.kind, card |-> e.card, granted |-> e.granted, actor |-> v]
  BY DEF EventRows

LEMMA CardColumns ==
  ASSUME CardTypes
  PROVE  /\ MaxCards \in Nat /\ lastCard \in Nat
         /\ \A x \in Uids : card[x] \in CardRows /\ card[x].id \in 0..MaxCards
         /\ \A x \in Uids : card[x].maker \in Users \cup {NoUser} /\ card[x].active \in BOOLEAN
         /\ \A k \in AdminKinds \cup CardKinds, c \in 0..MaxCards, g \in BOOLEAN,
              a \in Users \cup {NoUser} :
              [kind |-> k, card |-> c, granted |-> g, actor |-> a] \in EventRows
         /\ \A i \in 1..Len(event) : event[i] \in EventRows
         /\ Len(event) \in Nat /\ DOMAIN event = 1..Len(event)
<1>1. MaxCards \in Nat /\ lastCard \in Nat
  BY CardsConstants DEF CardsConstants, CardTypes
<1>2. /\ \A x \in Uids : card[x] \in CardRows /\ card[x].id \in 0..MaxCards
      /\ \A x \in Uids : card[x].maker \in Users \cup {NoUser} /\ card[x].active \in BOOLEAN
  BY DEF CardTypes, CardRows
<1>3. \A k \in AdminKinds \cup CardKinds, c \in 0..MaxCards, g \in BOOLEAN,
        a \in Users \cup {NoUser} :
        [kind |-> k, card |-> c, granted |-> g, actor |-> a] \in EventRows
  BY DEF EventRows
<1>4. /\ \A i \in 1..Len(event) : event[i] \in EventRows
      /\ Len(event) \in Nat /\ DOMAIN event = 1..Len(event)
  BY DEF CardTypes
<1> QED BY <1>1, <1>2, <1>3, <1>4

(* A request that only adds a line about card x, which stays as it is, or  *)
(* is turned on, or off, or is enrolled.                                   *)
LEMMA ReaderKeeps ==
  ASSUME CardInv, NEW x \in Uids, ReaderRequest(x)
  PROVE  CardInv'
<1>1. PICK e \in EventRows :
        /\ e.kind \in CardKinds /\ e.card = card[x].id /\ e.granted = Opens(x)
        /\ event' = Append(event, e)
  <2>1. Opens(x) \in BOOLEAN
    BY DEF Opens, CardInv, CardTypes, CardRows
  <2>2. CASE VerifyCard(x)
    BY <2>1, <2>2, CardColumns DEF VerifyCard, Logged, AdminKinds, CardKinds, CardInv
  <2>3. CASE \E target \in {"open", "closed"} : SwitchModeByCard(x, target)
    BY <2>1, <2>3, CardColumns DEF SwitchModeByCard, Logged, AdminKinds, CardKinds, CardInv
  <2> QED BY <2>2, <2>3 DEF ReaderRequest
<1>2. card' = card /\ lastCard' = lastCard
  BY DEF ReaderRequest, VerifyCard, SwitchModeByCard
<1>3. event \in Seq(EventRows)
  BY DEF CardInv, CardTypes
<1>4. e.kind \in CardKinds /\ e.granted /\ e.card # 0 => LastOpens(event, e.card)
  BY <1>1 DEF CardInv
<1>5. Explained(event')
  BY <1>1, <1>3, <1>4, AppendKeeps DEF CardInv
<1>6. ASSUME NEW y \in Uids, Opens(y)
      PROVE  LastOpens(event', card[y].id)
  <2>1. LastOpens(event, card[y].id) /\ e.kind \notin AdminKinds
    BY <1>1, <1>6 DEF CardInv, AdminKinds, CardKinds
  <2> QED BY <1>1, <1>3, <2>1, AppendOther
<1>7. event' \in Seq(EventRows)
  BY <1>1, <1>3, AppendIs
<1> QED BY <1>2, <1>5, <1>6, <1>7 DEF CardInv, CardTypes, OneId, Opens

(* One row is replaced and a line about it added. *)
LEMMA RowKeeps ==
  ASSUME CardInv, NEW x \in Uids, NEW r \in CardRows, NEW e \in EventRows,
         card' = [card EXCEPT ![x] = r], event' = Append(event, e),
         e.kind \in AdminKinds, e.card = r.id, r.id # 0,
         r.active => e.kind \in {"enroll", "on"},
         lastCard' \in 0..MaxCards, lastCard <= lastCard', r.id <= lastCard',
         \A y \in Uids : y # x => card[y].id # r.id
  PROVE  CardInv'
<1>1. event \in Seq(EventRows) /\ card \in [Uids -> CardRows]
  BY DEF CardInv, CardTypes
<1>2. CardTypes'
  BY <1>1, AppendIs DEF CardTypes
<1>3. card'[x] = r /\ \A y \in Uids : y # x => card'[y] = card[y]
  BY <1>1
<1>4. \A y \in Uids : card[y].id \in Nat /\ card[y].id <= lastCard /\ lastCard \in Nat
      /\ lastCard' \in Nat
  BY CardColumns DEF CardInv, OneId
<1>5. OneId'
  BY <1>3, <1>4 DEF CardInv, OneId
<1>6. Explained(event')
  <2>1. e.kind \notin CardKinds
    BY DEF AdminKinds, CardKinds
  <2> QED BY <1>1, <2>1, AppendKeeps DEF CardInv
<1>7. ASSUME NEW y \in Uids, Opens(y)'
      PROVE  LastOpens(event', card'[y].id)
  <2>1. CASE y = x
    BY <1>1, <1>3, <1>7, <2>1, AppendOpens DEF Opens
  <2>2. CASE y # x
    <3>1. LastOpens(event, card[y].id) /\ e.card # card[y].id
      BY <1>3, <1>7, <2>2 DEF Opens, CardInv
    <3> QED BY <1>1, <1>3, <2>2, <3>1, AppendOther
  <2> QED BY <2>1, <2>2
<1> QED BY <1>2, <1>5, <1>6, <1>7 DEF CardInv

LEMMA EnrollKeeps ==
  ASSUME CardInv, NEW u \in Users, NEW x \in Uids, NEW on \in BOOLEAN, EnrollCard(u, x, on)
  PROVE  CardInv'
<1> DEFINE id == IF NewCard(x) THEN lastCard + 1 ELSE card[x].id
           maker == IF NewCard(x) THEN u ELSE card[x].maker
           r == [id |-> id, active |-> on, maker |-> maker]
           kind == IF on THEN "enroll" ELSE "enroll_off"
           e == [kind |-> kind, card |-> id, granted |-> TRUE, actor |-> u]
<1>0. kind \in {"enroll", "enroll_off"} /\ (on => kind = "enroll")
  OBVIOUS
<1>1. /\ card' = [card EXCEPT ![x] = r] /\ event' = Append(event, e)
      /\ id <= MaxCards /\ lastCard' = IF NewCard(x) THEN id ELSE lastCard
  BY DEF EnrollCard, Logged
<1> HIDE DEF kind
<1>2. /\ MaxCards \in Nat /\ lastCard \in Nat
      /\ \A y \in Uids : card[y].id \in 0..MaxCards /\ card[y].id <= lastCard
      /\ card[x].maker \in Users \cup {NoUser}
      /\ \A y \in Uids : card[x].id # 0 /\ card[x].id = card[y].id => x = y
  BY CardColumns DEF CardInv, OneId
<1>3. id \in 0..MaxCards /\ id # 0
  BY <1>1, <1>2 DEF NewCard
<1>4. maker \in Users \cup {NoUser}
  BY <1>2
<1>5. r \in CardRows /\ r.id = id /\ r.active = on
  BY <1>3, <1>4 DEF CardRows
<1>6. e \in EventRows /\ e.kind = kind /\ e.card = id
  BY <1>0, <1>3 DEF EventRows, AdminKinds
<1>7. \A y \in Uids : y # x => card[y].id # id
  BY <1>2 DEF NewCard
<1>8. lastCard' \in 0..MaxCards /\ lastCard <= lastCard' /\ id <= lastCard'
  BY <1>1, <1>2, <1>3 DEF NewCard, CardInv, CardTypes
<1> HIDE DEF r, e, id, maker
<1>9. /\ e.kind \in AdminKinds /\ e.card = r.id /\ r.id # 0
      /\ r.active => e.kind \in {"enroll", "on"}
      /\ r.id <= lastCard' /\ \A y \in Uids : y # x => card[y].id # r.id
  BY <1>0, <1>3, <1>5, <1>6, <1>7, <1>8 DEF AdminKinds
<1> QED BY <1>1, <1>5, <1>6, <1>8, <1>9, RowKeeps, Zenon

LEMMA ActiveKeeps ==
  ASSUME CardInv, NEW u \in Users, NEW x \in Uids, NEW on \in BOOLEAN, SetCardActive(u, x, on)
  PROVE  CardInv'
<1> DEFINE r == [id |-> card[x].id, active |-> on, maker |-> card[x].maker]
           kind == IF on THEN "on" ELSE "off"
           e == [kind |-> kind, card |-> card[x].id, granted |-> TRUE, actor |-> u]
<1>1. /\ MaxCards \in Nat /\ lastCard \in Nat
      /\ \A y \in Uids : card[y].id \in 0..MaxCards /\ card[y].id <= lastCard
      /\ card[x].maker \in Users \cup {NoUser} /\ card[x] \in CardRows
      /\ \A y \in Uids : card[x].id # 0 /\ card[x].id = card[y].id => x = y
  BY CardColumns DEF CardInv, OneId
<1>2. card' = [card EXCEPT ![x] = [card[x] EXCEPT !.active = on]] /\ event' = Append(event, e)
      /\ card[x].id # 0 /\ lastCard' = lastCard
  BY Zenon DEF SetCardActive, Logged, NewCard
<1>3. [card[x] EXCEPT !.active = on] = r
  BY <1>1, ActiveOnly
<1>4. r \in CardRows /\ r.id = card[x].id /\ r.active = on
  BY <1>1 DEF CardRows
<1>5. kind \in {"on", "off"} /\ (on => kind = "on")
  OBVIOUS
<1> HIDE DEF kind
<1>6. e \in EventRows /\ e.kind = kind /\ e.card = card[x].id
  BY <1>1, <1>5 DEF EventRows, AdminKinds
<1>7. lastCard' \in 0..MaxCards /\ lastCard <= lastCard'
  BY <1>1, <1>2 DEF CardInv, CardTypes
<1> HIDE DEF r, e
<1>8. card' = [card EXCEPT ![x] = r]
  BY <1>2, <1>3, Zenon
<1>9. /\ e.kind \in AdminKinds /\ e.card = r.id /\ r.id # 0
      /\ r.active => e.kind \in {"enroll", "on"}
      /\ r.id <= lastCard' /\ \A y \in Uids : y # x => card[y].id # r.id
  BY <1>1, <1>2, <1>4, <1>5, <1>6 DEF AdminKinds
<1> QED BY <1>2, <1>4, <1>6, <1>7, <1>8, <1>9, RowKeeps, Zenon

(* What the two deletions do to the log. *)
LEMMA LogOf ==
  ASSUME NEW log \in Seq(EventRows), NEW new,
         new = [i \in 1..Len(log) |-> new[i]], \A i \in 1..Len(log) : new[i] \in EventRows
  PROVE  new \in Seq(EventRows) /\ Len(new) = Len(log)
<1>1. Len(log) \in Nat
  OBVIOUS
<1>2. new \in [1..Len(log) -> EventRows]
  OBVIOUS
<1> QED BY <1>1, <1>2, SeqDef

LEMMA WithoutForgets ==
  ASSUME CardTypes, NEW id
  PROVE  Forgets(event, EventsWithout(id), id)
<1> DEFINE new == EventsWithout(id)
<1>1. /\ event \in Seq(EventRows) /\ DOMAIN event = 1..Len(event)
      /\ \A i \in 1..Len(event) : event[i] \in EventRows
      /\ MaxCards \in Nat
  BY CardColumns DEF CardTypes
<1>2. ASSUME NEW i \in 1..Len(event)
      PROVE  /\ new[i] \in EventRows
             /\ new[i].kind = event[i].kind /\ new[i].granted = event[i].granted
             /\ new[i].card = IF event[i].card = id THEN 0 ELSE event[i].card
  <2> DEFINE v == IF event[i].card = id THEN 0 ELSE event[i].card
  <2>1. new[i] = [event[i] EXCEPT !.card = v]
    BY <1>1 DEF EventsWithout
  <2>2. event[i] \in EventRows
    BY <1>1
  <2>3. [event[i] EXCEPT !.card = v] =
          [kind |-> event[i].kind, card |-> v, granted |-> event[i].granted,
           actor |-> event[i].actor]
    BY <2>2, EventCardOnly
  <2>4. v \in 0..MaxCards
    BY <1>1, <2>2 DEF EventRows
  <2>5. /\ event[i].kind \in AdminKinds \cup CardKinds /\ event[i].granted \in BOOLEAN
        /\ event[i].actor \in Users \cup {NoUser}
    BY <2>2 DEF EventRows
  <2> HIDE DEF v, new
  <2>6. new[i] = [kind |-> event[i].kind, card |-> v, granted |-> event[i].granted,
                  actor |-> event[i].actor]
    BY <2>1, <2>3
  <2>7. new[i] \in EventRows
    BY <2>4, <2>5, <2>6 DEF EventRows
  <2>8. new[i].kind = event[i].kind /\ new[i].granted = event[i].granted /\ new[i].card = v
    BY <2>6
  <2> QED BY <2>7, <2>8 DEF v
<1>3. new = [i \in 1..Len(event) |-> new[i]]
  BY <1>1 DEF EventsWithout
<1> HIDE DEF new
<1>4. new \in Seq(EventRows) /\ Len(new) = Len(event)
  BY <1>1, <1>2, <1>3, LogOf
<1>5. Forgets(event, new, id)
  BY <1>2, <1>4 DEF Forgets
<1> QED BY <1>5 DEF new

(* An account's events forget it, and no card: there is none of id -1. *)
LEMMA LoseForgets ==
  ASSUME CardTypes, NEW u \in Users, CardsLose(u)
  PROVE  Forgets(event, event', 0 - 1)
<1>1. /\ event \in Seq(EventRows) /\ DOMAIN event = 1..Len(event)
      /\ \A i \in 1..Len(event) : event[i] \in EventRows
      /\ MaxCards \in Nat
  BY CardColumns DEF CardTypes
<1>2. ASSUME NEW i \in 1..Len(event)
      PROVE  /\ event'[i] \in EventRows
             /\ event'[i].kind = event[i].kind /\ event'[i].granted = event[i].granted
             /\ event'[i].card = IF event[i].card = 0 - 1 THEN 0 ELSE event[i].card
  <2> DEFINE v == IF event[i].actor = u THEN NoUser ELSE event[i].actor
  <2>1. event'[i] = [event[i] EXCEPT !.actor = v]
    BY <1>1 DEF CardsLose
  <2>2. event[i] \in EventRows
    BY <1>1
  <2>3. [event[i] EXCEPT !.actor = v] =
          [kind |-> event[i].kind, card |-> event[i].card, granted |-> event[i].granted,
           actor |-> v]
    BY <2>2, EventActorOnly
  <2>4. v \in Users \cup {NoUser}
    BY <2>2 DEF EventRows
  <2>5. /\ event[i].kind \in AdminKinds \cup CardKinds /\ event[i].granted \in BOOLEAN
        /\ event[i].card \in 0..MaxCards
    BY <2>2 DEF EventRows
  <2> HIDE DEF v
  <2>6. event'[i] = [kind |-> event[i].kind, card |-> event[i].card,
                     granted |-> event[i].granted, actor |-> v]
    BY <2>1, <2>3
  <2>7. event'[i] \in EventRows
    BY <2>4, <2>5, <2>6 DEF EventRows
  <2>8. /\ event'[i].kind = event[i].kind /\ event'[i].granted = event[i].granted
        /\ event'[i].card = event[i].card
    BY <2>6
  <2>9. event[i].card # 0 - 1
    BY <1>1, <2>5
  <2> QED BY <2>7, <2>8, <2>9
<1>3. event' = [i \in 1..Len(event) |-> event'[i]]
  BY <1>1 DEF CardsLose
<1>4. event' \in Seq(EventRows) /\ Len(event') = Len(event)
  BY <1>1, <1>2, <1>3, LogOf
<1> QED BY <1>2, <1>4 DEF Forgets

LEMMA LoseKeeps ==
  ASSUME CardInv, NEW u \in Users, CardsLose(u)
  PROVE  CardInv'
<1>1. card' = card /\ lastCard' = lastCard
  BY DEF CardsLose
<1>2. event \in Seq(EventRows) /\ CardTypes /\ Explained(event)
  BY DEF CardInv, CardTypes
<1>3. Forgets(event, event', 0 - 1)
  BY <1>2, LoseForgets
<1>4. Explained(event')
  BY <1>2, <1>3, ForgetKeeps
<1>5. ASSUME NEW y \in Uids, Opens(y)
      PROVE  LastOpens(event', card[y].id)
  <2>1. card[y].id # 0 /\ card[y].id \in 0..MaxCards /\ MaxCards \in Nat
    BY <1>2, <1>5, CardColumns DEF Opens
  <2>2. card[y].id # 0 - 1
    BY <2>1
  <2>3. LastOpens(event, card[y].id)
    BY <1>5 DEF CardInv
  <2> QED BY <1>2, <1>3, <2>1, <2>2, <2>3, ForgetOther
<1> QED BY <1>1, <1>3, <1>4, <1>5 DEF CardInv, CardTypes, OneId, Opens, Forgets

LEMMA DeleteKeeps ==
  ASSUME CardInv, NEW u \in Users, NEW x \in Uids, DeleteCard(u, x)
  PROVE  CardInv'
<1> DEFINE id == card[x].id
           log == EventsWithout(id)
           e == [kind |-> "delete", card |-> 0, granted |-> TRUE, actor |-> u]
<1>1. /\ card' = [card EXCEPT ![x] = NoCard] /\ event' = Append(log, e)
      /\ lastCard' = lastCard /\ id # 0
  BY DEF DeleteCard, NewCard
<1>2. /\ MaxCards \in Nat /\ lastCard \in Nat /\ lastCard \in 0..MaxCards
      /\ card \in [Uids -> CardRows] /\ event \in Seq(EventRows)
      /\ CardTypes /\ Explained(event)
  BY CardColumns DEF CardInv, CardTypes
<1>3. NoCard \in CardRows /\ NoCard.id = 0 /\ ~NoCard.active
  BY <1>2 DEF NoCard, CardRows
<1>4. e \in EventRows /\ e.card = 0 /\ e.kind = "delete"
  BY <1>2 DEF EventRows, AdminKinds
<1>5. Forgets(event, log, id)
  BY <1>2, WithoutForgets
<1>6. Explained(log) /\ log \in Seq(EventRows)
  BY <1>2, <1>5, ForgetKeeps DEF Forgets
<1>7. /\ card'[x] = NoCard /\ \A y \in Uids : y # x => card'[y] = card[y]
      /\ card' \in [Uids -> CardRows]
  BY <1>1, <1>2, <1>3
<1> HIDE DEF log, e, id
<1>8. e.kind \notin CardKinds
  BY <1>4 DEF CardKinds
<1>9. Explained(event')
  BY <1>1, <1>4, <1>6, <1>8, AppendKeeps
<1>10. ASSUME NEW y \in Uids, Opens(y)'
       PROVE  LastOpens(event', card'[y].id)
  <2>1. y # x /\ card'[y] = card[y] /\ card[y].id # 0 /\ card[y].active
    BY <1>3, <1>7, <1>10 DEF Opens
  <2>2. card[y].id # id
    BY <1>1, <2>1 DEF CardInv, OneId, id
  <2>3. LastOpens(event, card[y].id)
    BY <2>1 DEF CardInv, Opens
  <2>4. LastOpens(log, card[y].id)
    BY <1>2, <1>5, <2>1, <2>2, <2>3, ForgetOther
  <2>5. e.card # card[y].id
    BY <1>4, <2>1
  <2> QED BY <1>1, <1>4, <1>6, <2>1, <2>4, <2>5, AppendOther
<1>11. event' \in Seq(EventRows)
  BY <1>1, <1>4, <1>6, AppendIs
<1>12. OneId'
  BY <1>1, <1>2, <1>3, <1>7 DEF CardInv, OneId
<1> QED BY <1>1, <1>2, <1>7, <1>9, <1>10, <1>11, <1>12 DEF CardInv, CardTypes

-----------------------------------------------------------------------------
LEMMA CardInit ==
  ASSUME Init
  PROVE  CardInv
<1>1. MaxCards \in Nat /\ card = [x \in Uids |-> NoCard] /\ lastCard = 0 /\ event = <<>>
  BY CardsConstants DEF CardsConstants, Init, CardsInit
<1>2. NoCard \in CardRows /\ NoCard.id = 0
  BY <1>1 DEF NoCard, CardRows
<1>3. CardTypes
  BY <1>1, <1>2 DEF CardTypes
<1>4. OneId /\ \A x \in Uids : ~Opens(x)
  BY <1>1, <1>2 DEF OneId, Opens
<1>5. Explained(event)
  BY <1>1 DEF Explained
<1> QED BY <1>3, <1>4, <1>5 DEF CardInv

LEMMA SameCards ==
  ASSUME CardInv, card' = card, lastCard' = lastCard, event' = event
  PROVE  CardInv'
  BY DEF CardInv, CardTypes, OneId, Opens

LEMMA CardNext ==
  ASSUME CardInv, [Next]_vars
  PROVE  CardInv'
<1>1. CASE CardStep
  <2>1. CASE Enter \/ \E u \in Users : SetMode(u)
    <3>1. card' = card /\ lastCard' = lastCard /\ event' = event
      BY <2>1 DEF Enter, SetMode, cards
    <3> QED BY <3>1, SameCards
  <2>2. CASE Handle
    <3>1. ASSUME NEW x \in Uids, ReaderRequest(x)
          PROVE  CardInv'
      BY <3>1, ReaderKeeps
    <3>2. ASSUME NEW x \in Uids, NEW u \in Users, DeleteRoute(u, x)
          PROVE  CardInv'
      BY <3>2, DeleteKeeps DEF DeleteRoute
    <3>3. ASSUME NEW x \in Uids, NEW u \in Users, NEW on \in BOOLEAN, EnrollRoute(u, x, on)
          PROVE  CardInv'
      BY <3>3, EnrollKeeps DEF EnrollRoute
    <3>4. ASSUME NEW x \in Uids, NEW u \in Users, NEW on \in BOOLEAN, ActiveRoute(u, x, on)
          PROVE  CardInv'
      BY <3>4, ActiveKeeps DEF ActiveRoute
    <3>5. ASSUME UNCHANGED cards
          PROVE  CardInv'
      BY <3>5, SameCards DEF cards
    <3> QED BY <2>2, <3>1, <3>2, <3>3, <3>4, <3>5, Zenon DEF Handle, CardRequest
  <2> QED BY <1>1, <2>1, <2>2, Zenon DEF CardStep
<1>2. ASSUME NEW u \in Users, CardsLose(u)
      PROVE  CardInv'
  BY <1>2, LoseKeeps
<1>3. CASE UNCHANGED cards
  BY <1>3, SameCards DEF cards
<1>4. CASE UNCHANGED vars
  <2>1. UNCHANGED cards
    BY <1>4 DEF vars
  <2> QED BY <2>1, SameCards DEF cards
<1>5. CASE Next
  <2>1. CardStep \/ (\E u \in Users : CardsLose(u)) \/ UNCHANGED cards
    BY <1>5, CardsMove
  <2> QED BY <1>1, <1>2, <1>3, <2>1, Zenon
<1> QED BY <1>4, <1>5, Zenon

LEMMA CardExplains ==
  ASSUME CardInv
  PROVE  GrantsAreExplained
<1>1. Len(event) \in Nat /\ DOMAIN event = 1..Len(event) /\ Explained(event)
  BY CardColumns DEF CardInv
<1> SUFFICES ASSUME NEW i \in 1..Len(event),
                    event[i].kind \in CardKinds, event[i].granted, event[i].card # 0
             PROVE  \E j \in About(event[i].card, i) :
                      /\ event[j].kind \in {"enroll", "on"}
                      /\ \A k \in About(event[i].card, i) : k <= j
  BY <1>1 DEF GrantsAreExplained
<1>2. PICK j \in 1..(i - 1) :
        /\ event[j].card = event[i].card /\ event[j].kind \in {"enroll", "on"}
        /\ \A k \in 1..(i - 1) :
             event[k].card = event[i].card /\ event[k].kind \in AdminKinds => k <= j
  BY <1>1 DEF Explained
<1>3. j \in About(event[i].card, i)
  BY <1>2 DEF About, AdminKinds
<1>4. \A k \in About(event[i].card, i) : k <= j
  BY <1>2 DEF About
<1> QED BY <1>2, <1>3, <1>4

(* The log of the readers explains every door it opened: what an           *)
(* administrator last did to that card was to enroll it or to turn it on   *)
(* (verify_card, switch_mode_by_card and the routes for administrators),   *)
(* for any cards and any length of the log.                                *)
THEOREM GrantsCorrect == Spec => []GrantsAreExplained
<1>1. Init => CardInv
  BY CardInit
<1>2. CardInv /\ [Next]_vars => CardInv'
  BY CardNext
<1>3. CardInv => GrantsAreExplained
  BY CardExplains
<1> QED BY <1>1, <1>2, <1>3, PTL DEF Spec

-----------------------------------------------------------------------------
(* The limiter.  Requests that passed hold different places of a queue.    *)
Counted(P, q) ==
  \E f \in [P -> 1..Len(q)] :
    /\ \A x, y \in P : f[x] = f[y] => x = y
    /\ \A x \in P : q[f[x]] = x.at

LEMMA CountedBound ==
  ASSUME NEW P, NEW q \in Seq(Nat), Counted(P, q)
  PROVE  IsFiniteSet(P) /\ Cardinality(P) \in Nat /\ Cardinality(P) <= Len(q)
<1>1. PICK f \in [P -> 1..Len(q)] : \A x, y \in P : f[x] = f[y] => x = y
  BY DEF Counted
<1>2. f \in Injection(P, 1..Len(q))
  BY <1>1 DEF Injection, IsInjective
<1>3. Len(q) \in Nat /\ IsFiniteSet(1..Len(q)) /\ Cardinality(1..Len(q)) = Len(q)
  <2>1. Len(q) \in Nat
    OBVIOUS
  <2>2. IsFiniteSet(1..Len(q)) /\ Cardinality(1..Len(q)) = IF 1 > Len(q) THEN 0 ELSE Len(q) - 1 + 1
    BY <2>1, FS_Interval
  <2> QED BY <2>1, <2>2
<1>4. IsFiniteSet(P) /\ Cardinality(P) <= Cardinality(1..Len(q))
  BY <1>2, <1>3, FS_Injection
<1> QED BY <1>3, <1>4, FS_CardinalityType

LEMMA CountedLess ==
  ASSUME NEW P, NEW Q \in SUBSET P, NEW q, Counted(P, q)
  PROVE  Counted(Q, q)
<1>1. PICK f \in [P -> 1..Len(q)] :
        /\ \A x, y \in P : f[x] = f[y] => x = y
        /\ \A x \in P : q[f[x]] = x.at
  BY DEF Counted
<1> DEFINE g == [x \in Q |-> f[x]]
<1>2. g \in [Q -> 1..Len(q)] /\ \A x \in Q : g[x] = f[x]
  OBVIOUS
<1> HIDE DEF g
<1>3. /\ \A x, y \in Q : g[x] = g[y] => x = y
      /\ \A x \in Q : q[g[x]] = x.at
  BY <1>1, <1>2
<1> QED BY <1>2, <1>3 DEF Counted

LEMMA CountedNone == ASSUME NEW q PROVE Counted({}, q)
<1>1. [x \in {} |-> 1] \in [{} -> 1..Len(q)]
  OBVIOUS
<1> QED BY <1>1 DEF Counted

(* The front of the queue, that no request holds, is dropped. *)
LEMMA CountedDrop ==
  ASSUME NEW P, NEW q \in Seq(Nat), NEW n \in 0..Len(q), Counted(P, q),
         \A i \in 1..n : \A x \in P : x.at # q[i]
  PROVE  Counted(P, SubSeq(q, n + 1, Len(q)))
<1> DEFINE r == SubSeq(q, n + 1, Len(q))
<1>1. PICK f \in [P -> 1..Len(q)] :
        /\ \A x, y \in P : f[x] = f[y] => x = y
        /\ \A x \in P : q[f[x]] = x.at
  BY DEF Counted
<1>2. /\ Len(q) \in Nat /\ Len(r) = Len(q) - n
      /\ \A i \in 1..(Len(q) - n) : r[i] = q[i + n]
  OBVIOUS
<1> HIDE DEF r
<1>3. \A x \in P : f[x] \in (n + 1)..Len(q)
  <2> SUFFICES ASSUME NEW x \in P
               PROVE  f[x] \in (n + 1)..Len(q)
    OBVIOUS
  <2>1. f[x] \in 1..Len(q) /\ f[x] \notin 1..n
    BY <1>1
  <2> QED BY <1>2, <2>1
<1> DEFINE g == [x \in P |-> f[x] - n]
<1>4. /\ g \in [P -> 1..Len(r)]
      /\ \A x \in P : g[x] = f[x] - n
  BY <1>2, <1>3
<1> HIDE DEF g
<1>5. \A x, y \in P : g[x] = g[y] => x = y
  <2> SUFFICES ASSUME NEW x \in P, NEW y \in P, g[x] = g[y]
               PROVE  x = y
    OBVIOUS
  <2>1. f[x] = f[y]
    BY <1>2, <1>3, <1>4
  <2> QED BY <1>1, <2>1
<1>6. \A x \in P : r[g[x]] = x.at
  <2> SUFFICES ASSUME NEW x \in P
               PROVE  r[g[x]] = x.at
    OBVIOUS
  <2>1. g[x] \in 1..(Len(q) - n) /\ g[x] + n = f[x]
    BY <1>2, <1>3, <1>4
  <2> QED BY <1>1, <1>2, <2>1
<1> QED BY <1>4, <1>5, <1>6 DEF Counted, r

LEMMA CountedAdd ==
  ASSUME NEW P, NEW q \in Seq(Nat), NEW x, x.at \in Nat, Counted(P, q)
  PROVE  Counted(P \cup {x}, Append(q, x.at))
<1> DEFINE r == Append(q, x.at)
<1>1. PICK f \in [P -> 1..Len(q)] :
        /\ \A y, z \in P : f[y] = f[z] => y = z
        /\ \A y \in P : q[f[y]] = y.at
  BY DEF Counted
<1>2. /\ Len(q) \in Nat /\ Len(r) = Len(q) + 1 /\ r[Len(q) + 1] = x.at
      /\ \A i \in 1..Len(q) : r[i] = q[i]
  OBVIOUS
<1> HIDE DEF r
<1> DEFINE g == [y \in P \cup {x} |-> IF y = x THEN Len(q) + 1 ELSE f[y]]
<1>3. /\ g \in [P \cup {x} -> 1..Len(r)] /\ g[x] = Len(q) + 1
      /\ \A y \in P : y # x => g[y] = f[y]
  BY <1>2
<1> HIDE DEF g
<1>4. \A y, z \in P \cup {x} : g[y] = g[z] => y = z
  <2>1. \A y \in P : f[y] # Len(q) + 1
    BY <1>2
  <2> QED BY <1>1, <1>3, <2>1
<1>5. \A y \in P \cup {x} : r[g[y]] = y.at
  BY <1>1, <1>2, <1>3
<1> QED BY <1>3, <1>4, <1>5 DEF Counted, r

LEMMA LeastOf ==
  ASSUME NEW T \in SUBSET Nat, T # {}
  PROVE  \E n \in T : \A k \in T : n <= k
<1> DEFINE less == OpToRel(<, Nat)
<1>1. \A i, k \in Nat : i < k => <<i, k>> \in less
  BY DEF OpToRel
<1> HIDE DEF less
<1>2. IsWellFoundedOn(less, Nat)
  BY NatLessThanWellFounded DEF less
<1>3. PICK n \in T : \A k \in T : <<k, n>> \notin less
  BY <1>2, WFMin
<1>4. ASSUME NEW k \in T
      PROVE  n <= k
  <2>1. k \in Nat /\ n \in Nat
    OBVIOUS
  <2>2. ~(k < n)
    BY <1>1, <1>3, <2>1, Zenon
  <2> QED BY <2>1, <2>2
<1> QED BY <1>4

(* The loop of check ends. *)
LEMMA LeadingOldIs ==
  ASSUME NEW q \in Seq(Nat), NEW window \in Nat, time \in Nat
  PROVE  /\ LeadingOld(q, window) \in 0..Len(q)
         /\ \A i \in 1..LeadingOld(q, window) : q[i] + window <= time
         /\ LeadingOld(q, window) < Len(q) => q[LeadingOld(q, window) + 1] + window > time
<1> DEFINE T == {n \in 0..Len(q) : n < Len(q) => q[n + 1] + window > time}
<1>1. Len(q) \in Nat /\ T \in SUBSET Nat /\ Len(q) \in T
  OBVIOUS
<1>2. PICK n \in T : \A k \in T : n <= k
  BY <1>1, LeastOf, Zenon
<1>3. \A i \in 1..n : q[i] + window <= time
  <2> SUFFICES ASSUME NEW i \in 1..n
               PROVE  q[i] + window <= time
    OBVIOUS
  <2>1. i - 1 \in 0..Len(q) /\ i - 1 < Len(q) /\ ~(n <= i - 1) /\ (i - 1) + 1 = i
        /\ i \in 1..Len(q)
    BY <1>1
  <2>2. i - 1 \notin T
    BY <1>2, <2>1, Zenon
  <2>3. ~(q[i] + window > time)
    BY <2>1, <2>2
  <2>4. q[i] \in Nat
    BY <2>1
  <2> QED BY <2>3, <2>4
<1>4. n \in 0..Len(q) /\ (n < Len(q) => q[n + 1] + window > time)
  OBVIOUS
<1> QED BY <1>3, <1>4, Zenon DEF LeadingOld

-----------------------------------------------------------------------------
(* The guard.  Of the failures F, those in H each started a block of their *)
(* address that no later one came before the end of, and of the others no  *)
(* more than room are in the window.                                       *)
Late(F, t) == {f \in F : f.at + Window > t}
Apart(H) ==
  \A f, g \in H : f # g /\ f.address = g.address =>
    f.at + Block <= g.at \/ g.at + Block <= f.at
Held(F, room, t, bl) ==
  \E H \in SUBSET F :
    /\ Cardinality(Late(F, t) \ H) <= room
    /\ Apart(H)
    /\ \A f \in H : f.at + Block > t => bl[f.address] >= f.at + Block

LEMMA DivIs ==
  ASSUME NEW a \in Nat, NEW b \in Nat \ {0}
  PROVE  a \div b \in Nat /\ (a \div b) * b <= a /\ a < (a \div b + 1) * b
  OBVIOUS
LEMMA TimesLess ==
  ASSUME NEW b \in Nat \ {0}, NEW i \in Int, NEW j \in Int, i * b < j * b
  PROVE  i < j
  OBVIOUS
LEMMA DivApart ==
  ASSUME NEW x \in Nat, NEW y \in Nat, NEW b \in Nat \ {0}, x + b <= y
  PROVE  x \div b # y \div b
<1> DEFINE i == x \div b
           j == y \div b
<1>1. i \in Nat /\ i * b <= x /\ x < (i + 1) * b /\ j \in Nat /\ j * b <= y /\ y < (j + 1) * b
  BY DivIs
<1> HIDE DEF i, j
<1>2. (i + 1) * b = i * b + b
  BY <1>1
<1>3. i = j => y < i * b + b
  BY <1>1, <1>2
<1>4. i * b \in Nat
  BY <1>1
<1>5. i # j
  BY <1>1, <1>3, <1>4
<1> QED BY <1>5 DEF i, j

(* Blocks that an address can sit out within the window. *)
LEMMA BlocksIs ==
  /\ Blocks \in Nat
  /\ \A x \in Nat : x < Window => x \div Block \in 0..(Blocks - 1)
<1>1. Window \in Nat \ {0} /\ Block \in Nat \ {0} /\ Window + Block - 1 \in Nat
  BY LimitsConstants DEF LimitsConstants
<1>2. Blocks \in Nat /\ Window + Block - 1 < (Blocks + 1) * Block
  BY <1>1, DivIs DEF Blocks
<1>3. ASSUME NEW x \in Nat, x < Window
      PROVE  x \div Block \in 0..(Blocks - 1)
  <2> DEFINE i == x \div Block
  <2>1. i \in Nat /\ i * Block <= x
    BY <1>1, DivIs
  <2> HIDE DEF i
  <2>2. (Blocks + 1) * Block = Blocks * Block + Block /\ Blocks * Block \in Nat
        /\ i * Block \in Nat
    BY <1>1, <1>2, <2>1
  <2>3. i * Block < Blocks * Block
    BY <1>1, <1>2, <1>3, <2>1, <2>2
  <2>4. i < Blocks
    BY <1>1, <1>2, <2>1, <2>3, TimesLess
  <2>5. i \in 0..(Blocks - 1)
    BY <1>2, <2>1, <2>4
  <2> QED BY <2>5 DEF i
<1> QED BY <1>2, <1>3

LEMMA HeldBound ==
  ASSUME NEW F, IsFiniteSet(F), NEW room \in Nat, NEW t \in Nat, NEW bl, NEW A, IsFiniteSet(A),
         \A f \in F : f.address \in A /\ f.at \in Nat /\ f.at <= t,
         Held(F, room, t, bl)
  PROVE  Cardinality(Late(F, t)) <= room + Cardinality(A) * Blocks
<1>1. PICK H \in SUBSET F : Cardinality(Late(F, t) \ H) <= room /\ Apart(H)
  BY DEF Held
<1> DEFINE L == Late(F, t)
           G == H \cap L
           K == 0..(Blocks - 1)
           g == [f \in G |-> <<f.address, (f.at + Window - 1 - t) \div Block>>]
<1>2. IsFiniteSet(L) /\ IsFiniteSet(L \ H) /\ IsFiniteSet(G)
  <2>1. L \in SUBSET F /\ L \ H \in SUBSET F /\ G \in SUBSET F
    BY DEF Late
  <2> QED BY <2>1, FS_Subset
<1>3. Window \in Nat \ {0} /\ Block \in Nat \ {0} /\ Blocks \in Nat
  BY LimitsConstants, BlocksIs DEF LimitsConstants
<1>4. \A f \in G : /\ f \in H /\ f \in F /\ f.address \in A /\ f.at \in Nat
                   /\ f.at + Window - 1 - t \in Nat /\ f.at + Window - 1 - t < Window
  <2> SUFFICES ASSUME NEW f \in G
               PROVE  /\ f \in H /\ f \in F /\ f.address \in A /\ f.at \in Nat
                      /\ f.at + Window - 1 - t \in Nat /\ f.at + Window - 1 - t < Window
    OBVIOUS
  <2>1. f \in H /\ f \in F /\ f.at + Window > t
    BY DEF Late
  <2>2. f.address \in A /\ f.at \in Nat /\ f.at <= t
    BY <2>1
  <2> QED BY <1>3, <2>1, <2>2
<1> HIDE DEF G
<1>5. g \in [G -> A \X K]
  <2>1. \A f \in G : (f.at + Window - 1 - t) \div Block \in K
    BY <1>4, BlocksIs
  <2> QED BY <1>4, <2>1
<1>6. \A x, y \in G : g[x] = g[y] => x = y
  <2> SUFFICES ASSUME NEW x \in G, NEW y \in G, x # y, g[x] = g[y]
               PROVE  FALSE
    OBVIOUS
  <2> DEFINE i == x.at + Window - 1 - t
             j == y.at + Window - 1 - t
  <2>1. x.address = y.address /\ i \div Block = j \div Block
    OBVIOUS
  <2>2. x.at + Block <= y.at \/ y.at + Block <= x.at
    BY <1>1, <1>4, <2>1 DEF Apart
  <2>3. i \in Nat /\ j \in Nat /\ (i + Block <= j \/ j + Block <= i)
    BY <1>3, <1>4, <2>2
  <2> HIDE DEF i, j
  <2> QED BY <1>3, <2>1, <2>3, DivApart
<1>7. IsFiniteSet(A \X K) /\ Cardinality(A \X K) = Cardinality(A) * Blocks
  <2>1. IsFiniteSet(K) /\ Cardinality(K) = IF 0 > Blocks - 1 THEN 0 ELSE Blocks - 1 - 0 + 1
    <3>1. 0 \in Int /\ Blocks - 1 \in Int
      BY <1>3
    <3> QED BY <3>1, FS_Interval
  <2>2. Cardinality(K) = Blocks
    BY <1>3, <2>1
  <2> HIDE DEF K
  <2> QED BY <2>1, <2>2, FS_Product
<1>8. Cardinality(G) <= Cardinality(A) * Blocks
  <2>1. g \in Injection(G, A \X K)
    <3> HIDE DEF g, K
    <3> QED BY <1>5, <1>6 DEF Injection, IsInjective
  <2> HIDE DEF g
  <2>2. Cardinality(G) <= Cardinality(A \X K)
    BY <1>7, <2>1, FS_Injection
  <2> QED BY <1>7, <2>2
<1>9. L = (L \ H) \cup G
  BY DEF G
<1>10. Cardinality(L) <= Cardinality(L \ H) + Cardinality(G)
  <2>1. Cardinality(L) = Cardinality(L \ H) + Cardinality(G) - Cardinality((L \ H) \cap G)
    BY <1>2, <1>9, FS_Union
  <2>2. IsFiniteSet((L \ H) \cap G)
    BY <1>2, FS_Subset
  <2>3. Cardinality((L \ H) \cap G) \in Nat /\ Cardinality(L \ H) \in Nat /\ Cardinality(G) \in Nat
    BY <1>2, <2>2, FS_CardinalityType
  <2> QED BY <2>1, <2>3
<1>11. /\ Cardinality(L) \in Nat /\ Cardinality(L \ H) \in Nat /\ Cardinality(G) \in Nat
       /\ Cardinality(A) * Blocks \in Nat
  <2>1. Cardinality(A) \in Nat
    BY FS_CardinalityType
  <2>2. Cardinality(A) * Blocks \in Nat
    BY <1>3, <2>1
  <2> QED BY <1>2, <2>2, FS_CardinalityType
<1> HIDE DEF L, G
<1>12. Cardinality(L \ H) <= room
  BY <1>1 DEF L
<1>13. Cardinality(L) <= room + Cardinality(A) * Blocks
  BY <1>8, <1>10, <1>11, <1>12
<1> QED BY <1>13 DEF L

(* A failure while the address was not blocked, which blocks it. *)
LEMMA HeldAdd ==
  ASSUME NEW F, IsFiniteSet(F), NEW room \in Nat, NEW t \in Nat, NEW x, x.at = t,
         NEW bl \in [Addresses -> Nat], x.address \in Addresses, bl[x.address] <= t,
         \A f \in F : f.address \in Addresses /\ f.at \in Nat,
         Held(F, room, t, bl)
  PROVE  Held(F \cup {x}, room, t, [bl EXCEPT ![x.address] = t + Block])
<1>1. PICK H \in SUBSET F :
        /\ Cardinality(Late(F, t) \ H) <= room /\ Apart(H)
        /\ \A f \in H : f.at + Block > t => bl[f.address] >= f.at + Block
  BY DEF Held
<1> DEFINE H1 == H \cup {x}
           F1 == F \cup {x}
           bl1 == [bl EXCEPT ![x.address] = t + Block]
<1>2. Block \in Nat \ {0}
  BY LimitsConstants DEF LimitsConstants
<1>3. Cardinality(Late(F1, t) \ H1) <= room
  <2>1. Late(F1, t) \ H1 \in SUBSET (Late(F, t) \ H) /\ Late(F, t) \ H \in SUBSET F
    BY DEF Late
  <2>2. IsFiniteSet(Late(F, t) \ H)
    BY <2>1, FS_Subset
  <2>3. /\ IsFiniteSet(Late(F1, t) \ H1)
        /\ Cardinality(Late(F1, t) \ H1) <= Cardinality(Late(F, t) \ H)
    BY <2>1, <2>2, FS_Subset
  <2>4. Cardinality(Late(F1, t) \ H1) \in Nat /\ Cardinality(Late(F, t) \ H) \in Nat
    BY <2>2, <2>3, FS_CardinalityType
  <2> HIDE DEF H1, F1
  <2> QED BY <1>1, <2>3, <2>4
<1>4. \A f \in H : f.address = x.address => f.at + Block <= t
  <2> SUFFICES ASSUME NEW f \in H, f.address = x.address, ~(f.at + Block <= t)
               PROVE  FALSE
    OBVIOUS
  <2>1. f.at \in Nat /\ bl[x.address] \in Nat
    OBVIOUS
  <2>2. f.at + Block > t
    BY <1>2, <2>1
  <2>3. bl[x.address] >= f.at + Block
    BY <1>1, <2>2
  <2> QED BY <1>2, <2>1, <2>2, <2>3
<1>5. Apart(H1)
  BY <1>1, <1>4 DEF Apart
<1>6. \A f \in H1 : f.at + Block > t => bl1[f.address] >= f.at + Block
  <2> SUFFICES ASSUME NEW f \in H1, f.at + Block > t
               PROVE  bl1[f.address] >= f.at + Block
    OBVIOUS
  <2>1. CASE f = x
    BY <1>2, <2>1
  <2>2. CASE f # x
    <3>1. f \in H /\ f.at \in Nat /\ f.address \in Addresses
      BY <2>2
    <3>2. f.address # x.address
      BY <1>2, <1>4, <3>1
    <3> QED BY <1>1, <3>1, <3>2
  <2> QED BY <2>1, <2>2
<1>7. H1 \in SUBSET F1
  OBVIOUS
<1> HIDE DEF H1, F1, bl1
<1>8. Held(F1, room, t, bl1)
  BY <1>3, <1>5, <1>6, <1>7 DEF Held
<1> QED BY <1>8 DEF F1, bl1

(* A failure that does not block: there were few in the window. *)
LEMMA HeldFresh ==
  ASSUME NEW F, NEW room, NEW t, NEW bl, Cardinality(Late(F, t)) <= room
  PROVE  Held(F, room, t, bl)
<1>1. Late(F, t) \ {} = Late(F, t) /\ {} \in SUBSET F /\ Apart({})
  BY DEF Apart
<1> QED BY <1>1 DEF Held

(* Others change the row of an address that is not blocked; time passes. *)
LEMMA HeldOther ==
  ASSUME NEW F, NEW room, NEW t \in Nat, NEW bl \in [Addresses -> Nat], NEW a \in Addresses,
         NEW v, bl[a] <= t, \A f \in F : f.address \in Addresses /\ f.at \in Nat,
         Held(F, room, t, bl)
  PROVE  Held(F, room, t, [bl EXCEPT ![a] = v])
<1>1. PICK H \in SUBSET F :
        /\ Cardinality(Late(F, t) \ H) <= room /\ Apart(H)
        /\ \A f \in H : f.at + Block > t => bl[f.address] >= f.at + Block
  BY DEF Held
<1>2. Block \in Nat \ {0}
  BY LimitsConstants DEF LimitsConstants
<1>3. ASSUME NEW f \in H, f.at + Block > t
      PROVE  [bl EXCEPT ![a] = v][f.address] >= f.at + Block
  <2>1. f.at \in Nat /\ bl[a] \in Nat /\ f.address \in Addresses
    OBVIOUS
  <2>2. bl[f.address] >= f.at + Block
    BY <1>1, <1>3
  <2>3. f.address # a
    BY <1>2, <1>3, <2>1, <2>2
  <2> QED BY <2>1, <2>2, <2>3
<1> QED BY <1>1, <1>3 DEF Held

LEMMA HeldLater ==
  ASSUME NEW F, IsFiniteSet(F), NEW room \in Nat, NEW t \in Nat, NEW bl,
         \A f \in F : f.at \in Nat, Held(F, room, t, bl)
  PROVE  Held(F, room, t + 1, bl)
<1>1. PICK H \in SUBSET F :
        /\ Cardinality(Late(F, t) \ H) <= room /\ Apart(H)
        /\ \A f \in H : f.at + Block > t => bl[f.address] >= f.at + Block
  BY DEF Held
<1>2. Block \in Nat \ {0} /\ Window \in Nat \ {0}
  BY LimitsConstants DEF LimitsConstants
<1>3. Cardinality(Late(F, t + 1) \ H) <= room
  <2>1. Late(F, t + 1) \ H \in SUBSET (Late(F, t) \ H) /\ Late(F, t) \ H \in SUBSET F
    BY <1>2 DEF Late
  <2>2. IsFiniteSet(Late(F, t) \ H)
    BY <2>1, FS_Subset
  <2>3. /\ IsFiniteSet(Late(F, t + 1) \ H)
        /\ Cardinality(Late(F, t + 1) \ H) <= Cardinality(Late(F, t) \ H)
    BY <2>1, <2>2, FS_Subset
  <2>4. Cardinality(Late(F, t + 1) \ H) \in Nat /\ Cardinality(Late(F, t) \ H) \in Nat
    BY <2>2, <2>3, FS_CardinalityType
  <2> QED BY <1>1, <2>3, <2>4
<1>4. \A f \in H : f.at + Block > t + 1 => f.at + Block > t
  BY <1>2
<1> QED BY <1>1, <1>3, <1>4 DEF Held

-----------------------------------------------------------------------------
(* The limiter's half of the inductive invariant: the requests that passed *)
(* and are in the window hold places of their queue, which is in order and *)
(* no longer than its limit; none is counted as another.                   *)
Alike(p) == {q \in Passed(p.bucket, p.address) : q.at = p.at}
QueueInv(b, a) ==
  /\ Len(recent[b, a]) <= RateLimit[b]
  /\ \A i \in 1..Len(recent[b, a]) : recent[b, a][i] <= time
  /\ \A i \in 2..Len(recent[b, a]) : recent[b, a][i - 1] <= recent[b, a][i]
  /\ Counted(Passed(b, a), recent[b, a])
RateTypes ==
  /\ time \in Instants
  /\ recent \in [Buckets \X Addresses -> Seq(Instants)]
  /\ passed \subseteq Passes
  /\ waiting \in [Addresses -> 0..MaxWaiting]
RateInv ==
  /\ RateTypes
  /\ \A b \in Buckets, a \in Addresses : QueueInv(b, a)
  /\ \A p \in passed : p.at + RateWindow[p.bucket] > time => p.number < Cardinality(Alike(p))

LEMMA InstantsAre ==
  /\ \A t \in Instants : t \in Nat
  /\ \A q \in Seq(Instants) : q \in Seq(Nat)
  /\ MaxTime \in Nat
  BY LimitsConstants DEF LimitsConstants, Instants

LEMMA RatesAre ==
  ASSUME RateTypes, NEW b \in Buckets, NEW a \in Addresses
  PROVE  /\ RateLimit[b] \in Nat \ {0} /\ RateWindow[b] \in Nat \ {0}
         /\ recent[b, a] \in Seq(Instants) /\ recent[b, a] \in Seq(Nat)
         /\ time \in Nat /\ time \in Instants
<1>1. RateLimit[b] \in Nat \ {0} /\ RateWindow[b] \in Nat \ {0}
  BY LimitsConstants DEF LimitsConstants
<1>2. recent[b, a] \in Seq(Instants)
  BY DEF RateTypes
<1> QED BY <1>1, <1>2, InstantsAre DEF RateTypes

(* What check counts: the rest of the queue. *)
LEMMA RecentIs ==
  ASSUME RateInv, NEW b \in Buckets, NEW a \in Addresses
  PROVE  /\ Recent(b, a) \in Seq(Instants) /\ Len(Recent(b, a)) <= RateLimit[b]
         /\ \A i \in 1..Len(Recent(b, a)) : Recent(b, a)[i] <= time
         /\ \A i \in 2..Len(Recent(b, a)) : Recent(b, a)[i - 1] <= Recent(b, a)[i]
         /\ Counted(Passed(b, a), Recent(b, a))
<1> DEFINE q == recent[b, a]
           w == RateWindow[b]
           n == LeadingOld(q, w)
           r == SubSeq(q, n + 1, Len(q))
<1>1. /\ RateLimit[b] \in Nat /\ w \in Nat /\ q \in Seq(Instants) /\ q \in Seq(Nat)
      /\ time \in Nat
  BY RatesAre DEF RateInv
<1>2. QueueInv(b, a)
  BY DEF RateInv
<1>3. n \in 0..Len(q) /\ \A i \in 1..n : q[i] + w <= time
  BY <1>1, LeadingOldIs
<1>4. ASSUME NEW i \in 1..n, NEW x \in Passed(b, a)
      PROVE  x.at # q[i]
  <2>1. x.at + w > time
    BY DEF Passed
  <2>2. q[i] + w <= time
    BY <1>3
  <2> HIDE DEF q, w, n
  <2>3. q[i] \in Nat
    <3>1. i \in 1..Len(q)
      BY <1>1, <1>3
    <3> QED BY <1>1, <3>1
  <2> QED BY <1>1, <2>1, <2>2, <2>3
<1> HIDE DEF n
<1>5. Counted(Passed(b, a), r)
  <2>1. Counted(Passed(b, a), q)
    BY <1>2 DEF QueueInv
  <2> HIDE DEF q
  <2> QED BY <1>1, <1>3, <1>4, <2>1, CountedDrop
<1>6. /\ \A i \in 1..Len(q) : q[i] <= time
      /\ \A i \in 2..Len(q) : q[i - 1] <= q[i] /\ Len(q) <= RateLimit[b]
      /\ Len(q) <= RateLimit[b]
  BY <1>2 DEF QueueInv
<1> HIDE DEF q, w
<1>7. Len(q) \in Nat /\ Len(r) = Len(q) - n /\ \A i \in 1..(Len(q) - n) : r[i] = q[i + n]
  BY <1>1, <1>3
<1>8. r \in Seq(Instants)
  BY <1>1, <1>3
<1> HIDE DEF r
<1>9. Len(r) <= RateLimit[b]
  BY <1>1, <1>3, <1>6, <1>7
<1>10. \A i \in 1..Len(r) : r[i] <= time
  BY <1>3, <1>6, <1>7
<1>11. \A i \in 2..Len(r) : r[i - 1] <= r[i]
  <2> SUFFICES ASSUME NEW i \in 2..Len(r)
               PROVE  r[i - 1] <= r[i]
    OBVIOUS
  <2>1. i + n \in 2..Len(q) /\ i \in 1..(Len(q) - n) /\ i - 1 \in 1..(Len(q) - n)
        /\ (i - 1) + n = (i + n) - 1
    BY <1>3, <1>7
  <2>2. r[i] = q[i + n] /\ r[i - 1] = q[(i + n) - 1]
    BY <1>7, <2>1
  <2> QED BY <1>6, <2>1, <2>2
<1>12. Recent(b, a) = r
  BY DEF Recent, r, n, q, w
<1> QED BY <1>5, <1>8, <1>9, <1>10, <1>11, <1>12

LEMMA NumberNew ==
  ASSUME NEW S, IsFiniteSet(S), NEW x, x.number = Cardinality(S),
         \A p \in S : p.number \in Nat /\ p.number < Cardinality(S)
  PROVE  /\ x \notin S /\ x.number \in Nat /\ IsFiniteSet(S \cup {x})
         /\ \A p \in S \cup {x} : p.number < Cardinality(S \cup {x})
<1>1. Cardinality(S) \in Nat
  BY FS_CardinalityType
<1>2. x \notin S
  BY <1>1
<1>3. IsFiniteSet(S \cup {x}) /\ Cardinality(S \cup {x}) = Cardinality(S) + 1
  BY <1>2, FS_AddElement
<1> QED BY <1>1, <1>2, <1>3

LEMMA PassedFinite ==
  ASSUME RateInv, NEW b \in Buckets, NEW a \in Addresses
  PROVE  /\ IsFiniteSet(Passed(b, a)) /\ Cardinality(Passed(b, a)) <= RateLimit[b]
         /\ \A t : IsFiniteSet({p \in Passed(b, a) : p.at = t})
<1>1. recent[b, a] \in Seq(Nat) /\ RateLimit[b] \in Nat
  BY RatesAre DEF RateInv
<1>2. QueueInv(b, a)
  BY DEF RateInv
<1>3. /\ IsFiniteSet(Passed(b, a)) /\ Cardinality(Passed(b, a)) \in Nat
      /\ Cardinality(Passed(b, a)) <= Len(recent[b, a])
  BY <1>1, <1>2, CountedBound DEF QueueInv
<1>4. Len(recent[b, a]) <= RateLimit[b] /\ Len(recent[b, a]) \in Nat
  <2>1. Len(recent[b, a]) <= RateLimit[b]
    BY <1>2 DEF QueueInv
  <2> DEFINE q == recent[b, a]
  <2>2. q \in Seq(Nat)
    BY <1>1
  <2> HIDE DEF q
  <2>3. Len(q) \in Nat
    BY <2>2
  <2> QED BY <2>1, <2>3 DEF q
<1>5. ASSUME NEW t
      PROVE  IsFiniteSet({p \in Passed(b, a) : p.at = t})
  <2>1. {p \in Passed(b, a) : p.at = t} \in SUBSET Passed(b, a)
    OBVIOUS
  <2> QED BY <1>3, <2>1, FS_Subset
<1>6. Cardinality(Passed(b, a)) <= RateLimit[b]
  <2> DEFINE c == Cardinality(Passed(b, a))
             m == Len(recent[b, a])
  <2>1. c \in Nat /\ c <= m /\ m \in Nat /\ m <= RateLimit[b] /\ RateLimit[b] \in Nat
    BY <1>1, <1>3, <1>4
  <2> HIDE DEF c, m
  <2>2. c <= RateLimit[b]
    BY <2>1
  <2> QED BY <2>2 DEF c
<1> QED BY <1>3, <1>5, <1>6

(* A request that passes is a new one. *)
LEMMA PassIs ==
  ASSUME RateInv, NEW b \in Buckets, NEW a \in Addresses
  PROVE  /\ Pass(b, a) \in Passes /\ Pass(b, a) \notin passed
         /\ Pass(b, a).bucket = b /\ Pass(b, a).address = a /\ Pass(b, a).at = time
         /\ LET S == {p \in Passed(b, a) : p.at = time}
            IN  \A p \in S \cup {Pass(b, a)} : p.number < Cardinality(S \cup {Pass(b, a)})
<1> DEFINE x == Pass(b, a)
           S == {p \in Passed(b, a) : p.at = time}
<1>1. x.bucket = b /\ x.address = a /\ x.at = time /\ x.number = Cardinality(S)
  BY DEF Pass
<1>2. RateWindow[b] \in Nat \ {0} /\ time \in Nat /\ time \in Instants
  BY RatesAre DEF RateInv
<1>3. IsFiniteSet(S)
  BY PassedFinite
<1>4. ASSUME NEW p \in S
      PROVE  p.number \in Nat /\ p.number < Cardinality(S)
  <2>1. p \in passed /\ p.bucket = b /\ p.address = a /\ p.at = time
        /\ p.at + RateWindow[p.bucket] > time
    BY DEF Passed
  <2>2. Alike(p) = S
    BY <2>1 DEF Alike
  <2>3. p.number \in Nat
    BY <2>1 DEF RateInv, RateTypes, Passes
  <2> HIDE DEF S
  <2> QED BY <2>1, <2>2, <2>3 DEF RateInv
<1>5. x \in passed => x \in S
  BY <1>1, <1>2 DEF Passed
<1> HIDE DEF S
<1>6. /\ x \notin S /\ x.number \in Nat
      /\ \A p \in S \cup {x} : p.number < Cardinality(S \cup {x})
  <2> HIDE DEF x
  <2> QED BY <1>1, <1>3, <1>4, NumberNew
<1>7. x \in Passes
  <2>1. x = [bucket |-> b, address |-> a, at |-> time, number |-> x.number]
    BY DEF Pass
  <2> HIDE DEF x
  <2> QED BY <1>2, <1>6, <2>1 DEF Passes
<1> QED BY <1>1, <1>5, <1>6, <1>7 DEF S

LEMMA RateTypesNext ==
  ASSUME RateInv, LimitStep
  PROVE  RateTypes'
<1>1. RateTypes
  BY DEF RateInv
<1>2. ASSUME NEW a \in Addresses, NEW b \in Buckets, Request(b, a)
      PROVE  RateTypes'
  <2>1. Pass(b, a) \in Passes /\ Recent(b, a) \in Seq(Instants) /\ time \in Instants
    BY PassIs, RecentIs DEF RateInv, RateTypes
  <2>2. Append(Recent(b, a), time) \in Seq(Instants)
    BY <2>1
  <2>3. time' \in Instants /\ passed' \subseteq Passes
    BY <1>1, <1>2, <2>1 DEF Request, Check, RateTypes
  <2>4. recent' \in [Buckets \X Addresses -> Seq(Instants)]
    <3>1. PICK s \in Seq(Instants) : recent' = [recent EXCEPT ![<<b, a>>] = s]
      BY <1>2, <2>1, <2>2, Zenon DEF Request, Check
    <3> QED BY <1>1, <3>1 DEF RateTypes
  <2>5. waiting' \in [Addresses -> 0..MaxWaiting]
    <3>1. waiting' = waiting \/ (waiting[a] < MaxWaiting /\ waiting' = [waiting EXCEPT ![a] = @ + 1])
      BY <1>2, Zenon DEF Request, Check
    <3>2. MaxWaiting \in Nat
      BY LimitsConstants DEF LimitsConstants
    <3> QED BY <1>1, <3>1, <3>2 DEF RateTypes
  <2> QED BY <2>3, <2>4, <2>5 DEF RateTypes
<1>3. ASSUME NEW a \in Addresses, OtherAuth(a) \/ \E l \in Logins, right \in BOOLEAN : Login(l, a, right)
      PROVE  RateTypes'
  <2>1. waiting' \in [Addresses -> 0..MaxWaiting]
    <3>1. waiting[a] > 0 /\ waiting' = [waiting EXCEPT ![a] = @ - 1]
      BY <1>3 DEF OtherAuth, Login
    <3>2. MaxWaiting \in Nat
      BY LimitsConstants DEF LimitsConstants
    <3> QED BY <1>1, <3>1, <3>2 DEF RateTypes
  <2>2. UNCHANGED <<time, recent, passed>>
    BY <1>3 DEF OtherAuth, Login
  <2> QED BY <1>1, <2>1, <2>2 DEF RateTypes
<1>4. CASE Tick
  <2>1. time' \in Instants
    BY <1>1, <1>4, LimitsConstants DEF LimitsConstants, Tick, RateTypes, Instants
  <2> QED BY <1>1, <1>4, <2>1 DEF Tick, RateTypes
<1> QED BY <1>2, <1>3, <1>4 DEF LimitStep

LEMMA RateRequest ==
  ASSUME RateInv, RateTypes', NEW b \in Buckets, NEW a \in Addresses, Request(b, a)
  PROVE  RateInv'
<1> DEFINE x == Pass(b, a)
           S == {p \in Passed(b, a) : p.at = time}
           r == Recent(b, a)
<1>1. /\ time' = time /\ time \in Nat /\ time \in Instants /\ RateWindow[b] \in Nat \ {0}
      /\ RateLimit[b] \in Nat /\ passed \subseteq Passes
      /\ recent \in [Buckets \X Addresses -> Seq(Instants)]
  BY RatesAre DEF RateInv, RateTypes, Request
<1>2. /\ r \in Seq(Instants) /\ Len(r) <= RateLimit[b]
      /\ \A i \in 1..Len(r) : r[i] <= time
      /\ \A i \in 2..Len(r) : r[i - 1] <= r[i]
      /\ Counted(Passed(b, a), r)
  BY RecentIs
<1>3. /\ x \in Passes /\ x \notin passed /\ x.bucket = b /\ x.address = a /\ x.at = time
      /\ \A p \in S \cup {x} : p.number < Cardinality(S \cup {x})
  BY PassIs
<1> HIDE DEF x, r
<1>4. \/ /\ Len(r) < RateLimit[b]
         /\ recent' = [recent EXCEPT ![<<b, a>>] = Append(r, time)]
         /\ passed' = passed \cup {x}
      \/ recent' = [recent EXCEPT ![<<b, a>>] = r] /\ passed' = passed
  BY DEF Request, Check, x, r
<1>5. ASSUME NEW b2 \in Buckets, NEW a2 \in Addresses, <<b2, a2>> # <<b, a>>
      PROVE  Passed(b2, a2)' = Passed(b2, a2) /\ QueueInv(b2, a2)'
  <2>1. recent'[b2, a2] = recent[b2, a2]
    BY <1>1, <1>4, <1>5
  <2>2. Passed(b2, a2)' = Passed(b2, a2)
    BY <1>1, <1>3, <1>4, <1>5 DEF Passed
  <2>3. QueueInv(b2, a2)
    BY DEF RateInv
  <2> QED BY <1>1, <2>1, <2>2, <2>3 DEF QueueInv
<1>6. CASE recent' = [recent EXCEPT ![<<b, a>>] = r] /\ passed' = passed
  <2>1. recent'[b, a] = r
    BY <1>1, <1>6
  <2>2. \A b2 \in Buckets, a2 \in Addresses : Passed(b2, a2)' = Passed(b2, a2)
    BY <1>1, <1>6 DEF Passed
  <2>3. QueueInv(b, a)'
    BY <1>1, <1>2, <2>1, <2>2 DEF QueueInv
  <2>4. \A b2 \in Buckets, a2 \in Addresses : QueueInv(b2, a2)'
    BY <1>5, <2>3, Zenon
  <2>5. \A p \in passed' : p.at + RateWindow[p.bucket] > time' => p.number < Cardinality(Alike(p)')
    <3> SUFFICES ASSUME NEW p \in passed, p.at + RateWindow[p.bucket] > time
                 PROVE  p.number < Cardinality(Alike(p)')
      BY <1>1, <1>6
    <3>1. p.bucket \in Buckets /\ p.address \in Addresses
      BY <1>1 DEF Passes
    <3>2. Alike(p)' = Alike(p)
      BY <2>2, <3>1 DEF Alike
    <3> QED BY <3>2 DEF RateInv
  <2> QED BY <2>4, <2>5 DEF RateInv
<1>7. CASE /\ Len(r) < RateLimit[b]
           /\ recent' = [recent EXCEPT ![<<b, a>>] = Append(r, time)]
           /\ passed' = passed \cup {x}
  <2>1. recent'[b, a] = Append(r, time)
    BY <1>1, <1>7
  <2>2. Passed(b, a)' = Passed(b, a) \cup {x}
    BY <1>1, <1>3, <1>7 DEF Passed
  <2>3. QueueInv(b, a)'
    <3> DEFINE s == Append(r, time)
    <3>1. /\ Len(r) \in Nat /\ Len(s) = Len(r) + 1 /\ s[Len(r) + 1] = time
          /\ \A i \in 1..Len(r) : s[i] = r[i]
      BY <1>1, <1>2
    <3>2. r \in Seq(Nat)
      BY <1>2, InstantsAre
    <3>3. Counted(Passed(b, a) \cup {x}, Append(r, x.at))
      BY <1>1, <1>2, <1>3, <3>2, CountedAdd
    <3>4. Counted(Passed(b, a) \cup {x}, s)
      BY <1>3, <3>3
    <3> HIDE DEF s
    <3>5. Len(s) <= RateLimit[b]
      BY <1>1, <1>7, <3>1
    <3>6. \A i \in 1..Len(s) : s[i] <= time
      BY <1>1, <1>2, <3>1
    <3>7. \A i \in 2..Len(s) : s[i - 1] <= s[i]
      <4> SUFFICES ASSUME NEW i \in 2..Len(s)
                   PROVE  s[i - 1] <= s[i]
        OBVIOUS
      <4>1. i - 1 \in 1..Len(r) /\ s[i - 1] = r[i - 1]
        BY <3>1
      <4>2. CASE i = Len(r) + 1
        BY <1>2, <3>1, <4>1, <4>2
      <4>3. CASE i \in 2..Len(r)
        BY <1>2, <3>1, <4>1, <4>3
      <4> QED BY <3>1, <4>2, <4>3
    <3>8. recent'[b, a] = s
      BY <2>1 DEF s
    <3> QED BY <1>1, <2>2, <3>4, <3>5, <3>6, <3>7, <3>8 DEF QueueInv
  <2>4. \A b2 \in Buckets, a2 \in Addresses : QueueInv(b2, a2)'
    BY <1>5, <2>3, Zenon
  <2>5. \A p \in passed' : p.at + RateWindow[p.bucket] > time' => p.number < Cardinality(Alike(p)')
    <3> SUFFICES ASSUME NEW p \in passed \cup {x}, p.at + RateWindow[p.bucket] > time
                 PROVE  p.number < Cardinality(Alike(p)')
      BY <1>1, <1>7
    <3>1. p.bucket \in Buckets /\ p.address \in Addresses
      BY <1>1, <1>3 DEF Passes
    <3>2. CASE p.bucket = b /\ p.address = a /\ p.at = time
      <4>1. Alike(p)' = S \cup {x}
        BY <1>3, <2>2, <3>2 DEF Alike
      <4>2. p \in S \cup {x}
        BY <3>2 DEF Passed
      <4> HIDE DEF S
      <4> QED BY <1>3, <4>1, <4>2
    <3>3. CASE ~(p.bucket = b /\ p.address = a /\ p.at = time)
      <4>1. p \in passed
        BY <1>3, <3>3
      <4>2. Alike(p)' = Alike(p)
        <5>1. CASE p.bucket = b /\ p.address = a
          BY <1>3, <2>2, <3>3, <5>1 DEF Alike
        <5>2. CASE ~(p.bucket = b /\ p.address = a)
          BY <1>5, <3>1, <5>2 DEF Alike
        <5> QED BY <5>1, <5>2
      <4> QED BY <4>1, <4>2 DEF RateInv
    <3> QED BY <3>2, <3>3
  <2> QED BY <2>4, <2>5 DEF RateInv
<1> QED BY <1>4, <1>6, <1>7

LEMMA RateTick ==
  ASSUME RateInv, RateTypes', Tick
  PROVE  RateInv'
<1>1. /\ time' = time + 1 /\ time \in Nat /\ passed \subseteq Passes /\ recent' = recent
      /\ passed' = {p \in passed : p.at + RateWindow[p.bucket] > time'}
  BY InstantsAre DEF RateInv, RateTypes, Tick
<1>2. ASSUME NEW b \in Buckets, NEW a \in Addresses
      PROVE  Passed(b, a)' = {p \in Passed(b, a) : p.at + RateWindow[b] > time + 1}
  <2>1. RateWindow[b] \in Nat
    BY RatesAre DEF RateInv
  <2>2. \A p \in passed : p.at \in Nat
    BY <1>1, InstantsAre DEF Passes
  <2>3. \A p \in passed : p.at + RateWindow[b] > time + 1 => p.at + RateWindow[b] > time
    BY <1>1, <2>1, <2>2
  <2> QED BY <1>1, <2>3 DEF Passed
<1>3. ASSUME NEW b \in Buckets, NEW a \in Addresses
      PROVE  QueueInv(b, a)'
  <2>1. QueueInv(b, a) /\ recent[b, a] \in Seq(Nat)
    BY RatesAre DEF RateInv
  <2>2. Passed(b, a)' \in SUBSET Passed(b, a)
    BY <1>2
  <2>3. Counted(Passed(b, a)', recent[b, a])
    BY <2>1, <2>2, CountedLess DEF QueueInv
  <2>4. \A i \in 1..Len(recent[b, a]) : recent[b, a][i] <= time'
    <3> DEFINE q == recent[b, a]
    <3>1. q \in Seq(Nat) /\ \A i \in 1..Len(q) : q[i] <= time
      BY <2>1 DEF QueueInv
    <3> HIDE DEF q
    <3>2. \A i \in 1..Len(q) : q[i] <= time'
      BY <1>1, <3>1
    <3> QED BY <3>2 DEF q
  <2> QED BY <1>1, <2>1, <2>3, <2>4 DEF QueueInv
<1>4. ASSUME NEW p \in passed', p.at + RateWindow[p.bucket] > time'
      PROVE  p.number < Cardinality(Alike(p)')
  <2>1. /\ p \in passed /\ p.bucket \in Buckets /\ p.address \in Addresses
        /\ p.at + RateWindow[p.bucket] > time + 1
    BY <1>1, <1>4 DEF Passes
  <2>2. RateWindow[p.bucket] \in Nat /\ p.at \in Nat
    BY <1>1, <2>1, RatesAre, InstantsAre DEF RateInv, Passes
  <2>3. p.at + RateWindow[p.bucket] > time
    BY <1>1, <2>1, <2>2
  <2>4. Alike(p)' = Alike(p)
    BY <1>2, <2>1 DEF Alike
  <2> QED BY <2>1, <2>3, <2>4 DEF RateInv
<1> QED BY <1>3, <1>4 DEF RateInv

LEMMA RateSame ==
  ASSUME RateInv, RateTypes', UNCHANGED <<time, recent, passed>>
  PROVE  RateInv'
<1>1. \A b, a : Passed(b, a)' = Passed(b, a)
  BY DEF Passed
<1>2. \A b \in Buckets, a \in Addresses : QueueInv(b, a)'
  BY <1>1 DEF RateInv, QueueInv
<1>3. \A p : Alike(p)' = Alike(p)
  BY <1>1 DEF Alike
<1> QED BY <1>2, <1>3 DEF RateInv

LEMMA RateStep ==
  ASSUME RateInv, LimitStep
  PROVE  RateInv'
<1>1. RateTypes'
  BY RateTypesNext
<1>2. ASSUME NEW a \in Addresses, NEW b \in Buckets, Request(b, a)
      PROVE  RateInv'
  BY <1>1, <1>2, RateRequest
<1>3. ASSUME NEW a \in Addresses, OtherAuth(a) \/ \E l \in Logins, right \in BOOLEAN : Login(l, a, right)
      PROVE  RateInv'
  BY <1>1, <1>3, RateSame DEF OtherAuth, Login
<1>4. CASE Tick
  BY <1>1, <1>4, RateTick
<1> QED BY <1>2, <1>3, <1>4 DEF LimitStep

(* An empty memory. *)
Empty ==
  /\ time \in Instants /\ recent = [k \in Buckets \X Addresses |-> <<>>] /\ passed = {}
  /\ waiting = [a \in Addresses |-> 0]
LEMMA RateEmpty == Empty => RateInv
<1> SUFFICES ASSUME Empty
             PROVE  RateInv
  OBVIOUS
<1> USE DEF Empty
<1>1. RateTypes
  <2>1. <<>> \in Seq(Instants) /\ 0 \in 0..MaxWaiting
    BY LimitsConstants DEF LimitsConstants
  <2> QED BY <2>1 DEF RateTypes
<1>2. ASSUME NEW b \in Buckets, NEW a \in Addresses
      PROVE  QueueInv(b, a)
  <2>1. recent[b, a] = <<>>
    <3>1. <<b, a>> \in Buckets \X Addresses
      OBVIOUS
    <3> QED BY <3>1
  <2>2. Passed(b, a) = {}
    BY DEF Passed
  <2>3. RateLimit[b] \in Nat
    BY LimitsConstants DEF LimitsConstants
  <2>4. Counted(Passed(b, a), recent[b, a])
    BY <2>2, CountedNone
  <2>5. /\ Len(recent[b, a]) <= RateLimit[b]
        /\ \A i \in 1..Len(recent[b, a]) : recent[b, a][i] <= time
        /\ \A i \in 2..Len(recent[b, a]) : recent[b, a][i - 1] <= recent[b, a][i]
    <3> DEFINE q == recent[b, a]
    <3>1. q = <<>>
      BY <2>1
    <3> HIDE DEF q
    <3>2. Len(q) = 0 /\ 1..Len(q) = {} /\ 2..Len(q) = {}
      BY <3>1
    <3>3. /\ Len(q) <= RateLimit[b]
          /\ \A i \in 1..Len(q) : q[i] <= time
          /\ \A i \in 2..Len(q) : q[i - 1] <= q[i]
      BY <2>3, <3>2
    <3> QED BY <3>3 DEF q
  <2> QED BY <2>4, <2>5 DEF QueueInv
<1> QED BY <1>1, <1>2 DEF RateInv
LEMMA RateEmptyNext == (Empty => RateInv)'
  BY RateEmpty, PTL

-----------------------------------------------------------------------------
(* The guard's half: failures are numbered, and those of a login, and of   *)
(* an address, are held.                                                   *)
OfLogin(F, l) == {f \in F : f.login = l}
OfAddress(F, a) == {f \in F : f.address = a}
Same(l, a, t) == {f \in failed : f.login = l /\ f.address = a /\ f.at = t}
GuardTypes ==
  /\ time \in Instants
  /\ failed \subseteq AuthAttempts /\ IsFiniteSet(failed)
  /\ blocked \in [Addresses -> 0..(MaxTime + Block)]
  /\ \A f \in failed : f.at <= time
GuardInv ==
  /\ GuardTypes
  /\ \A f \in failed : f.number < Cardinality(Same(f.login, f.address, f.at))
  /\ \A l \in Logins : Held(OfLogin(failed, l), LoginLimit - 1, time, blocked)
  /\ \A a \in Addresses : Held(OfAddress(failed, a), IpLimit - 1, time, blocked)

LEMMA GuardsAre ==
  ASSUME GuardTypes
  PROVE  /\ time \in Nat /\ blocked \in [Addresses -> Nat]
         /\ LoginLimit - 1 \in Nat /\ IpLimit - 1 \in Nat /\ Block \in Nat /\ Window \in Nat
         /\ LoginLimit \in Nat /\ IpLimit \in Nat
         /\ \A f \in failed : f.at \in Nat /\ f.address \in Addresses /\ f.number \in Nat
         /\ \A l : IsFiniteSet(OfLogin(failed, l)) /\ OfLogin(failed, l) \subseteq failed
         /\ \A a : IsFiniteSet(OfAddress(failed, a)) /\ OfAddress(failed, a) \subseteq failed
         /\ \A l, a, t : IsFiniteSet(Same(l, a, t))
<1>1. /\ LoginLimit - 1 \in Nat /\ IpLimit - 1 \in Nat /\ Block \in Nat /\ Window \in Nat
      /\ LoginLimit \in Nat /\ IpLimit \in Nat /\ MaxTime \in Nat
  BY LimitsConstants DEF LimitsConstants
<1>2. time \in Nat /\ blocked \in [Addresses -> Nat]
  BY <1>1, InstantsAre DEF GuardTypes
<1>3. \A f \in failed : f.at \in Nat /\ f.address \in Addresses /\ f.number \in Nat
  BY InstantsAre DEF GuardTypes, AuthAttempts
<1>4. \A T \in SUBSET failed : IsFiniteSet(T)
  BY FS_Subset DEF GuardTypes
<1>5. \A l : OfLogin(failed, l) \in SUBSET failed
  BY DEF OfLogin
<1>6. \A a : OfAddress(failed, a) \in SUBSET failed
  BY DEF OfAddress
<1>7. \A l, a, t : Same(l, a, t) \in SUBSET failed
  BY DEF Same
<1> QED BY <1>1, <1>2, <1>3, <1>4, <1>5, <1>6, <1>7, Zenon

LEMMA AttemptIs ==
  ASSUME GuardInv, NEW l \in Logins, NEW a \in Addresses
  PROVE  LET x == Attempt(l, a)
             S == Same(l, a, time)
         IN  /\ x \in AuthAttempts /\ x \notin failed
             /\ x.login = l /\ x.address = a /\ x.at = time
             /\ \A p \in S \cup {x} : p.number < Cardinality(S \cup {x})
<1> DEFINE x == Attempt(l, a)
           S == Same(l, a, time)
<1>1. x.login = l /\ x.address = a /\ x.at = time /\ x.number = Cardinality(S)
  BY DEF Attempt, Same
<1>2. IsFiniteSet(S) /\ time \in Instants
  BY GuardsAre DEF GuardInv, GuardTypes
<1>3. \A p \in S : p.number \in Nat /\ p.number < Cardinality(S)
  <2> SUFFICES ASSUME NEW p \in S
               PROVE  p.number \in Nat /\ p.number < Cardinality(S)
    OBVIOUS
  <2>1. p \in failed /\ p.login = l /\ p.address = a /\ p.at = time
    BY DEF Same
  <2>2. p.number \in Nat
    BY <2>1, GuardsAre DEF GuardInv
  <2> QED BY <2>1, <2>2 DEF GuardInv
<1>4. x \in failed => x \in S
  BY <1>1 DEF Same
<1> HIDE DEF S
<1>5. /\ x \notin S /\ x.number \in Nat
      /\ \A p \in S \cup {x} : p.number < Cardinality(S \cup {x})
  <2> HIDE DEF x
  <2> QED BY <1>1, <1>2, <1>3, NumberNew
<1>6. x \in AuthAttempts
  <2>1. x = [login |-> l, address |-> a, at |-> time, number |-> x.number]
    BY DEF Attempt
  <2> HIDE DEF x
  <2> QED BY <1>2, <1>5, <2>1 DEF AuthAttempts
<1> QED BY <1>1, <1>4, <1>5, <1>6 DEF S

(* A wrong guess. *)
LEMMA GuardWrong ==
  ASSUME GuardInv, NEW l \in Logins, NEW a \in Addresses, Allowed(a), RecordAttempt(l, a),
         time' = time
  PROVE  GuardInv'
<1> DEFINE x == Attempt(l, a)
<1>1. /\ x \in AuthAttempts /\ x \notin failed
      /\ x.login = l /\ x.address = a /\ x.at = time
      /\ \A p \in Same(l, a, time) \cup {x} : p.number < Cardinality(Same(l, a, time) \cup {x})
  BY AttemptIs
<1>2. GuardTypes /\ failed' = failed \cup {x} /\ blocked[a] <= time
  BY DEF GuardInv, RecordAttempt, Allowed
<1> HIDE DEF x
<1>3. /\ time \in Nat /\ blocked \in [Addresses -> Nat] /\ IsFiniteSet(failed)
      /\ LoginLimit - 1 \in Nat /\ IpLimit - 1 \in Nat /\ Block \in Nat /\ Window \in Nat
      /\ LoginLimit \in Nat /\ IpLimit \in Nat
      /\ \A f \in failed : f.at \in Nat /\ f.address \in Addresses
  BY <1>2, GuardsAre DEF GuardTypes
<1>4. IsFiniteSet(failed')
  BY <1>2, <1>3, FS_AddElement
<1>5. GuardTypes'
  <2>1. failed' \subseteq AuthAttempts /\ \A f \in failed' : f.at <= time'
    BY <1>1, <1>2, <1>3 DEF GuardTypes
  <2>2. blocked' \in [Addresses -> 0..(MaxTime + Block)]
    <3>1. time + Block \in 0..(MaxTime + Block) /\ 0 \in 0..(MaxTime + Block)
      BY <1>2, <1>3, InstantsAre DEF GuardTypes, Instants
    <3>2. PICK v \in 0..(MaxTime + Block) : blocked' = [blocked EXCEPT ![a] = v]
      BY <3>1, Zenon DEF RecordAttempt
    <3> QED BY <1>2, <3>2 DEF GuardTypes
  <2> QED BY <1>2, <1>4, <2>1, <2>2 DEF GuardTypes
<1>6. \A f \in failed' : f.number < Cardinality(Same(f.login, f.address, f.at)')
  <2> SUFFICES ASSUME NEW f \in failed'
               PROVE  f.number < Cardinality(Same(f.login, f.address, f.at)')
    OBVIOUS
  <2>1. CASE f.login = l /\ f.address = a /\ f.at = time
    <3>1. Same(f.login, f.address, f.at)' = Same(l, a, time) \cup {x}
      BY <1>1, <1>2, <2>1 DEF Same
    <3>2. f \in Same(l, a, time) \cup {x}
      BY <1>2, <2>1 DEF Same
    <3> QED BY <1>1, <3>1, <3>2
  <2>2. CASE ~(f.login = l /\ f.address = a /\ f.at = time)
    <3>1. Same(f.login, f.address, f.at)' = Same(f.login, f.address, f.at)
      BY <1>1, <1>2, <2>2 DEF Same
    <3>2. f \in failed
      BY <1>1, <1>2, <2>2
    <3> QED BY <3>1, <3>2 DEF GuardInv
  <2> QED BY <2>1, <2>2
<1>7. /\ OfLogin(failed', l) = OfLogin(failed, l) \cup {x}
      /\ OfAddress(failed', a) = OfAddress(failed, a) \cup {x}
      /\ \A l2 : l2 # l => OfLogin(failed', l2) = OfLogin(failed, l2)
      /\ \A a2 : a2 # a => OfAddress(failed', a2) = OfAddress(failed, a2)
  BY <1>1, <1>2 DEF OfLogin, OfAddress
<1>8. /\ \A l2 : /\ IsFiniteSet(OfLogin(failed, l2))
                 /\ \A f \in OfLogin(failed, l2) : f.address \in Addresses /\ f.at \in Nat
      /\ \A a2 : /\ IsFiniteSet(OfAddress(failed, a2))
                 /\ \A f \in OfAddress(failed, a2) : f.address \in Addresses /\ f.at \in Nat
  BY <1>2, <1>3, GuardsAre
<1>9. /\ \A l2 \in Logins : Held(OfLogin(failed, l2), LoginLimit - 1, time, blocked)
      /\ \A a2 \in Addresses : Held(OfAddress(failed, a2), IpLimit - 1, time, blocked)
  BY DEF GuardInv
<1>10. CASE LimitReached(l, a)
  <2>1. blocked' = [blocked EXCEPT ![x.address] = time + Block]
    BY <1>1, <1>10 DEF RecordAttempt
  <2>2. Held(OfLogin(failed', l), LoginLimit - 1, time, blocked')
    <3> DEFINE F == OfLogin(failed, l)
    <3>1. /\ IsFiniteSet(F) /\ \A f \in F : f.address \in Addresses /\ f.at \in Nat
          /\ Held(F, LoginLimit - 1, time, blocked)
      BY <1>8, <1>9
    <3> HIDE DEF F
    <3>2. Held(F \cup {x}, LoginLimit - 1, time, [blocked EXCEPT ![x.address] = time + Block])
      BY <1>1, <1>2, <1>3, <3>1, HeldAdd
    <3> QED BY <1>7, <2>1, <3>2 DEF F
  <2>3. Held(OfAddress(failed', a), IpLimit - 1, time, blocked')
    <3> DEFINE F == OfAddress(failed, a)
    <3>1. /\ IsFiniteSet(F) /\ \A f \in F : f.address \in Addresses /\ f.at \in Nat
          /\ Held(F, IpLimit - 1, time, blocked)
      BY <1>8, <1>9
    <3> HIDE DEF F
    <3>2. Held(F \cup {x}, IpLimit - 1, time, [blocked EXCEPT ![x.address] = time + Block])
      BY <1>1, <1>2, <1>3, <3>1, HeldAdd
    <3> QED BY <1>7, <2>1, <3>2 DEF F
  <2>4. ASSUME NEW F, NEW room, Held(F, room, time, blocked),
               \A f \in F : f.address \in Addresses /\ f.at \in Nat
        PROVE  Held(F, room, time, blocked')
    <3>1. blocked' = [blocked EXCEPT ![a] = time + Block]
      BY <1>1, <2>1
    <3> QED BY <1>2, <1>3, <2>4, <3>1, HeldOther
  <2>5. ASSUME NEW l2 \in Logins
        PROVE  Held(OfLogin(failed', l2), LoginLimit - 1, time, blocked')
    BY <1>7, <1>8, <1>9, <2>2, <2>4, Zenon
  <2>6. ASSUME NEW a2 \in Addresses
        PROVE  Held(OfAddress(failed', a2), IpLimit - 1, time, blocked')
    BY <1>7, <1>8, <1>9, <2>3, <2>4, Zenon
  <2> QED BY <1>5, <1>6, <2>5, <2>6 DEF GuardInv
<1>11. CASE ~LimitReached(l, a)
  <2>1. blocked' = [blocked EXCEPT ![a] = 0]
    BY <1>11 DEF RecordAttempt
  <2>2. /\ Cardinality({f \in Since : f.login = l}) < LoginLimit
        /\ Cardinality({f \in Since : f.address = a}) < IpLimit
    <3>1. /\ IsFiniteSet({f \in Since : f.login = l})
          /\ IsFiniteSet({f \in Since : f.address = a})
      <4>1. /\ {f \in Since : f.login = l} \in SUBSET failed'
            /\ {f \in Since : f.address = a} \in SUBSET failed'
        BY DEF Since
      <4> QED BY <1>4, <4>1, FS_Subset
    <3>2. /\ Cardinality({f \in Since : f.login = l}) \in Nat
          /\ Cardinality({f \in Since : f.address = a}) \in Nat
      BY <3>1, FS_CardinalityType
    <3>3. /\ ~(Cardinality({f \in Since : f.login = l}) >= LoginLimit)
          /\ ~(Cardinality({f \in Since : f.address = a}) >= IpLimit)
      BY <1>11 DEF LimitReached
    <3> QED BY <1>3, <3>2, <3>3
  <2>3. ASSUME NEW T \in SUBSET Since, NEW U \in SUBSET T, NEW m \in Nat, Cardinality(T) < m
        PROVE  Cardinality(U) <= m - 1
    <3>1. T \in SUBSET failed'
      BY DEF Since
    <3>2. IsFiniteSet(T)
      BY <1>4, <3>1, FS_Subset
    <3>3. IsFiniteSet(U) /\ Cardinality(U) <= Cardinality(T)
      BY <3>2, FS_Subset
    <3>4. Cardinality(U) \in Nat /\ Cardinality(T) \in Nat
      BY <3>2, <3>3, FS_CardinalityType
    <3> QED BY <2>3, <3>3, <3>4
  <2>4. \A f \in failed' : f.at + Window > time => f \in Since
    BY <1>1, <1>2, <1>3 DEF Since
  <2>5. Held(OfLogin(failed', l), LoginLimit - 1, time, blocked')
    <3>1. Late(OfLogin(failed', l), time) \in SUBSET {f \in Since : f.login = l}
      BY <2>4 DEF Late, OfLogin
    <3>2. {f \in Since : f.login = l} \in SUBSET Since
      OBVIOUS
    <3>3. Cardinality(Late(OfLogin(failed', l), time)) <= LoginLimit - 1
      BY <1>3, <2>2, <2>3, <3>1, <3>2
    <3> QED BY <3>3, HeldFresh
  <2>6. Held(OfAddress(failed', a), IpLimit - 1, time, blocked')
    <3>1. Late(OfAddress(failed', a), time) \in SUBSET {f \in Since : f.address = a}
      BY <2>4 DEF Late, OfAddress
    <3>2. {f \in Since : f.address = a} \in SUBSET Since
      OBVIOUS
    <3>3. Cardinality(Late(OfAddress(failed', a), time)) <= IpLimit - 1
      BY <1>3, <2>2, <2>3, <3>1, <3>2
    <3> QED BY <3>3, HeldFresh
  <2>7. ASSUME NEW F, NEW room, Held(F, room, time, blocked),
               \A f \in F : f.address \in Addresses /\ f.at \in Nat
        PROVE  Held(F, room, time, blocked')
    BY <1>2, <1>3, <2>1, <2>7, HeldOther
  <2>8. ASSUME NEW l2 \in Logins
        PROVE  Held(OfLogin(failed', l2), LoginLimit - 1, time, blocked')
    BY <1>7, <1>8, <1>9, <2>5, <2>7, Zenon
  <2>9. ASSUME NEW a2 \in Addresses
        PROVE  Held(OfAddress(failed', a2), IpLimit - 1, time, blocked')
    BY <1>7, <1>8, <1>9, <2>6, <2>7, Zenon
  <2> QED BY <1>5, <1>6, <2>8, <2>9 DEF GuardInv
<1> QED BY <1>10, <1>11

(* The right password, from an address that may try. *)
LEMMA GuardRight ==
  ASSUME GuardInv, NEW a \in Addresses, Allowed(a), blocked' = [blocked EXCEPT ![a] = 0],
         UNCHANGED <<time, failed>>
  PROVE  GuardInv'
<1>1. /\ time \in Nat /\ blocked \in [Addresses -> Nat] /\ blocked[a] <= time
      /\ \A f \in failed : f.at \in Nat /\ f.address \in Addresses
      /\ Block \in Nat /\ MaxTime \in Nat
  BY GuardsAre, InstantsAre DEF GuardInv, Allowed
<1>2. GuardTypes'
  <2>1. 0 \in 0..(MaxTime + Block)
    BY <1>1
  <2> QED BY <2>1 DEF GuardInv, GuardTypes
<1>3. ASSUME NEW F \in SUBSET failed, NEW room, Held(F, room, time, blocked)
      PROVE  Held(F, room, time, blocked')
  <2>1. \A f \in F : f.address \in Addresses /\ f.at \in Nat
    BY <1>1
  <2> QED BY <1>1, <1>3, <2>1, HeldOther
<1>4. \A f \in failed' : f.number < Cardinality(Same(f.login, f.address, f.at)')
  BY DEF GuardInv, Same
<1>5. ASSUME NEW l \in Logins
      PROVE  Held(OfLogin(failed, l), LoginLimit - 1, time, blocked')
  <2>1. OfLogin(failed, l) \in SUBSET failed /\ Held(OfLogin(failed, l), LoginLimit - 1, time, blocked)
    BY DEF OfLogin, GuardInv
  <2> QED BY <1>3, <2>1
<1>6. ASSUME NEW b \in Addresses
      PROVE  Held(OfAddress(failed, b), IpLimit - 1, time, blocked')
  <2>1. OfAddress(failed, b) \in SUBSET failed /\ Held(OfAddress(failed, b), IpLimit - 1, time, blocked)
    BY DEF OfAddress, GuardInv
  <2> QED BY <1>3, <2>1
<1> QED BY <1>2, <1>4, <1>5, <1>6 DEF GuardInv

LEMMA GuardSame ==
  ASSUME GuardInv, UNCHANGED <<time, failed, blocked>>
  PROVE  GuardInv'
  BY DEF GuardInv, GuardTypes, Same

LEMMA GuardTick ==
  ASSUME GuardInv, Tick
  PROVE  GuardInv'
<1>1. /\ time \in Nat /\ LoginLimit - 1 \in Nat /\ IpLimit - 1 \in Nat
      /\ \A f \in failed : f.at \in Nat
      /\ \A l : IsFiniteSet(OfLogin(failed, l)) /\ OfLogin(failed, l) \subseteq failed
      /\ \A a : IsFiniteSet(OfAddress(failed, a)) /\ OfAddress(failed, a) \subseteq failed
  BY GuardsAre DEF GuardInv
<1>2. time' = time + 1 /\ failed' = failed /\ blocked' = blocked /\ time < MaxTime
  BY DEF Tick
<1>3. GuardTypes'
  <2>1. time' \in Instants /\ \A f \in failed : f.at <= time'
    BY <1>1, <1>2, InstantsAre DEF GuardInv, GuardTypes, Instants
  <2> QED BY <1>2, <2>1 DEF GuardInv, GuardTypes
<1>4. \A f \in failed' : f.number < Cardinality(Same(f.login, f.address, f.at)')
  BY <1>2 DEF GuardInv, Same
<1>5. ASSUME NEW F, IsFiniteSet(F), F \subseteq failed, NEW room \in Nat,
             Held(F, room, time, blocked)
      PROVE  Held(F, room, time', blocked')
  <2>1. Held(F, room, time + 1, blocked)
    BY <1>1, <1>5, HeldLater
  <2> QED BY <1>2, <2>1
<1>6. \A l \in Logins : Held(OfLogin(failed, l), LoginLimit - 1, time', blocked')
  BY <1>1, <1>5 DEF GuardInv
<1>7. \A a \in Addresses : Held(OfAddress(failed, a), IpLimit - 1, time', blocked')
  BY <1>1, <1>5 DEF GuardInv
<1> QED BY <1>2, <1>3, <1>4, <1>6, <1>7 DEF GuardInv

LEMMA GuardStep ==
  ASSUME GuardInv, LimitStep
  PROVE  GuardInv'
<1>1. ASSUME NEW a \in Addresses, NEW b \in Buckets, Request(b, a)
      PROVE  GuardInv'
  BY <1>1, GuardSame DEF Request
<1>2. ASSUME NEW a \in Addresses, NEW l \in Logins, NEW right \in BOOLEAN, Login(l, a, right)
      PROVE  GuardInv'
  <2>1. CASE ~Allowed(a)
    BY <1>2, <2>1, GuardSame DEF Login
  <2>2. CASE Allowed(a) /\ right
    BY <1>2, <2>2, GuardRight DEF Login
  <2>3. CASE Allowed(a) /\ ~right
    BY <1>2, <2>3, GuardWrong DEF Login
  <2> QED BY <2>1, <2>2, <2>3
<1>3. ASSUME NEW a \in Addresses, OtherAuth(a)
      PROVE  GuardInv'
  BY <1>3, GuardSame DEF OtherAuth
<1>4. CASE Tick
  BY <1>4, GuardTick
<1> QED BY <1>1, <1>2, <1>3, <1>4 DEF LimitStep

LEMMA GuardEmpty ==
  ASSUME LimitsInit
  PROVE  GuardInv
<1>1. /\ MaxTime \in Nat /\ Block \in Nat /\ LoginLimit - 1 \in Nat /\ IpLimit - 1 \in Nat
  BY LimitsConstants DEF LimitsConstants
<1>2. GuardTypes
  <2>1. 0 \in Instants /\ 0 \in 0..(MaxTime + Block)
    BY <1>1 DEF Instants
  <2>2. IsFiniteSet({})
    BY FS_EmptySet
  <2> QED BY <2>1, <2>2 DEF LimitsInit, GuardTypes
<1>3. ASSUME NEW room \in Nat, NEW t, NEW bl
      PROVE  Held({}, room, t, bl)
  <2>1. Late({}, t) = {} /\ Cardinality({}) = 0
    BY FS_EmptySet DEF Late
  <2> QED BY <2>1, HeldFresh
<1>4. \A l : OfLogin({}, l) = {} /\ OfAddress({}, l) = {}
  BY DEF OfLogin, OfAddress
<1>5. failed = {}
  BY DEF LimitsInit
<1> QED BY <1>1, <1>2, <1>3, <1>4, <1>5 DEF GuardInv

-----------------------------------------------------------------------------
LimitsInv == RateInv /\ GuardInv

LEMMA LimitsInvHolds ==
  ASSUME LimitsInv
  PROVE  LimitsHold /\ LimitsOK
<1>1. RequestsRationed
  BY PassedFinite DEF LimitsInv, RequestsRationed
<1>2. /\ time \in Nat /\ LoginLimit - 1 \in Nat /\ IpLimit - 1 \in Nat
      /\ \A f \in failed : f.at \in Nat /\ f.at <= time /\ f.address \in Addresses
      /\ \A l : IsFiniteSet(OfLogin(failed, l)) /\ OfLogin(failed, l) \subseteq failed
      /\ \A a : IsFiniteSet(OfAddress(failed, a)) /\ OfAddress(failed, a) \subseteq failed
  BY GuardsAre DEF LimitsInv, GuardInv, GuardTypes
<1> DEFINE Latest == {f \in failed : f.at + Window > time}
<1>3. ASSUME NEW l \in Logins
      PROVE  Cardinality({f \in Latest : f.login = l})
               <= LoginLimit - 1 + Cardinality(Addresses) * Blocks
  <2>1. {f \in Latest : f.login = l} = Late(OfLogin(failed, l), time)
    BY DEF Late, OfLogin
  <2> DEFINE F == OfLogin(failed, l)
  <2>2. /\ IsFiniteSet(F) /\ Held(F, LoginLimit - 1, time, blocked)
        /\ \A f \in F : f.address \in Addresses /\ f.at \in Nat /\ f.at <= time
    BY <1>2 DEF LimitsInv, GuardInv
  <2>3. IsFiniteSet(Addresses)
    BY LimitsConstants DEF LimitsConstants
  <2> HIDE DEF F
  <2>4. Cardinality(Late(F, time)) <= LoginLimit - 1 + Cardinality(Addresses) * Blocks
    BY <1>2, <2>2, <2>3, HeldBound
  <2> QED BY <2>1, <2>4 DEF F
<1>4. ASSUME NEW a \in Addresses
      PROVE  Cardinality({f \in Latest : f.address = a}) <= IpLimit - 1 + Blocks
  <2>1. {f \in Latest : f.address = a} = Late(OfAddress(failed, a), time)
    BY DEF Late, OfAddress
  <2> DEFINE F == OfAddress(failed, a)
  <2>2. /\ IsFiniteSet(F) /\ Held(F, IpLimit - 1, time, blocked)
        /\ \A f \in F : f.address \in {a} /\ f.at \in Nat /\ f.at <= time
    BY <1>2 DEF LimitsInv, GuardInv, OfAddress
  <2>3. IsFiniteSet({a}) /\ Cardinality({a}) = 1
    BY FS_Singleton
  <2> HIDE DEF F
  <2>4. Cardinality(Late(F, time)) <= IpLimit - 1 + Cardinality({a}) * Blocks
    BY <1>2, <2>2, <2>3, HeldBound
  <2>5. Blocks \in Nat
    BY BlocksIs
  <2>6. Cardinality({a}) * Blocks = Blocks
    BY <2>3, <2>5
  <2> QED BY <2>1, <2>4, <2>6 DEF F
<1>5. GuessesRationed
  BY <1>3, <1>4 DEF GuessesRationed
<1>6. \A b \in Buckets, a \in Addresses : \A i \in 2..Len(recent[b, a]) :
        recent[b, a][i - 1] <= recent[b, a][i]
  BY DEF LimitsInv, RateInv, QueueInv
<1>7. LimitsOK
  BY <1>6 DEF LimitsOK, LimitsInv, RateInv, RateTypes, GuardInv, GuardTypes
<1> QED BY <1>1, <1>5, <1>7 DEF LimitsHold

LEMMA LimitsInvInit ==
  ASSUME LimitsInit
  PROVE  LimitsInv
<1>1. time \in Instants
  BY InstantsAre DEF LimitsInit, Instants
<1> QED BY <1>1, RateEmpty, GuardEmpty DEF LimitsInit, LimitsInv, Empty

LEMMA LimitsInvStep ==
  ASSUME LimitsInv, LimitStep \/ LimitsForget \/ UNCHANGED limits
  PROVE  LimitsInv'
<1>1. CASE LimitStep
  BY <1>1, RateStep, GuardStep DEF LimitsInv
<1>2. CASE LimitsForget
  <2>1. GuardInv'
    BY <1>2, GuardSame DEF LimitsForget, LimitsInv
  <2>2. time' \in Instants
    BY <1>2 DEF LimitsForget, LimitsInv, GuardInv, GuardTypes
  <2>3. RateInv'
    <3>1. Empty'
      BY <1>2, <2>2 DEF LimitsForget, Empty
    <3> QED BY <3>1, RateEmptyNext
  <2> QED BY <2>1, <2>3 DEF LimitsInv
<1>3. CASE UNCHANGED limits
  <2>1. RateTypes'
    BY <1>3 DEF limits, LimitsInv, RateInv, RateTypes
  <2> QED BY <1>3, <2>1, RateSame, GuardSame DEF limits, LimitsInv
<1> QED BY <1>1, <1>2, <1>3

LEMMA LimitsMove ==
  ASSUME Next
  PROVE  LimitStep \/ LimitsForget \/ UNCHANGED limits
  BY Zenon DEF Next, DeleteUser, Restart

(* No address gets more requests past the middleware than its limit, and   *)
(* no login and no address more wrong guesses than the limits and the      *)
(* blocks leave (check, record_attempt, check_allowed), however requests,  *)
(* logins, right passwords, ends of blocks and restarts follow each other, *)
(* for any addresses, limits, windows and length of the block.             *)
THEOREM LimitsCorrect == Spec => []LimitsHold
<1>1. Init => LimitsInv
  BY LimitsInvInit DEF Init
<1>2. LimitsInv /\ [Next]_vars => LimitsInv'
  <2>1. UNCHANGED vars => UNCHANGED limits
    BY DEF vars
  <2> QED BY <2>1, LimitsMove, LimitsInvStep
<1>3. LimitsInv => LimitsHold
  BY LimitsInvHolds
<1> QED BY <1>1, <1>2, <1>3, PTL DEF Spec

-----------------------------------------------------------------------------
(* The tables and the accounts.  But for a deletion nobody loses an        *)
(* account.                                                                *)
Stay == \A v : Exists(v) => Exists(v)'
StayBut(u) == \A v : v # u /\ Exists(v) => Exists(v)'
Rest ==
  /\ UNCHANGED <<people, combo, module, cards, nodes, node, ops, catalog>>
  /\ inside' = inside \/ inside' = 0

LEMMA SamePeople ==
  ASSUME PeopleOK, UNCHANGED people
  PROVE  PeopleOK' /\ Stay
  BY DEF people, PeopleOK, Stay, Exists

LEMMA PeopleMove ==
  ASSUME PeopleOK, PeopleStep
  PROVE  PeopleOK' /\ Stay
<1>1. ASSUME NEW u \in Users, Appear(u)
      PROVE  PeopleOK' /\ Stay
  BY <1>1 DEF Appear, PeopleOK, Stay, Exists
<1>2. ASSUME NEW u \in Users, BlockOrBan(u)
      PROVE  PeopleOK' /\ Stay
  BY <1>2 DEF BlockOrBan, PeopleOK, Stay, Exists
<1>3. ASSUME NEW u \in Users, NEW new \in Granted, SetRole(u, new)
      PROVE  PeopleOK' /\ Stay
  BY <1>3, PeopleConstants DEF PeopleConstants, SetRole, PeopleOK, Stay, Exists
<1> QED BY <1>1, <1>2, <1>3, Zenon DEF PeopleStep

LEMMA Moves ==
  ASSUME PeopleOK, [Next]_vars
  PROVE  /\ PeopleOK'
         /\ \/ Stay /\ (PartStep \/ Rest)
            \/ \E u \in Users : DeleteUser(u) /\ StayBut(u)
<1>1. CASE PartStep
  <2>1. CASE PeopleStep
    BY <1>1, <2>1, PeopleMove
  <2>2. CASE UNCHANGED people
    BY <1>1, <2>2, SamePeople
  <2> QED BY <1>1, <2>1, <2>2, Zenon DEF PartStep, ComboStep, RegistryStep, CardStep, NodeStep,
          RuntimeStep, OpsStep, CatalogStep
<1>2. CASE Rest
  BY <1>2, SamePeople DEF Rest
<1>3. ASSUME NEW u \in Users, DeleteUser(u)
      PROVE  PeopleOK' /\ StayBut(u)
  BY <1>3 DEF DeleteUser, Leave, PeopleOK, StayBut, Exists
<1>4. UNCHANGED vars => Rest
  BY DEF vars, Rest
<1>5. Next => PartStep \/ Rest \/ \E u \in Users : DeleteUser(u)
  BY Zenon DEF Next, Restart, Rest
<1> QED BY <1>1, <1>2, <1>3, <1>4, <1>5, Zenon

LEMMA ActiveIs == ASSUME NEW u \in Users, Active(u) PROVE Exists(u)
  BY DEF Active, Exists

-----------------------------------------------------------------------------
LEMMA ComboPart ==
  ASSUME PeopleOK, CombosOK, [Next]_vars
  PROVE  CombosOK'
<1>1. ComboTypes
  BY DEF CombosOK, ComboTypes
<1>2. ComboTypes'
  BY <1>1, ComboTypesNext
<1>3. ASSUME ComboStep, NEW p \in Pairs, combo'[p].hash # "none"
      PROVE  Exists(p[1])
  <2>1. combo[p].hash # "none" => Exists(p[1])
    BY DEF CombosOK
  <2>2. ASSUME NEW u \in Users, NEW d \in Devices,
               SetRoute(u, d) \/ VerifyRoute(u, d) \/ ResetRoute(u, d)
        PROVE  Exists(p[1])
    <3>1. Active(u) /\ \E r : combo' = [combo EXCEPT ![<<u, d>>] = r]
      BY <2>2 DEF SetRoute, SetCombo, VerifyRoute, VerifyCombo, ResetRoute, ResetCombo,
         DeviceSession
    <3>2. p # <<u, d>> => combo'[p] = combo[p]
      BY <1>1, <3>1 DEF ComboTypes
    <3>3. p = <<u, d>> => p[1] = u
      OBVIOUS
    <3> QED BY <1>3, <2>1, <3>1, <3>2, <3>3, ActiveIs
  <2>3. ASSUME NEW q \in Pairs, ClockMoves(q)
        PROVE  Exists(p[1])
    <3>1. \E l : combo' = [combo EXCEPT ![q] = [combo[q] EXCEPT !.lock = l]]
      BY <2>3, Zenon DEF ClockMoves
    <3>2. PICK l : combo' = [combo EXCEPT ![q] = [combo[q] EXCEPT !.lock = l]]
      BY <3>1
    <3>3. combo[q] \in ComboRows
      BY <1>1 DEF ComboTypes
    <3>4. combo' = [combo EXCEPT ![q] =
            [hash |-> combo[q].hash, failures |-> combo[q].failures, lock |-> l]]
      BY <3>2, <3>3, LockOnly, Zenon
    <3>5. combo'[p].hash = combo[p].hash
      BY <1>1, <3>4 DEF ComboTypes
    <3> QED BY <1>3, <2>1, <3>5
  <2> QED BY <1>3, <2>2, <2>3, Zenon DEF ComboStep
<1>4. \A p \in Pairs : p[1] \in Users
  BY DEF Pairs
<1>5. CASE Stay /\ (PartStep \/ Rest)
  <2>1. ComboStep \/ combo' = combo
    BY <1>5, Zenon DEF PartStep, Rest
  <2>2. \A p \in Pairs : combo'[p].hash # "none" => Exists(p[1])
    BY <1>3, <2>1 DEF CombosOK
  <2> QED BY <1>2, <1>5, <2>2 DEF CombosOK, ComboTypes, Stay, Pairs
<1>6. ASSUME NEW u \in Users, DeleteUser(u), StayBut(u)
      PROVE  CombosOK'
  <2>1. combo' = [p \in Pairs |-> IF p[1] = u THEN NoCombo ELSE combo[p]]
    BY <1>6 DEF DeleteUser, CombosLose
  <2>2. \A p \in Pairs : combo'[p].hash # "none" => p[1] # u /\ Exists(p[1])
    BY <2>1 DEF NoCombo, CombosOK
  <2> QED BY <1>2, <1>6, <2>2 DEF CombosOK, ComboTypes, StayBut, Pairs
<1> QED BY <1>5, <1>6, Moves

LEMMA RegistryPart ==
  ASSUME RegistryOK, PeopleOK, [Next]_vars
  PROVE  RegistryOK'
<1>1. RegistryStep \/ UNCHANGED module
  <2>1. CardStep => UNCHANGED module
    BY DEF CardStep
  <2>2. NodeStep => UNCHANGED module
    BY DEF NodeStep
  <2> QED BY <2>1, <2>2, Moves, Zenon DEF PartStep, Rest, DeleteUser
<1>2. CASE RegistryStep
  <2>1. PICK x \in Modules, on \in BOOLEAN : SetModuleEnabled(x, on)
    BY <1>2 DEF RegistryStep, EnableModule, DisableModule
  <2> QED BY <2>1 DEF SetModuleEnabled, RegistryOK
<1>3. CASE UNCHANGED module
  BY <1>3 DEF RegistryOK
<1> QED BY <1>1, <1>2, <1>3

LEMMA RuntimePart ==
  ASSUME RuntimeOK, PeopleOK, [Next]_vars
  PROVE  RuntimeOK'
<1>1. RuntimeStep \/ UNCHANGED node
  BY Moves, Zenon DEF PartStep, Rest, DeleteUser
<1>2. ASSUME NEW n \in NodeIds, NEW t \in NodeTypes, NEW r \in NodeRows,
             node' = [node EXCEPT ![n] = r], r.told = r.type,
             r.status = "heartbeat" => r.beat = r.type,
             r.status = "telemetry" => r.snap = r.type
      PROVE  RuntimeOK'
  BY <1>2 DEF RuntimeOK
<1>3. ASSUME NEW n \in NodeIds, NEW t \in NodeTypes, RegisterDevice(n, t)
      PROVE  RuntimeOK'
  <2> DEFINE r == [type |-> t, status |-> "registered", told |-> t, beat |-> node[n].beat,
                   snap |-> node[n].snap]
  <2>1. node' = [node EXCEPT ![n] = r]
    BY <1>3 DEF RegisterDevice
  <2>2. node[n].beat \in Types /\ node[n].snap \in Types /\ t \in Types
    BY DEF RuntimeOK, NodeRows, Types
  <2>3. r \in NodeRows /\ r.told = r.type /\ r.status = "registered"
    BY <2>2 DEF NodeRows
  <2> HIDE DEF r
  <2> QED BY <1>2, <2>1, <2>3
<1>4. ASSUME NEW n \in NodeIds, NEW t \in NodeTypes, RecordHeartbeat(n, t)
      PROVE  RuntimeOK'
  <2> DEFINE r == [type |-> t, status |-> "heartbeat", told |-> node[n].told, beat |-> t,
                   snap |-> node[n].snap]
  <2>1. node' = [node EXCEPT ![n] = r] /\ node[n].told = t
    BY <1>4 DEF RecordHeartbeat, Registered, RuntimeOK
  <2>2. node[n].told \in Types /\ node[n].snap \in Types /\ t \in Types
    BY DEF RuntimeOK, NodeRows, Types
  <2>3. r \in NodeRows /\ r.told = r.type /\ r.status = "heartbeat" /\ r.beat = r.type
    BY <2>1, <2>2 DEF NodeRows
  <2> HIDE DEF r
  <2> QED BY <1>2, <2>1, <2>3
<1>5. ASSUME NEW n \in NodeIds, NEW t \in NodeTypes, RecordTelemetry(n, t)
      PROVE  RuntimeOK'
  <2> DEFINE r == [type |-> t, status |-> "telemetry", told |-> node[n].told,
                   beat |-> node[n].beat, snap |-> t]
  <2>1. node' = [node EXCEPT ![n] = r] /\ node[n].told = t
    BY <1>5 DEF RecordTelemetry, Registered, RuntimeOK
  <2>2. node[n].told \in Types /\ node[n].beat \in Types /\ t \in Types
    BY DEF RuntimeOK, NodeRows, Types
  <2>3. r \in NodeRows /\ r.told = r.type /\ r.status = "telemetry" /\ r.snap = r.type
    BY <2>1, <2>2 DEF NodeRows
  <2> HIDE DEF r
  <2> QED BY <1>2, <2>1, <2>3
<1>6. CASE UNCHANGED node
  BY <1>6 DEF RuntimeOK
<1> QED BY <1>1, <1>3, <1>4, <1>5, <1>6, Zenon DEF RuntimeStep, RegisterRoute, HeartbeatRoute,
        TelemetryRoute

LEMMA CatalogPart ==
  ASSUME CatalogOK, PeopleOK, [Next]_vars
  PROVE  CatalogOK'
<1>1. ASSUME NEW u \in Users, NEW s \in Slugs, NEW status1 \in {"draft", "published"}, Stay,
             PublishRoute(u, s, status1)
      PROVE  CatalogOK'
  <2> DEFINE r == [status |-> status1, maker |-> u]
  <2>1. Exists(u) /\ profile[s].status = "none" /\ profile' = [profile EXCEPT ![s] = r]
        /\ flag' = flag
    BY <1>1, ActiveIs DEF PublishRoute, PublishProfile
  <2>2. r \in ProfileRows /\ r.status # "none" /\ r.maker = u
    BY DEF ProfileRows
  <2> HIDE DEF r
  <2> QED BY <1>1, <2>1, <2>2 DEF CatalogOK, Stay
<1>2. ASSUME NEW u \in Users, NEW s \in Slugs, NEW has \in BOOLEAN, Stay,
             OwnershipRoute(u, s, has)
      PROVE  CatalogOK'
  <2>1. Exists(u) /\ profile[s].status # "none" /\ profile' = profile
    BY <1>2, ActiveIs DEF OwnershipRoute, SetOwnership, Visible
  <2>2. PICK x \in {"has", "has_not"} : flag' = [flag EXCEPT ![<<u, s>>] = x]
    BY <1>2 DEF OwnershipRoute, SetOwnership
  <2> QED BY <1>2, <2>1, <2>2 DEF CatalogOK, Stay
<1>3. ASSUME Stay, UNCHANGED catalog
      PROVE  CatalogOK'
  BY <1>3 DEF catalog, CatalogOK, Stay
<1>4. ASSUME NEW u \in Users, DeleteUser(u), StayBut(u)
      PROVE  CatalogOK'
  <2>1. /\ profile' = profile /\ \A s \in Slugs : profile[s].maker # u
        /\ flag' = [k \in Users \X Slugs |-> IF k[1] = u THEN "none" ELSE flag[k]]
    BY <1>4 DEF DeleteUser, CatalogReleases, CatalogLoses
  <2>2. \A v \in Users, s \in Slugs : flag'[v, s] = IF v = u THEN "none" ELSE flag[v, s]
    BY <2>1
  <2>3. flag' \in [Users \X Slugs -> {"none", "has", "has_not"}]
    BY <2>1 DEF CatalogOK
  <2> QED BY <1>4, <2>1, <2>2, <2>3 DEF CatalogOK, StayBut
<1>5. PartStep \/ Rest => CatalogStep \/ UNCHANGED catalog
  BY Zenon DEF PartStep, Rest
<1> QED BY <1>1, <1>2, <1>3, <1>4, <1>5, Moves, Zenon DEF CatalogStep

LEMMA NodesPart ==
  ASSUME NodesOK, PeopleOK, [Next]_vars
  PROVE  NodesOK'
<1> USE DEF DeploymentIds
<1>1. ASSUME NEW u \in Users, NEW x \in EdgeModules, Stay, StartDeployment(u, x)
      PROVE  NodesOK'
  <2> DEFINE n == lastDeployment + 1
             d == [status |-> "requested", module |-> x, by |-> u]
  <2>1. /\ Exists(u) /\ lastDeployment' = n /\ deployment' = [deployment EXCEPT ![n] = d]
        /\ lastDeployment < MaxDeployments
    BY <1>1, ActiveIs DEF StartDeployment, DeployNode, MayDeploy
  <2>2. MaxDeployments \in Nat /\ lastDeployment \in Nat /\ n \in 1..MaxDeployments
        /\ n \in 0..MaxDeployments
    BY <2>1, NodesConstants DEF NodesConstants, NodesOK
  <2>3. d \in DeploymentRows /\ d.status = "requested" /\ d.module = x /\ d.by = u
    BY DEF DeploymentRows
  <2> HIDE DEF d
  <2>4. deployment'[n] = d /\ \A i \in 1..MaxDeployments : i # n => deployment'[i] = deployment[i]
    BY <2>1, <2>2 DEF NodesOK
  <2>5. deployment' \in [1..MaxDeployments -> DeploymentRows]
    BY <2>1, <2>2, <2>3 DEF NodesOK
  <2>6. ASSUME NEW i \in 1..MaxDeployments
        PROVE  IF deployment'[i].status = "none" THEN i > n /\ deployment'[i] = NoDeployment
               ELSE i <= n /\ deployment'[i].module \in EdgeModules /\ Exists(deployment'[i].by)
    <3>1. CASE i = n
      BY <2>1, <2>2, <2>3, <2>4, <3>1
    <3>2. CASE i # n
      BY <2>2, <2>4, <3>2 DEF NodesOK
    <3> QED BY <3>1, <3>2
  <2> HIDE DEF n
  <2> QED BY <1>1, <2>1, <2>2, <2>5, <2>6 DEF NodesOK, Stay
<1>2. ASSUME NEW i \in 1..MaxDeployments, Stay, StopNode(i)
      PROVE  NodesOK'
  <2> DEFINE d == [status |-> "stopped", module |-> deployment[i].module, by |-> deployment[i].by]
  <2>1. deployment[i] \in DeploymentRows
    BY DEF NodesOK
  <2>2. [deployment[i] EXCEPT !.status = "stopped"] = d
    BY <2>1, DeploymentStatus
  <2>3. deployment' = [deployment EXCEPT ![i] = [deployment[i] EXCEPT !.status = "stopped"]]
        /\ lastDeployment' = lastDeployment /\ deployment[i].status # "none"
    BY <1>2, Zenon DEF StopNode
  <2>4. /\ d \in DeploymentRows /\ d.status = "stopped"
        /\ d.module = deployment[i].module /\ d.by = deployment[i].by
    BY <2>1 DEF DeploymentRows
  <2> HIDE DEF d
  <2>5. deployment' = [deployment EXCEPT ![i] = d]
    BY <2>2, <2>3, Zenon
  <2> QED BY <1>2, <2>3, <2>4, <2>5 DEF NodesOK, Stay
<1>3. ASSUME Stay, UNCHANGED nodes
      PROVE  NodesOK'
  BY <1>3 DEF nodes, NodesOK, Stay
<1>4. ASSUME NEW u \in Users, DeleteUser(u), StayBut(u)
      PROVE  NodesOK'
  BY <1>4 DEF DeleteUser, NodesRelease, nodes, NodesOK, StayBut
<1>5. PartStep \/ Rest => NodeStep \/ UNCHANGED nodes
  BY Zenon DEF PartStep, Rest
<1> QED BY <1>1, <1>2, <1>3, <1>4, <1>5, Moves, Zenon DEF NodeStep, StopDeployment

-----------------------------------------------------------------------------
(* The parts of the operations' tables. *)
IncidentsOK ==
  /\ incident \in [IncidentIds -> IncidentRows] /\ lastIncident \in 0..MaxIncidents
  /\ \A i \in IncidentIds : Named(incident[i].creator) /\ Named(incident[i].resolver)
RunsOK ==
  /\ run \in [RunIds -> Somebody] /\ lastRun \in 0..MaxRuns
  /\ degraded \in [on : BOOLEAN, by : Somebody] /\ Named(degraded.by)
  /\ \A i \in RunIds : Named(run[i])
BackupsOK ==
  /\ BackupTypes /\ reused \subseteq Times
  /\ \A t \in Times : Named(backup[t].actor)

LEMMA NamedStays ==
  ASSUME Stay, NEW v, Named(v)
  PROVE  Named(v)'
  BY DEF Stay, Named
LEMMA NamedOther ==
  ASSUME NEW u, StayBut(u), NEW v, Named(v)
  PROVE  Named(IF v = u THEN NoUser ELSE v)'
  BY DEF StayBut, Named
LEMMA NamedActive ==
  ASSUME NEW u \in Users, Active(u)
  PROVE  Named(u) /\ Named(NoUser)
  BY ActiveIs DEF Named

LEMMA IncidentColumns ==
  ASSUME NEW x \in IncidentRows, NEW c, NEW r
  PROVE  [x EXCEPT !.creator = c, !.resolver = r]
           = [status |-> x.status, creator |-> c, resolver |-> r]
<1> DEFINE y == [x EXCEPT !.creator = c]
<1>1. [x EXCEPT !.creator = c, !.resolver = r] = [y EXCEPT !.resolver = r]
  OBVIOUS
<1>2. y = [status |-> x.status, creator |-> c, resolver |-> x.resolver]
  BY DEF IncidentRows
<1> HIDE DEF y
<1>3. [y EXCEPT !.resolver = r] = [status |-> x.status, creator |-> c, resolver |-> r]
  BY <1>2
<1> QED BY <1>1, <1>3

LEMMA IncidentsPart ==
  ASSUME IncidentsOK, PeopleOK, [Next]_vars
  PROVE  IncidentsOK'
<1> USE DEF IncidentIds
<1>0. MaxIncidents \in Nat /\ lastIncident \in Nat
  BY OpsConstants DEF OpsConstants, IncidentsOK
<1>1. ASSUME NEW u \in Users, Stay, IncidentRoute(u)
      PROVE  IncidentsOK'
  <2> DEFINE n == lastIncident + 1
             r == [status |-> "open", creator |-> u, resolver |-> NoUser]
  <2>1. /\ Named(u) /\ Named(NoUser) /\ lastIncident < MaxIncidents /\ lastIncident' = n
        /\ incident' = [incident EXCEPT ![n] = r]
    BY <1>1, NamedActive DEF IncidentRoute, CreateIncident, MayReport
  <2>2. n \in 1..MaxIncidents /\ n \in 0..MaxIncidents
    BY <1>0, <2>1
  <2>3. r \in IncidentRows /\ r.creator = u /\ r.resolver = NoUser
    BY DEF IncidentRows, Somebody
  <2> HIDE DEF n, r
  <2>4. \A i \in 1..MaxIncidents : Named(incident'[i].creator) /\ Named(incident'[i].resolver)
    BY <2>1, <2>3 DEF IncidentsOK
  <2> QED BY <1>1, <2>1, <2>2, <2>3, <2>4, NamedStays DEF IncidentsOK
<1>2. ASSUME NEW u \in Users, NEW i \in 1..MaxIncidents, Stay, ResolveRoute(u, i)
      PROVE  IncidentsOK'
  <2> DEFINE r == [status |-> "resolved", creator |-> incident[i].creator, resolver |-> u]
  <2>1. /\ Named(u) /\ lastIncident' = lastIncident
        /\ incident' = [incident EXCEPT ![i] = r]
    BY <1>2, NamedActive DEF ResolveRoute, ResolveIncident, MayReport
  <2>2. incident[i].creator \in Somebody
    BY DEF IncidentsOK, IncidentRows
  <2>3. r \in IncidentRows /\ r.creator = incident[i].creator /\ r.resolver = u
    BY <2>2 DEF IncidentRows, Somebody
  <2> HIDE DEF r
  <2>4. \A j \in 1..MaxIncidents : Named(incident'[j].creator) /\ Named(incident'[j].resolver)
    BY <2>1, <2>3 DEF IncidentsOK
  <2> QED BY <1>2, <2>1, <2>3, <2>4, NamedStays DEF IncidentsOK
<1>3. ASSUME Stay, UNCHANGED incidents
      PROVE  IncidentsOK'
  BY <1>3, NamedStays DEF IncidentsOK, incidents
<1>4. ASSUME NEW u \in Users, DeleteUser(u), StayBut(u)
      PROVE  IncidentsOK'
  <2> DEFINE W(v) == IF v = u THEN NoUser ELSE v
  <2>1. /\ incident' = [i \in 1..MaxIncidents |->
             [incident[i] EXCEPT !.creator = W(incident[i].creator),
                                 !.resolver = W(incident[i].resolver)]]
        /\ lastIncident' = lastIncident
    BY <1>4 DEF DeleteUser, OpsLose
  <2>2. ASSUME NEW i \in 1..MaxIncidents
        PROVE  /\ incident'[i] \in IncidentRows
               /\ \E c, r : /\ incident'[i].creator = c /\ Named(c)'
                           /\ incident'[i].resolver = r /\ Named(r)'
    <3>1. incident[i] \in IncidentRows /\ Named(incident[i].creator) /\ Named(incident[i].resolver)
      BY DEF IncidentsOK
    <3>2. PICK c, r : c = W(incident[i].creator) /\ r = W(incident[i].resolver)
      OBVIOUS
    <3>3. c \in Somebody /\ r \in Somebody
      BY <3>1, <3>2 DEF IncidentRows, Somebody
    <3>4. Named(c)' /\ Named(r)'
      BY <1>4, <3>1, <3>2, NamedOther
    <3>5. incident'[i] = [incident[i] EXCEPT !.creator = c, !.resolver = r]
      BY <2>1, <3>2
    <3>6. incident'[i] = [status |-> incident[i].status, creator |-> c, resolver |-> r]
      BY <3>1, <3>5, IncidentColumns
    <3>7. incident'[i] \in IncidentRows /\ incident'[i].creator = c /\ incident'[i].resolver = r
      BY <3>1, <3>3, <3>6 DEF IncidentRows
    <3> QED BY <3>4, <3>7
  <2>3. incident' \in [1..MaxIncidents -> IncidentRows]
    BY <2>1, <2>2
  <2> QED BY <2>1, <2>2, <2>3 DEF IncidentsOK, Named, Exists
<1>5. PartStep \/ Rest => IncidentStep \/ UNCHANGED incidents
  <2>1. OpsStep => IncidentStep \/ UNCHANGED incidents
    BY Zenon DEF OpsStep, BackupStep, StateStep
  <2>2. UNCHANGED ops => UNCHANGED incidents
    BY DEF ops
  <2> QED BY <2>1, <2>2, Zenon DEF PartStep, Rest
<1> QED BY <1>1, <1>2, <1>3, <1>4, <1>5, Moves, Zenon DEF IncidentStep

LEMMA RunsPart ==
  ASSUME RunsOK, PeopleOK, [Next]_vars
  PROVE  RunsOK'
<1> USE DEF RunIds
<1>0. MaxRuns \in Nat /\ lastRun \in Nat
  BY OpsConstants DEF OpsConstants, RunsOK
<1>1. ASSUME NEW u \in Users, Stay, ShutdownRoute(u)
      PROVE  RunsOK'
  <2> DEFINE n == lastRun + 1
  <2>1. /\ Named(u) /\ lastRun < MaxRuns /\ lastRun' = n /\ run' = [run EXCEPT ![n] = u]
        /\ degraded' = degraded
    BY <1>1, NamedActive DEF ShutdownRoute, RunShutdownDry, MayShutDown
  <2>2. n \in 0..MaxRuns /\ u \in Somebody
    BY <1>0, <2>1 DEF Somebody
  <2> HIDE DEF n
  <2>3. \A i \in 1..MaxRuns : Named(run'[i])
    BY <2>1 DEF RunsOK
  <2> QED BY <1>1, <2>1, <2>2, <2>3, NamedStays DEF RunsOK
<1>2. ASSUME NEW u \in Users, NEW on \in BOOLEAN, Stay, DegradedRoute(u, on)
      PROVE  RunsOK'
  <2>1. /\ Named(u) /\ UNCHANGED <<run, lastRun>> /\ degraded' = [on |-> on, by |-> u]
    BY <1>2, NamedActive DEF DegradedRoute, SetDegradedMode, MayShutDown, runs
  <2> QED BY <1>2, <2>1, NamedStays DEF RunsOK, Somebody
<1>3. ASSUME Stay, UNCHANGED <<runs, degraded>>
      PROVE  RunsOK'
  BY <1>3, NamedStays DEF RunsOK, runs
<1>4. ASSUME NEW u \in Users, DeleteUser(u), StayBut(u)
      PROVE  RunsOK'
  <2> DEFINE W(v) == IF v = u THEN NoUser ELSE v
  <2>1. /\ run' = [i \in 1..MaxRuns |-> W(run[i])] /\ lastRun' = lastRun
        /\ degraded' = [degraded EXCEPT !.by = W(degraded.by)]
    BY <1>4 DEF DeleteUser, OpsLose
  <2>2. ASSUME NEW i \in 1..MaxRuns
        PROVE  run'[i] \in Somebody /\ \E v : run'[i] = v /\ Named(v)'
    <3>1. PICK v : v = run[i]
      OBVIOUS
    <3>2. Named(v) /\ v \in Somebody
      BY <3>1 DEF RunsOK
    <3>3. Named(W(v))' /\ run'[i] = W(v) /\ W(v) \in Somebody
      BY <1>4, <2>1, <3>1, <3>2, NamedOther DEF Somebody
    <3> QED BY <3>3
  <2>3. degraded' \in [on : BOOLEAN, by : Somebody] /\ \E v : degraded'.by = v /\ Named(v)'
    <3>1. PICK v : v = degraded.by
      OBVIOUS
    <3>2. Named(v) /\ v \in Somebody
      BY <3>1 DEF RunsOK
    <3>3. Named(W(v))' /\ W(v) \in Somebody
      BY <1>4, <3>2, NamedOther DEF Somebody
    <3>4. degraded'.by = W(v) /\ degraded' \in [on : BOOLEAN, by : Somebody]
      BY <2>1, <3>1, <3>3 DEF RunsOK
    <3> QED BY <3>3, <3>4
  <2>4. run' \in [1..MaxRuns -> Somebody]
    BY <2>1, <2>2
  <2> QED BY <2>1, <2>2, <2>3, <2>4 DEF RunsOK, Named, Exists
<1>5. PartStep \/ Rest => StateStep \/ UNCHANGED <<runs, degraded>>
  <2>1. OpsStep => StateStep \/ UNCHANGED <<runs, degraded>>
    BY Zenon DEF OpsStep, BackupStep, IncidentStep
  <2>2. UNCHANGED ops => UNCHANGED <<runs, degraded>>
    BY DEF ops
  <2> QED BY <2>1, <2>2, Zenon DEF PartStep, Rest
<1> QED BY <1>1, <1>2, <1>3, <1>4, <1>5, Moves, Zenon DEF StateStep

LEMMA BackupsPart ==
  ASSUME BackupsOK, BackupInv, PeopleOK, [Next]_vars
  PROVE  BackupsOK'
<1>1. BackupTypes' /\ BackupTypes /\ now \in Times
  BY BackupNext DEF BackupInv, BackupTypes
<1>2. ASSUME NEW u \in Users, Stay, BackupRoute(u) \/ DryRunRoute(u)
      PROVE  BackupsOK'
  <2>1. Named(u) /\ reused' \subseteq reused \cup {now}
    BY <1>2, NamedActive DEF BackupRoute, DryRunRoute, CreateBackup, BackupCut, DryRun, MayBackUp,
       Recorded
  <2>2. \/ backup' = backup
        \/ \E state, sum : backup' = [backup EXCEPT ![now] =
             [status |-> state, sum |-> sum, actor |-> u]]
    BY <1>2, Zenon DEF BackupRoute, DryRunRoute, CreateBackup, BackupCut, DryRun, Recorded
  <2>3. \A t \in Times : Named(backup'[t].actor)
    BY <1>1, <2>1, <2>2 DEF BackupsOK, BackupTypes
  <2> QED BY <1>1, <1>2, <2>1, <2>3, NamedStays DEF BackupsOK
<1>3. ASSUME Stay, UNCHANGED <<backup, reused>>
      PROVE  BackupsOK'
  BY <1>1, <1>3, NamedStays DEF BackupsOK
<1>4. ASSUME NEW u \in Users, DeleteUser(u), StayBut(u)
      PROVE  BackupsOK'
  <2> DEFINE W(v) == IF v = u THEN NoUser ELSE v
  <2>1. /\ backup' = [t \in Times |-> [backup[t] EXCEPT !.actor = W(backup[t].actor)]]
        /\ reused' = reused
    BY <1>4 DEF DeleteUser, OpsLose
  <2>2. ASSUME NEW t \in Times
        PROVE  \E v : backup'[t].actor = v /\ Named(v)'
    <3>1. PICK v : v = backup[t].actor
      OBVIOUS
    <3>2. Named(v) /\ backup[t] \in BackupRows
      BY <1>1, <3>1 DEF BackupsOK, BackupTypes
    <3>3. Named(W(v))'
      BY <1>4, <3>2, NamedOther
    <3>4. backup'[t] = [backup[t] EXCEPT !.actor = W(v)]
      BY <2>1, <3>1
    <3>5. backup'[t].actor = W(v)
      BY <3>2, <3>4 DEF BackupRows
    <3> QED BY <3>3, <3>5
  <2> QED BY <1>1, <2>1, <2>2 DEF BackupsOK, Named, Exists
<1>5. PartStep \/ Rest => BackupStep \/ UNCHANGED <<backup, reused>>
  <2>1. OpsStep => BackupStep \/ UNCHANGED backups
    BY Zenon DEF OpsStep, StateStep, IncidentStep
  <2>2. (UNCHANGED ops => UNCHANGED backups) /\ (UNCHANGED backups => UNCHANGED <<backup, reused>>)
    BY DEF ops, backups
  <2> QED BY <2>1, <2>2, Zenon DEF PartStep, Rest
<1>6. SetClock \/ Write => UNCHANGED <<backup, reused>>
  BY DEF SetClock, Write
<1> QED BY <1>2, <1>3, <1>4, <1>5, <1>6, Moves, Zenon DEF BackupStep

-----------------------------------------------------------------------------
(* A log names cards and accounts that are there. *)
LogSound(log, ids, persons) ==
  \A i \in 1..Len(log) : log[i].card \in ids /\ log[i].actor \in persons
Present == {v \in Users : Exists(v)} \cup {NoUser}
CardsSound ==
  /\ CardTypes /\ Len(event) <= MaxEvents /\ mode \in {"open", "closed"} /\ inside \in 0..MaxInside
  /\ \A x \in Uids : card[x].id # 0 => Exists(card[x].maker)
  /\ LogSound(event, CardIds \cup {0}, Present)

LEMMA PresentStays == ASSUME Stay PROVE Present \subseteq Present'
  BY DEF Stay, Present
LEMMA PresentBut ==
  ASSUME NEW u, StayBut(u)
  PROVE  Present \ {u} \subseteq Present' /\ NoUser \in Present'
  BY DEF StayBut, Present

LEMMA SoundAppend ==
  ASSUME NEW log \in Seq(EventRows), NEW e \in EventRows,
         NEW ids, NEW ids2, NEW persons, NEW persons2,
         LogSound(log, ids, persons), ids \subseteq ids2, persons \subseteq persons2,
         e.card \in ids2, e.actor \in persons2
  PROVE  LogSound(Append(log, e), ids2, persons2) /\ Len(Append(log, e)) = Len(log) + 1
<1>1. /\ Len(log) \in Nat /\ Len(Append(log, e)) = Len(log) + 1
      /\ Append(log, e)[Len(log) + 1] = e
      /\ \A i \in 1..Len(log) : Append(log, e)[i] = log[i]
  BY AppendIs
<1> QED BY <1>1 DEF LogSound

(* An event about card x, which stays or has its row replaced. *)
LEMMA EventAdded ==
  ASSUME CardsSound, CardTypes', Stay, inside' \in 0..MaxInside, mode' \in {"open", "closed"},
         NEW e, event' = Append(event, e), e \in EventRows, Len(event) < MaxEvents,
         CardIds \subseteq CardIds' \cup {0}, e.card \in CardIds' \cup {0}, e.actor \in Present,
         \A x \in Uids : card'[x].id # 0 => Exists(card'[x].maker)
  PROVE  CardsSound'
<1>1. event \in Seq(EventRows) /\ Len(event) \in Nat /\ MaxEvents \in Nat
  BY CardColumns, CardsConstants DEF CardsConstants, CardsSound, CardTypes
<1>2. LogSound(event', CardIds' \cup {0}, Present') /\ Len(event') = Len(event) + 1
  BY <1>1, PresentStays, SoundAppend DEF CardsSound
<1>3. Len(event') <= MaxEvents
  BY <1>1, <1>2
<1>4. ASSUME NEW x \in Uids
      PROVE  \E v : v = card'[x].maker /\ (card'[x].id # 0 => Exists(v)')
  <2>1. PICK v : v = card'[x].maker
    OBVIOUS
  <2> QED BY <2>1 DEF Stay
<1> QED BY <1>2, <1>3, <1>4 DEF CardsSound, Exists

LEMMA CardStepSound ==
  ASSUME CardsSound, CardTypes', Stay, CardStep
  PROVE  CardsSound'
<1>1. /\ CardTypes /\ mode \in {"open", "closed"} /\ inside \in 0..MaxInside
      /\ MaxCards \in Nat /\ MaxInside \in Nat /\ card \in [Uids -> CardRows]
      /\ event \in Seq(EventRows) /\ NoUser \in Present /\ inside' \in 0..MaxInside
  BY CardsConstants DEF CardsConstants, CardsSound, CardTypes, Present, CardStep, Enter, Handle,
     SetMode
<1>2. \A x \in Uids : card[x].id \in CardIds /\ card[x].id \in 0..MaxCards
  BY <1>1, CardColumns DEF CardIds
<1>3. \A x \in Uids : card[x].id # 0 => Exists(card[x].maker)
  BY DEF CardsSound
<1>4. ASSUME UNCHANGED <<card, lastCard, event>>, mode' \in {"open", "closed"}
      PROVE  CardsSound'
  <2>1. ASSUME NEW x \in Uids
        PROVE  \E v : v = card[x].maker /\ (card[x].id # 0 => Exists(v)')
    <3>1. PICK v : v = card[x].maker
      OBVIOUS
    <3> QED BY <1>3, <3>1 DEF Stay
  <2>2. LogSound(event, CardIds \cup {0}, Present') /\ CardIds' = CardIds
    BY <1>4, PresentStays DEF CardsSound, LogSound, CardIds
  <2> QED BY <1>1, <1>4, <2>1, <2>2 DEF CardsSound, CardTypes, Exists
<1>5. ASSUME NEW x \in Uids, ReaderRequest(x)
      PROVE  CardsSound'
  <2>1. PICK kind \in CardKinds : Logged(kind, card[x].id, Opens(x), NoUser)
    BY <1>5 DEF ReaderRequest, VerifyCard, SwitchModeByCard, CardKinds
  <2> DEFINE e == [kind |-> kind, card |-> card[x].id, granted |-> Opens(x), actor |-> NoUser]
  <2>2. Opens(x) \in BOOLEAN
    BY <1>1 DEF Opens, CardRows
  <2>3. e \in EventRows /\ e.card = card[x].id /\ e.actor = NoUser
    BY <1>1, <2>2, CardColumns
  <2>4. Len(event) < MaxEvents /\ event' = Append(event, e)
    BY <2>1 DEF Logged
  <2> HIDE DEF e
  <2>5. card' = card /\ mode' \in {"open", "closed"}
    BY <1>1, <1>5 DEF ReaderRequest, VerifyCard, SwitchModeByCard
  <2>6. CardIds' = CardIds
    BY <2>5 DEF CardIds
  <2> QED BY <1>1, <1>2, <1>3, <2>3, <2>4, <2>5, <2>6, EventAdded
<1>6. ASSUME NEW x \in Uids, NEW u \in Users, NEW on \in BOOLEAN, EnrollRoute(u, x, on)
      PROVE  CardsSound'
  <2> DEFINE id == IF NewCard(x) THEN lastCard + 1 ELSE card[x].id
             maker == IF NewCard(x) THEN u ELSE card[x].maker
             kind == IF on THEN "enroll" ELSE "enroll_off"
             e == [kind |-> kind, card |-> id, granted |-> TRUE, actor |-> u]
  <2>1. /\ Exists(u) /\ card' = [card EXCEPT ![x] = [id |-> id, active |-> on, maker |-> maker]]
        /\ Logged(kind, id, TRUE, u) /\ mode' = mode /\ id <= MaxCards
    BY <1>6, ActiveIs DEF EnrollRoute, EnrollCard, MayKeepCards
  <2>2. Len(event) < MaxEvents /\ event' = Append(event, e)
    BY <2>1 DEF Logged
  <2>3. Exists(maker)
    BY <1>3, <2>1 DEF NewCard
  <2>4. id \in 0..MaxCards /\ (id = card[x].id \/ card[x].id = 0)
    BY <1>1, <1>2, <2>1, CardColumns DEF NewCard
  <2>5. e \in EventRows /\ e.card = id /\ e.actor = u
    <3>1. kind \in AdminKinds
      BY DEF AdminKinds
    <3> HIDE DEF kind
    <3>2. id \in 0..MaxCards /\ u \in Users \cup {NoUser}
      BY <2>4
    <3> QED BY <3>1, <3>2 DEF EventRows
  <2> HIDE DEF id, maker, e
  <2>6. /\ card'[x].id = id /\ card'[x].maker = maker
        /\ \A y \in Uids : y # x => card'[y] = card[y]
    BY <1>1, <2>1
  <2>7. CardIds \subseteq CardIds' \cup {0} /\ id \in CardIds'
    BY <2>4, <2>6 DEF CardIds
  <2>8. \A y \in Uids : card'[y].id # 0 => Exists(card'[y].maker)
    BY <1>3, <2>3, <2>6
  <2>9. u \in Present
    BY <2>1 DEF Present
  <2> QED BY <1>1, <2>1, <2>2, <2>5, <2>7, <2>8, <2>9, EventAdded
<1>7. ASSUME NEW x \in Uids, NEW u \in Users, NEW on \in BOOLEAN, ActiveRoute(u, x, on)
      PROVE  CardsSound'
  <2> DEFINE kind == IF on THEN "on" ELSE "off"
             e == [kind |-> kind, card |-> card[x].id, granted |-> TRUE, actor |-> u]
  <2>1. /\ Exists(u) /\ card' = [card EXCEPT ![x] = [card[x] EXCEPT !.active = on]]
        /\ Len(event) < MaxEvents /\ event' = Append(event, e) /\ mode' = mode
    BY <1>7, ActiveIs, Zenon DEF ActiveRoute, SetCardActive, MayKeepCards, Logged
  <2>2. [card[x] EXCEPT !.active = on] = [id |-> card[x].id, active |-> on, maker |-> card[x].maker]
    BY <1>1, ActiveOnly
  <2>3. e \in EventRows /\ e.card = card[x].id /\ e.actor = u
    <3>1. kind \in AdminKinds
      BY DEF AdminKinds
    <3> HIDE DEF kind
    <3>2. card[x].id \in 0..MaxCards /\ u \in Users \cup {NoUser}
      BY <1>2
    <3> QED BY <3>1, <3>2 DEF EventRows
  <2> HIDE DEF e
  <2>4. \A y \in Uids : card'[y].id = card[y].id /\ card'[y].maker = card[y].maker
    BY <1>1, <2>1, <2>2
  <2>5. CardIds' = CardIds
    BY <2>4 DEF CardIds
  <2>6. u \in Present /\ \A y \in Uids : card'[y].id # 0 => Exists(card'[y].maker)
    BY <1>3, <2>1, <2>4 DEF Present
  <2> QED BY <1>1, <1>2, <2>1, <2>3, <2>5, <2>6, EventAdded
<1>8. ASSUME NEW x \in Uids, NEW u \in Users, DeleteRoute(u, x)
      PROVE  CardsSound'
  <2> DEFINE id == card[x].id
             log == EventsWithout(id)
             e == [kind |-> "delete", card |-> 0, granted |-> TRUE, actor |-> u]
  <2>1. /\ Exists(u) /\ card' = [card EXCEPT ![x] = NoCard] /\ Len(event) < MaxEvents
        /\ event' = Append(log, e) /\ mode' = mode
    BY <1>8, ActiveIs DEF DeleteRoute, DeleteCard, MayKeepCards
  <2>2. e \in EventRows /\ e.card = 0 /\ e.actor = u
    <3>1. 0 \in 0..MaxCards /\ "delete" \in AdminKinds
      BY <1>1 DEF AdminKinds
    <3> QED BY <3>1 DEF EventRows
  <2>3. Forgets(event, log, id)
    BY <1>1, WithoutForgets
  <2>4. \A i \in 1..Len(event) : log[i].actor = event[i].actor
    <3> SUFFICES ASSUME NEW i \in 1..Len(event)
                 PROVE  log[i].actor = event[i].actor
      OBVIOUS
    <3>1. event[i] \in EventRows /\ DOMAIN event = 1..Len(event)
      BY <1>1
    <3>2. PICK v : log[i] = [event[i] EXCEPT !.card = v]
      BY <3>1 DEF EventsWithout
    <3> QED BY <3>1, <3>2, EventCardOnly
  <2> HIDE DEF e, id, log
  <2>5. /\ card'[x] = NoCard /\ \A y \in Uids : y # x => card'[y] = card[y]
    BY <1>1, <2>1
  <2>6. CardIds \ {id} \subseteq CardIds'
    BY <2>5 DEF CardIds, id
  <2>7. /\ log \in Seq(EventRows) /\ Len(log) = Len(event)
        /\ LogSound(log, CardIds' \cup {0}, Present)
    BY <2>3, <2>4, <2>6 DEF CardsSound, LogSound, Forgets
  <2>8. u \in Present'
    BY <2>1, PresentStays DEF Present
  <2>9. LogSound(event', CardIds' \cup {0}, Present') /\ Len(event') = Len(log) + 1
    BY <2>1, <2>2, <2>7, <2>8, PresentStays, SoundAppend
  <2>10. Len(event') <= MaxEvents
    <3>1. Len(event) \in Nat /\ MaxEvents \in Nat
      BY <1>1, CardsConstants DEF CardsConstants
    <3> QED BY <2>1, <2>7, <2>9, <3>1
  <2>11. ASSUME NEW y \in Uids
         PROVE  \E v : v = card'[y].maker /\ (card'[y].id # 0 => Exists(v)')
    <3>1. PICK v : v = card'[y].maker
      OBVIOUS
    <3> QED BY <1>3, <2>5, <3>1 DEF Stay, NoCard
  <2> QED BY <1>1, <2>1, <2>9, <2>10, <2>11 DEF CardsSound, Exists
<1>9. (\E u \in Users : SetMode(u)) \/ Enter \/ UNCHANGED cards =>
        UNCHANGED <<card, lastCard, event>> /\ mode' \in {"open", "closed"}
  BY <1>1 DEF SetMode, Enter, cards
<1> QED BY <1>4, <1>5, <1>6, <1>7, <1>8, <1>9, Zenon DEF CardStep, Handle, CardRequest

LEMMA CardsPart ==
  ASSUME CardsSound, CardInv, PeopleOK, [Next]_vars
  PROVE  CardsSound'
<1>1. CardTypes /\ CardTypes' /\ MaxInside \in Nat /\ inside \in 0..MaxInside
  BY CardNext, CardsConstants DEF CardInv, CardsConstants, CardsSound
<1>2. ASSUME Stay, UNCHANGED cards, inside' \in 0..MaxInside
      PROVE  CardsSound'
  <2>1. ASSUME NEW x \in Uids
        PROVE  \E v : v = card[x].maker /\ (card[x].id # 0 => Exists(v)')
    <3>1. PICK v : v = card[x].maker
      OBVIOUS
    <3> QED BY <1>2, <3>1 DEF Stay, CardsSound
  <2>2. LogSound(event, CardIds \cup {0}, Present') /\ CardIds' = CardIds
    BY <1>2, PresentStays DEF CardsSound, LogSound, CardIds, cards
  <2> QED BY <1>1, <1>2, <2>1, <2>2 DEF CardsSound, CardTypes, cards, Exists
<1>3. ASSUME NEW u \in Users, DeleteUser(u), StayBut(u)
      PROVE  CardsSound'
  <2>1. /\ CardsLose(u) /\ inside' = inside /\ UNCHANGED <<card, lastCard, mode>>
        /\ \A x \in Uids : card[x].maker # u
        /\ event' = [i \in DOMAIN event |->
             [event[i] EXCEPT !.actor = IF event[i].actor = u THEN NoUser ELSE event[i].actor]]
    BY <1>3 DEF DeleteUser, CardsLose, CardsRelease
  <2>2. Forgets(event, event', 0 - 1)
    BY <1>1, <2>1, LoseForgets
  <2>3. ASSUME NEW i \in 1..Len(event)
        PROVE  /\ event'[i].actor \in Present' /\ event'[i].card \in CardIds \cup {0}
    <3>1. event[i] \in EventRows /\ DOMAIN event = 1..Len(event)
      BY <1>1 DEF CardTypes
    <3>2. PICK v : v = IF event[i].actor = u THEN NoUser ELSE event[i].actor
      OBVIOUS
    <3>3. event'[i] = [event[i] EXCEPT !.actor = v]
      BY <2>1, <3>1, <3>2
    <3>4. event'[i].actor = v /\ event'[i].card = event[i].card
      BY <3>1, <3>3, EventActorOnly
    <3>5. event[i].actor \in Present /\ event[i].card \in CardIds \cup {0}
      BY DEF CardsSound, LogSound
    <3>6. v \in Present'
      BY <1>3, <3>2, <3>5, PresentBut
    <3> QED BY <3>4, <3>5, <3>6
  <2>4. CardIds' = CardIds /\ Len(event') = Len(event)
    BY <2>1, <2>2 DEF CardIds, Forgets
  <2>5. LogSound(event', CardIds' \cup {0}, Present')
    BY <2>3, <2>4 DEF LogSound
  <2>6. ASSUME NEW x \in Uids
        PROVE  \E v : v = card[x].maker /\ (card[x].id # 0 => Exists(v)')
    <3>1. PICK v : v = card[x].maker
      OBVIOUS
    <3> QED BY <1>3, <2>1, <3>1 DEF StayBut, CardsSound
  <2> QED BY <1>1, <2>1, <2>4, <2>5, <2>6 DEF CardsSound, Exists
<1>4. PartStep \/ Rest => CardStep \/ (UNCHANGED cards /\ inside' \in 0..MaxInside)
  <2>1. PartStep => CardStep \/ (UNCHANGED cards /\ inside' = inside)
    BY Zenon DEF PartStep, RegistryStep, PeopleStep
  <2>2. Rest => UNCHANGED cards /\ (inside' = inside \/ inside' = 0)
    BY DEF Rest
  <2> QED BY <1>1, <2>1, <2>2
<1> QED BY <1>1, <1>2, <1>3, <1>4, CardStepSound, Moves

-----------------------------------------------------------------------------
SiteInv ==
  /\ PeopleOK /\ CombosOK /\ RegistryOK /\ NodesOK /\ RuntimeOK /\ CatalogOK
  /\ CardInv /\ CardsSound
  /\ BackupInv /\ BackupsOK /\ IncidentsOK /\ RunsOK
  /\ LimitsInv

LEMMA SiteInvInit ==
  ASSUME Init
  PROVE  SiteInv
<1>1. PeopleOK
  BY PeopleConstants DEF PeopleConstants, Init, PeopleInit, PeopleOK
<1>2. CombosOK
  BY ComboRow DEF Init, CombosInit, CombosOK, NoCombo
<1>3. RegistryOK
  BY DEF Init, RegistryInit, RegistryOK
<1>4. NodesOK
  <2>1. NoDeployment \in DeploymentRows /\ NoDeployment.status = "none"
    BY DEF NoDeployment, DeploymentRows
  <2>2. MaxDeployments \in Nat
    BY NodesConstants DEF NodesConstants
  <2> QED BY <2>1, <2>2 DEF Init, NodesInit, NodesOK, DeploymentIds
<1>5. RuntimeOK
  <2>1. NoNode \in NodeRows /\ NoNode.told = NoNode.type /\ NoNode.status = "none"
    BY DEF NoNode, NodeRows, Types
  <2> QED BY <2>1 DEF Init, RuntimeInit, RuntimeOK
<1>6. CatalogOK
  <2>1. NoProfile \in ProfileRows /\ NoProfile.status = "none"
    BY DEF NoProfile, ProfileRows
  <2>2. profile = [s \in Slugs |-> NoProfile] /\ flag = [k \in Users \X Slugs |-> "none"]
    BY DEF Init, CatalogInit
  <2>3. \A u \in Users, s \in Slugs : flag[u, s] = "none"
    BY <2>2
  <2>4. flag \in [Users \X Slugs -> {"none", "has", "has_not"}]
    BY <2>2
  <2> QED BY <2>1, <2>2, <2>3, <2>4 DEF CatalogOK
<1>7. CardsSound
  <2>1. /\ card = [x \in Uids |-> NoCard] /\ event = <<>> /\ mode = "closed" /\ inside = 0
        /\ NoCard.id = 0 /\ MaxEvents \in Nat /\ MaxInside \in Nat
    BY CardsConstants DEF CardsConstants, Init, CardsInit, NoCard
  <2>2. CardTypes
    BY CardInit DEF CardInv
  <2>3. LogSound(event, CardIds \cup {0}, Present)
    BY <2>1 DEF LogSound
  <2> QED BY <2>1, <2>2, <2>3 DEF CardsSound
<1>8. BackupInv
  BY BackupInit
<1>9. BackupsOK
  <2>1. NoBackup.actor = NoUser /\ BackupTypes
    BY BackupInit DEF NoBackup, BackupInv
  <2> QED BY <2>1 DEF BackupsOK, Init, OpsInit, Named
<1>10. IncidentsOK
  <2>1. NoIncident \in IncidentRows /\ NoIncident.creator = NoUser /\ NoIncident.resolver = NoUser
    BY DEF NoIncident, IncidentRows, Somebody
  <2>2. MaxIncidents \in Nat
    BY OpsConstants DEF OpsConstants
  <2> QED BY <2>1, <2>2 DEF Init, OpsInit, IncidentsOK, Named
<1>11. RunsOK
  <2>1. MaxRuns \in Nat /\ NoUser \in Somebody
    BY OpsConstants DEF OpsConstants, Somebody
  <2> QED BY <2>1 DEF Init, OpsInit, RunsOK, Named
<1>12. LimitsInv
  BY LimitsInvInit DEF Init
<1> QED BY <1>1, <1>2, <1>3, <1>4, <1>5, <1>6, <1>7, <1>8, <1>9, <1>10, <1>11, <1>12, CardInit
        DEF SiteInv

LEMMA SiteInvNext ==
  ASSUME SiteInv, [Next]_vars
  PROVE  SiteInv'
<1>1. PeopleOK /\ PeopleOK'
  BY Moves DEF SiteInv
<1>2. CombosOK' /\ RegistryOK' /\ NodesOK' /\ RuntimeOK' /\ CatalogOK'
  BY <1>1, ComboPart, RegistryPart, NodesPart, RuntimePart, CatalogPart DEF SiteInv
<1>3. CardInv' /\ CardsSound'
  BY <1>1, CardNext, CardsPart DEF SiteInv
<1>4. BackupInv' /\ BackupsOK' /\ IncidentsOK' /\ RunsOK'
  BY <1>1, BackupNext, BackupsPart, IncidentsPart, RunsPart DEF SiteInv
<1>5. LimitsInv'
  <2>1. UNCHANGED vars => UNCHANGED limits
    BY DEF vars
  <2> QED BY <2>1, LimitsMove, LimitsInvStep DEF SiteInv
<1> QED BY <1>1, <1>2, <1>3, <1>4, <1>5 DEF SiteInv

LEMMA SiteInvTypes ==
  ASSUME SiteInv
  PROVE  TypeOK
<1>1. CardsOK
  <2>1. DOMAIN event = 1..Len(event) /\ CardTypes
    BY CardColumns DEF SiteInv, CardInv
  <2>2. \A x \in Uids :
          /\ card[x].id <= lastCard
          /\ \A y \in Uids \ {x} : card[x].id # 0 => card[x].id # card[y].id
    BY DEF SiteInv, CardInv, OneId
  <2>3. \A i \in 1..Len(event) :
          event[i].card \in CardIds \cup {0} /\ (event[i].actor # NoUser => Exists(event[i].actor))
    BY DEF SiteInv, CardsSound, LogSound, Present
  <2> QED BY <2>1, <2>2, <2>3 DEF CardsOK, SiteInv, CardsSound, CardTypes
<1>2. OpsOK
  BY DEF OpsOK, SiteInv, BackupsOK, BackupTypes, IncidentsOK, RunsOK
<1>3. LimitsOK
  BY LimitsInvHolds DEF SiteInv
<1> QED BY <1>1, <1>2, <1>3 DEF TypeOK, SiteInv

(* Every table of the site keeps its types, and no row names an account, a *)
(* card or a profile that is gone: what the deletion of an account does to *)
(* the tables of all parts, or is refused by (delete_user), is enough, for *)
(* any number of accounts, rows and deletions.                             *)
THEOREM TypeCorrect == Spec => []TypeOK
<1>1. Init => SiteInv
  BY SiteInvInit
<1>2. SiteInv /\ [Next]_vars => SiteInv'
  BY SiteInvNext
<1>3. SiteInv => TypeOK
  BY SiteInvTypes
<1> QED BY <1>1, <1>2, <1>3, PTL DEF Spec
=============================================================================

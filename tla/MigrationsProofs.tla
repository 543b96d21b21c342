---------------------------- MODULE MigrationsProofs ----------------------------
(***************************************************************************)
(* Proofs about Migrations, for any number of crashes and of upgrades.     *)
(***************************************************************************)
EXTENDS Migrations, TLAPS

-----------------------------------------------------------------------------
(* The scripts, and the schemas between their statements.                  *)
LEMMA FilesAre ==
  /\ Len(Files) = 5 /\ DOMAIN Files = 1..5
  /\ Files[1] = File0001 /\ Files[2] = File0003 /\ Files[3] = File0008
  /\ Files[4] = File0020 /\ Files[5] = File0021
  BY DEF Files

LEMMA LenAre ==
  /\ Len(File0001) = 3 /\ Len(File0003) = 4 /\ Len(File0008) = 4
  /\ Len(File0020) = 2 /\ Len(File0021) = 5
  BY DEF File0001, File0003, File0008, File0020, File0021

Accounts == {"users", "rows"} \cup UserColumns
Others ==
  {"sessions", "idx_sessions_user_id", "device_pairings", "idx_device_pairings_user"}

With0001 == {"users", "rows", "sessions", "idx_sessions_user_id"}
With0003 ==
  With0001 \cup {"phone", "registration_device_id", "idx_users_phone_unique",
                 "idx_users_registration_device_unique"}
With0008 ==
  With0003 \cup {"display_name", "profile_bio", "avatar_path", "avatar_updated_at_ms"}
With0020 == With0008 \cup {"device_pairings", "idx_device_pairings_user"}
With0021 == Accounts \cup Others \cup {"idx_users_login"}

Path0001 == <<{}, {"users", "rows"}, {"users", "rows", "sessions"}, With0001>>
Path0003 ==
  <<With0001, With0001 \cup {"phone"}, With0001 \cup {"phone", "registration_device_id"},
    With0001 \cup {"phone", "registration_device_id", "idx_users_phone_unique"}, With0003>>
Path0008 ==
  <<With0003, With0003 \cup {"display_name"}, With0003 \cup {"display_name", "profile_bio"},
    With0003 \cup {"display_name", "profile_bio", "avatar_path"}, With0008>>
Path0020 == <<With0008, With0008 \cup {"device_pairings"}, With0020>>
Path0021 ==
  <<With0020, With0020 \cup {"users_new"}, With0020 \cup {"users_new", "copy"},
    Others \cup {"users_new", "copy"}, Others \cup Accounts, With0021>>
Paths == <<Path0001, Path0003, Path0008, Path0020, Path0021>>

(* What the database may hold when statement m of script f is next: the    *)
(* path of its first run, or what a run after a crash makes of one of its  *)
(* schemas.                                                                *)
Onward(f, m) == {Paths[f][j] : j \in m..Len(Paths[f])}
Stuck(f, m) == IF m = 1 THEN Onward(f, 1) ELSE {Paths[f][m]}
(* 0021 starts from whichever indexes an earlier run has dropped or made. *)
Copied(new) ==
  {Others \cup Accounts \cup i \cup new :
     i \in {{"idx_users_phone_unique", "idx_users_registration_device_unique"},
            {}, {"idx_users_login"}}}
Rebuilt(m) ==
  CASE m = 1 -> Copied({}) \cup Copied({"users_new"}) \cup Copied({"users_new", "copy"})
                  \cup Onward(5, 4)
    [] m = 2 -> Copied({"users_new"})
    [] m = 3 -> Copied({"users_new", "copy"})
    [] OTHER -> {Path0021[m]}
At(f, m) ==
  CASE f \in {1, 4} -> Onward(f, m)
    [] f \in {2, 3} -> Stuck(f, m)
    [] OTHER -> Rebuilt(m)

(* The inductive invariant: the scripts are recorded in order, and the     *)
(* database is on the way of the next one, from its start unless a crash   *)
(* has cut one short.                                                      *)
Under(k) == pc = "migrating" /\ file = k + 1
Position(k) == IF Under(k) THEN stmt ELSE 1
Recorded(k) ==
  /\ applied = 1..k
  /\ pc = "migrating" => file <= k + 1 /\ (file <= k => stmt = 1)
  /\ pc = "serving" => k = release
  /\ k = release => schema = After[k]
  /\ k < release => schema \in At(k + 1, Position(k))
  /\ k < release /\ cut = {} => schema = Paths[k + 1][Position(k)]
MigrationInv ==
  /\ TypeOK /\ OnlyCrashesBreak
  /\ \E k \in 0..release : Recorded(k)
-----------------------------------------------------------------------------
(* What each statement does, and where the paths lead. *)
LEMMA Statements0001 ==
  /\ File0001[1] = Statement({}, {}, {}, {"users", "rows"})
  /\ File0001[2] = Statement({}, {}, {}, {"sessions"})
  /\ File0001[3] = Statement({"sessions"}, {}, {}, {"idx_sessions_user_id"})
  BY DEF File0001, Create
LEMMA Statements0003 ==
  /\ File0003[1] = Statement({"users"}, {"phone"}, {}, {"phone"})
  /\ File0003[2] =
       Statement({"users"}, {"registration_device_id"}, {}, {"registration_device_id"})
  /\ File0003[3] = Statement({"users", "phone"}, {}, {}, {"idx_users_phone_unique"})
  /\ File0003[4] = Statement({"users", "registration_device_id"}, {}, {},
                             {"idx_users_registration_device_unique"})
  BY DEF File0003, Create, AddColumn
LEMMA Statements0008 ==
  /\ File0008[1] = Statement({"users"}, {"display_name"}, {}, {"display_name"})
  /\ File0008[2] = Statement({"users"}, {"profile_bio"}, {}, {"profile_bio"})
  /\ File0008[3] = Statement({"users"}, {"avatar_path"}, {}, {"avatar_path"})
  /\ File0008[4] = Statement({"users"}, {"avatar_updated_at_ms"}, {}, {"avatar_updated_at_ms"})
  BY DEF File0008, AddColumn
LEMMA Statements0020 ==
  /\ File0020[1] = Statement({}, {}, {}, {"device_pairings"})
  /\ File0020[2] = Statement({"device_pairings"}, {}, {}, {"idx_device_pairings_user"})
  BY DEF File0020, Create
LEMMA Statements0021 ==
  /\ File0021[1] = CreateCopy /\ File0021[2] = FillCopy /\ File0021[3] = DropUsers
  /\ File0021[4] = RenameCopy
  /\ File0021[5] = Statement({"users"}, {}, {}, {"idx_users_login"})
  BY DEF File0021, Create

(* Statement s takes the schema from one set to the other. *)
Leads(S, s, T) == s.needs \subseteq S /\ s.bars \cap S = {} /\ (S \ s.drops) \cup s.adds = T

LEMMA Path0001Leads ==
  \A m \in 1..3 : Leads(Path0001[m], File0001[m], Path0001[m + 1])
<1>1. \A m \in 1..3 : m = 1 \/ m = 2 \/ m = 3
  OBVIOUS
<1>2. Leads(Path0001[1], File0001[1], Path0001[2])
  BY Statements0001 DEF Path0001, Leads, Statement
<1>3. Leads(Path0001[2], File0001[2], Path0001[3])
  BY Statements0001 DEF Path0001, Leads, Statement
<1>4. Leads(Path0001[3], File0001[3], Path0001[4])
  BY Statements0001 DEF Path0001, Leads, Statement, With0001
<1> QED BY <1>1, <1>2, <1>3, <1>4

LEMMA Path0003Leads ==
  \A m \in 1..4 : Leads(Path0003[m], File0003[m], Path0003[m + 1])
<1>1. \A m \in 1..4 : m = 1 \/ m = 2 \/ m = 3 \/ m = 4
  OBVIOUS
<1>2. Leads(Path0003[1], File0003[1], Path0003[2])
  BY Statements0003 DEF Path0003, Leads, Statement, With0001
<1>3. Leads(Path0003[2], File0003[2], Path0003[3])
  BY Statements0003 DEF Path0003, Leads, Statement, With0001
<1>4. Leads(Path0003[3], File0003[3], Path0003[4])
  BY Statements0003 DEF Path0003, Leads, Statement, With0001
<1>5. Leads(Path0003[4], File0003[4], Path0003[5])
  BY Statements0003 DEF Path0003, Leads, Statement, With0001, With0003
<1> QED BY <1>1, <1>2, <1>3, <1>4, <1>5

LEMMA Path0008Leads ==
  \A m \in 1..4 : Leads(Path0008[m], File0008[m], Path0008[m + 1])
<1>1. \A m \in 1..4 : m = 1 \/ m = 2 \/ m = 3 \/ m = 4
  OBVIOUS
<1>2. Leads(Path0008[1], File0008[1], Path0008[2])
  BY Statements0008 DEF Path0008, Leads, Statement, With0001, With0003
<1>3. Leads(Path0008[2], File0008[2], Path0008[3])
  BY Statements0008 DEF Path0008, Leads, Statement, With0001, With0003
<1>4. Leads(Path0008[3], File0008[3], Path0008[4])
  BY Statements0008 DEF Path0008, Leads, Statement, With0001, With0003
<1>5. Leads(Path0008[4], File0008[4], Path0008[5])
  BY Statements0008 DEF Path0008, Leads, Statement, With0001, With0003, With0008
<1> QED BY <1>1, <1>2, <1>3, <1>4, <1>5

LEMMA Path0020Leads ==
  \A m \in 1..2 : Leads(Path0020[m], File0020[m], Path0020[m + 1])
<1>1. \A m \in 1..2 : m = 1 \/ m = 2
  OBVIOUS
<1>2. Leads(Path0020[1], File0020[1], Path0020[2])
  BY Statements0020 DEF Path0020, Leads, Statement
<1>3. Leads(Path0020[2], File0020[2], Path0020[3])
  BY Statements0020 DEF Path0020, Leads, Statement, With0020
<1> QED BY <1>1, <1>2, <1>3

LEMMA Path0021Leads ==
  \A m \in 1..5 : Leads(Path0021[m], File0021[m], Path0021[m + 1])
<1> USE DEF Path0021, Leads, Statement
<1>1. \A m \in 1..5 : m = 1 \/ m = 2 \/ m = 3 \/ m = 4 \/ m = 5
  OBVIOUS
<1>2. Leads(Path0021[1], File0021[1], Path0021[2])
  BY Statements0021 DEF CreateCopy, With0020, With0008, With0003, With0001
<1>3. Leads(Path0021[2], File0021[2], Path0021[3])
  BY Statements0021 DEF FillCopy, UserColumns, With0020, With0008, With0003, With0001
<1>4. Leads(Path0021[3], File0021[3], Path0021[4])
  BY Statements0021 DEF DropUsers, UserColumns, UserIndexes, Others, With0020, With0008,
     With0003, With0001
<1>5. Leads(Path0021[4], File0021[4], Path0021[5])
  BY Statements0021 DEF RenameCopy, Accounts, Others, UserColumns
<1>6. Leads(Path0021[5], File0021[5], Path0021[6])
  BY Statements0021 DEF Accounts, Others, With0021
<1> QED BY <1>1, <1>2, <1>3, <1>4, <1>5, <1>6

(* What a script makes of a schema. *)
Result(S, q) ==
  LET Through[s \in 0..Len(q)] ==
        IF s = 0 THEN S ELSE (Through[s - 1] \ q[s].drops) \cup q[s].adds
  IN  Through[Len(q)]

LEMMA ResultIs ==
  ASSUME NEW q, NEW path, Len(q) \in 2..5,
         \A m \in 1..Len(q) : Leads(path[m], q[m], path[m + 1])
  PROVE  Result(path[1], q) = path[Len(q) + 1]
<1> DEFINE T == CHOOSE g : g = [s \in 0..Len(q) |->
                  IF s = 0 THEN path[1] ELSE (g[s - 1] \ q[s].drops) \cup q[s].adds]
           G == [s \in 0..Len(q) |-> path[s + 1]]
<1>1. \A s \in 0..Len(q) : s # 0 => s \in 1..Len(q) /\ s - 1 \in 0..Len(q) /\ (s - 1) + 1 = s
  OBVIOUS
<1>2. G = [s \in 0..Len(q) |->
             IF s = 0 THEN path[1] ELSE (G[s - 1] \ q[s].drops) \cup q[s].adds]
  <2>1. ASSUME NEW s \in 0..Len(q)
        PROVE  path[s + 1] =
                 IF s = 0 THEN path[1] ELSE (G[s - 1] \ q[s].drops) \cup q[s].adds
    <3>1. CASE s # 0
      <4>1. s \in 1..Len(q) /\ G[s - 1] = path[s]
        BY <1>1, <3>1
      <4> QED BY <3>1, <4>1 DEF Leads
    <3> QED BY <3>1
  <2>2. G = [s \in 0..Len(q) |-> path[s + 1]]
    OBVIOUS
  <2> HIDE DEF G
  <2> QED BY <2>1, <2>2
<1>3. T = [s \in 0..Len(q) |->
             IF s = 0 THEN path[1] ELSE (T[s - 1] \ q[s].drops) \cup q[s].adds]
  <2> HIDE DEF G
  <2> QED BY <1>2, Zenon
<1>4. Result(path[1], q) = T[Len(q)]
  BY DEF Result
<1> HIDE DEF T, G
<1>5. T[0] = path[1]
  BY <1>3
<1>6. \A s \in 1..Len(q) : T[s - 1] = path[s] => T[s] = path[s + 1]
  <2> SUFFICES ASSUME NEW s \in 1..Len(q), T[s - 1] = path[s]
               PROVE  T[s] = path[s + 1]
    OBVIOUS
  <2>1. s \in 0..Len(q) /\ s # 0
    OBVIOUS
  <2>2. T[s] = (T[s - 1] \ q[s].drops) \cup q[s].adds
    BY <1>3, <2>1
  <2> QED BY <2>2 DEF Leads
<1>7. T[1] = path[2] /\ T[2] = path[3]
  BY <1>5, <1>6
<1>8. Len(q) >= 3 => T[3] = path[4]
  BY <1>6, <1>7
<1>9. Len(q) >= 4 => T[4] = path[5]
  BY <1>6, <1>8
<1>10. Len(q) >= 5 => T[5] = path[6]
  BY <1>6, <1>9
<1>11. Len(q) = 2 \/ Len(q) = 3 \/ Len(q) = 4 \/ Len(q) = 5
  OBVIOUS
<1>12. CASE Len(q) = 2
  BY <1>4, <1>7, <1>12
<1>13. CASE Len(q) = 3
  BY <1>4, <1>8, <1>13
<1>14. CASE Len(q) = 4
  BY <1>4, <1>9, <1>14
<1>15. CASE Len(q) = 5
  BY <1>4, <1>10, <1>15
<1> QED BY <1>11, <1>12, <1>13, <1>14, <1>15

LEMMA PathsAre ==
  /\ Len(Paths) = 5
  /\ Paths[1] = Path0001 /\ Paths[2] = Path0003 /\ Paths[3] = Path0008
  /\ Paths[4] = Path0020 /\ Paths[5] = Path0021
  /\ Len(Path0001) = 4 /\ Len(Path0003) = 5 /\ Len(Path0008) = 5
  /\ Len(Path0020) = 3 /\ Len(Path0021) = 6
  BY DEF Paths, Path0001, Path0003, Path0008, Path0020, Path0021

LEMMA PathsLead ==
  /\ \A f \in 1..5 : Len(Files[f]) \in 2..5 /\ Len(Paths[f]) = Len(Files[f]) + 1
  /\ \A f \in 1..5 : \A m \in 1..Len(Files[f]) : Leads(Paths[f][m], Files[f][m], Paths[f][m + 1])
  /\ Paths[1][1] = {}
  /\ \A f \in 1..4 : Paths[f][Len(Files[f]) + 1] = Paths[f + 1][1]
<1>1. \A f \in 1..5 : f = 1 \/ f = 2 \/ f = 3 \/ f = 4 \/ f = 5
  OBVIOUS
<1>2. \A f \in 1..5 : Len(Files[f]) \in 2..5 /\ Len(Paths[f]) = Len(Files[f]) + 1
  <2>1. /\ Len(Files[1]) = 3 /\ Len(Files[2]) = 4 /\ Len(Files[3]) = 4
        /\ Len(Files[4]) = 2 /\ Len(Files[5]) = 5
    BY FilesAre, LenAre
  <2>2. /\ Len(Paths[1]) = 4 /\ Len(Paths[2]) = 5 /\ Len(Paths[3]) = 5
        /\ Len(Paths[4]) = 3 /\ Len(Paths[5]) = 6
    BY PathsAre
  <2> DEFINE Fits(f) == Len(Files[f]) \in 2..5 /\ Len(Paths[f]) = Len(Files[f]) + 1
  <2>3. Fits(1) /\ Fits(2) /\ Fits(3) /\ Fits(4) /\ Fits(5)
    BY <2>1, <2>2
  <2>4. \A f \in 1..5 : Fits(f)
    <3> HIDE DEF Fits
    <3> QED BY <1>1, <2>3, Zenon
  <2> QED BY <2>4
<1>3. \A f \in 1..5 : \A m \in 1..Len(Files[f]) : Leads(Paths[f][m], Files[f][m], Paths[f][m + 1])
  <2>1. \A m \in 1..Len(Files[1]) : Leads(Paths[1][m], Files[1][m], Paths[1][m + 1])
    BY FilesAre, LenAre, PathsAre, Path0001Leads
  <2>2. \A m \in 1..Len(Files[2]) : Leads(Paths[2][m], Files[2][m], Paths[2][m + 1])
    BY FilesAre, LenAre, PathsAre, Path0003Leads
  <2>3. \A m \in 1..Len(Files[3]) : Leads(Paths[3][m], Files[3][m], Paths[3][m + 1])
    BY FilesAre, LenAre, PathsAre, Path0008Leads
  <2>4. \A m \in 1..Len(Files[4]) : Leads(Paths[4][m], Files[4][m], Paths[4][m + 1])
    BY FilesAre, LenAre, PathsAre, Path0020Leads
  <2>5. \A m \in 1..Len(Files[5]) : Leads(Paths[5][m], Files[5][m], Paths[5][m + 1])
    BY FilesAre, LenAre, PathsAre, Path0021Leads
  <2> QED BY <1>1, <2>1, <2>2, <2>3, <2>4, <2>5
<1>4. Paths[1][1] = {}
  BY PathsAre DEF Path0001
<1>5. \A f \in 1..4 : Paths[f][Len(Files[f]) + 1] = Paths[f + 1][1]
  <2>1. Path0001[4] = Path0003[1] /\ Path0003[5] = Path0008[1]
        /\ Path0008[5] = Path0020[1] /\ Path0020[3] = Path0021[1]
    BY DEF Path0001, Path0003, Path0008, Path0020, Path0021
  <2>2. \A f \in 1..4 : f = 1 \/ f = 2 \/ f = 3 \/ f = 4
    OBVIOUS
  <2>3. /\ Paths[1][Len(Files[1]) + 1] = Paths[2][1] /\ Paths[2][Len(Files[2]) + 1] = Paths[3][1]
        /\ Paths[3][Len(Files[3]) + 1] = Paths[4][1] /\ Paths[4][Len(Files[4]) + 1] = Paths[5][1]
    BY <2>1, FilesAre, LenAre, PathsAre
  <2> QED BY <2>2, <2>3
<1> QED BY <1>2, <1>3, <1>4, <1>5

LEMMA AfterIs ==
  After[0] = {} /\ \A f \in 1..5 : After[f] = Paths[f][Len(Files[f]) + 1]
<1> DEFINE H == [n \in 0..5 |-> IF n = 0 THEN {} ELSE Paths[n][Len(Files[n]) + 1]]
<1>1. \A f \in 1..5 : f - 1 \in 0..5 /\ (f = 1 \/ f - 1 \in 1..4)
  OBVIOUS
<1>2. \A f \in 1..5 : H[f - 1] = Paths[f][1]
  <2>1. ASSUME NEW f \in 1..5, f # 1
        PROVE  Paths[f - 1][Len(Files[f - 1]) + 1] = Paths[f][1]
    <3>1. f - 1 \in 1..4 /\ (f - 1) + 1 = f
      BY <2>1
    <3> QED BY <3>1, PathsLead
  <2>2. \A f \in 1..5 : f # 1 => H[f - 1] = Paths[f - 1][Len(Files[f - 1]) + 1]
    BY <1>1
  <2>3. H[1 - 1] = Paths[1][1]
    BY PathsLead
  <2> HIDE DEF H
  <2> QED BY <2>1, <2>2, <2>3
<1>3. \A f \in 1..5 : Result(Paths[f][1], Files[f]) = Paths[f][Len(Files[f]) + 1]
  BY PathsLead, ResultIs
<1>4. H = [n \in 0..Len(Files) |-> IF n = 0 THEN {} ELSE Result(H[n - 1], Files[n])]
  <2>1. ASSUME NEW n \in 0..5, n # 0
        PROVE  Paths[n][Len(Files[n]) + 1] = Result(H[n - 1], Files[n])
    <3>1. n \in 1..5
      BY <2>1
    <3> HIDE DEF H
    <3> QED BY <1>2, <1>3, <3>1
  <2>2. H = [n \in 0..5 |-> IF n = 0 THEN {} ELSE Paths[n][Len(Files[n]) + 1]]
    OBVIOUS
  <2> HIDE DEF H
  <2> QED BY <2>1, <2>2, FilesAre
<1> HIDE DEF H
<1>5. After = [n \in 0..Len(Files) |-> IF n = 0 THEN {} ELSE Result(After[n - 1], Files[n])]
  BY <1>4, Zenon DEF After, Result
<1>6. After[0] = {} /\ \A f \in 1..5 : After[f] = Result(After[f - 1], Files[f])
  BY <1>5, FilesAre
<1>7. \A f \in 1..5 : After[f - 1] = Paths[f][1] => After[f] = Paths[f][Len(Files[f]) + 1]
  BY <1>3, <1>6
<1>8. \A f \in 1..4 : After[f - 1] = Paths[f][1] => After[f] = Paths[f + 1][1]
  <2>1. \A f \in 1..4 : f \in 1..5
    OBVIOUS
  <2> QED BY <1>7, <2>1, PathsLead
<1>9. After[0] = Paths[1][1]
  BY <1>6, PathsLead
<1>10. After[1] = Paths[2][1]
  BY <1>8, <1>9
<1>11. After[2] = Paths[3][1]
  BY <1>8, <1>10
<1>12. After[3] = Paths[4][1]
  BY <1>8, <1>11
<1>13. After[4] = Paths[5][1]
  BY <1>8, <1>12
<1>14. \A f \in 1..5 : f = 1 \/ f = 2 \/ f = 3 \/ f = 4 \/ f = 5
  OBVIOUS
<1> QED BY <1>6, <1>7, <1>9, <1>10, <1>11, <1>12, <1>13, <1>14

-----------------------------------------------------------------------------
(* A statement of a script leads from what the database may hold before it *)
(* to what it may hold after it, also when the script runs again.          *)
LEMMA OnwardLeads ==
  ASSUME NEW f \in {1, 4}, NEW m \in 1..Len(Files[f]), NEW S \in Onward(f, m)
  PROVE  (S \ Files[f][m].drops) \cup Files[f][m].adds \in Onward(f, m + 1)
<1> DEFINE L == Len(Files[f])
<1>1. L \in Nat /\ Len(Paths[f]) = L + 1 /\ f \in 1..5
  <2>1. f \in 1..5
    OBVIOUS
  <2>2. L \in 2..5 /\ Len(Paths[f]) = L + 1
    BY <2>1, PathsLead, Zenon
  <2> QED BY <2>1, <2>2
<1>2. PICK j \in m..(L + 1) : S = Paths[f][j]
  BY <1>1 DEF Onward
<1>3. \A k \in (m + 1)..(L + 1) : Files[f][m].adds \subseteq Paths[f][k]
  <2>1. CASE f = 1
    <3>1. \A k \in 1..4 : k = 1 \/ k = 2 \/ k = 3 \/ k = 4
      OBVIOUS
    <3>2. /\ {"users", "rows"} \subseteq Path0001[2] /\ {"users", "rows"} \subseteq Path0001[3]
          /\ {"users", "rows"} \subseteq Path0001[4]
          /\ "sessions" \in Path0001[3] /\ "sessions" \in Path0001[4]
          /\ "idx_sessions_user_id" \in Path0001[4]
      BY DEF Path0001, With0001
    <3>3. /\ \A k \in 2..4 : File0001[1].adds \subseteq Path0001[k]
          /\ \A k \in 3..4 : File0001[2].adds \subseteq Path0001[k]
          /\ \A k \in 4..4 : File0001[3].adds \subseteq Path0001[k]
      BY <3>1, <3>2, Statements0001 DEF Statement
    <3>4. L = 3 /\ Files[f] = File0001 /\ Paths[f] = Path0001 /\ m \in 1..3
      BY <2>1, FilesAre, LenAre, PathsAre
    <3> HIDE DEF L
    <3>5. m = 1 \/ m = 2 \/ m = 3
      BY <3>4
    <3> QED BY <3>3, <3>4, <3>5
  <2>2. CASE f = 4
    <3>1. \A k \in 1..3 : k = 1 \/ k = 2 \/ k = 3
      OBVIOUS
    <3>2. /\ "device_pairings" \in Path0020[2] /\ "device_pairings" \in Path0020[3]
          /\ "idx_device_pairings_user" \in Path0020[3]
      BY DEF Path0020, With0020
    <3>3. /\ \A k \in 2..3 : File0020[1].adds \subseteq Path0020[k]
          /\ \A k \in 3..3 : File0020[2].adds \subseteq Path0020[k]
      BY <3>1, <3>2, Statements0020 DEF Statement
    <3>4. L = 2 /\ Files[f] = File0020 /\ Paths[f] = Path0020 /\ m \in 1..2
      BY <2>2, FilesAre, LenAre, PathsAre
    <3> HIDE DEF L
    <3>5. m = 1 \/ m = 2
      BY <3>4
    <3> QED BY <3>3, <3>4, <3>5
  <2> QED BY <2>1, <2>2
<1>4. Files[f][m].drops = {}
  <2>1. /\ File0001[1].drops = {} /\ File0001[2].drops = {} /\ File0001[3].drops = {}
        /\ File0020[1].drops = {} /\ File0020[2].drops = {}
    BY Statements0001, Statements0020 DEF Statement
  <2>2. CASE f = 1
    <3>1. m = 1 \/ m = 2 \/ m = 3
      BY <2>2, FilesAre, LenAre
    <3> QED BY <2>1, <2>2, <3>1, FilesAre
  <2>3. CASE f = 4
    <3>1. m = 1 \/ m = 2
      BY <2>3, FilesAre, LenAre
    <3> QED BY <2>1, <2>3, <3>1, FilesAre
  <2> QED BY <2>2, <2>3
<1>5. CASE j = m
  <2>1. (S \ Files[f][m].drops) \cup Files[f][m].adds = Paths[f][m + 1]
    BY <1>1, <1>2, <1>5, PathsLead DEF Leads
  <2>2. m + 1 \in (m + 1)..Len(Paths[f])
    BY <1>1
  <2> QED BY <2>1, <2>2 DEF Onward
<1>6. CASE j \in (m + 1)..(L + 1)
  <2>1. (S \ Files[f][m].drops) \cup Files[f][m].adds = S
    BY <1>2, <1>3, <1>4, <1>6
  <2> QED BY <1>1, <1>2, <1>6, <2>1 DEF Onward
<1>7. j = m \/ j \in (m + 1)..(L + 1)
  BY <1>1
<1> QED BY <1>5, <1>6, <1>7

LEMMA StuckLeads ==
  ASSUME NEW f \in {2, 3}, NEW m \in 1..Len(Files[f]), NEW S \in Stuck(f, m),
         Files[f][m].bars \cap S = {}
  PROVE  (S \ Files[f][m].drops) \cup Files[f][m].adds \in Stuck(f, m + 1)
<1>1. Len(Files[f]) = 4 /\ Len(Paths[f]) = 5 /\ f \in 1..5
  BY FilesAre, LenAre, PathsAre
<1>2. S = Paths[f][m]
  <2>1. CASE m = 1
    <3>1. PICK j \in 1..5 : S = Paths[f][j]
      BY <1>1, <2>1 DEF Stuck, Onward
    <3>2. \A k \in 2..5 : Files[f][1].bars \cap Paths[f][k] # {}
      <4>1. \A k \in 2..5 : k = 2 \/ k = 3 \/ k = 4 \/ k = 5
        OBVIOUS
      <4>2. /\ "phone" \in Path0003[2] /\ "phone" \in Path0003[3]
            /\ "phone" \in Path0003[4] /\ "phone" \in Path0003[5]
        BY DEF Path0003, With0003
      <4>3. /\ "display_name" \in Path0008[2] /\ "display_name" \in Path0008[3]
            /\ "display_name" \in Path0008[4] /\ "display_name" \in Path0008[5]
        BY DEF Path0008, With0008
      <4>4. File0003[1].bars = {"phone"} /\ File0008[1].bars = {"display_name"}
        BY Statements0003, Statements0008 DEF Statement
      <4>5. CASE f = 2
        BY <4>1, <4>2, <4>4, <4>5, FilesAre, PathsAre
      <4>6. CASE f = 3
        BY <4>1, <4>3, <4>4, <4>6, FilesAre, PathsAre
      <4> QED BY <4>5, <4>6
    <3>3. j = 1 \/ j \in 2..5
      OBVIOUS
    <3> QED BY <2>1, <3>1, <3>2, <3>3
  <2>2. CASE m # 1
    BY <2>2 DEF Stuck
  <2> QED BY <2>1, <2>2
<1>3. (S \ Files[f][m].drops) \cup Files[f][m].adds = Paths[f][m + 1]
  BY <1>1, <1>2, PathsLead DEF Leads
<1>4. m + 1 # 1
  BY <1>1
<1> QED BY <1>3, <1>4 DEF Stuck

LEMMA RebuiltIs ==
  /\ Rebuilt(1) = Copied({}) \cup Copied({"users_new"}) \cup Copied({"users_new", "copy"})
                    \cup Onward(5, 4)
  /\ Rebuilt(2) = Copied({"users_new"}) /\ Rebuilt(3) = Copied({"users_new", "copy"})
  /\ Rebuilt(4) = {Path0021[4]} /\ Rebuilt(5) = {Path0021[5]} /\ Rebuilt(6) = {Path0021[6]}
  BY DEF Rebuilt

LEMMA RebuiltLeads ==
  ASSUME NEW m \in 1..5, NEW S \in Rebuilt(m), File0021[m].bars \cap S = {}
  PROVE  (S \ File0021[m].drops) \cup File0021[m].adds \in Rebuilt(m + 1)
<1> DEFINE T == (S \ File0021[m].drops) \cup File0021[m].adds
<1>1. CASE m = 1
  <2>1. File0021[1].bars = {"users_new"} /\ File0021[1].drops = {}
        /\ File0021[1].adds = {"users_new"}
    BY Statements0021 DEF CreateCopy, Statement
  <2>2. "users_new" \notin S /\ T = S \cup {"users_new"}
    BY <1>1, <2>1
  <2>3. S \in Copied({})
    <3>1. S \notin Copied({"users_new"}) /\ S \notin Copied({"users_new", "copy"})
      BY <2>2 DEF Copied
    <3>2. S \in Copied({}) \/ S \in Onward(5, 4)
      BY <1>1, <3>1, RebuiltIs
    <3>3. ASSUME S \in Onward(5, 4)
          PROVE  S = Path0021[4] \/ S = Path0021[5] \/ S = Path0021[6]
      <4>1. PICK j \in 4..6 : S = Path0021[j]
        BY <3>3, PathsAre DEF Onward
      <4>2. j = 4 \/ j = 5 \/ j = 6
        OBVIOUS
      <4> QED BY <4>1, <4>2
    <3>4. S # Path0021[4]
      BY <2>2 DEF Path0021
    <3>5. Path0021[5] \in Copied({})
      <4>1. Path0021[5] = Others \cup Accounts \cup {} \cup {}
        BY DEF Path0021
      <4> QED BY <4>1 DEF Copied
    <3>6. Path0021[6] \in Copied({})
      <4>1. Path0021[6] = Others \cup Accounts \cup {"idx_users_login"} \cup {}
        BY DEF Path0021, With0021
      <4> QED BY <4>1 DEF Copied
    <3> QED BY <3>2, <3>3, <3>4, <3>5, <3>6
  <2>4. T \in Copied({"users_new"})
    <3>1. PICK i \in {{"idx_users_phone_unique", "idx_users_registration_device_unique"},
                      {}, {"idx_users_login"}} : S = Others \cup Accounts \cup i \cup {}
      BY <2>3, Zenon DEF Copied
    <3>2. T = Others \cup Accounts \cup i \cup {"users_new"}
      BY <2>2, <3>1
    <3> HIDE DEF T
    <3> QED BY <3>2, Zenon DEF Copied
  <2> QED BY <1>1, <2>4, RebuiltIs
<1>2. CASE m = 2
  <2>1. File0021[2].drops = {} /\ File0021[2].adds = {"copy"}
    BY Statements0021 DEF FillCopy, Statement
  <2>2. PICK i \in {{"idx_users_phone_unique", "idx_users_registration_device_unique"},
                    {}, {"idx_users_login"}} : S = Others \cup Accounts \cup i \cup {"users_new"}
    BY <1>2, RebuiltIs, Zenon DEF Copied
  <2>3. T = Others \cup Accounts \cup i \cup {"users_new", "copy"}
    BY <1>2, <2>1, <2>2
  <2>4. T \in Copied({"users_new", "copy"})
    <3> HIDE DEF T
    <3> QED BY <2>3, Zenon DEF Copied
  <2> QED BY <1>2, <2>4, RebuiltIs
<1>3. CASE m = 3
  <2>1. File0021[3].drops = {"users", "rows"} \cup UserColumns \cup UserIndexes
        /\ File0021[3].adds = {}
    BY Statements0021 DEF DropUsers, Statement
  <2>2. PICK i \in {{"idx_users_phone_unique", "idx_users_registration_device_unique"},
                    {}, {"idx_users_login"}} :
             S = Others \cup Accounts \cup i \cup {"users_new", "copy"}
    BY <1>3, RebuiltIs, Zenon DEF Copied
  <2>3. i \subseteq UserIndexes
    BY DEF UserIndexes
  <2>4. Others \cap File0021[3].drops = {} /\ {"users_new", "copy"} \cap File0021[3].drops = {}
    BY <2>1 DEF Others, UserColumns, UserIndexes
  <2>5. T = Others \cup {"users_new", "copy"}
    BY <1>3, <2>1, <2>2, <2>3, <2>4 DEF Accounts
  <2>6. Path0021[4] = Others \cup {"users_new", "copy"}
    BY DEF Path0021
  <2>7. T \in Rebuilt(4)
    <3> HIDE DEF T
    <3> QED BY <2>5, <2>6, RebuiltIs
  <2> QED BY <1>3, <2>7
<1>4. CASE m = 4
  <2>1. S = Path0021[4]
    BY <1>4, RebuiltIs
  <2>2. Leads(Path0021[4], File0021[4], Path0021[5])
    BY Path0021Leads
  <2>3. T = Path0021[5]
    BY <1>4, <2>1, <2>2 DEF Leads
  <2>4. T \in Rebuilt(5)
    BY <2>3, RebuiltIs
  <2> QED BY <1>4, <2>4
<1>5. CASE m = 5
  <2>1. S = Path0021[5]
    BY <1>5, RebuiltIs
  <2>2. Leads(Path0021[5], File0021[5], Path0021[6])
    BY Path0021Leads
  <2>3. T = Path0021[6]
    BY <1>5, <2>1, <2>2 DEF Leads
  <2>4. T \in Rebuilt(6)
    BY <2>3, RebuiltIs
  <2> QED BY <1>5, <2>4
<1> QED BY <1>1, <1>2, <1>3, <1>4, <1>5

LEMMA AtLeads ==
  ASSUME NEW f \in 1..5, NEW m \in 1..Len(Files[f]), NEW S \in At(f, m),
         Files[f][m].bars \cap S = {}
  PROVE  (S \ Files[f][m].drops) \cup Files[f][m].adds \in At(f, m + 1)
<1>1. CASE f \in {1, 4}
  BY <1>1, OnwardLeads DEF At
<1>2. CASE f \in {2, 3}
  <2>1. f \notin {1, 4}
    BY <1>2
  <2> QED BY <1>2, <2>1, StuckLeads DEF At
<1>3. CASE f = 5
  <2>1. f \notin {1, 4} /\ f \notin {2, 3}
    BY <1>3
  <2>2. m \in 1..5 /\ Files[f] = File0021
    BY <1>3, FilesAre, LenAre
  <2> QED BY <2>1, <2>2, RebuiltLeads DEF At
<1> QED BY <1>1, <1>2, <1>3

(* Where a path starts and ends, and that a script begins again with       *)
(* whatever it left.                                                       *)
LEMMA AtStarts ==
  ASSUME NEW f \in 1..5
  PROVE  Paths[f][1] \in At(f, 1)
<1>1. 1 \in 1..Len(Paths[f])
  <2>1. Len(Files[f]) \in 2..5 /\ Len(Paths[f]) = Len(Files[f]) + 1
    BY PathsLead, Zenon
  <2> QED BY <2>1
<1>2. Paths[f][1] \in Onward(f, 1)
  BY <1>1 DEF Onward
<1>3. CASE f \in {1, 4}
  BY <1>2, <1>3 DEF At
<1>4. CASE f \in {2, 3}
  <2>1. f \notin {1, 4}
    BY <1>4
  <2> QED BY <1>2, <1>4, <2>1 DEF At, Stuck
<1>5. CASE f = 5
  <2>1. Path0021[1] = Others \cup Accounts \cup
          {"idx_users_phone_unique", "idx_users_registration_device_unique"} \cup {}
    BY DEF Path0021, Others, Accounts, UserColumns, With0020, With0008, With0003, With0001
  <2>2. Path0021[1] \in Rebuilt(1)
    BY <2>1, RebuiltIs DEF Copied
  <2> QED BY <1>5, <2>2, PathsAre DEF At
<1> QED BY <1>3, <1>4, <1>5

LEMMA AtEnds ==
  ASSUME NEW f \in 1..5, NEW S \in At(f, Len(Files[f]) + 1)
  PROVE  S = Paths[f][Len(Files[f]) + 1]
<1>1. Len(Files[f]) \in 2..5 /\ Len(Paths[f]) = Len(Files[f]) + 1
  BY PathsLead, Zenon
<1>2. CASE f \in {1, 4}
  <2>1. S \in Onward(f, Len(Files[f]) + 1)
    BY <1>2 DEF At
  <2> QED BY <1>1, <2>1 DEF Onward
<1>3. CASE f \in {2, 3}
  <2>1. f \notin {1, 4}
    BY <1>3
  <2>2. \A n \in 2..5 : n + 1 # 1
    OBVIOUS
  <2> QED BY <1>1, <1>3, <2>1, <2>2 DEF At, Stuck
<1>4. CASE f = 5
  <2>1. S \in Rebuilt(6) /\ Len(Files[f]) = 5
    BY <1>4, FilesAre, LenAre DEF At
  <2> QED BY <1>4, <2>1, RebuiltIs, PathsAre
<1> QED BY <1>2, <1>3, <1>4

LEMMA AtAgain ==
  ASSUME NEW f \in 1..5, NEW m \in 1..(Len(Files[f]) + 1), NEW S \in At(f, m)
  PROVE  S \in At(f, 1)
<1>1. Len(Files[f]) \in 2..5 /\ Len(Paths[f]) = Len(Files[f]) + 1
  BY PathsLead, Zenon
<1>2. CASE f \in {1, 4}
  BY <1>1, <1>2 DEF At, Onward
<1>3. CASE f \in {2, 3}
  <2>1. f \notin {1, 4}
    BY <1>3
  <2>2. S \in Stuck(f, m)
    BY <1>3, <2>1 DEF At
  <2>3. S \in Onward(f, 1)
    BY <1>1, <2>2 DEF Stuck, Onward
  <2> QED BY <1>3, <2>1, <2>3 DEF At, Stuck
<1>4. CASE f = 5
  <2>1. m \in 1..6 /\ S \in Rebuilt(m)
    BY <1>4, FilesAre, LenAre DEF At
  <2>2. m = 1 \/ m = 2 \/ m = 3 \/ m = 4 \/ m = 5 \/ m = 6
    BY <2>1
  <2>3. Path0021[4] \in Onward(5, 4) /\ Path0021[5] \in Onward(5, 4)
        /\ Path0021[6] \in Onward(5, 4)
    BY PathsAre DEF Onward
  <2>4. S \in Rebuilt(1)
    BY <2>1, <2>2, <2>3, RebuiltIs
  <2> QED BY <1>4, <2>4 DEF At
<1> QED BY <1>2, <1>3, <1>4

(* The rows of users, or their copy, are there from the second script on. *)
LEMMA AtHasRows ==
  ASSUME NEW f \in 2..5, NEW m \in 1..(Len(Files[f]) + 1), NEW S \in At(f, m)
  PROVE  {"rows", "copy"} \cap S # {}
<1>1. S \in At(f, 1) /\ f \in 1..5
  BY AtAgain
<1>2. \A k \in 2..5 : \A j \in 1..Len(Paths[k]) : {"rows", "copy"} \cap Paths[k][j] # {}
  <2> DEFINE Has(S1) == {"rows", "copy"} \cap S1 # {}
  <2>1. \A j \in 1..5 : Has(Path0003[j])
    <3>1. \A j \in 1..5 : j = 1 \/ j = 2 \/ j = 3 \/ j = 4 \/ j = 5
      OBVIOUS
    <3>2. /\ "rows" \in Path0003[1] /\ "rows" \in Path0003[2]
          /\ "rows" \in Path0003[3] /\ "rows" \in Path0003[4]
          /\ "rows" \in Path0003[5]
      BY DEF Path0003, With0003, With0001
    <3> QED BY <3>1, <3>2
  <2>2. \A j \in 1..5 : Has(Path0008[j])
    <3>1. \A j \in 1..5 : j = 1 \/ j = 2 \/ j = 3 \/ j = 4 \/ j = 5
      OBVIOUS
    <3>2. /\ "rows" \in Path0008[1] /\ "rows" \in Path0008[2]
          /\ "rows" \in Path0008[3] /\ "rows" \in Path0008[4]
          /\ "rows" \in Path0008[5]
      BY DEF Path0008, With0008, With0003, With0001
    <3> QED BY <3>1, <3>2
  <2>3. \A j \in 1..3 : Has(Path0020[j])
    <3>1. \A j \in 1..3 : j = 1 \/ j = 2 \/ j = 3
      OBVIOUS
    <3>2. /\ "rows" \in Path0020[1] /\ "rows" \in Path0020[2]
          /\ "rows" \in Path0020[3]
      BY DEF Path0020, With0020, With0008, With0003, With0001
    <3> QED BY <3>1, <3>2
  <2>4. \A j \in 1..6 : Has(Path0021[j])
    <3>1. \A j \in 1..6 : j = 1 \/ j = 2 \/ j = 3 \/ j = 4 \/ j = 5 \/ j = 6
      OBVIOUS
    <3>2. /\ "rows" \in Path0021[1] /\ "rows" \in Path0021[2]
          /\ "rows" \in Path0021[3] /\ "copy" \in Path0021[4]
          /\ "rows" \in Path0021[5] /\ "rows" \in Path0021[6]
      BY DEF Path0021, With0021, Accounts, With0020, With0008, With0003, With0001
    <3> QED BY <3>1, <3>2
  <2>5. \A k \in 2..5 : k = 2 \/ k = 3 \/ k = 4 \/ k = 5
    OBVIOUS
  <2> HIDE DEF Has
  <2>6. /\ \A j \in 1..Len(Paths[2]) : Has(Paths[2][j])
        /\ \A j \in 1..Len(Paths[3]) : Has(Paths[3][j])
        /\ \A j \in 1..Len(Paths[4]) : Has(Paths[4][j])
        /\ \A j \in 1..Len(Paths[5]) : Has(Paths[5][j])
    BY <2>1, <2>2, <2>3, <2>4, PathsAre
  <2>7. \A k \in 2..5 : \A j \in 1..Len(Paths[k]) : Has(Paths[k][j])
    BY <2>5, <2>6, Zenon
  <2> QED BY <2>7 DEF Has
<1>3. \A i : "rows" \in Accounts \cup i
  BY DEF Accounts
<1>4. CASE S \in Onward(f, 1)
  BY <1>2, <1>4 DEF Onward
<1>5. CASE f = 5
  <2>1. S \in Rebuilt(1)
    BY <1>1, <1>5 DEF At
  <2>2. S \in Onward(5, 4) => {"rows", "copy"} \cap S # {}
    <3>1. \A j \in 4..6 : {"rows", "copy"} \cap Paths[5][j] # {}
      <4>1. \A j \in 4..6 : j \in 1..Len(Paths[5])
        BY PathsAre
      <4> QED BY <1>2, <4>1
    <3> QED BY <3>1, PathsAre DEF Onward
  <2>3. ASSUME NEW new, S \in Copied(new)
        PROVE  "rows" \in S
    BY <2>3 DEF Copied, Accounts
  <2> QED BY <2>1, <2>2, <2>3, RebuiltIs
<1>6. CASE f # 5
  <2>1. f = 4 \/ f \in {2, 3}
    BY <1>6
  <2>2. S \in Onward(f, 1)
    BY <1>1, <2>1 DEF At, Stuck
  <2> QED BY <1>4, <2>2
<1> QED BY <1>5, <1>6

-----------------------------------------------------------------------------
LEMMA Positions ==
  ASSUME TypeOK, NEW k \in 0..release
  PROVE  /\ release \in 1..5 /\ k \in Nat /\ release \in Nat
         /\ file \in Nat /\ file >= 1 /\ file <= release + 1 /\ stmt \in Nat /\ stmt >= 1
         /\ file <= 5 => stmt <= Len(Files[file]) + 1
         /\ file <= 5 => file \in 1..5
         /\ k < release => k + 1 \in 1..5
         /\ \A f \in 1..5 : Len(Files[f]) \in 2..5
<1>1. release \in 1..5 /\ Len(Files) = 5
  BY FilesAre DEF TypeOK
<1>2. \A f \in 1..5 : Len(Files[f]) \in 2..5
  BY PathsLead, Zenon
<1>3. file \in 1..(release + 1) /\ file \in Nat
  BY <1>1 DEF TypeOK
<1>4. CASE file <= 5
  <2>1. file \in 1..5
    BY <1>1, <1>3, <1>4
  <2>2. Len(Files[file]) \in 2..5
    BY <1>2, <2>1
  <2>3. stmt \in 1..(Len(Files[file]) + 1)
    BY <1>1, <1>3, <1>4 DEF TypeOK
  <2> QED BY <1>1, <1>2, <1>3, <2>1, <2>2, <2>3
<1>5. CASE ~(file <= 5)
  <2>1. stmt \in 1..1
    BY <1>1, <1>3, <1>5 DEF TypeOK
  <2> QED BY <1>1, <1>2, <1>3, <1>5, <2>1
<1> QED BY <1>4, <1>5

LEMMA PendingIs ==
  ASSUME TypeOK, NEW k \in 0..release, Recorded(k), NEW f \in Nat, f >= 1
  PROVE  IsPending(f) <=> k < f /\ f <= release
  BY Positions DEF Recorded, IsPending

LEMMA MigrationInit ==
  ASSUME Init
  PROVE  MigrationInv
<1>1. release \in 1..5 /\ Len(Files) = 5 /\ DOMAIN Files = 1..5
  BY FilesAre DEF Init
<1>0. 1 \in 1..5
  OBVIOUS
<1>2. Len(Files[1]) \in 2..5
  BY <1>0, PathsLead, Zenon
<1>3. TypeOK
  BY <1>1, <1>2, MigrationConstants DEF MigrationConstants, Init, TypeOK
<1>4. {} = Paths[1][1] /\ {} \in At(1, 1)
  BY <1>0, PathsLead, AtStarts, Zenon
<1>5. Recorded(0)
  BY <1>1, <1>4 DEF Init, Recorded, Position, Under
<1> QED BY <1>1, <1>3, <1>5 DEF Init, MigrationInv, OnlyCrashesBreak

LEMMA StartKeeps ==
  ASSUME MigrationInv, Start
  PROVE  MigrationInv'
<1>1. PICK k \in 0..release : Recorded(k)
  BY DEF MigrationInv
<1>2. TypeOK
  BY DEF MigrationInv
<1>3. /\ release \in 1..5 /\ k \in Nat /\ release \in Nat
      /\ \A f \in 1..5 : Len(Files[f]) \in 2..5
  BY <1>2, Positions
<1>4. TypeOK'
  BY <1>2, <1>3, FilesAre DEF Start, TypeOK
<1>5. Position(k) = 1 /\ Position(k)' = 1
  BY DEF Start, Position, Under
<1>6. Recorded(k)'
  BY <1>1, <1>3, <1>5 DEF Start, Recorded
<1> QED BY <1>4, <1>6 DEF Start, MigrationInv, OnlyCrashesBreak

LEMMA SkipKeeps ==
  ASSUME MigrationInv, Skip
  PROVE  MigrationInv'
<1>1. PICK k \in 0..release : Recorded(k)
  BY DEF MigrationInv
<1>2. TypeOK
  BY DEF MigrationInv
<1>3. /\ release \in 1..5 /\ k \in Nat /\ release \in Nat /\ file \in Nat /\ file >= 1
      /\ \A f \in 1..5 : Len(Files[f]) \in 2..5
  BY <1>2, Positions
<1>4. file <= k
  BY <1>1, <1>2, <1>3, PendingIs DEF Skip
<1>5. file' \in 1..(release + 1) /\ (file' <= 5 => file' \in 1..5)
  BY <1>3, <1>4 DEF Skip
<1>6. TypeOK'
  BY <1>2, <1>3, <1>5, FilesAre DEF Skip, TypeOK
<1>7. Position(k) = 1 /\ Position(k)' = 1
  BY <1>3, <1>4 DEF Skip, Position, Under
<1>8. Recorded(k)'
  BY <1>1, <1>3, <1>4, <1>7 DEF Skip, Recorded
<1> QED BY <1>6, <1>8 DEF Skip, MigrationInv, OnlyCrashesBreak

LEMMA RunKeeps ==
  ASSUME MigrationInv, Run
  PROVE  MigrationInv'
<1>1. PICK k \in 0..release : Recorded(k)
  BY DEF MigrationInv
<1>2. TypeOK
  BY DEF MigrationInv
<1>3. /\ release \in 1..5 /\ k \in Nat /\ release \in Nat /\ file \in Nat /\ file >= 1
      /\ file <= release + 1 /\ stmt \in Nat /\ stmt >= 1
      /\ \A f \in 1..5 : Len(Files[f]) \in 2..5
  BY <1>2, Positions
<1>4. file = k + 1 /\ k < release /\ Under(k) /\ Position(k) = stmt
  <2>1. k < file /\ file <= release
    BY <1>1, <1>2, <1>3, PendingIs DEF Run
  <2>2. file <= k + 1 /\ pc = "migrating"
    BY <1>1 DEF Run, Recorded
  <2> QED BY <1>3, <2>1, <2>2 DEF Under, Position
<1>5. file \in 1..5 /\ stmt \in 1..Len(Files[file])
  <2>1. file \in 1..5
    BY <1>3, <1>4
  <2> QED BY <1>3, <2>1 DEF Run, Ran
<1>6. schema \in At(file, stmt) /\ (cut = {} => schema = Paths[file][stmt])
  BY <1>1, <1>4 DEF Recorded
<1> DEFINE s == Files[file][stmt]
<1>7. CASE Possible(s)
  <2>1. /\ schema' = (schema \ s.drops) \cup s.adds /\ stmt' = stmt + 1
        /\ UNCHANGED <<pc, release, applied, file, cut, crashes>>
    BY <1>7 DEF Run
  <2>2. schema' \in At(file, stmt + 1)
    BY <1>5, <1>6, <1>7, <2>1, AtLeads DEF Possible
  <2>3. cut = {} => schema' = Paths[file][stmt + 1]
    <3>1. Leads(Paths[file][stmt], s, Paths[file][stmt + 1])
      BY <1>5, PathsLead, Zenon
    <3> QED BY <1>6, <2>1, <3>1 DEF Leads
  <2>4. TypeOK'
    <3>1. stmt' \in 1..(Len(Files[file]) + 1)
      BY <1>3, <1>5, <2>1
    <3> QED BY <1>2, <1>3, <1>5, <2>1, <3>1, FilesAre DEF TypeOK
  <2>5. Position(k)' = stmt + 1
    BY <1>4, <2>1 DEF Position, Under
  <2> HIDE DEF s
  <2>6. Recorded(k)'
    BY <1>1, <1>3, <1>4, <2>1, <2>2, <2>3, <2>5 DEF Recorded
  <2> QED BY <2>1, <2>4, <2>6 DEF MigrationInv, OnlyCrashesBreak
<1>8. CASE ~Possible(s)
  <2>1. pc' = "failed" /\ UNCHANGED <<schema, stmt, release, applied, file, cut, crashes>>
    BY <1>8 DEF Run
  <2>2. cut # {}
    <3>1. Leads(Paths[file][stmt], s, Paths[file][stmt + 1])
      BY <1>5, PathsLead, Zenon
    <3> QED BY <1>6, <1>8, <3>1 DEF Leads, Possible
  <2>3. TypeOK'
    BY <1>2, <2>1 DEF TypeOK
  <2>4. Position(k)' = 1
    BY <2>1 DEF Position, Under
  <2>5. schema \in At(file, 1)
    <3>1. stmt \in 1..(Len(Files[file]) + 1)
      BY <1>3, <1>5
    <3> QED BY <1>5, <1>6, <3>1, AtAgain
  <2> HIDE DEF s
  <2>6. Recorded(k)'
    BY <1>1, <1>3, <1>4, <2>1, <2>2, <2>4, <2>5 DEF Recorded
  <2> QED BY <2>1, <2>2, <2>3, <2>6 DEF MigrationInv, OnlyCrashesBreak
<1> QED BY <1>7, <1>8

LEMMA RecordKeeps ==
  ASSUME MigrationInv, Record
  PROVE  MigrationInv'
<1>1. PICK k \in 0..release : Recorded(k)
  BY DEF MigrationInv
<1>2. TypeOK
  BY DEF MigrationInv
<1>3. /\ release \in 1..5 /\ k \in Nat /\ release \in Nat /\ file \in Nat /\ file >= 1
      /\ file <= release + 1 /\ stmt \in Nat /\ stmt >= 1
      /\ file <= 5 => stmt <= Len(Files[file]) + 1
      /\ \A f \in 1..5 : Len(Files[f]) \in 2..5
  BY <1>2, Positions
<1>4. file = k + 1 /\ k < release /\ Position(k) = stmt
  <2>1. k < file /\ file <= release
    BY <1>1, <1>2, <1>3, PendingIs DEF Record
  <2>2. file <= k + 1 /\ pc = "migrating"
    BY <1>1 DEF Record, Recorded
  <2> QED BY <1>3, <2>1, <2>2 DEF Under, Position
<1>5. file \in 1..5 /\ stmt = Len(Files[file]) + 1
  <2>1. file \in 1..5
    BY <1>3, <1>4
  <2> QED BY <1>3, <2>1 DEF Record, Ran
<1>6. schema = Paths[file][Len(Files[file]) + 1]
  BY <1>1, <1>4, <1>5, AtEnds DEF Recorded
<1>7. schema = After[file]
  BY <1>5, <1>6, AfterIs
<1>8. file < release => schema = Paths[file + 1][1] /\ schema \in At(file + 1, 1)
  <2>1. file < release => file \in 1..4 /\ file + 1 \in 1..5
    BY <1>3
  <2>2. file < release => Paths[file][Len(Files[file]) + 1] = Paths[file + 1][1]
    BY <2>1, PathsLead
  <2> QED BY <1>6, <2>1, <2>2, AtStarts
<1>9. /\ applied' = 1..file /\ file' = file + 1 /\ stmt' = 1
      /\ UNCHANGED <<release, schema, pc, cut, crashes>> /\ pc = "migrating"
  <2>1. applied = 1..k
    BY <1>1 DEF Recorded
  <2>2. (1..k) \cup {file} = 1..file
    BY <1>3, <1>4
  <2> QED BY <2>1, <2>2 DEF Record
<1>10. TypeOK'
  <2>1. file' \in 1..(release + 1) /\ applied' \subseteq 1..release
        /\ (file' <= 5 => file' \in 1..5)
    BY <1>3, <1>4, <1>9
  <2> QED BY <1>2, <1>3, <1>9, <2>1, FilesAre DEF TypeOK
<1>11. PICK n \in Nat : n = k + 1
  BY <1>3
<1>12. Recorded(n)'
  <2>1. Position(n)' = 1 /\ pc' # "serving" /\ n = file
    BY <1>3, <1>4, <1>9, <1>11 DEF Position, Under
  <2>2. applied' = 1..n
    BY <1>9, <2>1
  <2>3. file' <= n + 1 /\ (file' <= n => stmt' = 1)
    BY <1>3, <1>9, <2>1
  <2>4. n = release' => schema' = After[n]
    BY <1>7, <1>9, <2>1
  <2>5. n < release' => schema' = Paths[n + 1][1] /\ schema' \in At(n + 1, 1)
    BY <1>8, <1>9, <2>1
  <2> QED BY <2>1, <2>2, <2>3, <2>4, <2>5 DEF Recorded
<1>13. n \in 0..release'
  BY <1>3, <1>4, <1>9, <1>11
<1> QED BY <1>9, <1>10, <1>12, <1>13 DEF MigrationInv, OnlyCrashesBreak

LEMMA ServeKeeps ==
  ASSUME MigrationInv, Serve
  PROVE  MigrationInv'
<1>1. PICK k \in 0..release : Recorded(k)
  BY DEF MigrationInv
<1>2. TypeOK
  BY DEF MigrationInv
<1>3. k \in Nat /\ release \in Nat /\ file \in Nat
  BY <1>2, Positions
<1>4. k = release
  BY <1>1, <1>3 DEF Serve, Recorded
<1>5. TypeOK' /\ pc' = "serving"
  BY <1>2 DEF Serve, TypeOK
<1>6. Recorded(k)'
  BY <1>1, <1>3, <1>4 DEF Serve, Recorded
<1> QED BY <1>5, <1>6 DEF Serve, MigrationInv, OnlyCrashesBreak

LEMMA CrashKeeps ==
  ASSUME MigrationInv, Crash
  PROVE  MigrationInv'
<1>1. PICK k \in 0..release : Recorded(k)
  BY DEF MigrationInv
<1>2. TypeOK
  BY DEF MigrationInv
<1>3. /\ release \in 1..5 /\ k \in Nat /\ release \in Nat /\ file \in Nat /\ file >= 1
      /\ stmt \in Nat /\ stmt >= 1 /\ file <= release + 1
      /\ file <= 5 => stmt <= Len(Files[file]) + 1
      /\ \A f \in 1..5 : Len(Files[f]) \in 2..5
  BY <1>2, Positions
<1>4. UNCHANGED <<release, schema, applied, file, stmt>> /\ pc' = "down"
      /\ crashes' = crashes + 1 /\ crashes < MaxCrashes
      /\ cut' = (IF IsPending(file) /\ stmt > 1 THEN cut \cup {file} ELSE cut)
  BY DEF Crash
<1>5. IsPending(file) => file \in 1..5
  BY <1>3 DEF IsPending
<1>6. TypeOK'
  <2>1. crashes' \in 0..MaxCrashes
    BY <1>2, <1>4, MigrationConstants DEF MigrationConstants, TypeOK
  <2>2. cut' \subseteq DOMAIN Files
    BY <1>2, <1>4, <1>5, FilesAre DEF TypeOK
  <2> QED BY <1>2, <1>4, <2>1, <2>2 DEF TypeOK
<1>7. Position(k)' = 1
  BY <1>4 DEF Position, Under
<1>8. k < release => schema \in At(k + 1, 1)
  <2>1. CASE Under(k) /\ k < release
    <3>1. file = k + 1 /\ file \in 1..5 /\ stmt \in 1..(Len(Files[file]) + 1)
      BY <1>3, <2>1 DEF Under
    <3>2. schema \in At(file, stmt)
      BY <1>1, <2>1, <3>1 DEF Recorded, Position
    <3> QED BY <3>1, <3>2, AtAgain
  <2>2. CASE ~Under(k)
    BY <1>1, <2>2 DEF Recorded, Position
  <2> QED BY <2>1, <2>2
<1>9. k < release /\ cut' = {} => cut = {} /\ Position(k) = 1
  <2>1. ASSUME k < release, Under(k), stmt # 1
        PROVE  cut' # {}
    <3>1. IsPending(file) /\ stmt > 1
      BY <1>1, <1>2, <1>3, <2>1, PendingIs DEF Under
    <3> QED BY <1>4, <3>1
  <2>2. cut' = {} => cut = {}
    BY <1>4
  <2> QED BY <2>1, <2>2 DEF Position
<1>10. Recorded(k)'
  BY <1>1, <1>4, <1>7, <1>8, <1>9 DEF Recorded
<1> QED BY <1>4, <1>6, <1>10 DEF MigrationInv, OnlyCrashesBreak

LEMMA StopKeeps ==
  ASSUME MigrationInv, Stop
  PROVE  MigrationInv'
<1>1. PICK k \in 0..release : Recorded(k)
  BY DEF MigrationInv
<1>2. TypeOK'
  BY DEF MigrationInv, Stop, TypeOK
<1>3. Position(k) = 1 /\ Position(k)' = 1
  BY DEF Stop, Position, Under
<1>4. Recorded(k)'
  BY <1>1, <1>3 DEF Stop, Recorded
<1> QED BY <1>2, <1>4 DEF Stop, MigrationInv, OnlyCrashesBreak

LEMMA UpgradeKeeps ==
  ASSUME MigrationInv, Upgrade
  PROVE  MigrationInv'
<1>1. PICK k \in 0..release : Recorded(k)
  BY DEF MigrationInv
<1>2. TypeOK
  BY DEF MigrationInv
<1>3. release \in 1..5 /\ k \in Nat
  BY <1>2, Positions
<1>4. /\ release' \in 1..5 /\ release' > release /\ pc = "down"
      /\ UNCHANGED <<schema, applied, pc, file, stmt, cut, crashes>>
  BY FilesAre DEF Upgrade
<1>5. TypeOK'
  <2>1. applied \subseteq 1..release' /\ file \in 1..(release' + 1)
    <3>1. applied \subseteq 1..release /\ file \in 1..(release + 1)
      BY <1>2 DEF TypeOK
    <3>2. \A r, s \in 1..5 : s > r => 1..r \subseteq 1..s /\ 1..(r + 1) \subseteq 1..(s + 1)
      OBVIOUS
    <3>3. release \in 1..5 /\ release' \in 1..5 /\ release' > release
      BY <1>3, <1>4
    <3>4. 1..release \subseteq 1..release' /\ 1..(release + 1) \subseteq 1..(release' + 1)
      BY <3>2, <3>3
    <3> QED BY <3>1, <3>4
  <2> QED BY <1>2, <1>4, <2>1, FilesAre DEF TypeOK
<1>6. Position(k) = 1 /\ Position(k)' = 1
  BY <1>4 DEF Position, Under
<1>7. k = release => schema \in At(k + 1, 1) /\ schema = Paths[k + 1][1]
  <2>1. CASE k = release
    <3>1. k \in 1..4 /\ k \in 1..5 /\ k + 1 \in 1..5
      BY <1>3, <1>4, <2>1
    <3>2. schema = Paths[k][Len(Files[k]) + 1]
      BY <1>1, <2>1, <3>1, AfterIs DEF Recorded
    <3>3. schema = Paths[k + 1][1]
      BY <3>1, <3>2, PathsLead
    <3> QED BY <3>1, <3>3, AtStarts
  <2> QED BY <2>1
<1>8. Recorded(k)'
  <2>1. k < release' /\ (k = release \/ k < release)
    BY <1>3, <1>4
  <2> QED BY <1>1, <1>3, <1>4, <1>6, <1>7, <2>1 DEF Recorded
<1>9. k \in 0..release'
  BY <1>3, <1>4
<1> QED BY <1>4, <1>5, <1>8, <1>9 DEF MigrationInv, OnlyCrashesBreak

LEMMA MigrationNext ==
  ASSUME MigrationInv, [Next]_vars
  PROVE  MigrationInv'
<1>1. CASE UNCHANGED vars
  <2>1. TypeOK' /\ OnlyCrashesBreak'
    BY <1>1 DEF MigrationInv, TypeOK, OnlyCrashesBreak, vars
  <2>2. PICK k \in 0..release : Recorded(k)
    BY DEF MigrationInv
  <2>3. Recorded(k)'
    BY <1>1, <2>2 DEF vars, Recorded, Position, Under
  <2> QED BY <1>1, <2>1, <2>3 DEF MigrationInv, vars
<1> QED BY <1>1, StartKeeps, SkipKeeps, RunKeeps, RecordKeeps, ServeKeeps, CrashKeeps, StopKeeps,
           UpgradeKeeps, Zenon DEF Next

LEMMA MigrationHolds == Spec => []MigrationInv
<1>1. Init => MigrationInv
  BY MigrationInit
<1>2. MigrationInv /\ [Next]_vars => MigrationInv'
  BY MigrationNext
<1> QED BY <1>1, <1>2, PTL DEF Spec

-----------------------------------------------------------------------------
(* apply_sql_migrations keeps its place: the statement that runs next is   *)
(* one of a script that the release has.                                   *)
THEOREM TypeCorrect == Spec => []TypeOK
<1>1. MigrationInv => TypeOK
  BY DEF MigrationInv
<1> QED BY <1>1, MigrationHolds, PTL

(* However often a startup was cut short, and whichever releases followed  *)
(* each other: the server that serves (the lifespan of main.py after       *)
(* apply_sql_migrations) has the schema of its release.                    *)
THEOREM SchemaCorrect == Spec => []ServesItsSchema
<1>1. MigrationInv => ServesItsSchema
  BY DEF MigrationInv, Recorded, ServesItsSchema
<1> QED BY <1>1, MigrationHolds, PTL

(* The rows of users, or their copy in users_new, are there after any      *)
(* number of crashes, those in the middle of 0021 included.                *)
THEOREM AccountsCorrect == Spec => []AccountsSurvive
<1>1. ASSUME MigrationInv, 1 \in applied
      PROVE  {"rows", "copy"} \cap schema # {}
  <2>1. PICK k \in 0..release : Recorded(k)
    BY <1>1 DEF MigrationInv
  <2>2. TypeOK
    BY <1>1 DEF MigrationInv
  <2>3. /\ release \in 1..5 /\ k \in Nat /\ release \in Nat /\ file \in Nat /\ file >= 1
        /\ stmt \in Nat /\ stmt >= 1 /\ file <= release + 1
        /\ file <= 5 => stmt <= Len(Files[file]) + 1
        /\ \A f \in 1..5 : Len(Files[f]) \in 2..5
    BY <2>2, Positions
  <2>4. k >= 1
    BY <1>1, <2>1, <2>3 DEF Recorded
  <2>5. CASE k < release
    <3>1. k + 1 \in 2..5 /\ schema \in At(k + 1, Position(k))
      BY <2>1, <2>3, <2>4, <2>5 DEF Recorded
    <3>2. Position(k) \in 1..(Len(Files[k + 1]) + 1)
      BY <2>3, <3>1 DEF Position, Under
    <3> QED BY <3>1, <3>2, AtHasRows
  <2>6. CASE k = release /\ k # 5
    <3>1. k \in 1..4 /\ k \in 1..5 /\ k + 1 \in 2..5 /\ k + 1 \in 1..5
      BY <2>3, <2>4, <2>6
    <3>2. schema = Paths[k][Len(Files[k]) + 1]
      BY <2>1, <2>6, <3>1, AfterIs DEF Recorded
    <3>3. schema \in At(k + 1, 1)
      BY <3>1, <3>2, PathsLead, AtStarts
    <3>4. 1 \in 1..(Len(Files[k + 1]) + 1)
      BY <2>3, <3>1
    <3> QED BY <3>1, <3>3, <3>4, AtHasRows
  <2>7. CASE k = release /\ k = 5
    <3>1. schema = Paths[5][Len(Files[5]) + 1]
      BY <2>1, <2>7, AfterIs DEF Recorded
    <3>2. schema = With0021
      BY <3>1, FilesAre, LenAre, PathsAre DEF Path0021
    <3> QED BY <3>2 DEF With0021, Accounts
  <2> QED BY <2>3, <2>5, <2>6, <2>7
<1>2. MigrationInv => AccountsSurvive
  BY <1>1 DEF AccountsSurvive
<1> QED BY <1>2, MigrationHolds, PTL

(* No order of installations, upgrades and restarts makes a script run     *)
(* twice or too early: apply_sql_migrations raises only where a crash has  *)
(* interrupted an earlier run of it.                                       *)
THEOREM FailuresCorrect == Spec => []OnlyCrashesBreak
<1>1. MigrationInv => OnlyCrashesBreak
  BY DEF MigrationInv
<1> QED BY <1>1, MigrationHolds, PTL
=============================================================================

--------------------------- MODULE SyncQueueProofs ---------------------------
(***************************************************************************)
(* Proofs about SyncQueue, for any nodes, keys, contents and limit: no     *)
(* event is handed out twice, and the queue implements the outbox.         *)
(***************************************************************************)
EXTENDS SyncQueue, TLAPS

(* A response carries what is stored, and stays true to it: no step        *)
(* changes the content of a row.                                           *)
WireSound ==
  \A r \in wire : \A k \in Keys, c \in Contents : <<k, c>> \in r => row[k].content = c

(* Exactly the rows that exist have a content. *)
RowsHaveContent ==
  \A k \in Keys : row[k].status # "absent" <=> row[k].content \in Contents

IInv == TypeOK /\ WireSound /\ RowsHaveContent /\ HandedOnce

Rows == [status : Statuses, content : Contents \cup {NoContent},
         note : {"none", "manual", "other"}, due : BOOLEAN]

-----------------------------------------------------------------------------
(* What the three operations on a row return. *)
LEMMA RowOps ==
  ASSUME NEW r \in Rows
  PROVE  /\ Sent(r) \in Rows /\ Resolved(r) \in Rows
         /\ Sent(r).status = "sent" /\ Sent(r).content = r.content
         /\ Resolved(r).content = r.content
         /\ Resolved(r).status \in {r.status, "conflict"}
  BY DEF Rows, Statuses, Sent, Resolved

(* A marked event, resolved or not, is not pending any more. *)
LEMMA SentRow ==
  ASSUME NEW r \in Rows
  PROVE  /\ Resolved(Sent(r)) \in Rows
         /\ Resolved(Sent(r)).content = r.content
         /\ Resolved(Sent(r)).status \in {"sent", "conflict"}
  BY RowOps

LEMMA SweptRow ==
  ASSUME NEW k \in Keys, row[k] \in Rows
  PROVE  /\ Swept(k) \in Rows /\ Swept(k).content = row[k].content
         /\ Expires(k) => row[k].status \in {"pending", "sent"} /\ Swept(k).status = "expired"
         /\ ~Expires(k) => Swept(k) = row[k]
  BY DEF Rows, Statuses, Swept, Expires

(* A batch holds stored, pending events. *)
LEMMA BatchRows ==
  ASSUME TypeOK, RowsHaveContent, NEW n, NEW S \in Batches(n)
  PROVE  /\ S \in SUBSET Keys
         /\ \A k \in S : row[k].status = "pending" /\ row[k].content \in Contents
  BY DEF Batches, Waiting, RowsHaveContent, TypeOK

(* The response made of a batch names its events with their contents. *)
LEMMA Response ==
  ASSUME TypeOK, NEW S \in SUBSET Keys, \A k \in S : row[k].content \in Contents
  PROVE  LET r == {<<k, row[k].content>> : k \in S} IN
         /\ r \in SUBSET (Keys \X Contents) /\ KeysOf(r) = S
         /\ \A k \in Keys, c \in Contents : <<k, c>> \in r => k \in S /\ row[k].content = c
  BY DEF KeysOf

(* A response that is received gives the content stored. *)
LEMMA Received ==
  ASSUME TypeOK, WireSound, NEW r \in wire, NEW k \in KeysOf(r)
  PROVE  (CHOOSE c \in Contents : <<k, c>> \in r) = row[k].content /\ row[k].content \in Contents
  BY DEF KeysOf, WireSound

-----------------------------------------------------------------------------
LEMMA Initially == Init => IInv
<1> SUFFICES ASSUME Init PROVE IInv
  OBVIOUS
<1>1. TypeOK
  BY DEF Init, Absent, TypeOK, Statuses
<1>2. WireSound /\ RowsHaveContent
  BY QueueConstants DEF Init, Absent, WireSound, RowsHaveContent, QueueConstants
<1>3. HandedOnce
  BY DEF Init, HandedOnce, OnWire
<1> QED BY <1>1, <1>2, <1>3 DEF IInv

(* Steps that rewrite rows without touching their contents, and leave none *)
(* pending that was not.                                                   *)
LEMMA RowsOnly ==
  ASSUME IInv, UNCHANGED <<wire, got>>,
         row' \in [Keys -> Rows], latest' \in [Keys -> Contents \cup {NoContent}],
         \A k \in Keys : /\ row'[k].content = row[k].content
                         /\ row'[k].status = "absent" <=> row[k].status = "absent"
                         /\ row'[k].status = "pending" => row[k].status = "pending"
  PROVE  IInv'
<1>1. TypeOK'
  BY DEF IInv, TypeOK, Rows
<1>2. WireSound' /\ RowsHaveContent'
  BY DEF IInv, WireSound, RowsHaveContent, TypeOK
<1>3. HandedOnce'
  BY DEF IInv, HandedOnce, OnWire, KeysOf
<1> QED BY <1>1, <1>2, <1>3 DEF IInv

LEMMA Inductive == IInv /\ [Next]_vars => IInv'
<1> SUFFICES ASSUME IInv, [Next]_vars PROVE IInv'
  OBVIOUS
<1>0. row \in [Keys -> Rows] /\ latest \in [Keys -> Contents \cup {NoContent}]
  BY DEF IInv, TypeOK, Rows
<1>1. ASSUME NEW k \in Keys, NEW c \in Contents, Push(k, c) PROVE IInv'
  <2>1. /\ row' = [row EXCEPT ![k] = [status |-> "pending", content |-> c,
                                      note |-> NoteOf[c], due |-> FALSE]]
        /\ row[k].status = "absent" /\ UNCHANGED <<wire, got>>
        /\ latest' = [latest EXCEPT ![k] = c]
    BY <1>1 DEF Push
  <2>2. NoteOf[c] \in {"none", "manual", "other"}
    BY QueueConstants DEF QueueConstants
  <2>3. TypeOK'
    BY <1>0, <2>1, <2>2 DEF IInv, TypeOK, Statuses
  <2>4. OnWire(k) = {} /\ got[k] = <<>>
    BY <2>1 DEF IInv, HandedOnce
  <2>5. WireSound'
    BY <1>0, <2>1, <2>4 DEF IInv, WireSound, OnWire, KeysOf
  <2>6. RowsHaveContent'
    BY <1>0, <2>1 DEF IInv, RowsHaveContent
  <2>7. HandedOnce'
    BY <1>0, <2>1, <2>4 DEF IInv, HandedOnce, OnWire, KeysOf
  <2> QED BY <2>3, <2>5, <2>6, <2>7 DEF IInv
<1>2. ASSUME NEW k \in Keys, NEW c \in Contents, PushAgain(k, c) PROVE IInv'
  <2>1. /\ row' = [row EXCEPT ![k] = Resolved(row[k])] /\ row[k].status # "absent"
        /\ UNCHANGED <<wire, got>> /\ latest' = [latest EXCEPT ![k] = c]
    BY <1>2 DEF PushAgain
  <2> QED BY <1>0, <2>1, RowOps, RowsOnly
<1>3. ASSUME NEW n \in Nodes, Pull(n) PROVE IInv'
  <2>1. PICK S \in Batches(n) :
          /\ row' = [k \in Keys |-> IF k \in S THEN Resolved(Sent(row[k])) ELSE Swept(k)]
          /\ wire' = wire \cup (IF S = {} THEN {} ELSE {{<<k, row[k].content>> : k \in S}})
    BY <1>3 DEF Pull
  <2> DEFINE new == {<<k, row[k].content>> : k \in S}
  <2>2. S \in SUBSET Keys /\ \A k \in S : row[k].status = "pending" /\ row[k].content \in Contents
    BY BatchRows DEF IInv
  <2>3. UNCHANGED <<got, latest>>
    BY <1>3 DEF Pull
  <2>4. \A k \in Keys : /\ row'[k] \in Rows /\ row'[k].content = row[k].content
                        /\ row'[k].status = "absent" <=> row[k].status = "absent"
                        /\ row'[k].status = "pending" => row[k].status = "pending"
                        /\ k \in S => row'[k].status \notin {"absent", "pending"}
    BY <1>0, <2>1, <2>2, SentRow, SweptRow
  <2>5. /\ new \in SUBSET (Keys \X Contents) /\ KeysOf(new) = S
        /\ \A k \in Keys, c \in Contents : <<k, c>> \in new => k \in S /\ row[k].content = c
    BY <2>2, Response DEF IInv
  <2>6. wire' = wire \/ wire' = wire \cup {new}
    BY <2>1
  <2>7. row' \in [Keys -> Rows]
    BY <2>1, <2>4
  <2>8. TypeOK'
    BY <2>3, <2>5, <2>6, <2>7 DEF IInv, TypeOK, Rows
  <2>9. WireSound' /\ RowsHaveContent'
    BY <2>4, <2>5, <2>6 DEF IInv, WireSound, RowsHaveContent
  <2>10. HandedOnce'
    <3> SUFFICES ASSUME NEW k \in Keys
                 PROVE  /\ row'[k].status \in {"absent", "pending"} =>
                             OnWire(k)' = {} /\ got'[k] = <<>>
                        /\ \A r, q \in OnWire(k)' : r = q
                        /\ OnWire(k)' # {} => got'[k] = <<>>
                        /\ Len(got'[k]) <= 1
      BY DEF HandedOnce
    <3>1. CASE k \in S
      <4>1. OnWire(k) = {} /\ got[k] = <<>>
        BY <2>2, <3>1 DEF IInv, HandedOnce
      <4>2. OnWire(k)' \subseteq {new}
        BY <2>6, <4>1 DEF OnWire, KeysOf
      <4>3. got'[k] = <<>> /\ row'[k].status \notin {"absent", "pending"}
        BY <2>3, <2>4, <3>1, <4>1
      <4>4. Len(got'[k]) <= 1
        BY <2>3 DEF IInv, HandedOnce
      <4> QED BY <4>2, <4>3, <4>4
    <3>2. CASE k \notin S
      <4>1. OnWire(k)' = OnWire(k)
        BY <2>5, <2>6, <3>2 DEF OnWire, KeysOf
      <4> QED BY <2>3, <2>4, <4>1 DEF IInv, HandedOnce
    <3> QED BY <3>1, <3>2
  <2> QED BY <2>8, <2>9, <2>10 DEF IInv
<1>4. ASSUME NEW n \in Nodes, PullCutShort(n) PROVE IInv'
  <2>1. PICK S \in Batches(n) : \E M \in SUBSET S, R \in SUBSET S :
          row' = [k \in Keys |-> IF k \in R THEN Resolved(Sent(row[k]))
                                 ELSE IF k \in M THEN Sent(row[k]) ELSE Swept(k)]
    BY <1>4 DEF PullCutShort
  <2>m. PICK M \in SUBSET S, R \in SUBSET S :
          row' = [k \in Keys |-> IF k \in R THEN Resolved(Sent(row[k]))
                                 ELSE IF k \in M THEN Sent(row[k]) ELSE Swept(k)]
    BY <2>1
  <2>2. S \in SUBSET Keys /\ \A k \in S : row[k].status = "pending"
    BY BatchRows DEF IInv
  <2>3. \A k \in Keys : /\ row'[k] \in Rows /\ row'[k].content = row[k].content
                        /\ row'[k].status = "absent" <=> row[k].status = "absent"
                        /\ row'[k].status = "pending" => row[k].status = "pending"
    BY <1>0, <2>m, <2>2, SentRow, SweptRow, RowOps
  <2>4. row' \in [Keys -> Rows] /\ UNCHANGED <<wire, got, latest>>
    BY <1>4, <2>m, <2>3 DEF PullCutShort
  <2> QED BY <1>0, <2>3, <2>4, RowsOnly
<1>5. ASSUME NEW r \in wire, Deliver(r) PROVE IInv'
  <2>1. /\ wire' = wire \ {r} /\ UNCHANGED <<row, latest>>
        /\ \A k \in Keys : got'[k] = IF k \in KeysOf(r)
                                     THEN Append(got[k], row[k].content) ELSE got[k]
        /\ \A k \in KeysOf(r) : row[k].content \in Contents
    BY <1>5, Received DEF IInv, Deliver, KeysOf
  <2>2. got' \in [Keys -> Seq(Contents)]
    <3>1. ASSUME NEW k \in Keys PROVE got'[k] \in Seq(Contents)
      <4>1. got[k] \in Seq(Contents)
        BY DEF IInv, TypeOK
      <4>2. CASE k \in KeysOf(r)
        <5>1. row[k].content \in Contents /\ got'[k] = Append(got[k], row[k].content)
          BY <2>1, <4>2
        <5> QED BY ONLY <4>1, <5>1
      <4>3. CASE k \notin KeysOf(r)
        BY <2>1, <4>1, <4>3
      <4> QED BY <4>2, <4>3
    <3> QED BY <1>5, <3>1 DEF Deliver
  <2>3. TypeOK'
    BY <2>1, <2>2 DEF IInv, TypeOK
  <2>4. WireSound' /\ RowsHaveContent'
    BY <2>1 DEF IInv, WireSound, RowsHaveContent
  <2>5. HandedOnce'
    <3> SUFFICES ASSUME NEW k \in Keys
                 PROVE  /\ row[k].status \in {"absent", "pending"} =>
                             OnWire(k)' = {} /\ got'[k] = <<>>
                        /\ \A p, q \in OnWire(k)' : p = q
                        /\ OnWire(k)' # {} => got'[k] = <<>>
                        /\ Len(got'[k]) <= 1
      BY <2>1 DEF HandedOnce
    <3>1. OnWire(k)' = OnWire(k) \ {r}
      BY <2>1 DEF OnWire, KeysOf
    <3>2. CASE k \in KeysOf(r)
      <4>1. r \in OnWire(k) /\ got[k] = <<>>
        BY <3>2 DEF IInv, HandedOnce, OnWire
      <4>2. OnWire(k)' = {} /\ row[k].status \notin {"absent", "pending"}
        BY <3>1, <4>1 DEF IInv, HandedOnce
      <4>3. Len(got'[k]) = 1
        <5>1. got'[k] = Append(<<>>, row[k].content)
          BY <2>1, <3>2, <4>1
        <5> QED BY <5>1
      <4> QED BY <4>2, <4>3
    <3>3. CASE k \notin KeysOf(r)
      BY <2>1, <3>1, <3>3 DEF IInv, HandedOnce
    <3> QED BY <3>2, <3>3
  <2> QED BY <2>3, <2>4, <2>5 DEF IInv
<1>6. ASSUME NEW r \in wire, Lose(r) PROVE IInv'
  <2>1. TypeOK' /\ WireSound' /\ RowsHaveContent'
    BY <1>6 DEF IInv, Lose, TypeOK, WireSound, RowsHaveContent
  <2>2. HandedOnce'
    BY <1>6 DEF IInv, Lose, HandedOnce, OnWire, KeysOf
  <2> QED BY <2>1, <2>2 DEF IInv
<1>7. ASSUME NEW k \in Keys, Ack(k) \/ Nack(k) \/ Expiry(k) PROVE IInv'
  <2>1. row[k].status # "absent"
    BY <1>7 DEF IInv, HandedOnce, Ack, Nack, Expiry
  <2>2. /\ row' \in [Keys -> Rows] /\ UNCHANGED <<wire, got, latest>>
        /\ \A j \in Keys \ {k} : row'[j] = row[j]
        /\ row'[k].content = row[k].content
        /\ row'[k].status \in {row[k].status, "acknowledged", "conflict"}
    <3>1. CASE Ack(k)
      BY <1>0, <3>1 DEF Ack, Rows, Statuses
    <3>2. CASE Nack(k)
      BY <1>0, <3>2 DEF Nack, Rows, Statuses
    <3>3. CASE Expiry(k)
      BY <1>0, <3>3 DEF Expiry, Rows, Statuses
    <3> QED BY <1>7, <3>1, <3>2, <3>3
  <2> QED BY <1>0, <2>1, <2>2, RowsOnly
<1>8. CASE UNCHANGED vars
  BY <1>0, <1>8, RowsOnly DEF vars
<1> QED BY <1>1, <1>2, <1>3, <1>4, <1>5, <1>6, <1>7, <1>8 DEF Next

LEMMA Invariant == Spec => []IInv
<1> QED BY Initially, Inductive, PTL DEF Spec

(* Statuses, resolutions and contents are of their columns. *)
THEOREM TypeCorrect == Spec => []TypeOK
<1>1. IInv => TypeOK
  BY DEF IInv
<1> QED BY <1>1, Invariant, PTL

(* No event is on its way twice, or after it was received, or while it is  *)
(* still pending.                                                          *)
THEOREM OnceCorrect == Spec => []HandedOnce
<1>1. IInv => HandedOnce
  BY DEF IInv
<1> QED BY <1>1, Invariant, PTL

-----------------------------------------------------------------------------
(* A row in conflict has a resolution, once the operations on it keep that. *)
RowNoted(r) == r.status = "conflict" => r.note # "none"

LEMMA NotedOps ==
  ASSUME NEW r \in Rows, RowNoted(r)
  PROVE  RowNoted(Resolved(r)) /\ RowNoted(Sent(r)) /\ RowNoted(Resolved(Sent(r)))
  BY DEF Rows, RowNoted, Sent, Resolved

LEMMA NotedStep ==
  ASSUME TypeOK, ConflictHasResolution, [Next]_vars
  PROVE  ConflictHasResolution'
<1>0. row \in [Keys -> Rows] /\ \A k \in Keys : RowNoted(row[k])
  BY DEF TypeOK, Rows, ConflictHasResolution, RowNoted
<1>s. ASSUME NEW k \in Keys PROVE RowNoted(Swept(k))
  BY <1>0 DEF Swept, RowNoted, Rows
<1>1. ASSUME NEW k \in Keys, NEW c \in Contents, Push(k, c) PROVE ConflictHasResolution'
  BY <1>0, <1>1 DEF Push, ConflictHasResolution
<1>2. ASSUME NEW k \in Keys, NEW c \in Contents, PushAgain(k, c) PROVE ConflictHasResolution'
  BY <1>0, <1>2, NotedOps DEF PushAgain, ConflictHasResolution, RowNoted
<1>3. ASSUME NEW n \in Nodes, Pull(n) PROVE ConflictHasResolution'
  BY <1>0, <1>s, <1>3, NotedOps DEF Pull, ConflictHasResolution, RowNoted
<1>4. ASSUME NEW n \in Nodes, PullCutShort(n) PROVE ConflictHasResolution'
  <2>1. \A k \in Keys : \/ row'[k] = Resolved(Sent(row[k])) \/ row'[k] = Sent(row[k])
                         \/ row'[k] = Swept(k)
    BY <1>4 DEF PullCutShort
  <2> QED BY <1>0, <1>s, <2>1, NotedOps DEF ConflictHasResolution, RowNoted
<1>5. ASSUME NEW r \in wire, Deliver(r) \/ Lose(r) PROVE ConflictHasResolution'
  BY <1>5 DEF Deliver, Lose, ConflictHasResolution
<1>6. ASSUME NEW k \in Keys, Ack(k) \/ Nack(k) \/ Expiry(k) PROVE ConflictHasResolution'
  BY <1>0, <1>6 DEF Ack, Nack, Expiry, ConflictHasResolution, RowNoted, Rows
<1>7. CASE UNCHANGED vars
  BY <1>7 DEF vars, ConflictHasResolution
<1> QED BY <1>1, <1>2, <1>3, <1>4, <1>5, <1>6, <1>7 DEF Next

(* Whatever raises a conflict, the row says how it is to be resolved. *)
THEOREM ConflictCorrect == Spec => []ConflictHasResolution
<1>1. Init => ConflictHasResolution
  BY DEF Init, Absent, ConflictHasResolution
<1>2. TypeOK /\ ConflictHasResolution /\ [Next]_vars => ConflictHasResolution'
  BY NotedStep
<1> QED BY <1>1, <1>2, TypeCorrect, PTL DEF Spec

-----------------------------------------------------------------------------
(* A step that keeps contents and what was received, and takes the events  *)
(* of S on their way and those of L out of reach, is a dispatch.           *)
LEMMA IsDispatch ==
  ASSUME NEW S \in SUBSET Keys, NEW L \in SUBSET Keys,
         UNCHANGED got, \A k \in Keys : row'[k].content = row[k].content,
         \A k \in S : Fate(k) = "waiting" /\ Fate(k)' = "flying",
         \A k \in L : k \notin S /\ Fate(k) \in {"waiting", "flying"} /\ Fate(k)' = "lost",
         \A k \in Keys : k \notin S /\ k \notin L => Fate(k)' = Fate(k)
  PROVE  Promise!Dispatch(S, L)
  BY DEF Promise!Dispatch

(* What becomes of an event when only its row changes. *)
LEMMA RowFate ==
  ASSUME NEW k \in Keys, UNCHANGED <<wire, got>>,
         row'[k].status = "absent" <=> row[k].status = "absent",
         row'[k].status = "pending" => row[k].status = "pending"
  PROVE  \/ Fate(k)' = Fate(k)
         \/ Fate(k) = "waiting" /\ Fate(k)' = "lost"
  BY DEF Fate, OnWire, KeysOf

(* Steps that change rows only are dispatches of nothing. *)
LEMMA RowsDispatch ==
  ASSUME UNCHANGED <<wire, got>>,
         \A k \in Keys : /\ row'[k].content = row[k].content
                         /\ row'[k].status = "absent" <=> row[k].status = "absent"
                         /\ row'[k].status = "pending" => row[k].status = "pending"
  PROVE  Promise!Next
<1> DEFINE L == {k \in Keys : Fate(k)' # Fate(k)}
<1>1. \A k \in L : Fate(k) = "waiting" /\ Fate(k)' = "lost"
  BY RowFate
<1>2. Promise!Dispatch({}, L)
  BY <1>1, IsDispatch
<1> QED BY <1>2 DEF Promise!Next

LEMMA Simulation ==
  ASSUME IInv, IInv', Next
  PROVE  Promise!Next \/ UNCHANGED Promise!vars
<1>0. row \in [Keys -> Rows] /\ row' \in [Keys -> Rows]
  BY DEF IInv, TypeOK, Rows
<1>1. ASSUME NEW k \in Keys, NEW c \in Contents, Push(k, c) PROVE Promise!Next
  <2>1. OnWire(k) = {} /\ got[k] = <<>>
    BY <1>1 DEF IInv, HandedOnce, Push
  <2>2. /\ \A j \in Keys \ {k} : row'[j] = row[j]
        /\ row'[k].status = "pending" /\ row'[k].content = c
        /\ row[k].status = "absent" /\ UNCHANGED <<wire, got>>
    BY <1>0, <1>1 DEF Push
  <2>3. Fate(k) = "none" /\ Fate(k)' = "waiting"
    BY <2>1, <2>2 DEF Fate, OnWire, KeysOf
  <2>4. \A j \in Keys \ {k} : Fate(j)' = Fate(j)
    BY <2>2 DEF Fate, OnWire, KeysOf
  <2>5. Promise!Accept(k, c)
    BY <2>2, <2>3, <2>4 DEF Promise!Accept
  <2> QED BY <2>5 DEF Promise!Next
<1>2. ASSUME NEW k \in Keys, NEW c \in Contents, PushAgain(k, c) PROVE Promise!Next
  <2>1. /\ \A j \in Keys \ {k} : row'[j] = row[j]
        /\ row'[k] = Resolved(row[k]) /\ row[k].status # "absent" /\ UNCHANGED <<wire, got>>
    BY <1>0, <1>2 DEF PushAgain
  <2> QED BY <1>0, <2>1, RowOps, RowsDispatch
<1>3. ASSUME NEW n \in Nodes, Pull(n) PROVE Promise!Next
  <2>1. PICK S \in Batches(n) :
          /\ row' = [k \in Keys |-> IF k \in S THEN Resolved(Sent(row[k])) ELSE Swept(k)]
          /\ wire' = wire \cup (IF S = {} THEN {} ELSE {{<<k, row[k].content>> : k \in S}})
    BY <1>3 DEF Pull
  <2> DEFINE new == {<<k, row[k].content>> : k \in S}
             L == {k \in Keys \ S : Fate(k)' # Fate(k)}
  <2>2. S \in SUBSET Keys /\ \A k \in S : row[k].status = "pending" /\ row[k].content \in Contents
    BY BatchRows DEF IInv
  <2>3. KeysOf(new) = S
    BY <2>2, Response DEF IInv
  <2>4. ASSUME NEW k \in S
        PROVE  Fate(k) = "waiting" /\ Fate(k)' = "flying" /\ row'[k].content = row[k].content
    <3>1. OnWire(k) = {} /\ got[k] = <<>> /\ row[k].status = "pending"
      BY <2>2, <2>4 DEF IInv, HandedOnce
    <3>2. /\ row'[k].status \in {"sent", "conflict"} /\ row'[k].content = row[k].content
          /\ got' = got
      BY <1>0, <1>3, <2>1, <2>2, <2>4, SentRow DEF Pull
    <3>3. wire' = wire \cup {new}
      BY <2>1, <2>4
    <3>4. OnWire(k)' # {}
      BY <2>3, <2>4, <3>3 DEF OnWire, KeysOf
    <3> QED BY <3>1, <3>2, <3>4 DEF Fate
  <2>5. ASSUME NEW k \in Keys \ S
        PROVE  /\ row'[k].content = row[k].content
               /\ Fate(k)' # Fate(k) => Fate(k) = "waiting" /\ Fate(k)' = "lost"
    <3>1. OnWire(k)' = OnWire(k)
      BY <2>1, <2>3, <2>5 DEF OnWire, KeysOf
    <3>2. /\ row'[k].content = row[k].content /\ got' = got
          /\ row'[k].status = "absent" <=> row[k].status = "absent"
          /\ row'[k].status = "pending" => row[k].status = "pending"
      BY <1>0, <1>3, <2>1, <2>5, SweptRow DEF Pull
    <3> QED BY <3>1, <3>2 DEF Fate
  <2>6. S \in SUBSET Keys /\ L \in SUBSET Keys /\ UNCHANGED got
    BY <1>3, <2>2 DEF Pull
  <2>7. \A k \in Keys : row'[k].content = row[k].content
    BY <2>4, <2>5
  <2>8. \A k \in S : Fate(k) = "waiting" /\ Fate(k)' = "flying"
    BY <2>4
  <2>9. \A k \in L : k \notin S /\ Fate(k) \in {"waiting", "flying"} /\ Fate(k)' = "lost"
    BY <2>5
  <2>10. \A k \in Keys : k \notin S /\ k \notin L => Fate(k)' = Fate(k)
    OBVIOUS
  <2>11. Promise!Dispatch(S, L)
    BY ONLY <2>6, <2>7, <2>8, <2>9, <2>10, IsDispatch
  <2> QED BY <2>6, <2>11 DEF Promise!Next
<1>4. ASSUME NEW n \in Nodes, PullCutShort(n) PROVE Promise!Next
  <2>1. PICK S \in Batches(n) : \E M \in SUBSET S, R \in SUBSET S :
          row' = [k \in Keys |-> IF k \in R THEN Resolved(Sent(row[k]))
                                 ELSE IF k \in M THEN Sent(row[k]) ELSE Swept(k)]
    BY <1>4 DEF PullCutShort
  <2>2. S \in SUBSET Keys /\ \A k \in S : row[k].status = "pending"
    BY BatchRows DEF IInv
  <2>3. \A k \in Keys : /\ row'[k].content = row[k].content
                        /\ row'[k].status = "absent" <=> row[k].status = "absent"
                        /\ row'[k].status = "pending" => row[k].status = "pending"
    <3>1. \A k \in Keys : \/ k \in S /\ row'[k] \in {Resolved(Sent(row[k])), Sent(row[k])}
                          \/ row'[k] = Swept(k)
      BY <2>1
    <3> QED BY <1>0, <2>2, <3>1, SentRow, SweptRow, RowOps
  <2> QED BY <1>4, <2>3, RowsDispatch DEF PullCutShort
<1>5. ASSUME NEW r \in wire, Deliver(r) PROVE Promise!Next
  <2> DEFINE S == KeysOf(r)
  <2>1. /\ S \in SUBSET Keys /\ UNCHANGED row /\ wire' = wire \ {r}
        /\ got' = [k \in Keys |-> IF k \in S THEN Append(got[k], row[k].content) ELSE got[k]]
    BY <1>5, Received DEF IInv, Deliver, KeysOf
  <2>2. ASSUME NEW k \in S PROVE Fate(k) = "flying" /\ Fate(k)' = "received"
    <3>1. r \in OnWire(k) /\ got[k] = <<>> /\ row[k].status # "absent" /\ k \in Keys
      BY <2>1, <2>2 DEF IInv, HandedOnce, OnWire
    <3>2. got'[k] = Append(<<>>, row[k].content)
      BY <2>1, <2>2, <3>1
    <3>3. got'[k] # <<>>
      BY <3>2
    <3> QED BY <2>1, <3>1, <3>3 DEF Fate
  <2>3. ASSUME NEW k \in Keys \ S PROVE Fate(k)' = Fate(k)
    <3>1. OnWire(k)' = OnWire(k) /\ got'[k] = got[k]
      BY <2>1, <2>3 DEF OnWire, KeysOf
    <3> QED BY <2>1, <3>1 DEF Fate
  <2>4. Promise!Receive(S)
    BY <2>1, <2>2, <2>3 DEF Promise!Receive
  <2> QED BY <2>1, <2>4 DEF Promise!Next
<1>6. ASSUME NEW r \in wire, Lose(r) PROVE Promise!Next
  <2> DEFINE L == KeysOf(r)
  <2>1. L \in SUBSET Keys /\ UNCHANGED <<row, got>> /\ wire' = wire \ {r}
    BY <1>6 DEF Lose, KeysOf
  <2>2. ASSUME NEW k \in L PROVE Fate(k) = "flying" /\ Fate(k)' = "lost"
    <3>1. /\ r \in OnWire(k) /\ got[k] = <<>> /\ k \in Keys
          /\ row[k].status \notin {"absent", "pending"}
      BY <2>1, <2>2 DEF IInv, HandedOnce, OnWire
    <3>2. OnWire(k)' = {}
      BY <2>1, <3>1 DEF IInv, HandedOnce, OnWire, KeysOf
    <3> QED BY <2>1, <3>1, <3>2 DEF Fate
  <2>3. ASSUME NEW k \in Keys \ L PROVE Fate(k)' = Fate(k)
    <3>1. OnWire(k)' = OnWire(k)
      BY <2>1, <2>3 DEF OnWire, KeysOf
    <3> QED BY <2>1, <3>1 DEF Fate
  <2>4. Promise!Dispatch({}, L)
    BY <2>1, <2>2, <2>3, IsDispatch
  <2> QED BY <2>1, <2>4 DEF Promise!Next
<1>7. ASSUME NEW k \in Keys, Ack(k) \/ Nack(k) \/ Expiry(k) PROVE Promise!Next
  <2>1. row[k].status # "absent"
    BY <1>7 DEF IInv, HandedOnce, Ack, Nack, Expiry
  <2>2. /\ \A j \in Keys \ {k} : row'[j] = row[j]
        /\ row'[k].content = row[k].content
        /\ row'[k].status \in {row[k].status, "acknowledged", "conflict"}
        /\ UNCHANGED <<wire, got>>
    BY <1>0, <1>7 DEF Ack, Nack, Expiry, Rows
  <2> QED BY <2>1, <2>2, RowsDispatch
<1> QED BY <1>1, <1>2, <1>3, <1>4, <1>5, <1>6, <1>7 DEF Next

(* The queue keeps the outbox's promise: under every key the first content *)
(* accepted, and that received at most once.                               *)
THEOREM OutboxCorrect == Spec => ImplementsOutbox
<1>1. Init => Promise!Init
  BY DEF Init, Absent, Promise!Init, Fate
<1>2. IInv /\ IInv' /\ [Next]_vars => [Promise!Next]_(Promise!vars)
  <2> SUFFICES ASSUME IInv, IInv', [Next]_vars
               PROVE  Promise!Next \/ UNCHANGED Promise!vars
    OBVIOUS
  <2>1. CASE UNCHANGED vars
    BY <2>1 DEF vars, Promise!vars, Fate, OnWire, KeysOf
  <2> QED BY <2>1, Simulation
<1> QED BY <1>1, <1>2, Invariant, PTL DEF Spec, ImplementsOutbox, Promise!Spec
=============================================================================

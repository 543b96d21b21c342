------------------------------ MODULE SyncQueue ------------------------------
(***************************************************************************)
(* The queue of sync events between edge nodes: SyncQueueService           *)
(* (server/app/services/sync_queue.py) and its handlers (server/app/api/   *)
(* sync.py).  idempotency_key is unique, so a key names a row, and the     *)
(* loop of resolve_duplicates over older rows never runs.                  *)
(*                                                                         *)
(* A pull is one handler but a transaction per event and phase: a crash    *)
(* may leave it half done, and its response may be lost after it.  A node  *)
(* acknowledges what it received, late, again, or not at all.              *)
(***************************************************************************)
EXTENDS Naturals, FiniteSets, Sequences

CONSTANTS
  Nodes, Keys,   \* node ids, idempotency keys
  Contents,      \* what is pushed under a key: payload, target and marks
  NoContent,
  TargetOf,      \* target_node_id of a content
  NoteOf,        \* its conflict_resolution: "none", "manual" or "other"
  Marked,        \* contents whose payload has a conflict_marker
  Limit          \* the limit of a pull

ASSUME QueueConstants ==
  /\ IsFiniteSet(Keys)
  /\ TargetOf \in [Contents -> Nodes] /\ NoteOf \in [Contents -> {"none", "manual", "other"}]
  /\ Marked \subseteq Contents /\ NoContent \notin Contents
  /\ Limit \in Nat \ {0}

VARIABLES
  row,    \* sync_event_queue by key: content, status, conflict_resolution,
          \* and whether expires_at_ms has passed
  wire,   \* responses on their way, each a set of <<key, content>>
  got,    \* contents a node has received under a key
  latest  \* the last content pushed under a key

vars == <<row, wire, got, latest>>

Absent == [status |-> "absent", content |-> NoContent, note |-> "none", due |-> FALSE]

Init ==
  /\ row = [k \in Keys |-> Absent]
  /\ wire = {}
  /\ got = [k \in Keys |-> <<>>]
  /\ latest = [k \in Keys |-> NoContent]

-----------------------------------------------------------------------------
(* resolve_duplicates on its only row. Mutant: the column is not set. *)
Manual(r) == r.note = "manual" \/ r.content \in Marked
ResolvedSilently(r) == IF Manual(r) THEN [r EXCEPT !.status = "conflict"] ELSE r
Resolved(r) ==
  IF Manual(r) THEN [r EXCEPT !.status = "conflict", !.note = "manual"] ELSE r

(* mark_sent. Mutant: the event stays pending. *)
SentPending(r) == r
Sent(r) == [r EXCEPT !.status = "sent"]

(* _expire_events. Mutant: it looks at sent events only. *)
ExpiresSent(k) == row[k].status = "sent" /\ row[k].due
Expires(k) == row[k].status \in {"pending", "sent"} /\ row[k].due
Swept(k) == IF Expires(k) THEN [row[k] EXCEPT !.status = "expired"] ELSE row[k]

(* dequeue_pending: up to Limit of the node's pending events, by           *)
(* created_at_ms, which the producer may set: any of them can be first.    *)
Waiting(n) == {k \in Keys : /\ row[k].status = "pending" /\ ~row[k].due
                            /\ TargetOf[row[k].content] = n}
Batches(n) ==
  {S \in SUBSET Waiting(n) : Cardinality(S) <= Limit /\
                             (S = Waiting(n) \/ Cardinality(S) = Limit)}

-----------------------------------------------------------------------------
(* enqueue_event under a new key. *)
Push(k, c) ==
  /\ row[k].status = "absent"
  /\ row' = [row EXCEPT ![k] = [status |-> "pending", content |-> c,
                                note |-> NoteOf[c], due |-> FALSE]]
  /\ latest' = [latest EXCEPT ![k] = c]
  /\ UNCHANGED <<wire, got>>

(* enqueue_event under a stored key: what is pushed now is not looked at.  *)
(* Mutant: it replaces what is stored.                                     *)
PushOver(k, c) ==
  /\ row[k].status # "absent"
  /\ row' = [row EXCEPT ![k] = Resolved([row[k] EXCEPT !.content = c])]
  /\ latest' = [latest EXCEPT ![k] = c]
  /\ UNCHANGED <<wire, got>>
PushAgain(k, c) ==
  /\ row[k].status # "absent"
  /\ row' = [row EXCEPT ![k] = Resolved(row[k])]
  /\ latest' = [latest EXCEPT ![k] = c]
  /\ UNCHANGED <<wire, got>>

(* GET /sync/api/events/pending: sweep, mark every event sent, then        *)
(* resolve each, and answer.                                               *)
Pull(n) ==
  /\ \E S \in Batches(n) :
       /\ row' = [k \in Keys |-> IF k \in S THEN Resolved(Sent(row[k])) ELSE Swept(k)]
       /\ wire' = wire \cup (IF S = {} THEN {} ELSE {{<<k, row[k].content>> : k \in S}})
  /\ UNCHANGED <<got, latest>>

(* The process dies within a pull: only some events were marked, or all    *)
(* were and only some resolved; nobody gets an answer.                     *)
PullCutShort(n) ==
  /\ \E S \in Batches(n) : \E M \in SUBSET S, R \in SUBSET S :
       /\ M = S \/ R = {}
       /\ row' = [k \in Keys |-> IF k \in R THEN Resolved(Sent(row[k]))
                                 ELSE IF k \in M THEN Sent(row[k]) ELSE Swept(k)]
  /\ UNCHANGED <<wire, got, latest>>

(* The node receives a response, or never does. *)
KeysOf(r) == {k \in Keys : \E c \in Contents : <<k, c>> \in r}
Deliver(r) ==
  /\ wire' = wire \ {r}
  /\ got' = [k \in Keys |-> IF k \in KeysOf(r)
                            THEN Append(got[k], CHOOSE c \in Contents : <<k, c>> \in r)
                            ELSE got[k]]
  /\ UNCHANGED <<row, latest>>
Lose(r) ==
  /\ wire' = wire \ {r}
  /\ UNCHANGED <<row, got, latest>>

(* POST .../ack without a reason: whatever the status is by then.          *)
(* Mutant: the name that contracts/sync-rules.md has for it.               *)
AckAcked(k) ==
  /\ got[k] # <<>>
  /\ row' = [row EXCEPT ![k].status = "acked"]
  /\ UNCHANGED <<wire, got, latest>>
Ack(k) ==
  /\ got[k] # <<>>
  /\ row' = [row EXCEPT ![k].status = "acknowledged"]
  /\ UNCHANGED <<wire, got, latest>>

(* POST .../ack with a reason, mark_conflict: COALESCE keeps a note. *)
Nack(k) ==
  /\ got[k] # <<>>
  /\ row' = [row EXCEPT ![k].status = "conflict",
                        ![k].note = IF @ = "none" THEN "manual" ELSE @]
  /\ UNCHANGED <<wire, got, latest>>

(* The event's time to live ends. *)
Expiry(k) ==
  /\ row[k].status \in {"pending", "sent"} /\ ~row[k].due
  /\ row' = [row EXCEPT ![k].due = TRUE]
  /\ UNCHANGED <<wire, got, latest>>

Next ==
  \/ \E k \in Keys, c \in Contents : Push(k, c) \/ PushAgain(k, c)
  \/ \E n \in Nodes : Pull(n) \/ PullCutShort(n)
  \/ \E r \in wire : Deliver(r) \/ Lose(r)
  \/ \E k \in Keys : Ack(k) \/ Nack(k) \/ Expiry(k)

Spec == Init /\ [][Next]_vars

(* Every node keeps polling. *)
FairSpec == Spec /\ \A n \in Nodes : WF_vars(Pull(n))

-----------------------------------------------------------------------------
Statuses == {"absent", "pending", "sent", "acknowledged", "conflict", "expired"}

(* The columns hold values that the table's CHECK and the code allow. *)
TypeOK ==
  /\ row \in [Keys -> [status : Statuses, content : Contents \cup {NoContent},
                       note : {"none", "manual", "other"}, due : BOOLEAN]]
  /\ wire \subseteq SUBSET (Keys \X Contents)
  /\ got \in [Keys -> Seq(Contents)]
  /\ latest \in [Keys -> Contents \cup {NoContent}]

(* An event is on its way at most once, never after it was received, and   *)
(* never while a pull could still hand it out again: no sequence of        *)
(* crashes, repeated pushes, expiries and late answers makes a node apply  *)
(* an event twice.                                                         *)
OnWire(k) == {r \in wire : k \in KeysOf(r)}
HandedOnce ==
  \A k \in Keys :
    /\ row[k].status \in {"absent", "pending"} => OnWire(k) = {} /\ got[k] = <<>>
    /\ \A r, q \in OnWire(k) : r = q
    /\ OnWire(k) # {} => got[k] = <<>>
    /\ Len(got[k]) <= 1

(* An event an operator must look at says so in conflict_resolution,       *)
(* whichever of node and producer raised the conflict.                     *)
ConflictHasResolution ==
  \A k \in Keys : row[k].status = "conflict" => row[k].note # "none"

(* The queue implements the outbox. *)
Fate(k) ==
  IF row[k].status = "absent" THEN "none"
  ELSE IF got[k] # <<>> THEN "received"
  ELSE IF OnWire(k) # {} THEN "flying"
  ELSE IF row[k].status = "pending" THEN "waiting" ELSE "lost"
Promise == INSTANCE Outbox WITH
  held <- [k \in Keys |-> row[k].content],
  fate <- [k \in Keys |-> Fate(k)]
ImplementsOutbox == Promise!Spec

(* While nodes poll, no event stays pending for ever, however many are     *)
(* pushed: it is sent or it expires.                                       *)
PendingLeaves ==
  \A k \in Keys : row[k].status = "pending" ~> row[k].status # "pending"

(* "keep the latest event active" (services/sync_queue.py:10): the content *)
(* stored under a key is the last one pushed.                              *)
LatestIsKept == \A k \in Keys : row[k].content = latest[k]
=============================================================================

---------------------------------- MODULE Cards ---------------------------------
(***************************************************************************)
(* RFID cards: the tables rfid_cards and rfid_events as RfidService        *)
(* changes them, and the operating mode, which a card switches.            *)
(*                                                                         *)
(* Every request under /rfid first passes rfid_gate_middleware, which asks *)
(* the registry for the reader, and is handled later: call_next gives way  *)
(* to other requests, that may disable the reader meanwhile.               *)
(***************************************************************************)
EXTENDS Registry, Sequences

CONSTANTS
  Uids,       \* what readers read, after _normalize_uid and _uid_hash
  MaxInside,  \* bound on the requests past the gate at one time
  MaxCards, MaxEvents  \* bounds: ids given out

ASSUME CardsConstants == MaxInside \in Nat /\ MaxCards \in Nat /\ MaxEvents \in Nat

VARIABLES
  card,      \* rfid_cards, by uid_hash, which is UNIQUE; id 0 stands for no row
  lastCard,  \* its AUTOINCREMENT counter
  event,     \* rfid_events, in the order of their ids
  mode,      \* mode_state.access_mode
  inside     \* requests past the gate and not handled yet

cards == <<card, lastCard, event, mode>>

CardRows == [id : 0..MaxCards, active : BOOLEAN, maker : Users \cup {NoUser}]
NoCard == [id |-> 0, active |-> FALSE, maker |-> NoUser]
(* A card may be enrolled off, which set_card_active logs as a reason and  *)
(* enroll_card does not: here kind tells the two apart.                    *)
AdminKinds == {"enroll", "enroll_off", "on", "off", "delete"}
CardKinds == {"verify", "switch"}
EventRows ==
  [kind : AdminKinds \cup CardKinds, card : 0..MaxCards, granted : BOOLEAN,
   actor : Users \cup {NoUser}]

CardsInit ==
  /\ card = [x \in Uids |-> NoCard]
  /\ lastCard = 0
  /\ event = <<>>
  /\ mode = "closed"
  /\ inside = 0

-----------------------------------------------------------------------------
MayKeepCards(u) == Active(u) /\ IsAdmin(u)

(* _insert_event, in the transaction of what it reports. *)
Logged(kind, id, granted, actor) ==
  /\ Len(event) < MaxEvents
  /\ event' = Append(event,
       [kind |-> kind, card |-> id, granted |-> granted, actor |-> actor])

(* enroll_card: a uid that is known keeps its row, and its maker. *)
NewCard(x) == card[x].id = 0
EnrollCard(u, x, on) ==
  LET id == IF NewCard(x) THEN lastCard + 1 ELSE card[x].id
      maker == IF NewCard(x) THEN u ELSE card[x].maker
  IN
  /\ MayKeepCards(u)
  /\ id <= MaxCards
  /\ card' = [card EXCEPT ![x] = [id |-> id, active |-> on, maker |-> maker]]
  /\ lastCard' = IF NewCard(x) THEN id ELSE lastCard
  /\ Logged(IF on THEN "enroll" ELSE "enroll_off", id, TRUE, u)
  /\ UNCHANGED mode

SetCardActive(u, x, on) ==
  /\ MayKeepCards(u) /\ ~NewCard(x)
  /\ card' = [card EXCEPT ![x].active = on]
  /\ Logged(IF on THEN "on" ELSE "off", card[x].id, TRUE, u)
  /\ UNCHANGED <<lastCard, mode>>

(* The card's events stay without it: ON DELETE SET NULL. *)
EventsWithout(id) ==
  [i \in DOMAIN event |-> [event[i] EXCEPT !.card = IF @ = id THEN 0 ELSE @]]
DeleteCard(u, x) ==
  /\ MayKeepCards(u) /\ ~NewCard(x)
  /\ card' = [card EXCEPT ![x] = NoCard]
  /\ Len(event) < MaxEvents
  /\ event' = Append(EventsWithout(card[x].id),
       [kind |-> "delete", card |-> 0, granted |-> TRUE, actor |-> u])
  /\ UNCHANGED <<lastCard, mode>>

(* verify_card and switch_mode_by_card: readers send no session.           *)
(* Mutant: a card that is known opens.                                     *)
OpensIfKnown(x) == card[x].id # 0
Opens(x) == card[x].id # 0 /\ card[x].active
VerifyCard(x) ==
  /\ Logged("verify", card[x].id, Opens(x), NoUser)
  /\ UNCHANGED <<card, lastCard, mode>>
SwitchModeByCard(x, target) ==
  /\ Logged("switch", card[x].id, Opens(x), NoUser)
  /\ mode' = IF Opens(x) THEN target ELSE mode
  /\ UNCHANGED <<card, lastCard>>

(* _resolve_admin_user_id of api/rfid.py, and the routes. *)
CardsPanel(u) == IsAdmin(u) /\ CanAccessAdminFeatures(u)
EnrollRoute(u, x, on) == CardsPanel(u) /\ EnrollCard(u, x, on)
ActiveRoute(u, x, on) == CardsPanel(u) /\ SetCardActive(u, x, on)
DeleteRoute(u, x) == CardsPanel(u) /\ DeleteCard(u, x)
ReaderRequest(x) ==
  VerifyCard(x) \/ \E target \in {"open", "closed"} : SwitchModeByCard(x, target)

-----------------------------------------------------------------------------
(* rfid_gate_middleware *)
Enter ==
  /\ IsModuleEnabled(Reader)
  /\ inside < MaxInside /\ inside' = inside + 1
  /\ UNCHANGED cards

(* A request past the gate: what it does, or nothing, for lists, the page, *)
(* and what is refused.                                                    *)
CardRequest ==
  \/ \E x \in Uids :
       \/ ReaderRequest(x)
       \/ \E u \in Users :
            \/ DeleteRoute(u, x)
            \/ \E on \in BOOLEAN : EnrollRoute(u, x, on) \/ ActiveRoute(u, x, on)
  \/ UNCHANGED cards
Handle == inside > 0 /\ inside' = inside - 1 /\ CardRequest

(* The administrators' mode change, PUT /admin/api/mode (module Access). *)
SetMode(u) ==
  /\ MayKeepCards(u)
  /\ mode' = IF mode = "open" THEN "closed" ELSE "open"
  /\ UNCHANGED <<card, lastCard, event, inside>>

CardStep ==
  /\ Enter \/ Handle \/ \E u \in Users : SetMode(u)
  /\ UNCHANGED <<people, module>>

(* created_by_user_id ON DELETE RESTRICT, actor_user_id ON DELETE SET NULL *)
CardsRelease(u) == \A x \in Uids : card[x].maker # u
CardsLose(u) ==
  /\ event' = [i \in DOMAIN event |-> [event[i] EXCEPT !.actor = IF @ = u THEN NoUser ELSE @]]
  /\ UNCHANGED <<card, lastCard, mode>>

-----------------------------------------------------------------------------
(* The types of the tables; ids are given once, and what rows refer to is  *)
(* there.                                                                  *)
CardIds == {card[x].id : x \in Uids}
CardsOK ==
  /\ card \in [Uids -> CardRows] /\ lastCard \in 0..MaxCards
  /\ event \in Seq(EventRows) /\ Len(event) <= MaxEvents
  /\ mode \in {"open", "closed"} /\ inside \in 0..MaxInside
  /\ \A x \in Uids :
       /\ card[x].id <= lastCard
       /\ card[x].id # 0 => Exists(card[x].maker)
       /\ \A y \in Uids \ {x} : card[x].id # 0 => card[x].id # card[y].id
  /\ \A i \in DOMAIN event :
       /\ event[i].card \in CardIds \cup {0}
       /\ event[i].actor # NoUser => Exists(event[i].actor)

(* What came before explains every door that opened: of a card that still  *)
(* exists, the last thing an administrator did to it was to enroll it, not *)
(* off, or to turn it on.  Cards are enrolled over each other, turned off  *)
(* and on and deleted in between, and their events lose the reference when *)
(* they go (verify_card, switch_mode_by_card).                             *)
About(id, i) == {j \in 1..(i - 1) : event[j].card = id /\ event[j].kind \in AdminKinds}
GrantsAreExplained ==
  \A i \in DOMAIN event :
    event[i].kind \in CardKinds /\ event[i].granted /\ event[i].card # 0 =>
      \E j \in About(event[i].card, i) :
        /\ event[j].kind \in {"enroll", "on"}
        /\ \A k \in About(event[i].card, i) : k <= j
=============================================================================

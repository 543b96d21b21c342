--------------------------------- MODULE MCSite ---------------------------------
(***************************************************************************)
(* One administrator and one account that comes and goes.  In a behaviour  *)
(* one part of the site is used, beside the accounts: the parts share no   *)
(* table, except that cards and edge nodes share the registry.  Guests are *)
(* made where a part tells them from users.  Cards are used twice: for     *)
(* fewer events while accounts come and go, for more while they stay.      *)
(***************************************************************************)
EXTENDS Site, TLC

CONSTANTS root, ann, d1, host, reader, stamp, esp, x1, x2, n1, cardputer, stick, t1, t2,
  a1, a2, l1, l2, s1

(* Uids, edge modules, clock readings, addresses and logins are            *)
(* interchangeable: no definition names one or orders them.                *)
Interchangeable ==
  Permutations({x1, x2}) \cup Permutations({stamp, esp}) \cup Permutations({t1, t2})
    \cup Permutations({a1, a2}) \cup Permutations({l1, l2})

MCRateLimit == [b \in Buckets |-> 2]
MCRateWindow == [b \in Buckets |-> IF b = "auth" THEN 1 ELSE 2]

VARIABLE part  \* bound: the part in use

MCInit == Init /\ part \in {"combos", "cards", "keeper", "nodes", "reports", "backups",
                           "incidents", "catalog", "guesses", "requests"}

Only(parts, tables) == IF part \in parts THEN TRUE ELSE UNCHANGED tables
MCNext ==
  /\ UNCHANGED part
  /\ Only({"combos"}, combo)
  /\ Only({"cards", "keeper"}, <<cards, inside>>)
  /\ Only({"cards", "keeper", "nodes"}, module)
  /\ Only({"nodes"}, nodes)
  /\ Only({"reports"}, node)
  /\ Only({"backups"}, backups)
  /\ Only({"incidents"}, <<incidents, runs, degraded>>)
  /\ Only({"catalog"}, catalog)
  /\ Only({"guesses", "requests"}, limits)
  /\ IF part \in {"keeper", "guesses", "requests"} THEN UNCHANGED people ELSE TRUE
  /\ Next
  /\ part \in {"combos", "catalog"} \/ \A u \in Users : role'[u] # "guest"
  /\ part = "cards" => Len(event') < MaxEvents
  /\ part \in {"cards", "keeper"} => \A x \in Modules \ {reader} : module'[x] = module[x]
  /\ part = "nodes" => module'[reader] = module[reader]
  /\ part = "guesses" => \A a \in Addresses : recent'["global", a] = recent["global", a]
  /\ part = "requests" => UNCHANGED failed /\ \A b \in Buckets : recent'[b, a2] = recent[b, a2]

MCSpec == MCInit /\ [][MCNext]_<<vars, part>>
=============================================================================

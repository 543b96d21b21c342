--------------------------------- MODULE Limits ---------------------------------
(***************************************************************************)
(* The limits on requests: InMemoryRateLimiter, which the outermost        *)
(* middleware asks for every request, and BruteForceGuard, which the login *)
(* handler asks (tables auth_attempts and ip_blocks).                      *)
(*                                                                         *)
(* A request that the limiter lets pass is handled later, since call_next  *)
(* gives way to others; the handler awaits nothing.  The limiter forgets   *)
(* everything when the process ends, the guard nothing.                    *)
(*                                                                         *)
(* One clock stands for both: the limiter's is monotonic, the guard's is   *)
(* the wall clock, and the guard promises nothing while that is set back.  *)
(***************************************************************************)
EXTENDS Naturals, Sequences, FiniteSets

CONSTANTS
  Addresses,  \* of clients, as _client_ip and _resolve_client_ip give them
  Logins,
  LoginLimit, IpLimit, Window, Block,   \* bruteforce_...
  RateLimit, RateWindow,                \* rate_limit_..., auth_rate_limit_..., by bucket
  MaxTime,    \* bound on the clock
  MaxWaiting  \* bound on the logins between middleware and handler

Buckets == {"global", "auth"}

ASSUME LimitsConstants ==
  /\ IsFiniteSet(Addresses)
  /\ LoginLimit \in Nat \ {0} /\ IpLimit \in Nat \ {0}
  /\ Window \in Nat \ {0} /\ Block \in Nat \ {0}
  /\ RateLimit \in [Buckets -> Nat \ {0}] /\ RateWindow \in [Buckets -> Nat \ {0}]
  /\ MaxTime \in Nat /\ MaxWaiting \in Nat

VARIABLES
  time,     \* the clock
  recent,   \* _events, by bucket and address: when requests passed
  passed,   \* no variable of the code: the requests that passed in the last
            \* window, since the process started
  waiting,  \* by address: logins that passed and are not handled yet
  failed,   \* auth_attempts: the failures
  blocked   \* ip_blocks.blocked_until_ms, by address; 0 stands for no row

limits == <<time, recent, passed, waiting, failed, blocked>>

Instants == 0..MaxTime
(* What happens several times in one instant is numbered. *)
Passes == [bucket : Buckets, address : Addresses, at : Instants, number : Nat]
AuthAttempts == [login : Logins, address : Addresses, at : Instants, number : Nat]

LimitsInit ==
  /\ time = 0
  /\ recent = [k \in Buckets \X Addresses |-> <<>>]
  /\ passed = {}
  /\ waiting = [a \in Addresses |-> 0]
  /\ failed = {}
  /\ blocked = [a \in Addresses |-> 0]

-----------------------------------------------------------------------------
(* check: what has left the window is dropped from the front of the queue  *)
(* ("while queue and queue[0] <= boundary"), then the rest is counted.     *)
LeadingOld(q, window) ==
  CHOOSE n \in 0..Len(q) :
    /\ \A i \in 1..n : q[i] + window <= time
    /\ n < Len(q) => q[n + 1] + window > time
Recent(b, a) ==
  SubSeq(recent[b, a], LeadingOld(recent[b, a], RateWindow[b]) + 1, Len(recent[b, a]))
Passed(b, a) == {p \in passed : p.bucket = b /\ p.address = a /\ p.at + RateWindow[b] > time}
Pass(b, a) ==
  [bucket |-> b, address |-> a, at |-> time,
   number |-> Cardinality({p \in Passed(b, a) : p.at = time})]
Check(b, a) ==
  IF Len(Recent(b, a)) < RateLimit[b]
  THEN /\ recent' = [recent EXCEPT ![<<b, a>>] = Append(Recent(b, a), time)]
       /\ passed' = passed \cup {Pass(b, a)}
       /\ waiting' = IF b = "auth" THEN [waiting EXCEPT ![a] = @ + 1] ELSE waiting
  ELSE recent' = [recent EXCEPT ![<<b, a>>] = Recent(b, a)] /\ UNCHANGED <<passed, waiting>>
Request(b, a) ==
  /\ b = "auth" => waiting[a] < MaxWaiting
  /\ Check(b, a)
  /\ UNCHANGED <<time, failed, blocked>>

-----------------------------------------------------------------------------
(* check_allowed, which deletes a row whose time has come. *)
Allowed(a) == blocked[a] <= time

(* record_attempt: the failures of the login from anywhere, and those from *)
(* the address for any login, the new one among them, back to the edge of  *)
(* the window.  Mutant: a limit must be passed, not reached.               *)
Since == {f \in failed' : f.at + Window >= time}
LimitPassed(l, a) ==
  \/ Cardinality({f \in Since : f.login = l}) > LoginLimit
  \/ Cardinality({f \in Since : f.address = a}) > IpLimit
LimitReached(l, a) ==
  \/ Cardinality({f \in Since : f.login = l}) >= LoginLimit
  \/ Cardinality({f \in Since : f.address = a}) >= IpLimit
Attempt(l, a) ==
  [login |-> l, address |-> a, at |-> time,
   number |-> Cardinality({f \in failed : f.login = l /\ f.address = a /\ f.at = time})]
RecordAttempt(l, a) ==
  /\ failed' = failed \cup {Attempt(l, a)}
  /\ blocked' = [blocked EXCEPT ![a] = IF LimitReached(l, a) THEN time + Block ELSE 0]

(* login: only wrong credentials are recorded, neither success nor the     *)
(* refusal of a restricted account.                                        *)
Login(l, a, right) ==
  /\ waiting[a] > 0 /\ waiting' = [waiting EXCEPT ![a] = @ - 1]
  /\ IF Allowed(a)
     THEN IF right THEN blocked' = [blocked EXCEPT ![a] = 0] /\ UNCHANGED failed
          ELSE RecordAttempt(l, a)
     ELSE UNCHANGED <<failed, blocked>>
  /\ UNCHANGED <<time, recent, passed>>

(* Another handler under /auth/ takes the request. *)
OtherAuth(a) ==
  /\ waiting[a] > 0 /\ waiting' = [waiting EXCEPT ![a] = @ - 1]
  /\ UNCHANGED <<time, recent, passed, failed, blocked>>

Tick ==
  /\ time < MaxTime /\ time' = time + 1
  /\ passed' = {p \in passed : p.at + RateWindow[p.bucket] > time'}
  /\ UNCHANGED <<recent, waiting, failed, blocked>>

LimitStep ==
  \/ \E a \in Addresses :
       \/ \E b \in Buckets : Request(b, a)
       \/ \E l \in Logins, right \in BOOLEAN : Login(l, a, right)
       \/ OtherAuth(a)
  \/ Tick

(* The process starts again. *)
LimitsForget ==
  /\ recent' = [k \in Buckets \X Addresses |-> <<>>]
  /\ passed' = {}
  /\ waiting' = [a \in Addresses |-> 0]
  /\ UNCHANGED <<time, failed, blocked>>

-----------------------------------------------------------------------------
(* The types; a queue holds no more than its limit, in order.              *)
LimitsOK ==
  /\ time \in Instants
  /\ recent \in [Buckets \X Addresses -> Seq(Instants)]
  /\ \A b \in Buckets, a \in Addresses : \A i \in 2..Len(recent[b, a]) :
       recent[b, a][i - 1] <= recent[b, a][i]
  /\ passed \subseteq Passes
  /\ waiting \in [Addresses -> 0..MaxWaiting]
  /\ failed \subseteq AuthAttempts
  /\ blocked \in [Addresses -> 0..(MaxTime + Block)]

(* Of whichever window: an address gets no more requests of a bucket past  *)
(* the middleware than its limit, in one life of the process.  Wrong       *)
(* guesses at a login, over all addresses, lives of the process, blocks    *)
(* that end and other logins in between: one less than the limit, and one  *)
(* more from each address for each block it can sit out.  Guesses from an  *)
(* address: one less than its limit, and one for each block (server/       *)
(* README.md, "tracks failed attempts and temporarily blocks").            *)
Blocks == (Window + Block - 1) \div Block
RequestsRationed ==
  \A b \in Buckets, a \in Addresses : Cardinality(Passed(b, a)) <= RateLimit[b]
GuessesRationed ==
  LET Latest == {f \in failed : f.at + Window > time} IN
  /\ \A l \in Logins : Cardinality({f \in Latest : f.login = l})
       <= LoginLimit - 1 + Cardinality(Addresses) * Blocks
  /\ \A a \in Addresses : Cardinality({f \in Latest : f.address = a})
       <= IpLimit - 1 + Blocks
LimitsHold == RequestsRationed /\ GuessesRationed
=============================================================================

------------------------------ MODULE Discovery ------------------------------
(***************************************************************************)
(* What DiscoveryParser remembers across the connections of the machine:   *)
(* which of them talk to the game's API, when each was last heard of, and  *)
(* the requests that wait for their response.  Module Framing says how a   *)
(* message is cut out of the bytes; here one is seen or missed.            *)
(*                                                                         *)
(* A call of parse_stream is one step: touch_and_prune, then at most one   *)
(* message.  Responses carry no name: the n-th response on a connection    *)
(* answers the n-th request.  The queue of one connection, Game, is        *)
(* followed; the others have one like it, and meet it only in the tables.  *)
(***************************************************************************)
EXTENDS Naturals, Sequences, FiniteSets

CONSTANTS
  Game,            \* the connection whose requests are followed
  Others,          \* the other connections; one that has timed out stands
                   \* for a later one
  MaxHosts,        \* API connections tracked (MAX_TRACKED_API_CONNECTIONS)
  MaxSeen,         \* connections remembered (MAX_DISCOVERY_CONNECTIONS)
  MaxPending,      \* requests remembered (MAX_PENDING_REQUESTS)
  Requests,        \* bound: requests outstanding or remembered at a time
  StatsRequests,   \* those for PLAYER_STATS_PATH
  None

Conns == Others \union {Game}

ASSUME DiscoveryAssumption ==
  /\ Game \notin Others /\ IsFiniteSet(Others) /\ MaxHosts <= Cardinality(Conns)
  /\ MaxHosts \in Nat \ {0} /\ MaxSeen \in Nat /\ MaxHosts < MaxSeen
  /\ MaxPending \in Nat \ {0}
  /\ StatsRequests \subseteq Requests /\ None \notin Requests

VARIABLES
  hosts,           \* the connections in the host map
  seen,            \* last_seen: for each connection in it, those of the others
                   \* that were heard of later
  open,            \* Game is not timed out
  pending,         \* pending_requests of Game
  awaiting,        \* requests on Game that are not answered yet
  drifted,         \* history: pending may differ from awaiting
  rivals,          \* history: API connections heard of since a request on Game
                   \* was seen last
  missed,          \* history: statistics were not read that should have been
  misnamed         \* history: a response got the name of another request

tables    == <<hosts, seen, open>>
pairing   == <<pending, awaiting, drifted>>
histories == <<rivals, missed, misnamed>>
vars      == <<tables, pairing, histories>>

Init ==
  /\ hosts = {} /\ seen = [c \in {} |-> {}] /\ open = TRUE
  /\ pending = <<>> /\ awaiting = <<>> /\ drifted = FALSE
  /\ rivals = Others /\ missed = FALSE /\ misnamed = FALSE
-----------------------------------------------------------------------------
(* touch_and_prune.                                                        *)

Known == DOMAIN seen

\* A connection that is heard of becomes the loudest.
Hear(c) == [d \in Known \union {c} |-> IF d = c THEN {} ELSE seen[d] \union {c}]

\* The n members of S that have been quiet longest, or all of them.
Quietest(order, S, n) == {c \in S : Cardinality({d \in S : c \in order[d]}) < n}

\* How many of n are above the limit.
Excess(n, limit) == IF n > limit THEN n - limit ELSE 0

\* The connections in the host map survive a quiet raid.
Spared == hosts

\* Connections that have been silent for 45 minutes, which are looked for on
\* every 128th call and when the table overflows; then the quietest of the rest.
Victims(c) ==
  LET order == Hear(c)
      prey  == DOMAIN order \ Spared
  IN  {silent \union
         Quietest(order, prey \ silent, Excess(Cardinality(DOMAIN order \ silent), MaxSeen)) :
           silent \in {Quietest(order, prey \ {c}, n) : n \in 0 .. Cardinality(prey)}}

Touch(c, victims) ==
  /\ c = Game => open
  /\ seen' = [d \in DOMAIN Hear(c) \ victims |-> Hear(c)[d] \ victims]
  /\ UNCHANGED open

\* All tables forget the victims.
QueueWithout(victims) == IF Game \in victims THEN <<>> ELSE pending

\* Losing a queue that was not empty leaves its pairing behind.
DriftOf(victims) == drifted \/ (Game \in victims /\ pending # <<>>)

\* Once there are too many rivals it no longer matters which.
RivalsAfter(c) ==
  LET now == IF c \in hosts' \ {Game} THEN rivals \union {c} ELSE rivals
  IN  IF Cardinality(now) < MaxHosts - 1 THEN now ELSE Others
-----------------------------------------------------------------------------
(* Calls of parse_stream, and what the parser misses.                      *)

\* No message is complete yet, it is not one of the game's API, or it is a
\* response on one of the others.
SeeNothing(c) ==
  /\ \E victims \in Victims(c) :
       /\ Touch(c, victims)
       /\ hosts' = hosts \ victims
       /\ pending' = QueueWithout(victims)
       /\ drifted' = DriftOf(victims)
  /\ rivals' = RivalsAfter(c)
  /\ UNCHANGED <<awaiting, missed, misnamed>>

\* Mutant: the connection with the smallest identifier, the game's, goes first.
TrackOldest(c, tracked) ==
  LET byAge == [d \in DOMAIN seen' |-> (IF d = Game THEN Conns ELSE seen'[d]) \ {Game}]
  IN  hosts' = (tracked \ Quietest(byAge, tracked \ {c},
                                   Excess(Cardinality(tracked), MaxHosts - 1))) \union {c}

\* As long as the list is full the quietest other connection is dropped, also
\* when this one is on the list already.
Track(c, tracked) ==
  hosts' = (tracked \ Quietest(seen', tracked \ {c}, Excess(Cardinality(tracked), MaxHosts - 1)))
             \union {c}

\* The game sends its next request.
Send(r) ==
  /\ open
  /\ \A q \in {awaiting, pending} : \A i \in 1 .. Len(q) : q[i] # r
  /\ awaiting' = Append(awaiting, r)

\* Mutant: the oldest is dropped when the queue has overflowed already.
PushAlways(q, r) == Append(IF Len(q) > MaxPending THEN Tail(q) ELSE q, r)

\* push_back, after pop_front when the queue is full.
Push(q, r) == Append(IF Len(q) >= MaxPending THEN Tail(q) ELSE q, r)

SeeRequest(r) ==
  /\ Send(r)
  /\ \E victims \in Victims(Game) :
       /\ Touch(Game, victims)
       /\ Track(Game, hosts \ victims)
       /\ pending' = Push(QueueWithout(victims), r)
       /\ drifted' = (DriftOf(victims) \/ Len(pending) >= MaxPending)
  /\ rivals' = IF MaxHosts > 1 THEN {} ELSE Others
  /\ UNCHANGED <<missed, misnamed>>

SeeOtherRequest(c) ==
  /\ \E victims \in Victims(c) :
       /\ Touch(c, victims)
       /\ Track(c, hosts \ victims)
       /\ pending' = QueueWithout(victims)
       /\ drifted' = DriftOf(victims)
  /\ rivals' = RivalsAfter(c)
  /\ UNCHANGED <<awaiting, missed, misnamed>>

\* Its packets were lost, or the buffer was cut: the request is never parsed.
MissRequest(r) ==
  /\ Send(r)
  /\ drifted' = TRUE
  /\ UNCHANGED <<tables, pending, histories>>

Answer == open /\ awaiting # <<>> /\ awaiting' = Tail(awaiting)

MissResponse ==
  /\ Answer
  /\ drifted' = TRUE
  /\ UNCHANGED <<tables, pending, histories>>

FirstOf(q) == IF q = <<>> THEN None ELSE Head(q)

RestOf(q) == IF q = <<>> THEN <<>> ELSE Tail(q)

\* A body with statistics rows is read whatever request it was paired with.
ReadByBody(rows, label) == rows

\* Mutant: the queue is kept when the body disagrees with it.
KeepRest(rows, q) == RestOf(q)

\* The queue after a response; a body that disagrees with it empties it.
QueueAfter(rows, q) == IF rows /\ FirstOf(q) \notin StatsRequests THEN <<>> ELSE RestOf(q)

\* A response on a connection that is not tracked is passed over; otherwise the
\* request that waits longest gives it its name.  Only the answer to a request
\* for the statistics has rows, and not every one.  The pairing is right again
\* once the queue is dropped with nothing outstanding.
SeeResponse(rows) ==
  /\ Answer
  /\ rows => Head(awaiting) \in StatsRequests
  /\ \E victims \in Victims(Game) :
       LET queue   == QueueWithout(victims)
           label   == FirstOf(queue)
           tracked == Game \in hosts \ victims
           resync  == tracked /\ rows /\ label \notin StatsRequests
       IN  /\ Touch(Game, victims)
           /\ hosts' = hosts \ victims
           /\ pending' = IF tracked THEN QueueAfter(rows, queue) ELSE queue
           /\ drifted' = IF resync THEN awaiting' # <<>> ELSE DriftOf(victims) \/ ~tracked
           /\ missed' = (missed \/ /\ rows /\ Cardinality(rivals) < MaxHosts - 1
                                   /\ ~(tracked /\ ReadByBody(rows, label)))
           /\ misnamed' = (misnamed \/ /\ tracked /\ ~drifted
                                       /\ label # Head(awaiting))
  /\ UNCHANGED rivals

\* capture_loop every 5 s: the stream manager has heard nothing of a connection
\* for too long; only then it is taken off the host map.
TimeOut(c) ==
  /\ hosts' = hosts \ {c}
  /\ open' = (open /\ c # Game)
  /\ UNCHANGED <<seen, pairing, histories>>

Next ==
  \/ \E c \in Conns : SeeNothing(c) \/ TimeOut(c)
  \/ \E c \in Others : SeeOtherRequest(c)
  \/ \E r \in Requests : SeeRequest(r) \/ MissRequest(r)
  \/ \E rows \in BOOLEAN : SeeResponse(rows)
  \/ MissResponse

Spec == Init /\ [][Next]_vars
-----------------------------------------------------------------------------
(* Properties.                                                             *)

\* Of two connections one was heard of later, and so were all after it.
IsOrder(order) ==
  /\ order \in [DOMAIN order -> SUBSET DOMAIN order]
  /\ \A c, d \in DOMAIN order :
       /\ c \notin order[c]
       /\ c # d => (c \in order[d] <=> d \notin order[c])
       /\ c \in order[d] => order[c] \subseteq order[d]

TypeOK ==
  /\ hosts \subseteq Known /\ Cardinality(hosts) <= MaxHosts /\ open \in BOOLEAN
  /\ Known \subseteq Conns /\ Cardinality(Known) <= MaxSeen /\ IsOrder(seen)
  /\ rivals \subseteq Others
  /\ pending \in Seq(Requests) /\ Len(pending) <= MaxPending
  /\ awaiting \in Seq(Requests)
  /\ {drifted, missed, misnamed} \subseteq BOOLEAN

\* A response with statistics rows is read if a request on its connection was
\* seen and fewer than MaxHosts - 1 other API connections were heard of since:
\* neither a pairing that has drifted nor a quiet raid in a crowd costs it.
AnswerIsRead == ~missed

\* A response is named after the request it answers as long as nothing was
\* missed on its connection, and again once a statistics response has dropped
\* the drifted queue with nothing outstanding.
NamedAfterItsRequest == ~misnamed
=============================================================================

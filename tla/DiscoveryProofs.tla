---------------------------- MODULE DiscoveryProofs ----------------------------
(***************************************************************************)
(* Proofs about module Discovery, for tables, queues and a machine of any  *)
(* size.  The pairing needs nothing but the two queues.  That the answer   *)
(* is read needs the tables: which connection a full table forgets depends *)
(* on the order in which all of them were heard of.                        *)
(***************************************************************************)
EXTENDS Discovery, SequenceTheorems, FiniteSetTheorems, TLAPS

TablesOK ==
  /\ hosts \subseteq Known /\ Cardinality(hosts) <= MaxHosts /\ open \in BOOLEAN
  /\ Known \subseteq Conns /\ Cardinality(Known) <= MaxSeen /\ IsOrder(seen)
  /\ rivals \subseteq Others /\ missed \in BOOLEAN

QueuesOK ==
  /\ pending \in Seq(Requests) /\ Len(pending) <= MaxPending
  /\ awaiting \in Seq(Requests) /\ drifted \in BOOLEAN /\ misnamed \in BOOLEAN

\* What the parser has missed it knows to be missing, or has forgotten all of.
NamedInv == (~drifted => pending = awaiting) /\ ~misnamed

\* As long as too few others were heard of since its last request, Game is on the
\* list, and those of the list that were heard of since are counted.
RivalsInv ==
  open /\ Cardinality(rivals) < MaxHosts - 1 =>
    Game \in hosts /\ seen[Game] \intersect hosts \subseteq rivals

ReadInv == RivalsInv /\ ~missed

-----------------------------------------------------------------------------
(* Orders, and who is the quietest in them.                                *)

LEMMA Sizes ==
  /\ MaxHosts \in Nat /\ MaxHosts > 0 /\ MaxSeen \in Nat /\ MaxHosts < MaxSeen
  /\ MaxPending \in Nat /\ MaxPending > 0
  /\ IsFiniteSet(Conns) /\ IsFiniteSet(Others) /\ Cardinality(Others) \in Nat
  /\ Cardinality(Others) >= MaxHosts - 1
  /\ Game \in Conns /\ Others = Conns \ {Game}
<1>1. /\ IsFiniteSet(Others) /\ Game \notin Others /\ Conns = Others \union {Game}
      /\ MaxHosts <= Cardinality(Conns)
  BY DiscoveryAssumption DEF Conns
<1>2. /\ IsFiniteSet(Conns) /\ Cardinality(Conns) = Cardinality(Others) + 1
      /\ Cardinality(Others) \in Nat
  BY <1>1, FS_AddElement, FS_CardinalityType
<1>3. QED
  BY <1>1, <1>2, DiscoveryAssumption

LEMMA HearOrder ==
  ASSUME IsOrder(seen), NEW c
  PROVE  /\ DOMAIN Hear(c) = Known \union {c} /\ Hear(c)[c] = {}
         /\ \A d \in Known \ {c} : Hear(c)[d] = seen[d] \union {c}
         /\ IsOrder(Hear(c))
  BY DEF IsOrder, Hear, Known

LEMMA ForgetOrder ==
  ASSUME NEW order, IsOrder(order), NEW V
  PROVE  IsOrder([d \in DOMAIN order \ V |-> order[d] \ V])
  BY DEF IsOrder

\* Nobody is among the zero quietest, and one is the quietest of all.
LEMMA QuietestNone ==
  ASSUME NEW order, NEW S, IsFiniteSet(S)
  PROVE  Quietest(order, S, 0) = {}
<1>1. ASSUME NEW c PROVE Cardinality({d \in S : c \in order[d]}) \in Nat
  <2>1. {d \in S : c \in order[d]} \in SUBSET S
    OBVIOUS
  <2>2. QED
    BY <2>1, FS_Subset, FS_CardinalityType
<1>2. QED
  BY <1>1 DEF Quietest

LEMMA QuietestOne ==
  ASSUME NEW order, IsOrder(order), NEW S \in SUBSET DOMAIN order, IsFiniteSet(S)
  PROVE  /\ S # {} => Quietest(order, S, 1) # {}
         /\ \A c \in Quietest(order, S, 1), d \in S : c # d => d \in order[c]
<1> DEFINE Before(c) == {d \in S : c \in order[d]}
<1>1. ASSUME NEW c
      PROVE  Before(c) \in SUBSET S /\ IsFiniteSet(Before(c)) /\ Cardinality(Before(c)) \in Nat
             /\ (Cardinality(Before(c)) = 0 <=> Before(c) = {})
  <2>1. Before(c) \in SUBSET S
    OBVIOUS
  <2> HIDE DEF Before
  <2>2. QED
    BY <2>1, FS_Subset, FS_CardinalityType, FS_EmptySet
<1>2. \A c : c \in Quietest(order, S, 1) <=> c \in S /\ Before(c) = {}
  <2>1. \A c : c \in Quietest(order, S, 1) <=> c \in S /\ Cardinality(Before(c)) < 1
    BY DEF Quietest
  <2> HIDE DEF Before
  <2>2. QED
    BY <1>1, <2>1
<1>3. ASSUME S # {} PROVE \E c \in S : Before(c) = {}
  <2> DEFINE T == {Before(c) : c \in S}
  <2>1. T \subseteq FiniteSubsetsOf(S) /\ T # {}
    <3>1. \A c \in S : Before(c) \in FiniteSubsetsOf(S)
      <4>1. SUFFICES ASSUME NEW c \in S PROVE Before(c) \in FiniteSubsetsOf(S)
        OBVIOUS
      <4>2. Before(c) \in SUBSET S /\ IsFiniteSet(Before(c))
        BY <1>1
      <4> HIDE DEF Before
      <4>3. QED
        BY <4>2 DEF FiniteSubsetsOf
    <3> HIDE DEF Before
    <3>2. QED
      BY <1>3, <3>1
  <2> HIDE DEF T
  <2>2. \E x \in T : \A y \in T : ~(<<y, x>> \in StrictSubsetOrdering(S))
    BY <2>1, FS_StrictSubsetOrderingWellFounded, WFMin
  <2> USE DEF T
  <2>3. PICK c \in S : \A d \in S : ~(<<Before(d), Before(c)>> \in StrictSubsetOrdering(S))
    BY <2>2
  <2>4. ASSUME NEW d \in Before(c) PROVE FALSE
    <3>1. d \in S /\ c \in order[d] /\ c \in DOMAIN order /\ d \in DOMAIN order
      BY <2>4
    <3>2. ASSUME NEW e \in Before(d) PROVE e \in Before(c)
      <4>1. e \in S /\ d \in order[e] /\ e \in DOMAIN order
        BY <3>2
      <4>2. order[d] \subseteq order[e]
        BY <3>1, <4>1 DEF IsOrder
      <4>3. QED
        BY <3>1, <4>1, <4>2
    <3>3. d \notin Before(d)
      BY <3>1 DEF IsOrder
    <3>4. Before(d) \subseteq Before(c) /\ Before(d) # Before(c)
      BY <2>4, <3>2, <3>3
    <3>5. Before(d) \in SUBSET S /\ Before(c) \in SUBSET S
      OBVIOUS
    <3> HIDE DEF Before
    <3>6. <<Before(d), Before(c)>> \in StrictSubsetOrdering(S)
      BY <3>4, <3>5 DEF StrictSubsetOrdering
    <3>7. QED
      BY <2>3, <3>1, <3>6
  <2>5. QED
    BY <2>3, <2>4
<1>4. ASSUME NEW c \in S, Before(c) = {}, NEW d \in S, c # d PROVE d \in order[c]
  BY <1>4 DEF IsOrder
<1> HIDE DEF Before
<1>5. QED
  BY <1>2, <1>3, <1>4

-----------------------------------------------------------------------------
(* What a call remembers.                                                  *)

\* The connections on the list are spared, the one that is heard of stays, and
\* there is room for what is left.
LEMMA VictimsShape ==
  ASSUME TablesOK, NEW c \in Conns, NEW victims \in Victims(c)
  PROVE  /\ victims \intersect hosts = {} /\ c \notin victims
         /\ Cardinality((Known \union {c}) \ victims) <= MaxSeen
<1> DEFINE order == Hear(c)
           all   == Known \union {c}
           prey  == all \ hosts
<1>1. /\ DOMAIN order = all /\ IsOrder(order) /\ order[c] = {}
      /\ \A d \in Known \ {c} : c \in order[d]
  <2>1. IsOrder(seen)
    BY DEF TablesOK
  <2> HIDE DEF order
  <2>2. /\ DOMAIN order = Known \union {c} /\ order[c] = {} /\ IsOrder(order)
        /\ \A d \in Known \ {c} : order[d] = seen[d] \union {c}
    BY <2>1, HearOrder DEF order
  <2>3. QED
    BY <2>2
<1>2. /\ all \in SUBSET Conns /\ IsFiniteSet(all) /\ hosts \subseteq all
      /\ IsFiniteSet(hosts) /\ IsFiniteSet(Known)
      /\ Cardinality(all) \in Nat /\ Cardinality(all) <= MaxSeen + 1
  <2>1. Known \in SUBSET Conns /\ hosts \in SUBSET Known
    BY DEF TablesOK
  <2>2. IsFiniteSet(Known) /\ IsFiniteSet(hosts)
    BY <2>1, Sizes, FS_Subset
  <2>3. IsFiniteSet(all) /\ Cardinality(all) <= MaxSeen + 1 /\ Cardinality(all) \in Nat
    <3>1. Cardinality(Known) \in Nat /\ Cardinality(Known) <= MaxSeen
      BY <2>2, FS_CardinalityType DEF TablesOK
    <3>2. IsFiniteSet(all) /\ Cardinality(all) \in {Cardinality(Known), Cardinality(Known) + 1}
      BY <2>2, FS_AddElement
    <3>3. QED
      BY <3>1, <3>2, Sizes
  <2>4. QED
    BY <2>1, <2>2, <2>3
<1> HIDE DEF order, all
<1>3. PICK silent, n :
        /\ silent = Quietest(order, prey \ {c}, n)
        /\ victims = silent \union Quietest(order, prey \ silent, Excess(Cardinality(all \ silent), MaxSeen))
  BY <1>1 DEF Victims, Spared, order
<1> DEFINE left == all \ silent
           k    == Excess(Cardinality(left), MaxSeen)
           S    == prey \ silent
<1>4. silent \subseteq prey \ {c} /\ victims = silent \union Quietest(order, S, k)
  BY <1>3 DEF Quietest
<1>5. Quietest(order, S, k) \subseteq S
  BY DEF Quietest
<1>6. victims \intersect hosts = {}
  BY <1>4, <1>5
<1>7. /\ IsFiniteSet(left) /\ Cardinality(left) \in Nat /\ Cardinality(left) <= MaxSeen + 1
  <2>1. left \in SUBSET all
    OBVIOUS
  <2> HIDE DEF left
  <2>2. IsFiniteSet(left) /\ Cardinality(left) <= Cardinality(all)
    BY <1>2, <2>1, FS_Subset
  <2>3. QED
    BY <1>2, <2>2, FS_CardinalityType, Sizes
<1>8. IsFiniteSet(S) /\ S \in SUBSET DOMAIN order
  <2>1. S \in SUBSET all
    OBVIOUS
  <2>2. QED
    BY <1>1, <1>2, <2>1, FS_Subset
<1>9. CASE Cardinality(left) <= MaxSeen
  <2>1. k = 0
    BY <1>7, <1>9, Sizes DEF Excess
  <2>2. victims = silent
    BY <1>4, <1>8, <2>1, QuietestNone
  <2>3. QED
    BY <1>4, <1>6, <1>9, <2>2 DEF all
<1>10. CASE ~(Cardinality(left) <= MaxSeen)
  <2>1. k = 1 /\ Cardinality(left) = MaxSeen + 1
    BY <1>7, <1>10, Sizes DEF Excess
  \* Some are neither on the list nor heard of just now.
  <2>2. \E d \in S : d # c
    <3>1. SUFFICES ASSUME S \subseteq {c} PROVE FALSE
      OBVIOUS
    <3>2. left \in SUBSET (hosts \union {c})
      BY <1>2, <1>4, <3>1
    <3>3. /\ IsFiniteSet(hosts \union {c}) /\ Cardinality(hosts) \in Nat
          /\ Cardinality(hosts \union {c}) \in {Cardinality(hosts), Cardinality(hosts) + 1}
      BY <1>2, FS_AddElement, FS_CardinalityType
    <3> HIDE DEF left
    <3>4. Cardinality(left) <= Cardinality(hosts \union {c})
      BY <3>2, <3>3, FS_Subset
    <3>5. Cardinality(hosts \union {c}) \in Nat /\ Cardinality(hosts) <= MaxHosts
      BY <3>3, FS_CardinalityType DEF TablesOK
    <3>6. QED
      BY <1>7, <2>1, <3>3, <3>4, <3>5, Sizes
  <2>3. PICK v : v \in Quietest(order, S, 1)
    <3>1. S # {}
      BY <2>2
    <3> HIDE DEF S
    <3>2. QED
      BY <1>1, <1>8, <3>1, QuietestOne
  <2>4. c \notin Quietest(order, S, 1)
    <3>1. PICK d \in S : d # c
      BY <2>2
    <3>2. d \notin order[c]
      BY <1>1
    <3> HIDE DEF S
    <3>3. QED
      BY <1>1, <1>8, <3>1, <3>2, QuietestOne
  <2>5. c \notin victims
    BY <1>4, <2>1, <2>4
  <2>6. Cardinality(all \ victims) <= MaxSeen
    <3>1. v \in left /\ all \ victims \in SUBSET (left \ {v})
      BY <1>4, <1>5, <2>1, <2>3
    <3> HIDE DEF left
    <3>2. IsFiniteSet(left \ {v}) /\ Cardinality(left \ {v}) = MaxSeen
      BY <1>7, <2>1, <3>1, FS_RemoveElement, Sizes
    <3>3. QED
      BY <3>1, <3>2, FS_Subset
  <2>7. QED
    BY <1>6, <2>5, <2>6 DEF all
<1>11. QED
  BY <1>9, <1>10

\* The tables after touch_and_prune.
LEMMA TouchShape ==
  ASSUME TablesOK, NEW c \in Conns, NEW victims \in Victims(c), Touch(c, victims)
  PROVE  /\ hosts \ victims = hosts /\ (c = Game => open)
         /\ hosts \subseteq Known' /\ c \in Known' /\ Known' \subseteq Conns
         /\ Cardinality(Known') <= MaxSeen /\ IsOrder(seen') /\ open' = open
         /\ seen'[c] = {} /\ \A d \in hosts \ {c} : seen'[d] \subseteq seen[d] \union {c}
                                                   /\ c \in seen'[d]
<1>1. /\ victims \intersect hosts = {} /\ c \notin victims
      /\ Cardinality((Known \union {c}) \ victims) <= MaxSeen
  BY VictimsShape
<1> DEFINE order == Hear(c)
<1>2. /\ DOMAIN order = Known \union {c} /\ order[c] = {} /\ IsOrder(order)
      /\ \A d \in Known \ {c} : order[d] = seen[d] \union {c}
  BY HearOrder DEF TablesOK
<1> DEFINE next == [d \in DOMAIN order \ victims |-> order[d] \ victims]
<1>3. seen' = next
  BY DEF Touch
<1>4. open' = open /\ (c = Game => open)
  BY DEF Touch
<1> HIDE DEF order
<1>5. /\ DOMAIN next = (Known \union {c}) \ victims
      /\ \A d \in DOMAIN next : next[d] = order[d] \ victims
  BY <1>2
<1>6. IsOrder(next)
  BY <1>2, ForgetOrder
<1> HIDE DEF next
<1>7. IsOrder(seen') /\ Known' = (Known \union {c}) \ victims
  BY <1>3, <1>5, <1>6 DEF Known
<1>8. hosts \subseteq Known /\ Known \subseteq Conns
  BY DEF TablesOK
<1>9. hosts \ victims = hosts /\ hosts \subseteq Known' /\ c \in Known' /\ Known' \subseteq Conns
  BY <1>1, <1>7, <1>8
<1>10. next[c] = {} /\ \A d \in hosts \ {c} : next[d] = (seen[d] \union {c}) \ victims
  BY <1>1, <1>2, <1>5, <1>8
<1>11. QED
  BY <1>1, <1>3, <1>4, <1>7, <1>9, <1>10

\* The list after a request: one of those on it goes when it is full, and Game only
\* when it is the quietest of them.
LEMMA TrackShape ==
  ASSUME TablesOK, NEW c \in Conns, NEW victims \in Victims(c), Touch(c, victims),
         Track(c, hosts \ victims)
  PROVE  /\ c \in hosts' /\ hosts' \subseteq hosts \union {c} /\ Cardinality(hosts') <= MaxHosts
         /\ Game \in hosts \ hosts' =>
              Cardinality(hosts) >= MaxHosts /\ hosts \ {Game, c} \subseteq seen'[Game]
<1> DEFINE S == hosts \ {c}
           k == Excess(Cardinality(hosts), MaxHosts - 1)
           Q == Quietest(seen', S, k)
<1>1. /\ hosts \ victims = hosts /\ hosts \subseteq Known' /\ IsOrder(seen')
  BY TouchShape
<1>2. hosts' = (hosts \ Q) \union {c}
  BY <1>1 DEF Track
<1>3. Q \subseteq S
  BY DEF Quietest
<1>4. /\ IsFiniteSet(hosts) /\ Cardinality(hosts) \in Nat /\ Cardinality(hosts) <= MaxHosts
      /\ IsFiniteSet(S) /\ S \in SUBSET DOMAIN seen'
  <2>1. hosts \in SUBSET Conns /\ Cardinality(hosts) <= MaxHosts
    BY DEF TablesOK
  <2>2. IsFiniteSet(hosts) /\ Cardinality(hosts) \in Nat
    BY <2>1, Sizes, FS_Subset, FS_CardinalityType
  <2>3. S \in SUBSET hosts
    OBVIOUS
  <2>4. QED
    BY <1>1, <2>1, <2>2, <2>3, FS_Subset DEF Known
<1>5. CASE Cardinality(hosts) < MaxHosts
  <2>1. k = 0
    BY <1>4, <1>5, Sizes DEF Excess
  <2>2. hosts' = hosts \union {c}
    BY <1>2, <1>4, <2>1, QuietestNone
  <2>3. Cardinality(hosts') <= MaxHosts
    <3>1. Cardinality(hosts \union {c}) \in {Cardinality(hosts), Cardinality(hosts) + 1}
      BY <1>4, FS_AddElement
    <3>2. QED
      BY <1>4, <1>5, <2>2, <3>1, Sizes
  <2>4. QED
    BY <2>2, <2>3
<1>6. CASE Cardinality(hosts) = MaxHosts
  <2>1. k = 1
    BY <1>6, Sizes DEF Excess
  <2>2. Cardinality(hosts') <= MaxHosts
    <3>1. CASE c \in hosts
      <4>1. hosts' \in SUBSET hosts
        BY <1>2, <3>1
      <4>2. QED
        BY <1>4, <1>6, <4>1, FS_Subset
    <3>2. CASE c \notin hosts
      <4>1. S = hosts /\ S # {}
        BY <1>6, <3>2, Sizes, FS_EmptySet
      <4>2. PICK v : v \in Quietest(seen', S, 1)
        <5> HIDE DEF S
        <5>1. QED
          BY <1>1, <1>4, <4>1, QuietestOne
      <4>3. v \in hosts /\ hosts' \in SUBSET ((hosts \ {v}) \union {c})
        BY <1>2, <1>3, <2>1, <4>2
      <4>4. /\ IsFiniteSet(hosts \ {v}) /\ Cardinality(hosts \ {v}) = MaxHosts - 1
        BY <1>4, <1>6, <4>3, FS_RemoveElement
      <4>5. /\ IsFiniteSet((hosts \ {v}) \union {c})
            /\ Cardinality((hosts \ {v}) \union {c}) = MaxHosts
        <5>1. c \notin hosts \ {v} /\ MaxHosts - 1 + 1 = MaxHosts
          BY <3>2, Sizes
        <5> DEFINE R == hosts \ {v}
        <5> HIDE DEF R
        <5>2. IsFiniteSet(R \union {c}) /\ Cardinality(R \union {c}) = MaxHosts
          BY <4>4, <5>1, FS_AddElement DEF R
        <5>3. QED
          BY <5>2 DEF R
      <4>6. QED
        BY <4>3, <4>5, FS_Subset
    <3>3. QED
      BY <3>1, <3>2
  <2>3. ASSUME Game \in hosts \ hosts' PROVE hosts \ {Game, c} \subseteq seen'[Game]
    <3>1. Game \in Quietest(seen', S, 1)
      BY <1>2, <2>1, <2>3
    <3>2. \A d \in S : d # Game => d \in seen'[Game]
      <4> HIDE DEF S
      <4>1. QED
        BY <1>1, <1>4, <3>1, QuietestOne
    <3>3. QED
      BY <3>2
  <2>4. QED
    BY <1>2, <1>6, <2>2, <2>3, Sizes
<1>7. QED
  BY <1>4, <1>5, <1>6, Sizes

\* Rivals are added until there are too many of them.
LEMMA RivalsShape ==
  ASSUME TablesOK, NEW c \in Conns, rivals' = RivalsAfter(c)
  PROVE  /\ rivals' \subseteq Others
         /\ Cardinality(rivals') < MaxHosts - 1 =>
              /\ rivals \subseteq rivals' /\ Cardinality(rivals) < MaxHosts - 1
              /\ c \in hosts' /\ c # Game => c \in rivals'
<1> DEFINE now == IF c \in hosts' \ {Game} THEN rivals \union {c} ELSE rivals
<1>1. now \in SUBSET Others /\ rivals \in SUBSET now
  BY Sizes DEF TablesOK
<1>2. rivals' = IF Cardinality(now) < MaxHosts - 1 THEN now ELSE Others
  BY DEF RivalsAfter
<1>3. /\ Cardinality(rivals') < MaxHosts - 1 => rivals' = now
      /\ rivals' \subseteq Others
  <2> HIDE DEF now
  <2>1. QED
    BY <1>1, <1>2, Sizes
<1>4. /\ Cardinality(now) \in Nat /\ Cardinality(rivals) \in Nat
      /\ Cardinality(rivals) <= Cardinality(now)
  <2> HIDE DEF now
  <2>1. QED
    BY <1>1, Sizes, FS_Subset, FS_CardinalityType
<1>5. c \in hosts' /\ c # Game => c \in now
  OBVIOUS
<1> HIDE DEF now
<1>6. QED
  BY <1>1, <1>3, <1>4, <1>5, Sizes

-----------------------------------------------------------------------------
(* The tables and the answer that is read.                                 *)

\* What every call leaves of the tables, whichever message it finds.
LEMMA Kept ==
  ASSUME TablesOK, NEW c \in Conns, NEW victims \in Victims(c), Touch(c, victims),
         hosts' \subseteq hosts \union {c}, Cardinality(hosts') <= MaxHosts,
         rivals' \subseteq Others, missed' \in BOOLEAN
  PROVE  TablesOK'
<1>1. /\ hosts \subseteq Known' /\ c \in Known' /\ Known' \subseteq Conns
      /\ Cardinality(Known') <= MaxSeen /\ IsOrder(seen') /\ open' = open
  BY TouchShape
<1>2. hosts' \subseteq Known' /\ open' \in BOOLEAN
  BY <1>1 DEF TablesOK
<1>3. IsOrder(seen)'
  BY <1>1 DEF IsOrder
<1>4. QED
  BY <1>1, <1>2, <1>3 DEF TablesOK

LEMMA TablesStep ==
  ASSUME TablesOK, ReadInv, [Next]_vars
  PROVE  TablesOK' /\ ReadInv'
<1>0. missed = FALSE /\ RivalsInv
  BY DEF ReadInv, TablesOK
\* A call that finds nothing, or a message on another connection.
<1>1. ASSUME NEW c \in Conns, NEW victims \in Victims(c), Touch(c, victims),
             rivals' = RivalsAfter(c), missed' = missed,
             \/ hosts' = hosts \ victims
             \/ c # Game /\ Track(c, hosts \ victims)
      PROVE  TablesOK' /\ ReadInv'
  <2>1. /\ hosts \ victims = hosts /\ hosts \subseteq Known' /\ open' = open
        /\ seen'[c] = {} /\ \A d \in hosts \ {c} : seen'[d] \subseteq seen[d] \union {c}
    BY <1>1, TouchShape
  <2>2. /\ hosts' \subseteq hosts \union {c} /\ Cardinality(hosts') <= MaxHosts
        /\ hosts' = hosts \/ (c \in hosts' /\ c # Game)
        /\ Game \in hosts \ hosts' =>
              Cardinality(hosts) >= MaxHosts /\ hosts \ {Game, c} \subseteq seen'[Game]
    <3>1. CASE hosts' = hosts \ victims
      BY <2>1, <3>1 DEF TablesOK
    <3>2. CASE c # Game /\ Track(c, hosts \ victims)
      BY <1>1, <3>2, TrackShape
    <3>3. QED
      BY <1>1, <3>1, <3>2
  <2>3. /\ rivals' \subseteq Others
        /\ Cardinality(rivals') < MaxHosts - 1 =>
              /\ rivals \subseteq rivals' /\ Cardinality(rivals) < MaxHosts - 1
              /\ c \in hosts' /\ c # Game => c \in rivals'
    BY <1>1, RivalsShape
  <2>4. TablesOK'
    BY <1>0, <1>1, <2>2, <2>3, Kept
  <2>5. ASSUME open', Cardinality(rivals') < MaxHosts - 1
        PROVE  Game \in hosts' /\ seen'[Game] \intersect hosts' \subseteq rivals'
    <3>1. /\ Game \in hosts /\ seen[Game] \intersect hosts \subseteq rivals'
      BY <1>0, <2>1, <2>3, <2>5 DEF RivalsInv
    <3>2. c # Game => seen'[Game] \subseteq seen[Game] \union {c}
      BY <2>1, <3>1
    <3>3. Game \in hosts'
      <4>1. SUFFICES ASSUME Game \notin hosts' PROVE FALSE
        OBVIOUS
      <4>2. c # Game /\ c \in rivals' /\ Cardinality(hosts) >= MaxHosts
            /\ hosts \ {Game, c} \subseteq seen'[Game]
        BY <2>2, <2>3, <2>5, <3>1, <4>1
      <4>3. hosts \ {Game} \in SUBSET rivals'
        BY <3>1, <3>2, <4>2
      <4>4. /\ IsFiniteSet(hosts) /\ Cardinality(hosts) \in Nat
            /\ IsFiniteSet(rivals') /\ Cardinality(rivals') \in Nat
        BY <2>3, Sizes, FS_Subset, FS_CardinalityType DEF TablesOK
      <4>5. Cardinality(hosts \ {Game}) = Cardinality(hosts) - 1
        BY <3>1, <4>4, FS_RemoveElement
      <4>6. Cardinality(hosts \ {Game}) <= Cardinality(rivals')
        BY <4>3, <4>4, FS_Subset
      <4>7. QED
        BY <2>5, <4>2, <4>4, <4>5, <4>6, Sizes
    <3>4. seen'[Game] \intersect hosts' \subseteq rivals'
      <4>1. CASE c = Game
        BY <2>1, <4>1
      <4>2. CASE c # Game
        BY <2>2, <2>3, <2>5, <3>1, <3>2, <4>2
      <4>3. QED
        BY <4>1, <4>2
    <3>5. QED
      BY <3>3, <3>4
  <2>6. QED
    BY <1>0, <1>1, <2>4, <2>5 DEF ReadInv, RivalsInv
<1>2. ASSUME NEW c \in Conns, SeeNothing(c) PROVE TablesOK' /\ ReadInv'
  BY <1>1, <1>2 DEF SeeNothing
<1>3. ASSUME NEW c \in Others, SeeOtherRequest(c) PROVE TablesOK' /\ ReadInv'
  BY <1>1, <1>3, Sizes DEF SeeOtherRequest
\* A request of the game puts Game first.
<1>4. ASSUME NEW r \in Requests, SeeRequest(r) PROVE TablesOK' /\ ReadInv'
  <2>1. PICK victims \in Victims(Game) : Touch(Game, victims) /\ Track(Game, hosts \ victims)
    BY <1>4 DEF SeeRequest
  <2>2. missed' = missed /\ rivals' = IF MaxHosts > 1 THEN {} ELSE Others
    BY <1>4 DEF SeeRequest
  <2>3. Game \in Conns
    BY Sizes
  <2>4. seen'[Game] = {} /\ Game \in hosts' /\ hosts' \subseteq hosts \union {Game}
        /\ Cardinality(hosts') <= MaxHosts
    BY <2>1, <2>3, TouchShape, TrackShape
  <2>5. TablesOK'
    BY <1>0, <2>1, <2>2, <2>3, <2>4, Kept
  <2>6. QED
    BY <1>0, <2>2, <2>4, <2>5 DEF ReadInv, RivalsInv
<1>5. ASSUME NEW rows \in BOOLEAN, SeeResponse(rows) PROVE TablesOK' /\ ReadInv'
  <2>1. PICK victims \in Victims(Game) :
          LET queue   == QueueWithout(victims)
              label   == FirstOf(queue)
              tracked == Game \in hosts \ victims
          IN  /\ Touch(Game, victims)
              /\ hosts' = hosts \ victims
              /\ missed' = (missed \/ /\ rows /\ Cardinality(rivals) < MaxHosts - 1
                                      /\ ~(tracked /\ ReadByBody(rows, label)))
    BY <1>5 DEF SeeResponse
  <2>2. rivals' = rivals /\ open /\ Game \in Conns
    BY <1>5, Sizes DEF SeeResponse, Answer
  <2>3. hosts \ victims = hosts /\ seen'[Game] = {} /\ open' = open
    BY <2>1, <2>2, TouchShape
  <2>4. Cardinality(rivals) < MaxHosts - 1 => Game \in hosts
    BY <1>0, <2>2 DEF RivalsInv
  <2>5. missed' = FALSE
    BY <1>0, <2>1, <2>3, <2>4 DEF ReadByBody
  <2>6. TablesOK'
    <3>1. hosts' \subseteq hosts \union {Game} /\ Cardinality(hosts') <= MaxHosts
          /\ rivals' \subseteq Others
      BY <2>1, <2>2, <2>3 DEF TablesOK
    <3>2. QED
      BY <2>1, <2>2, <2>5, <3>1, Kept
  <2>7. QED
    BY <2>1, <2>2, <2>3, <2>4, <2>5, <2>6 DEF ReadInv, RivalsInv
<1>6. ASSUME NEW c \in Conns, TimeOut(c) PROVE TablesOK' /\ ReadInv'
  <2>1. /\ hosts' = hosts \ {c} /\ open' = (open /\ c # Game) /\ UNCHANGED <<seen, rivals, missed>>
    BY <1>6 DEF TimeOut, histories
  <2>2. Cardinality(hosts') <= MaxHosts
    <3>1. hosts \in SUBSET Conns /\ Cardinality(hosts) <= MaxHosts
      BY DEF TablesOK
    <3>2. IsFiniteSet(hosts) /\ Cardinality(hosts) \in Nat /\ hosts' \in SUBSET hosts
      BY <2>1, <3>1, Sizes, FS_Subset, FS_CardinalityType
    <3>3. Cardinality(hosts') <= Cardinality(hosts) /\ Cardinality(hosts') \in Nat
      BY <3>2, FS_Subset, FS_CardinalityType
    <3>4. QED
      BY <3>1, <3>2, <3>3, Sizes
  <2>3. TablesOK'
    BY <2>1, <2>2 DEF TablesOK, Known, IsOrder
  <2>4. QED
    BY <1>0, <2>1, <2>3 DEF ReadInv, RivalsInv
<1>7. CASE UNCHANGED <<tables, histories>>
  BY <1>0, <1>7 DEF tables, histories, TablesOK, Known, IsOrder, ReadInv, RivalsInv
<1>8. QED
  BY <1>2, <1>3, <1>4, <1>5, <1>6, <1>7 DEF Next, MissRequest, MissResponse, vars

-----------------------------------------------------------------------------
(* The queues and the name of a response.                                  *)

\* Queues that hold no more than MaxPending requests.
Queue == {q \in Seq(Requests) : Len(q) <= MaxPending}

LEMMA QueueShape ==
  ASSUME NEW q \in Queue
  PROVE  /\ q \in Seq(Requests) /\ <<>> \in Queue /\ RestOf(q) \in Queue
         /\ q # <<>> => FirstOf(q) = Head(q) /\ RestOf(q) = Tail(q)
         /\ \A r \in Requests : Push(q, r) \in Queue
         /\ \A r \in Requests : Len(q) < MaxPending => Push(q, r) = Append(q, r)
<1>1. /\ q \in Seq(Requests) /\ Len(q) \in Nat /\ Len(q) <= MaxPending
      /\ MaxPending \in Nat /\ MaxPending > 0
  BY Sizes DEF Queue
<1>2. <<>> \in Queue
  BY <1>1 DEF Queue
<1>3. q # <<>> => Tail(q) \in Seq(Requests) /\ Len(Tail(q)) = Len(q) - 1
  BY <1>1
<1>4. RestOf(q) \in Queue
  BY <1>1, <1>2, <1>3 DEF RestOf, Queue
<1>5. ASSUME NEW r \in Requests PROVE Push(q, r) \in Queue
  <2>1. CASE Len(q) >= MaxPending
    <3>1. q # <<>> /\ Tail(q) \in Seq(Requests) /\ Len(Tail(q)) = MaxPending - 1
      BY <1>1, <1>3, <2>1
    <3>2. /\ Append(Tail(q), r) \in Seq(Requests) /\ Len(Append(Tail(q), r)) = MaxPending
      BY <1>1, <3>1
    <3>3. Push(q, r) = Append(Tail(q), r)
      BY <2>1 DEF Push
    <3>4. QED
      BY <1>1, <3>2, <3>3 DEF Queue
  <2>2. CASE ~(Len(q) >= MaxPending)
    <3>1. /\ Append(q, r) \in Seq(Requests) /\ Len(Append(q, r)) = Len(q) + 1
      BY <1>1
    <3>2. Push(q, r) = Append(q, r)
      BY <2>2 DEF Push
    <3>3. QED
      BY <1>1, <2>2, <3>1, <3>2 DEF Queue
  <2>3. QED
    BY <2>1, <2>2
<1>6. QED
  BY <1>1, <1>2, <1>4, <1>5 DEF FirstOf, RestOf, Push

\* What forgetting the victims does to the queue and its pairing.
LEMMA QueueKept ==
  ASSUME QueuesOK, NamedInv, NEW victims
  PROVE  /\ pending \in Queue /\ QueueWithout(victims) \in Queue
         /\ DriftOf(victims) \in BOOLEAN
         /\ ~DriftOf(victims) => ~drifted /\ QueueWithout(victims) = awaiting
         /\ Game \notin victims => QueueWithout(victims) = pending /\ DriftOf(victims) = drifted
<1>1. pending \in Queue /\ drifted \in BOOLEAN
  BY DEF QueuesOK, Queue
<1>2. QueueWithout(victims) \in Queue
  BY <1>1, QueueShape DEF QueueWithout
<1>3. QED
  BY <1>1, <1>2 DEF QueueWithout, DriftOf, NamedInv

LEMMA QueuesStep ==
  ASSUME QueuesOK, NamedInv, [Next]_vars
  PROVE  QueuesOK' /\ NamedInv'
<1>0. /\ pending \in Queue /\ awaiting \in Seq(Requests) /\ drifted \in BOOLEAN
      /\ misnamed = FALSE /\ (~drifted => pending = awaiting)
  BY DEF QueuesOK, NamedInv, Queue
<1>1. ASSUME pending' \in Queue, awaiting' \in Seq(Requests), drifted' \in BOOLEAN,
             misnamed' = FALSE, ~drifted' => pending' = awaiting'
      PROVE  QueuesOK' /\ NamedInv'
  BY <1>1 DEF QueuesOK, NamedInv, Queue
<1>2. ASSUME NEW victims, pending' = QueueWithout(victims), drifted' = DriftOf(victims),
             UNCHANGED <<awaiting, misnamed>>
      PROVE  QueuesOK' /\ NamedInv'
  BY <1>0, <1>1, <1>2, QueueKept
<1>3. ASSUME NEW c, SeeNothing(c) \/ SeeOtherRequest(c) PROVE QueuesOK' /\ NamedInv'
  BY <1>2, <1>3 DEF SeeNothing, SeeOtherRequest
<1>4. ASSUME NEW r \in Requests, SeeRequest(r) PROVE QueuesOK' /\ NamedInv'
  <2>1. PICK victims :
          /\ pending' = Push(QueueWithout(victims), r)
          /\ drifted' = (DriftOf(victims) \/ Len(pending) >= MaxPending)
    BY <1>4 DEF SeeRequest
  <2>2. awaiting' = Append(awaiting, r) /\ misnamed' = misnamed
    BY <1>4 DEF SeeRequest, Send
  <2>3. pending' \in Queue /\ awaiting' \in Seq(Requests) /\ drifted' \in BOOLEAN
    BY <1>0, <2>1, <2>2, QueueKept, QueueShape
  <2>4. ASSUME ~drifted' PROVE pending' = awaiting'
    <3>1. ~DriftOf(victims) /\ ~(Len(pending) >= MaxPending)
      BY <2>1, <2>4
    <3>2. pending = awaiting /\ QueueWithout(victims) = pending
      BY <1>0, <3>1, QueueKept
    <3>3. Len(pending) < MaxPending
      BY <1>0, <3>1, Sizes DEF Queue
    <3>4. QED
      BY <1>0, <2>1, <2>2, <3>2, <3>3, QueueShape
  <2>5. QED
    BY <1>0, <1>1, <2>2, <2>3, <2>4
<1>5. ASSUME NEW rows \in BOOLEAN, SeeResponse(rows) PROVE QueuesOK' /\ NamedInv'
  <2>1. awaiting # <<>> /\ awaiting' = Tail(awaiting) /\ awaiting' \in Seq(Requests)
    BY <1>0, <1>5 DEF SeeResponse, Answer
  <2>2. PICK victims :
          LET queue   == QueueWithout(victims)
              label   == FirstOf(queue)
              tracked == Game \in hosts \ victims
              resync  == tracked /\ rows /\ label \notin StatsRequests
          IN  /\ pending' = IF tracked THEN QueueAfter(rows, queue) ELSE queue
              /\ drifted' = IF resync THEN awaiting' # <<>> ELSE DriftOf(victims) \/ ~tracked
              /\ misnamed' = (misnamed \/ /\ tracked /\ ~drifted
                                          /\ label # Head(awaiting))
    BY <1>5 DEF SeeResponse
  <2> DEFINE queue   == QueueWithout(victims)
             tracked == Game \in hosts \ victims
             resync  == tracked /\ rows /\ FirstOf(queue) \notin StatsRequests
  <2>3. /\ queue \in Queue /\ QueueAfter(rows, queue) \in {<<>>, RestOf(queue)}
        /\ DriftOf(victims) \in BOOLEAN
    BY QueueKept DEF QueueAfter
  <2>4. pending' \in Queue /\ drifted' \in BOOLEAN
    BY <2>2, <2>3, QueueShape
  \* A queue that is paired right has the name of the response.
  <2>5. ASSUME tracked, ~drifted
        PROVE  queue = awaiting /\ FirstOf(queue) = Head(awaiting) /\ RestOf(queue) = awaiting'
    <3>1. queue = awaiting
      BY <1>0, <2>5, QueueKept
    <3>2. QED
      BY <2>1, <3>1 DEF FirstOf, RestOf
  <2>6. misnamed' = FALSE
    BY <1>0, <2>2, <2>5
  <2>7. ASSUME ~drifted' PROVE pending' = awaiting'
    <3>1. CASE resync
      BY <2>2, <2>7, <3>1 DEF QueueAfter
    <3>2. CASE ~resync
      <4>1. tracked /\ ~DriftOf(victims)
        BY <2>2, <2>7, <3>2
      <4>2. ~drifted
        BY <4>1, QueueKept
      <4>3. pending' = RestOf(queue)
        BY <2>2, <3>2, <4>1 DEF QueueAfter
      <4>4. QED
        BY <2>5, <4>1, <4>2, <4>3
    <3>3. QED
      BY <3>1, <3>2
  <2>8. QED
    BY <1>1, <2>1, <2>4, <2>6, <2>7
<1>6. ASSUME NEW r \in Requests, MissRequest(r) PROVE QueuesOK' /\ NamedInv'
  <2>1. awaiting' = Append(awaiting, r) /\ drifted' = TRUE /\ UNCHANGED <<pending, misnamed>>
    BY <1>6 DEF MissRequest, Send, histories
  <2>2. awaiting' \in Seq(Requests)
    BY <1>0, <2>1
  <2>3. QED
    BY <1>0, <1>1, <2>1, <2>2
<1>7. CASE MissResponse
  <2>1. /\ awaiting # <<>> /\ awaiting' = Tail(awaiting) /\ drifted' = TRUE
        /\ UNCHANGED <<pending, misnamed>>
    BY <1>7 DEF MissResponse, Answer, histories
  <2>2. awaiting' \in Seq(Requests)
    BY <1>0, <2>1
  <2>3. QED
    BY <1>0, <1>1, <2>1, <2>2
<1>8. CASE UNCHANGED <<pairing, histories>>
  BY <1>0, <1>1, <1>8 DEF pairing, histories
<1>9. QED
  BY <1>3, <1>4, <1>5, <1>6, <1>7, <1>8 DEF Next, TimeOut, vars, histories

-----------------------------------------------------------------------------
(* The theorems.                                                           *)

DiscoveryInv == TablesOK /\ ReadInv /\ QueuesOK /\ NamedInv

LEMMA DiscoveryStart ==
  ASSUME Init
  PROVE  DiscoveryInv
<1>1. /\ hosts = {} /\ seen = [c \in {} |-> {}] /\ open = TRUE /\ rivals = Others
      /\ pending = <<>> /\ awaiting = <<>> /\ drifted = FALSE
      /\ missed = FALSE /\ misnamed = FALSE
  BY DEF Init
<1>2. Known = {} /\ IsOrder(seen)
  BY <1>1 DEF Known, IsOrder
<1>3. Cardinality({}) = 0 /\ Cardinality(hosts) <= MaxHosts /\ Cardinality(Known) <= MaxSeen
  BY <1>1, <1>2, FS_EmptySet, Sizes
<1>4. TablesOK
  BY <1>1, <1>2, <1>3 DEF TablesOK
<1>5. ReadInv
  BY <1>1, Sizes DEF ReadInv, RivalsInv
<1>6. QueuesOK /\ NamedInv
  <2>1. <<>> \in Seq(Requests) /\ Len(<<>>) <= MaxPending
    BY Sizes
  <2>2. QED
    BY <1>1, <2>1 DEF QueuesOK, NamedInv
<1>7. QED
  BY <1>4, <1>5, <1>6 DEF DiscoveryInv

\* Over every order of connections, messages seen and missed, prunes and time-outs
\* (scanner.rs:260-281, 561-627, 718-859).
THEOREM DiscoveryInvariant == Spec => []DiscoveryInv
<1>1. Init => DiscoveryInv
  BY DiscoveryStart
<1>2. DiscoveryInv /\ [Next]_vars => DiscoveryInv'
  BY TablesStep, QueuesStep DEF DiscoveryInv
<1>3. QED
  BY <1>1, <1>2, PTL DEF Spec

\* The list, last_seen and the queue never outgrow their limits, prunes that spare
\* the list included, and the list only holds connections whose last sighting is
\* known (touch_and_prune, scanner.rs:561-627; the loop at 724-736; pop_front at
\* 757-759).
THEOREM DiscoveryTypeCorrect == Spec => []TypeOK
<1>1. DiscoveryInv => TypeOK
  BY DEF DiscoveryInv, TablesOK, QueuesOK, TypeOK
<1>2. QED
  BY <1>1, DiscoveryInvariant, PTL

\* A full list forgets the connection that was quiet longest (scanner.rs:721-736),
\* and a table that overflows spares the list (564-573): so the game's connection
\* is still known when the statistics come, as long as too few others were heard
\* of in between.
THEOREM StatisticsAreRead == Spec => []AnswerIsRead
<1>1. DiscoveryInv => AnswerIsRead
  BY DEF DiscoveryInv, ReadInv, AnswerIsRead
<1>2. QED
  BY <1>1, DiscoveryInvariant, PTL

\* The n-th response is named after the n-th request (scanner.rs:752-773), and a
\* queue that has drifted is dropped by the first body that disagrees with it
\* (808-825), which puts it right when nothing is outstanding.
THEOREM ResponsesGetTheirNames == Spec => []NamedAfterItsRequest
<1>1. DiscoveryInv => NamedAfterItsRequest
  BY DEF DiscoveryInv, NamedInv, NamedAfterItsRequest
<1>2. QED
  BY <1>1, DiscoveryInvariant, PTL
================================================================================

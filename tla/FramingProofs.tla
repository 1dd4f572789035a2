---------------------------- MODULE FramingProofs ----------------------------
(***************************************************************************)
(* Framing for any number of messages of any size, any caps and any way of *)
(* cutting the stream into calls: types, the walk past a body, the bound   *)
(* of the buffer, that whole messages are framed, and that nothing is cut  *)
(* without need.                                                           *)
(***************************************************************************)
EXTENDS Framing, TLAPS

\* What WellFormed says of one message.
LEMMA Shape ==
  ASSUME TypeOK, NEW i \in Messages
  PROVE  /\ Start(i) \in Nat /\ Head(i) \in Nat /\ End(i) \in Nat
         /\ stream.line[i] \in Nat
         /\ Start(i) <= stream.line[i] /\ stream.line[i] < Head(i) /\ Head(i) <= End(i)
         /\ \A j \in Messages : i < j => End(i) <= Start(j)
         /\ i > 1 => i - 1 \in Messages /\ End(i - 1) = Start(i)
         /\ i = 1 => Start(i) = 0
<1>1. WellFormed(stream) /\ Last \in Nat \ {0}
  BY FramingAssumption DEF TypeOK
<1>2. /\ stream.start \in [1 .. Last + 1 -> Nat]
      /\ stream.head \in [Messages -> Nat] /\ stream.line \in [Messages -> Nat]
      /\ stream.start[1] = 0
      /\ stream.start[i] <= stream.line[i] /\ stream.line[i] < stream.head[i]
      /\ stream.head[i] <= stream.start[i + 1]
      /\ \A j \in i + 1 .. Last + 1 : stream.start[i + 1] <= stream.start[j]
  BY <1>1 DEF WellFormed
<1>3. i \in 1 .. Last /\ i \in 1 .. Last + 1 /\ i + 1 \in 1 .. Last + 1
  BY <1>1 DEF Messages
<1>4. \A j \in Messages : i < j => j \in i + 1 .. Last + 1
  BY <1>1, <1>3 DEF Messages
<1>5. i > 1 => i - 1 \in Messages /\ (i - 1) + 1 = i
  BY <1>1, <1>3 DEF Messages
<1> QED
  BY <1>2, <1>3, <1>4, <1>5 DEF Start, Head, End, Messages

\* The length of a message ends with its header or with its body.
LEMMA EndType ==
  ASSUME TypeOK, NEW i \in Messages
  PROVE  /\ MessageEnd(i) \in Nat /\ Head(i) <= MessageEnd(i) /\ MessageEnd(i) <= End(i)
         /\ MessageEnd(i) = End(i) \/ (MessageEnd(i) = Head(i) /\ stream.line[i] < lo)
BY Shape DEF MessageEnd, LengthKnown, TypeOK

LEMMA LastIsMessage == Last \in Messages
  BY FramingAssumption DEF Messages

LEMMA SmallerType ==
  ASSUME NEW a \in Nat, NEW b \in Nat
  PROVE  Smaller(a, b) \in Nat /\ Smaller(a, b) <= a /\ Smaller(a, b) <= b
         /\ (Smaller(a, b) = a \/ Smaller(a, b) = b)
BY DEF Smaller

\* What is damaged is a message of the stream.
LEMMA DamageType ==
  ASSUME NEW cut
  PROVE  Damage(cut) \subseteq Messages
BY DEF Damage, Shadow
-----------------------------------------------------------------------------
(* Type correctness (scanner.rs:641-895).                                  *)

LEMMA TypeStep ==
  ASSUME TypeOK, [Next]_vars
  PROVE  TypeOK'
<1> USE FramingAssumption
<1>h. hi <= End(Last) /\ End(Last) \in Nat
  BY Shape, LastIsMessage DEF TypeOK
<1>c. ASSUME NEW cut \in Nat, cut <= hi, CutAt(cut)
      PROVE  lo' \in Nat /\ lo' <= hi /\ hurt' \subseteq Messages
  BY <1>c, DamageType DEF CutAt, TypeOK
<1>1. ASSUME NEW n \in Chunks, Feed(n)
      PROVE  TypeOK'
  <2>1. n \in Nat /\ hi' = hi + n /\ hi' \in Nat /\ hi' - lo \in Nat /\ hi' <= End(Last)
    BY <1>1, <1>h DEF Feed, Extend, TypeOK
  <2>2. lo' = lo + Smaller(skip, hi' - lo) /\ skip' = skip - Smaller(skip, hi' - lo)
    BY <1>1 DEF Feed, Extend
  <2>3. lo' \in Nat /\ skip' \in Nat /\ lo' <= hi'
    <3>1. skip \in Nat /\ lo \in Nat
      BY DEF TypeOK
    <3>2. /\ Smaller(skip, hi' - lo) \in Nat
          /\ Smaller(skip, hi' - lo) <= skip /\ Smaller(skip, hi' - lo) <= hi' - lo
      BY <2>1, <3>1, SmallerType
    <3> QED
      BY <2>1, <2>2, <3>1, <3>2
  <2> QED
    BY <1>1, <2>1, <2>3 DEF Feed, Extend, TypeOK, End
<1>2. ASSUME NEW i \in Messages, WalkPast(i)
      PROVE  TypeOK'
  <2>1. lo' = Smaller(hi, MessageEnd(i)) /\ skip' = MessageEnd(i) - lo'
    BY <1>2 DEF WalkPast
  <2>2. lo' \in Nat /\ skip' \in Nat /\ lo' <= hi
    <3>1. hi \in Nat /\ MessageEnd(i) \in Nat
      BY EndType DEF TypeOK
    <3>2. /\ Smaller(hi, MessageEnd(i)) \in Nat
          /\ Smaller(hi, MessageEnd(i)) <= hi
          /\ Smaller(hi, MessageEnd(i)) <= MessageEnd(i)
      BY <3>1, SmallerType
    <3> QED
      BY <2>1, <3>1, <3>2
  <2> QED
    BY <1>2, <2>2 DEF WalkPast, TypeOK, End
<1>3. ASSUME NEW i \in Messages, DropHead(i)
      PROVE  TypeOK'
  <2>1. lo' \in Nat /\ lo' <= hi
    BY <1>3, Shape DEF DropHead, Turn, Upcoming
  <2> QED
    BY <1>3, <2>1 DEF DropHead, TypeOK, End
<1>4. ASSUME NEW i \in Messages, Frame(i)
      PROVE  TypeOK'
  <2>1. lo' \in Nat /\ lo' <= hi /\ framed' \subseteq Messages
    BY <1>4, EndType DEF Frame, TypeOK
  <2> QED
    BY <1>4, <2>1 DEF Frame, TypeOK, End
<1>5. ASSUME EndCall
      PROVE  TypeOK'
  <2>1. PICK cut \in Nat : cut <= hi /\ EndsCall(cut)
    BY <1>5 DEF EndCall, TypeOK
  <2>2. lo' \in Nat /\ lo' <= hi /\ hurt' \subseteq Messages
    BY <2>1, <1>c DEF EndsCall, TypeOK
  <2> QED
    BY <2>1, <2>2 DEF EndsCall, TypeOK, End
<1>6. ASSUME BufferDropped \/ ConnectionPruned
      PROVE  TypeOK'
  <2>1. lo' \in Nat /\ lo' <= hi /\ hurt' \subseteq Messages
    BY <1>6, <1>c DEF BufferDropped, ConnectionPruned, TypeOK
  <2>2. /\ stream' = stream /\ hi' = hi /\ scanning' = scanning /\ framed' = framed
        /\ skip' \in {skip, 0} /\ forgotten' \in BOOLEAN
    BY <1>6 DEF BufferDropped, ConnectionPruned
  <2> QED
    BY <2>1, <2>2 DEF TypeOK, End
<1>7. ASSUME UNCHANGED vars
      PROVE  TypeOK'
  <2>1. /\ stream' = stream /\ lo' = lo /\ hi' = hi /\ skip' = skip
        /\ scanning' = scanning /\ framed' = framed /\ hurt' = hurt
        /\ forgotten' = forgotten
    BY <1>7 DEF vars
  <2> QED
    BY <2>1 DEF TypeOK, End
<1> QED
  BY <1>1, <1>2, <1>3, <1>4, <1>5, <1>6, <1>7 DEF Next

\* The buffer is a stretch of the stream and the walk never has a negative rest.
THEOREM FramingTypeCorrect == Spec => []TypeOK
<1>1. Init => TypeOK
  <2>1. SUFFICES ASSUME Init PROVE TypeOK
    OBVIOUS
  <2>2. WellFormed(stream)
    BY <2>1, FramingAssumption DEF Init
  <2>3. End(Last) \in Nat
    BY <2>2, FramingAssumption DEF WellFormed, End
  <2>4. scanning \in BOOLEAN /\ forgotten \in BOOLEAN
    BY <2>1 DEF Init
  <2>5. lo = 0 /\ hi = 0 /\ skip = 0 /\ framed = {} /\ hurt = {}
    BY <2>1 DEF Init
  <2> QED
    BY <2>2, <2>3, <2>4, <2>5 DEF TypeOK
<1>2. TypeOK /\ [Next]_vars => TypeOK'
  BY TypeStep
<1> QED
  BY <1>1, <1>2, PTL DEF Spec

-----------------------------------------------------------------------------
(* The inductive invariant.                                                *)

\* Where parsing goes on: what is skipped counts as consumed.
Position == lo + skip

Accounted(i) == Fits(i) => i \in framed \union hurt

\* While a body is walked past nothing is kept, and the walk ends with a body.
Walking == skip > 0 => lo = hi /\ \E i \in Messages : hi + skip = End(i)

\* No message whose first byte is consumed is still waited for.
PassedAreAccounted ==
  \A i \in Messages : Start(i) < Position => Accounted(i)

\* A position inside a message, which has lost its beginning, has been paid for
\* with the shadow that message throws from there.
ShadowIsAccounted ==
  \A k \in Messages : (Start(k) < Position /\ Position < End(k)) =>
    \A i \in Shadow(k, Position) : Accounted(i)

\* Between two calls the loop has done all it could.
ScannedOut == ~scanning => AtRest

FramingInv ==
  /\ Walking
  /\ PassedAreAccounted
  /\ ShadowIsAccounted
  /\ ScannedOut

\* The next header in the buffer is that of the message the buffer begins with,
\* of one that has lost its beginning, or of the message after such a one.
LEMMA WhereTheHeaderIs ==
  ASSUME TypeOK, Walking, NEW i \in Messages, Upcoming(i)
  PROVE  /\ skip = 0 /\ Position = lo
         /\ \/ lo = Start(i)
            \/ Start(i) < lo /\ lo < End(i)
            \/ /\ lo < Start(i) /\ i - 1 \in Messages /\ End(i - 1) = Start(i)
               /\ Start(i - 1) < lo /\ lo < End(i - 1)
<1>1. /\ lo \in Nat /\ hi \in Nat /\ skip \in Nat
      /\ lo < Head(i) /\ Head(i) <= hi
      /\ \A j \in Messages : j < i => Head(j) <= lo
  BY DEF TypeOK, Upcoming
<1>2. skip = 0 /\ Position = lo
  <2>1. lo # hi
    BY <1>1, Shape
  <2> QED
    BY <1>1, <2>1 DEF Walking, Position
<1>3. CASE Start(i) <= lo
  BY <1>1, <1>2, <1>3, Shape
<1>4. CASE lo < Start(i)
  <2>1. i > 1 /\ i \in Nat
    <3>1. i \in Nat \ {0}
      BY FramingAssumption DEF Messages
    <3>2. i # 1
      BY <1>1, <1>4, Shape
    <3> QED
      BY <3>1, <3>2
  <2>2. i - 1 \in Messages /\ End(i - 1) = Start(i)
    BY <2>1, Shape
  <2>3. Head(i - 1) <= lo
    BY <1>1, <2>1, <2>2
  <2>4. Start(i - 1) < Head(i - 1) /\ Start(i - 1) \in Nat /\ Head(i - 1) \in Nat
    BY <2>2, Shape
  <2> QED
    BY <1>1, <1>2, <1>4, <2>2, <2>3, <2>4
<1> QED
  BY <1>1, <1>3, <1>4, Shape

\* Neither the beginning of a message nor the end of a header is inside a
\* character.
LEMMA CleanPositions ==
  ASSUME TypeOK, NEW i \in Messages
  PROVE  Start(i) \notin stream.midchar /\ Head(i) \notin stream.midchar
<1>1. SUFFICES ASSUME NEW k \in Messages, NEW p \in {Start(i), Head(i)},
                      Head(k) < p, p < End(k)
               PROVE  FALSE
  <2>1. \A p \in stream.midchar : \E k \in Messages : Head(k) < p /\ p < End(k)
    BY DEF TypeOK, WellFormed, Head, End
  <2> QED
    BY <2>1
<1>2. /\ i \in Nat /\ k \in Nat
      /\ Start(i) \in Nat /\ Head(i) \in Nat /\ End(i) \in Nat
      /\ Start(i) < Head(i) /\ Head(i) <= End(i)
      /\ Start(k) \in Nat /\ Head(k) \in Nat /\ End(k) \in Nat /\ Start(k) < Head(k)
  BY Shape, FramingAssumption DEF Messages
<1>3. k < i => End(k) <= Start(i)
  BY Shape
<1>4. i < k => End(i) <= Start(k)
  BY Shape
<1> QED
  BY <1>1, <1>2, <1>3, <1>4

\* A message is in the shadow of the one before it, and from the end of a header
\* the shadow goes no further than from any cut inside that message, or inside
\* the one before when the rest of that one is undecodable.
LEMMA ShadowOfPrevious ==
  ASSUME TypeOK, NEW i \in Messages, NEW cut
  PROVE  /\ Shadow(i, Head(i)) \subseteq Shadow(i, cut)
         /\ i - 1 \in Messages =>
              /\ i \in Shadow(i - 1, cut)
              /\ i - 1 \in stream.opaque \/ cut \in stream.midchar =>
                   Shadow(i, Head(i)) \subseteq Shadow(i - 1, cut)
<1>1. i \in Nat /\ Messages \subseteq Nat
  BY FramingAssumption DEF Messages
<1>2. ASSUME NEW x \in Shadow(i, Head(i))
      PROVE  x \in Messages /\ i < x /\ i .. x - 2 \subseteq stream.opaque
  BY CleanPositions DEF Shadow, Blind
<1>3. Shadow(i, Head(i)) \subseteq Shadow(i, cut)
  BY <1>2 DEF Shadow
<1>4. ASSUME i - 1 \in Messages
      PROVE  i \in Shadow(i - 1, cut)
  BY <1>1 DEF Shadow
<1>5. ASSUME i - 1 \in Messages, i - 1 \in stream.opaque \/ cut \in stream.midchar,
             NEW x \in Shadow(i, Head(i))
      PROVE  x \in Shadow(i - 1, cut)
  <2>0. x \in Messages /\ i < x
    BY <1>2, <1>5
  <2>1. x \in Nat /\ i - 1 \in Nat /\ i - 1 < x
    BY <1>1, <1>5, <2>0
  <2>2. \A y \in (i - 1) .. x - 2 : y = i - 1 \/ y \in i .. x - 2
    BY <1>1, <2>1
  <2>3. i - 1 \in stream.opaque \union Blind(i - 1, cut)
    BY <1>5 DEF Blind
  <2>4. (i - 1) .. x - 2 \subseteq stream.opaque \union Blind(i - 1, cut)
    BY <1>2, <2>2, <2>3
  <2> QED
    BY <1>2, <2>1, <2>4 DEF Shadow
<1> QED
  BY <1>3, <1>4, <1>5

\* A header that is not at the beginning of the buffer is of a message that has
\* been paid for already.
LEMMA LateHeaderIsAccounted ==
  ASSUME TypeOK, FramingInv, NEW i \in Messages, Upcoming(i), lo # Start(i)
  PROVE  Accounted(i)
<1>1. Position = lo
  BY WhereTheHeaderIs DEF FramingInv
<1>2. CASE Start(i) < lo /\ lo < End(i)
  BY <1>1, <1>2 DEF FramingInv, PassedAreAccounted
<1>3. CASE /\ i - 1 \in Messages /\ Start(i - 1) < lo /\ lo < End(i - 1)
  BY <1>1, <1>3, ShadowOfPrevious DEF FramingInv, ShadowIsAccounted
<1> QED
  BY <1>2, <1>3, WhereTheHeaderIs DEF FramingInv

\* Consuming a message that is framed, damaged or too large keeps the account.
LEMMA ConsumeMessage ==
  ASSUME TypeOK, FramingInv, NEW i \in Messages, Upcoming(i),
         stream' = stream, Position' = End(i),
         framed \subseteq framed', hurt' = hurt, Accounted(i)'
  PROVE  PassedAreAccounted' /\ ShadowIsAccounted'
<1>0. /\ Position = lo /\ lo \in Nat
      /\ \A j \in Messages : j < i => Head(j) <= lo
  BY WhereTheHeaderIs DEF FramingInv, Upcoming, TypeOK
<1>1. \A j \in Messages : /\ Start(j)' = Start(j) /\ End(j)' = End(j)
                          /\ Accounted(j) => Accounted(j)'
  BY DEF Start, End, Accounted, Fits
<1>2. /\ i \in Nat /\ \A j \in Messages : j \in Nat
  BY FramingAssumption DEF Messages
<1>3. ASSUME NEW j \in Messages, Start(j) < End(i)
      PROVE  j = i \/ (j < i /\ Start(j) < lo)
  <2>1. ~(i < j)
    BY <1>3, Shape
  <2>2. j < i => Start(j) < lo
    BY <1>0, Shape
  <2> QED
    BY <1>2, <2>1, <2>2
<1>4. PassedAreAccounted'
  <2>1. SUFFICES ASSUME NEW j \in Messages, Start(j) < End(i)
                 PROVE  Accounted(j)'
    BY <1>1 DEF PassedAreAccounted
  <2>2. CASE j = i
    BY <2>2
  <2>3. CASE Start(j) < lo
    BY <1>0, <1>1, <2>3 DEF FramingInv, PassedAreAccounted
  <2> QED
    BY <1>3, <2>1, <2>2, <2>3
<1>5. ShadowIsAccounted'
  <2>1. \A k \in Messages : ~(Start(k) < End(i) /\ End(i) < End(k))
    <3>1. SUFFICES ASSUME NEW k \in Messages, Start(k) < End(i), End(i) < End(k)
                   PROVE  FALSE
      OBVIOUS
    <3>2. k = i \/ k < i
      BY <1>3, <3>1
    <3>3. k < i => End(k) <= Start(i)
      BY Shape
    <3> QED
      BY <3>1, <3>2, <3>3, Shape
  <2> QED
    BY <1>1, <2>1 DEF ShadowIsAccounted
<1> QED
  BY <1>4, <1>5

\* Consuming only the header of a message that has lost its beginning, or that
\* comes right behind an undecodable rest, keeps the account too.
LEMMA ConsumeHeader ==
  ASSUME TypeOK, FramingInv, NEW i \in Messages, Upcoming(i),
         \/ Start(i) < lo /\ lo < End(i)
         \/ lo < Start(i) /\ (i - 1 \in stream.opaque \/ lo \in stream.midchar),
         stream' = stream, Position' = Head(i), framed' = framed, hurt' = hurt
  PROVE  PassedAreAccounted' /\ ShadowIsAccounted'
<1>0. /\ Position = lo /\ lo \in Nat
      /\ \A j \in Messages : j < i => Head(j) <= lo
  BY WhereTheHeaderIs DEF FramingInv, Upcoming, TypeOK
<1>1. \A j \in Messages : /\ Start(j)' = Start(j) /\ End(j)' = End(j)
                          /\ Accounted(j)' <=> Accounted(j)
                          /\ Shadow(j, Position)' = Shadow(j, Head(i))
  BY DEF Start, End, Accounted, Fits, Shadow, Blind
<1>2. /\ i \in Nat /\ \A j \in Messages : j \in Nat
  BY FramingAssumption DEF Messages
<1>3. ASSUME NEW j \in Messages, Start(j) < Head(i)
      PROVE  j = i \/ (j < i /\ Start(j) < lo)
  <2>1. ~(i < j)
    BY <1>3, Shape
  <2>2. j < i => Start(j) < lo
    BY <1>0, Shape
  <2> QED
    BY <1>2, <2>1, <2>2
<1>4. Accounted(i)
  BY LateHeaderIsAccounted, Shape, <1>0
<1>5. PassedAreAccounted'
  <2>1. SUFFICES ASSUME NEW j \in Messages, Start(j) < Head(i)
                 PROVE  Accounted(j)
    BY <1>1 DEF PassedAreAccounted
  <2>2. CASE Start(j) < lo
    BY <1>0, <2>2 DEF FramingInv, PassedAreAccounted
  <2> QED
    BY <1>3, <1>4, <2>1, <2>2
<1>6. \A x \in Shadow(i, Head(i)) : Accounted(x)
  <2>1. CASE Start(i) < lo /\ lo < End(i)
    <3>1. \A x \in Shadow(i, lo) : Accounted(x)
      BY <1>0, <2>1 DEF FramingInv, ShadowIsAccounted
    <3> QED
      BY <3>1, ShadowOfPrevious
  <2>2. CASE lo < Start(i) /\ (i - 1 \in stream.opaque \/ lo \in stream.midchar)
    <3>1. /\ i - 1 \in Messages
          /\ Start(i - 1) < lo /\ lo < End(i - 1)
      BY <1>0, <2>2, WhereTheHeaderIs, Shape DEF FramingInv
    <3>2. \A x \in Shadow(i - 1, lo) : Accounted(x)
      BY <1>0, <3>1 DEF FramingInv, ShadowIsAccounted
    <3> QED
      BY <2>2, <3>1, <3>2, ShadowOfPrevious
  <2> QED
    BY <2>1, <2>2
<1>7. ShadowIsAccounted'
  <2>1. SUFFICES ASSUME NEW k \in Messages, Start(k) < Head(i), Head(i) < End(k),
                        NEW x \in Shadow(k, Head(i))
                 PROVE  Accounted(x)
    <3>1. \A k \in Messages : Shadow(k, Head(i)) \subseteq Messages
      BY DEF Shadow
    <3> QED
      BY <1>1, <3>1 DEF ShadowIsAccounted
  <2>2. k = i
    <3>1. k < i => End(k) <= Start(i)
      BY Shape
    <3> QED
      BY <1>3, <2>1, <3>1, Shape
  <2> QED
    BY <1>6, <2>1, <2>2
<1> QED
  BY <1>5, <1>7

\* A cut costs what Damage says and no more.
LEMMA CutKeepsAccount ==
  ASSUME TypeOK, FramingInv, NEW cut \in Nat, lo <= cut, CutAt(cut), skip' = 0,
         stream' = stream, framed' = framed
  PROVE  PassedAreAccounted' /\ ShadowIsAccounted'
<1>1. /\ Position' = cut /\ hurt' = hurt \union Damage(cut)
      /\ lo \in Nat /\ skip \in Nat /\ lo <= Position
  BY DEF CutAt, Position, TypeOK
<1>2. \A j \in Messages : /\ Start(j)' = Start(j) /\ End(j)' = End(j)
                          /\ Shadow(j, Position)' = Shadow(j, cut)
                          /\ Accounted(j) => Accounted(j)'
                          /\ j \in Damage(cut) => Accounted(j)'
  BY <1>1 DEF Start, End, Accounted, Fits, Shadow, Blind
<1>3. PassedAreAccounted'
  <2>1. SUFFICES ASSUME NEW j \in Messages, Start(j) < cut
                 PROVE  Accounted(j)'
    BY <1>1, <1>2 DEF PassedAreAccounted
  <2>2. CASE lo < End(j)
    BY <1>2, <2>1, <2>2 DEF Damage
  <2>3. CASE End(j) <= lo
    <3>1. Start(j) < Position
      BY <1>1, <2>3, Shape DEF Position
    <3> QED
      BY <1>2, <3>1 DEF FramingInv, PassedAreAccounted
  <2> QED
    BY <1>1, <2>2, <2>3, Shape
<1>4. ShadowIsAccounted'
  <2>1. SUFFICES ASSUME NEW k \in Messages, Start(k) < cut, cut < End(k),
                        NEW x \in Shadow(k, cut)
                 PROVE  Accounted(x)'
    BY <1>1, <1>2 DEF ShadowIsAccounted
  <2>2. x \in Messages /\ x \in Damage(cut)
    BY <2>1 DEF Damage, Shadow
  <2> QED
    BY <1>2, <2>2
<1> QED
  BY <1>3, <1>4

-----------------------------------------------------------------------------
(* Every step keeps the invariant.                                         *)

\* Appending bytes moves nothing: what is skipped was consumed already.
LEMMA FeedStep ==
  ASSUME TypeOK, FramingInv, NEW n \in Chunks, Feed(n)
  PROVE  FramingInv'
<1> DEFINE step == Smaller(skip, hi' - lo)
<1>1. /\ n \in Nat /\ hi' = hi + n /\ lo' = lo + step /\ skip' = skip - step
      /\ scanning' = TRUE /\ stream' = stream /\ framed' = framed /\ hurt' = hurt
  BY FramingAssumption DEF Feed, Extend
<1>2. /\ skip \in Nat /\ lo \in Nat /\ hi \in Nat /\ lo <= hi /\ hi' - lo \in Nat
  BY <1>1 DEF TypeOK
<1>3. step \in Nat /\ step <= skip /\ step <= hi' - lo /\ (step = skip \/ step = hi' - lo)
  BY <1>2, SmallerType
<1> HIDE DEF step
<1>4. Position' = Position
  BY <1>1, <1>2, <1>3 DEF Position
<1>5. Walking'
  <2>1. SUFFICES ASSUME skip' > 0
                 PROVE  lo' = hi' /\ \E i \in Messages : hi' + skip' = End(i)'
    BY DEF Walking
  <2>2. skip > 0 /\ step = hi' - lo /\ lo' = hi'
    BY <1>1, <1>2, <1>3, <2>1
  <2>3. lo = hi /\ \E i \in Messages : hi + skip = End(i)
    BY <2>2 DEF FramingInv, Walking
  <2>4. hi' + skip' = hi + skip
    BY <1>1, <1>2, <1>3, <2>2, <2>3
  <2> QED
    BY <1>1, <2>2, <2>3, <2>4 DEF End
<1>6. PassedAreAccounted' /\ ShadowIsAccounted'
  BY <1>1, <1>4 DEF FramingInv, PassedAreAccounted, ShadowIsAccounted, Accounted, Fits,
                   Shadow, Blind, Start, End
<1>7. ScannedOut'
  BY <1>1 DEF ScannedOut
<1> QED
  BY <1>5, <1>6, <1>7 DEF FramingInv

LEMMA WalkPastStep ==
  ASSUME TypeOK, FramingInv, NEW i \in Messages, WalkPast(i)
  PROVE  FramingInv'
<1>1. /\ Upcoming(i) /\ scanning' = TRUE /\ TooLarge(i) /\ MessageEnd(i) - lo > MaxMessage
      /\ lo' = Smaller(hi, MessageEnd(i)) /\ skip' = MessageEnd(i) - lo'
      /\ stream' = stream /\ hi' = hi /\ framed' = framed /\ hurt' = hurt
  BY DEF WalkPast, Turn, TypeOK, TooLarge
<1>2. /\ MessageEnd(i) \in Nat /\ hi \in Nat /\ lo \in Nat
      /\ lo < Head(i) /\ Head(i) <= hi
  BY <1>1, EndType DEF TypeOK, Upcoming
<1>3. /\ lo' \in Nat /\ lo' <= hi /\ lo' <= MessageEnd(i)
      /\ lo' = hi \/ lo' = MessageEnd(i)
  BY <1>1, <1>2, SmallerType
<1>4. Position' = MessageEnd(i)
  BY <1>1, <1>2, <1>3 DEF Position
<1>5. CASE MessageEnd(i) = End(i)
  <2>1. Accounted(i)
    <3>1. CASE lo = Start(i)
      <4>1. ~Fits(i)
        BY <1>1, <1>2, <1>5, <3>1, FramingAssumption DEF Fits
      <4> QED
        BY <4>1 DEF Accounted
    <3> QED
      BY <1>1, <3>1, LateHeaderIsAccounted
  <2>2. Accounted(i)'
    BY <1>1, <2>1 DEF Accounted, Fits, Start, End
  <2>3. PassedAreAccounted' /\ ShadowIsAccounted'
    BY <1>1, <1>4, <1>5, <2>2, ConsumeMessage
  <2>4. Walking'
    <3>1. skip' > 0 => lo' = hi'
      BY <1>1, <1>2, <1>3
    <3>2. skip' > 0 => hi' + skip' = End(i)
      BY <1>1, <1>2, <1>3, <1>5
    <3> QED
      BY <1>1, <3>1, <3>2 DEF Walking, End
  <2> QED
    BY <1>1, <2>3, <2>4 DEF FramingInv, ScannedOut
<1>6. CASE MessageEnd(i) = Head(i) /\ stream.line[i] < lo
  <2>1. Start(i) < lo /\ lo < End(i)
    BY <1>2, <1>6, Shape
  <2>2. PassedAreAccounted' /\ ShadowIsAccounted'
    BY <1>1, <1>4, <1>6, <2>1, ConsumeHeader
  <2>3. skip' = 0
    BY <1>1, <1>2, <1>3, <1>6
  <2> QED
    BY <1>1, <2>2, <2>3 DEF FramingInv, ScannedOut, Walking
<1> QED
  BY <1>5, <1>6, EndType

LEMMA DropHeadStep ==
  ASSUME TypeOK, FramingInv, NEW i \in Messages, DropHead(i)
  PROVE  FramingInv'
<1>1. /\ Upcoming(i) /\ scanning' = TRUE /\ Undecodable(i)
      /\ lo' = Head(i) /\ skip' = skip
      /\ stream' = stream /\ hi' = hi /\ framed' = framed /\ hurt' = hurt
  BY DEF DropHead, Turn, TypeOK
<1>2. PICK j \in Messages : /\ j < i /\ lo < End(j)
                            /\ j \in stream.opaque \/ lo \in stream.midchar
  <2>1. CASE lo \in stream.midchar
    <3>1. PICK k \in Messages : Head(k) < lo /\ lo < End(k)
      BY <2>1 DEF TypeOK, WellFormed, Head, End
    <3>2. lo \in Nat /\ lo < Head(i) /\ Head(i) \in Nat /\ Head(k) \in Nat /\ k # i
      BY <1>1, <3>1, Shape DEF Upcoming, TypeOK
    <3>3. ~(i < k)
      BY <3>1, <3>2, Shape
    <3>4. k < i
      BY <3>2, <3>3, FramingAssumption DEF Messages
    <3> QED
      BY <2>1, <3>1, <3>4
  <2>2. CASE \E k \in stream.opaque : k < i /\ lo < End(k)
    BY <2>2 DEF TypeOK, WellFormed
  <2> QED
    BY <1>1, <2>1, <2>2 DEF Undecodable
<1>3. i \in Nat /\ j \in Nat
  BY FramingAssumption DEF Messages
<1>4. lo \in Nat /\ Head(j) <= lo
  BY <1>1, <1>2, <1>3 DEF Upcoming, TypeOK
<1>5. lo < Start(i) /\ i - 1 \in Messages
  <2>1. End(j) <= Start(i)
    BY <1>2, <1>3, Shape
  <2> QED
    BY <1>1, <1>2, <1>3, <1>4, <2>1, Shape, WhereTheHeaderIs DEF FramingInv
<1>6. j = i - 1
  <2>1. j < i - 1 => End(j) <= Start(i - 1)
    BY <1>3, <1>5, Shape
  <2>2. Start(i - 1) < lo
    BY <1>1, <1>4, <1>5, Shape, WhereTheHeaderIs DEF FramingInv
  <2> QED
    BY <1>2, <1>3, <1>4, <1>5, <2>1, <2>2, Shape
<1>7. skip = 0 /\ Position' = Head(i)
  <2>1. skip = 0
    BY <1>1, WhereTheHeaderIs DEF FramingInv
  <2> QED
    BY <1>1, <2>1, Shape DEF Position
<1>8. PassedAreAccounted' /\ ShadowIsAccounted'
  BY <1>1, <1>2, <1>5, <1>6, <1>7, ConsumeHeader
<1> QED
  BY <1>1, <1>7, <1>8 DEF FramingInv, ScannedOut, Walking

LEMMA FrameStep ==
  ASSUME TypeOK, FramingInv, NEW i \in Messages, Frame(i)
  PROVE  FramingInv'
<1>1. /\ Upcoming(i) /\ scanning' = TRUE
      /\ lo' = MessageEnd(i) /\ skip' = skip
      /\ framed' = IF lo = Start(i) THEN framed \union {i} ELSE framed
      /\ stream' = stream /\ hi' = hi /\ hurt' = hurt
  BY DEF Frame, Turn, TypeOK
<1>2. skip = 0 /\ Position' = MessageEnd(i)
  <2>1. skip = 0
    BY <1>1, WhereTheHeaderIs DEF FramingInv
  <2> QED
    BY <1>1, <2>1, EndType DEF Position
<1>3. lo \in Nat /\ lo < Head(i)
  BY <1>1 DEF TypeOK, Upcoming
<1>4. Walking' /\ ScannedOut'
  BY <1>1, <1>2 DEF Walking, ScannedOut
<1>5. CASE MessageEnd(i) = End(i)
  <2>1. Accounted(i)'
    <3>1. CASE lo = Start(i)
      BY <1>1, <3>1 DEF Accounted
    <3>2. CASE lo # Start(i)
      <4>1. Accounted(i)
        BY <1>1, <3>2, LateHeaderIsAccounted
      <4> QED
        BY <1>1, <4>1 DEF Accounted, Fits, Start, End
    <3> QED
      BY <3>1, <3>2
  <2>2. PassedAreAccounted' /\ ShadowIsAccounted'
    BY <1>1, <1>2, <1>5, <2>1, ConsumeMessage
  <2> QED
    BY <1>4, <2>2 DEF FramingInv
<1>6. CASE MessageEnd(i) = Head(i) /\ stream.line[i] < lo
  <2>1. Start(i) < lo /\ lo < End(i) /\ lo # Start(i)
    BY <1>3, <1>6, Shape
  <2>2. PassedAreAccounted' /\ ShadowIsAccounted'
    BY <1>1, <1>2, <1>6, <2>1, ConsumeHeader
  <2> QED
    BY <1>4, <2>2 DEF FramingInv
<1> QED
  BY <1>5, <1>6, EndType

\* A cut leaves the loop with nothing to do: it takes bytes from the front of a
\* buffer without a header, or all of them.
LEMMA CutStep ==
  ASSUME TypeOK, FramingInv, NEW cut \in Nat, lo <= cut, cut <= hi,
         ~HeadInSight \/ cut = hi,
         CutAt(cut), skip' = 0, stream' = stream, hi' = hi, framed' = framed
  PROVE  FramingInv'
<1>1. PassedAreAccounted' /\ ShadowIsAccounted'
  BY CutKeepsAccount
<1>2. ~HeadInSight'
  <2>1. SUFFICES ASSUME NEW i \in Messages, cut < Head(i), Head(i) <= hi
                 PROVE  FALSE
    BY DEF HeadInSight, CutAt, Head
  <2>2. lo \in Nat /\ hi \in Nat /\ Head(i) \in Nat
    BY Shape DEF TypeOK
  <2> QED
    BY <2>1, <2>2 DEF HeadInSight
<1> QED
  BY <1>1, <1>2 DEF FramingInv, Walking, ScannedOut, AtRest

LEMMA EndCallStep ==
  ASSUME TypeOK, FramingInv, EndCall
  PROVE  FramingInv'
<1>0. /\ lo \in Nat /\ hi \in Nat /\ lo <= hi /\ skip \in Nat
      /\ MaxScan \in Nat /\ MaxMessage \in Nat /\ MaxScan <= MaxMessage
  BY FramingAssumption DEF TypeOK
<1>1. PICK cut \in Nat : /\ lo <= cut /\ cut <= hi /\ EndsCall(cut)
                         /\ cut = lo \/ cut = hi \/ ~HeadInSight
  BY <1>0 DEF EndCall
<1>2. /\ AtRest /\ stream' = stream /\ hi' = hi /\ skip' = skip /\ framed' = framed
      /\ IF cut = lo THEN lo' = lo /\ hurt' = hurt ELSE CutAt(cut)
  BY <1>1 DEF EndsCall
<1>3. CASE cut = lo
  <2>1. UNCHANGED <<stream, lo, hi, skip, framed, hurt>>
    BY <1>2, <1>3
  <2>2. AtRest'
    BY <1>2, <2>1 DEF AtRest, HeadInSight, Upcoming, Undecodable, TooLarge, IsChunked,
                      MessageEnd, LengthKnown, Start, Head, End
  <2>3. Walking' /\ PassedAreAccounted' /\ ShadowIsAccounted'
    BY <2>1 DEF FramingInv, Walking, PassedAreAccounted, ShadowIsAccounted, Accounted,
                Fits, Shadow, Blind, Position, Start, End
  <2> QED
    BY <2>2, <2>3 DEF FramingInv, ScannedOut
<1>4. CASE cut # lo
  <2>1. skip' = 0
    BY <1>0, <1>1, <1>2, <1>4 DEF FramingInv, Walking
  <2> QED
    BY <1>1, <1>2, <1>4, <2>1, CutStep
<1> QED
  BY <1>3, <1>4

LEMMA FramingStep ==
  ASSUME TypeOK, FramingInv, [Next]_vars
  PROVE  FramingInv'
<1>0. lo \in Nat /\ hi \in Nat /\ lo <= hi /\ skip \in Nat
  BY DEF TypeOK
<1>1. ASSUME BufferDropped
      PROVE  FramingInv'
  <2>1. /\ lo < hi /\ CutAt(hi) /\ stream' = stream /\ hi' = hi /\ skip' = skip
        /\ framed' = framed
    BY <1>1 DEF BufferDropped
  <2>2. skip' = 0
    BY <1>0, <2>1 DEF FramingInv, Walking
  <2> QED
    BY <1>0, <2>1, <2>2, CutStep
<1>2. ASSUME ConnectionPruned
      PROVE  FramingInv'
  <2>1. /\ CutAt(hi) /\ stream' = stream /\ hi' = hi /\ skip' = 0 /\ framed' = framed
    BY <1>2 DEF ConnectionPruned
  <2> QED
    BY <1>0, <2>1, CutStep
<1>3. ASSUME UNCHANGED vars
      PROVE  FramingInv'
  <2>1. /\ stream' = stream /\ lo' = lo /\ hi' = hi /\ skip' = skip
        /\ scanning' = scanning /\ framed' = framed /\ hurt' = hurt
    BY <1>3 DEF vars
  <2>2. AtRest' <=> AtRest
    BY <2>1 DEF AtRest, HeadInSight, Upcoming, Undecodable, TooLarge, IsChunked,
                MessageEnd, LengthKnown, Start, Head, End
  <2> QED
    BY <2>1, <2>2 DEF FramingInv, Walking, PassedAreAccounted, ShadowIsAccounted,
                      Accounted, Fits, Shadow, Blind, Position, Start,
                      End, ScannedOut
<1> QED
  BY <1>1, <1>2, <1>3, FeedStep, WalkPastStep, DropHeadStep, FrameStep, EndCallStep
     DEF Next

\* The account behind the next two theorems: whatever is consumed was framed,
\* is too large, or was paid for by a cut (scanner.rs:641-895).
THEOREM FramingInvariant == Spec => []FramingInv
<1>1. Init => FramingInv
  <2>1. SUFFICES ASSUME Init PROVE FramingInv
    OBVIOUS
  <2>2. WellFormed(stream) /\ lo = 0 /\ hi = 0 /\ skip = 0 /\ scanning = FALSE
    BY <2>1, FramingAssumption DEF Init
  <2>3. \A i \in Messages : Start(i) \in Nat /\ Start(i) <= stream.line[i]
                            /\ stream.line[i] < Head(i) /\ stream.line[i] \in Nat
                            /\ Head(i) \in Nat
    <3>1. \A i \in Messages : i \in 1 .. Last + 1
      BY FramingAssumption DEF Messages
    <3> QED
      BY <2>2, <3>1 DEF WellFormed, Start, Head
  <2>4. Position = 0 /\ ~HeadInSight
    BY <2>2, <2>3 DEF Position, HeadInSight
  <2>5. \A i \in Messages : ~(Start(i) < Position)
    BY <2>3, <2>4
  <2> QED
    BY <2>2, <2>4, <2>5 DEF FramingInv, Walking, PassedAreAccounted, ShadowIsAccounted,
                            ScannedOut, AtRest
<1>2. TypeOK /\ FramingInv /\ [Next]_vars => FramingInv'
  BY FramingStep
<1> QED
  BY <1>1, <1>2, FramingTypeCorrect, PTL DEF Spec

\* A message that has arrived whole was framed by the end of the call, unless it
\* is too large or a cut cost it (scanner.rs:663-716, 861-889).
THEOREM WholeMessagesAreFramed == Spec => []CompleteIsFramed
<1>1. TypeOK /\ FramingInv => CompleteIsFramed
  <2>1. SUFFICES ASSUME TypeOK, FramingInv, ~scanning,
                        NEW i \in Messages, End(i) <= hi, Fits(i),
                        i \notin framed \union hurt
                 PROVE  FALSE
    BY DEF CompleteIsFramed
  <2>2. /\ lo \in Nat /\ hi \in Nat /\ skip \in Nat /\ lo <= hi
        /\ Start(i) \in Nat /\ Start(i) < Head(i) /\ Head(i) <= End(i)
    BY <2>1, Shape DEF TypeOK
  <2>3. lo <= Start(i)
    BY <2>1, <2>2 DEF FramingInv, PassedAreAccounted, Accounted, Position
  <2>4. HeadInSight
    BY <2>1, <2>2, <2>3, Shape DEF HeadInSight
  <2>5. PICK j \in Messages : Upcoming(j) /\ hi < MessageEnd(j)
    BY <2>1, <2>4 DEF FramingInv, ScannedOut, AtRest
  <2>6. hi < End(j)
    BY <2>1, <2>2, <2>5, EndType, Shape
  <2>7. ~(j < i)
    BY <2>1, <2>2, <2>6, Shape
  <2>8. ~(i < j)
    <3>1. i < j => Head(i) <= lo
      BY <2>5 DEF Upcoming
    <3>2. Head(i) \in Nat
      BY <2>1, Shape
    <3> QED
      BY <2>2, <2>3, <3>1, <3>2
  <2>9. i = j
    BY <2>7, <2>8, FramingAssumption DEF Messages
  <2> QED
    BY <2>1, <2>2, <2>6, <2>9, Shape
<1> QED
  BY <1>1, FramingTypeCorrect, FramingInvariant, PTL

\* The walk past a body ends on the byte where the next message starts
\* (scanner.rs:648-660, 697-707).
THEOREM WalksEndRight == Spec => []WalkEndsAtMessage
<1>1. FramingInv => WalkEndsAtMessage
  BY DEF FramingInv, Walking, WalkEndsAtMessage
<1> QED
  BY <1>1, FramingInvariant, PTL

\* Between two calls the buffer holds no more than one message (scanner.rs:864).
THEOREM BufferStaysBounded == Spec => []BufferBounded
<1>1. Init => BufferBounded
  BY FramingAssumption DEF Init, BufferBounded
<1>2. TypeOK /\ BufferBounded /\ [Next]_vars => BufferBounded'
  <2>1. SUFFICES ASSUME TypeOK, BufferBounded, [Next]_vars
                 PROVE  BufferBounded'
    OBVIOUS
  <2>2. lo \in Nat /\ hi \in Nat /\ MaxMessage \in Nat /\ MaxScan \in Nat
        /\ MaxScan <= MaxMessage
    BY <2>1, FramingAssumption DEF TypeOK
  <2>3. ASSUME EndCall
        PROVE  BufferBounded'
    <3>1. PICK cut \in Int : hi - cut <= MaxMessage /\ EndsCall(cut)
      BY <2>2, <2>3 DEF EndCall
    <3>2. hi' = hi /\ lo' = cut
      BY <3>1 DEF EndsCall, CutAt
    <3> QED
      BY <3>1, <3>2 DEF BufferBounded
  <2>4. ASSUME BufferDropped \/ ConnectionPruned
        PROVE  BufferBounded'
    BY <2>2, <2>4 DEF BufferDropped, ConnectionPruned, CutAt, BufferBounded
  <2>5. ASSUME (\E n \in Chunks : Feed(n))
               \/ (\E i \in Messages : WalkPast(i) \/ DropHead(i) \/ Frame(i))
        PROVE  BufferBounded'
    <3>1. scanning'
      BY <2>1, <2>5 DEF Feed, Extend, WalkPast, DropHead, Frame, Turn, TypeOK
    <3> QED
      BY <3>1 DEF BufferBounded
  <2>6. ASSUME UNCHANGED vars
        PROVE  BufferBounded'
    BY <2>1, <2>6 DEF vars, BufferBounded
  <2> QED
    BY <2>1, <2>3, <2>4, <2>5, <2>6 DEF Next
<1> QED
  BY <1>1, <1>2, FramingTypeCorrect, PTL DEF Spec
-----------------------------------------------------------------------------
(* A connection that is left to itself.                                    *)

\* What NoNeedlessCut asks for.
LeftToItself ==
  /\ ~forgotten
  /\ \A i \in Messages : Head(i) - Start(i) <= MaxScan
  /\ \A i \in stream.chunked : Fits(i)

\* Parsing goes on at the beginning of a message, or at the end of the stream.
Aligned == Position = End(Last) \/ \E k \in Messages : Position = Start(k)

NothingCut == LeftToItself => hurt = {} /\ Aligned

\* In an aligned buffer the next header is that of the first message in it.
LEMMA AlignedHeader ==
  ASSUME TypeOK, Walking, Aligned, NEW i \in Messages, Upcoming(i)
  PROVE  lo = Start(i)
<1>1. /\ Position = lo /\ lo \in Nat /\ lo < Head(i)
      /\ \A j \in Messages : j < i => Head(j) <= lo
  BY WhereTheHeaderIs DEF Upcoming, TypeOK
<1>2. i \in Nat /\ Last \in Nat /\ i <= Last /\ \A j \in Messages : j \in Nat
  BY FramingAssumption DEF Messages
<1>3. lo # End(Last)
  <2>1. i < Last => End(i) <= Start(Last)
    BY LastIsMessage, Shape
  <2>2. Head(i) <= End(Last) /\ End(Last) \in Nat
    <3>1. CASE i = Last
      BY <3>1, Shape
    <3>2. CASE i < Last
      BY <2>1, <3>2, LastIsMessage, Shape
    <3> QED
      BY <1>2, <3>1, <3>2
  <2> QED
    BY <1>1, <2>2, Shape
<1>4. PICK k \in Messages : lo = Start(k)
  BY <1>1, <1>3 DEF Aligned
<1>5. ~(k < i)
  BY <1>1, <1>4, Shape
<1>6. ~(i < k)
  BY <1>1, <1>4, Shape
<1> QED
  BY <1>2, <1>4, <1>5, <1>6

\* After a whole message comes another one, or nothing.
LEMMA NextIsAligned ==
  ASSUME TypeOK, NEW i \in Messages, stream' = stream, Position' = End(i)
  PROVE  Aligned'
<1>1. i \in Nat /\ Last \in Nat /\ i <= Last
  BY FramingAssumption DEF Messages
<1>2. CASE i = Last
  BY <1>2 DEF Aligned, End
<1>3. CASE i < Last
  <2>1. i + 1 \in Messages /\ Start(i + 1)' = End(i)
    BY <1>1, <1>3 DEF Messages, Start, End
  <2> QED
    BY <2>1 DEF Aligned
<1> QED
  BY <1>1, <1>2, <1>3

\* The caps do not touch an aligned buffer.
LEMMA AlignedIsKept ==
  ASSUME TypeOK, Walking, LeftToItself, Aligned, EndCall
  PROVE  UNCHANGED <<stream, lo, hi, skip, hurt>>
<1>0. /\ lo \in Nat /\ hi \in Nat /\ lo <= hi /\ skip \in Nat
      /\ MaxScan \in Nat /\ MaxMessage \in Nat /\ MaxScan <= MaxMessage
      /\ hi <= End(Last) /\ End(Last) \in Nat /\ AtRest
  BY FramingAssumption, LastIsMessage, Shape DEF TypeOK, EndCall, EndsCall
<1>1. hi - lo <= MaxMessage /\ (hi - lo <= MaxScan \/ HeadInSight)
  <2>1. CASE HeadInSight
    <3>1. PICK i \in Messages : Upcoming(i) /\ ~TooLarge(i) /\ hi < MessageEnd(i)
      BY <1>0, <2>1 DEF AtRest
    <3>2. lo = Start(i) /\ MessageEnd(i) = End(i) /\ LengthKnown(i)
      <4>1. lo = Start(i)
        BY <3>1, AlignedHeader
      <4> QED
        BY <4>1, Shape DEF LengthKnown, MessageEnd
    <3>3. End(i) - lo <= MaxMessage
      <4>1. CASE i \in stream.chunked
        BY <3>2, <4>1 DEF LeftToItself, Fits
      <4>2. CASE i \notin stream.chunked
        BY <1>0, <3>1, <3>2, <4>2, Shape DEF TooLarge, IsChunked
      <4> QED
        BY <4>1, <4>2
    <3> QED
      BY <1>0, <2>1, <3>1, <3>2, <3>3, Shape
  <2>2. CASE ~HeadInSight
    <3>1. CASE skip > 0
      BY <1>0, <3>1 DEF Walking
    <3>2. CASE skip = 0
      <4>1. Position = lo
        BY <1>0, <3>2 DEF Position
      <4>2. CASE lo = End(Last)
        BY <1>0, <4>2
      <4>3. CASE \E k \in Messages : lo = Start(k)
        <5>1. PICK k \in Messages : lo = Start(k)
          BY <4>3
        <5>2. hi < Head(k) /\ Head(k) - Start(k) <= MaxScan
          BY <1>0, <2>2, <5>1, Shape DEF HeadInSight, LeftToItself
        <5> QED
          BY <1>0, <5>1, <5>2, Shape
      <4> QED
        BY <4>1, <4>2, <4>3 DEF Aligned
    <3> QED
      BY <1>0, <3>1, <3>2
  <2> QED
    BY <2>1, <2>2
<1>2. EndsCall(lo)
  BY <1>0, <1>1 DEF EndCall
<1> QED
  BY <1>2 DEF EndsCall

LEMMA NothingCutStep ==
  ASSUME TypeOK, Walking, NothingCut, [Next]_vars
  PROVE  NothingCut'
<1>1. SUFFICES ASSUME LeftToItself'
               PROVE  hurt' = {} /\ Aligned'
  BY DEF NothingCut
<1>2. stream' = stream
  BY DEF Next, Feed, Extend, WalkPast, DropHead, Frame, EndCall, EndsCall,
         BufferDropped, ConnectionPruned, vars
<1>3. forgotten' = FALSE \/ ~forgotten'
  BY <1>1 DEF LeftToItself
<1>4. ~BufferDropped /\ ~ConnectionPruned
  BY <1>1 DEF LeftToItself, BufferDropped, ConnectionPruned
<1>5. forgotten' = forgotten
  BY <1>4 DEF Next, Feed, Extend, WalkPast, DropHead, Frame, EndCall, EndsCall, vars
<1>6. LeftToItself /\ hurt = {} /\ Aligned
  <2>1. LeftToItself
    BY <1>1, <1>2, <1>5 DEF LeftToItself, Fits, Start, Head, End
  <2> QED
    BY <2>1 DEF NothingCut
<1>7. Position' = Position => Aligned'
  BY <1>2, <1>6 DEF Aligned, Start, End
<1>8. ASSUME NEW n \in Chunks, Feed(n)
      PROVE  hurt' = {} /\ Aligned'
  <2>1. /\ n \in Nat /\ hi' = hi + n /\ lo' = lo + Smaller(skip, hi' - lo)
        /\ skip' = skip - Smaller(skip, hi' - lo) /\ hurt' = hurt
    BY <1>8, FramingAssumption DEF Feed, Extend
  <2>2. skip \in Nat /\ lo \in Nat /\ hi' - lo \in Nat
    BY <2>1 DEF TypeOK
  <2>3. Smaller(skip, hi' - lo) \in Nat
    BY <2>2, SmallerType
  <2> QED
    BY <1>6, <1>7, <2>1, <2>2, <2>3 DEF Position
<1>9. ASSUME NEW i \in Messages, WalkPast(i) \/ DropHead(i) \/ Frame(i)
      PROVE  hurt' = {} /\ Aligned'
  <2>1. Upcoming(i) /\ hurt' = hurt
    BY <1>9 DEF WalkPast, DropHead, Frame, Turn
  <2>2. lo = Start(i) /\ skip = 0
    BY <1>6, <2>1, AlignedHeader, WhereTheHeaderIs
  <2>3. MessageEnd(i) = End(i) /\ End(i) \in Nat /\ hi \in Nat
    BY <2>2, Shape DEF MessageEnd, LengthKnown, TypeOK
  <2>4. ~Undecodable(i)
    <3>1. SUFFICES ASSUME NEW j \in stream.opaque, j < i, lo < End(j)
                   PROVE  FALSE
      BY <2>2, CleanPositions DEF Undecodable
    <3>2. j \in Messages
      BY DEF TypeOK, WellFormed
    <3>3. End(j) <= Start(i)
      BY <3>1, <3>2, Shape
    <3> QED
      BY <2>2, <3>1, <3>2, <3>3, Shape
  <2>5. Position' = End(i)
    <3>1. CASE WalkPast(i)
      <4>1. lo' = Smaller(hi, End(i)) /\ skip' = End(i) - lo'
        BY <2>3, <3>1 DEF WalkPast
      <4>2. Smaller(hi, End(i)) \in Nat
        BY <2>3, SmallerType
      <4> QED
        BY <2>3, <4>1, <4>2 DEF Position
    <3>2. CASE Frame(i)
      BY <2>2, <2>3, <3>2 DEF Frame, Position
    <3>3. CASE DropHead(i)
      BY <2>4, <3>3 DEF DropHead
    <3> QED
      BY <1>9, <3>1, <3>2, <3>3
  <2> QED
    BY <1>2, <1>6, <2>1, <2>5, NextIsAligned
<1>10. ASSUME EndCall
       PROVE  hurt' = {} /\ Aligned'
  BY <1>6, <1>7, <1>10, AlignedIsKept DEF Position
<1>11. ASSUME UNCHANGED vars
       PROVE  hurt' = {} /\ Aligned'
  BY <1>6, <1>7, <1>11 DEF vars, Position
<1> QED
  BY <1>4, <1>8, <1>9, <1>10, <1>11 DEF Next

\* A connection that is left to itself is never cut inside a message: the caps
\* only ever meet a buffer that begins with one (scanner.rs:861-869).
THEOREM NothingIsCutNeedlessly == Spec => []NoNeedlessCut
<1>1. Init => NothingCut
  <2>1. SUFFICES ASSUME Init PROVE NothingCut
    OBVIOUS
  <2>2. WellFormed(stream) /\ lo = 0 /\ skip = 0 /\ hurt = {}
    BY <2>1, FramingAssumption DEF Init
  <2>3. 1 \in Messages /\ Start(1) = 0 /\ Position = 0
    BY <2>2, FramingAssumption DEF WellFormed, Messages, Start, Position
  <2> QED
    BY <2>2, <2>3 DEF NothingCut, Aligned
<1>2. TypeOK /\ Walking /\ NothingCut /\ [Next]_vars => NothingCut'
  BY NothingCutStep
<1>3. FramingInv => Walking
  BY DEF FramingInv
<1>4. NothingCut => NoNeedlessCut
  BY DEF NothingCut, LeftToItself, NoNeedlessCut
<1> QED
  BY <1>1, <1>2, <1>3, <1>4, FramingTypeCorrect, FramingInvariant, PTL DEF Spec
=============================================================================

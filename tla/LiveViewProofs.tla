--------------------------- MODULE LiveViewProofs ---------------------------
(***************************************************************************)
(* Proofs about module LiveView, for any ports, any number of messages     *)
(* held for a page and any number of changes.                              *)
(***************************************************************************)
EXTENDS LiveView, SequenceTheorems, TLAPS

(* What a receiver holds is in the order it was written in, not older than *)
(* what the page was told and not newer than the state.                    *)
InOrder(q, l, v) ==
  /\ l <= v
  /\ \A i \in 1 .. Len(q) : l <= q[i] /\ q[i] <= v
  /\ \A i, j \in 1 .. Len(q) : i <= j => q[i] <= q[j]

(* Only a subscribed connection has a receiver, and only an open socket a  *)
(* connection; there is a version as soon as there is a program.           *)
ServerInv ==
  /\ InOrder(inbox, last, version)
  /\ conn # "subscribed" => inbox = <<>>
  /\ socket # "open" => conn = "none"
  /\ url = 0 => socket = "none"
  /\ app # "down" => version # 0
  /\ window = "wrote" => version # 0

(* The port is the configured one, except between its binding and its save.*)
PortInv == app # "bound" => port = config

-----------------------------------------------------------------------------
(* Messages held for a page.                                               *)

(* What appending a notification does to the messages held.                *)
LEMMA AppendFacts ==
  ASSUME NEW q \in Seq(Versions), NEW v \in Versions
  PROVE  /\ Append(q, v) \in Seq(Versions)
         /\ Len(Append(q, v)) = Len(q) + 1
         /\ \A i \in 1 .. Len(q) : Append(q, v)[i] = q[i]
         /\ Append(q, v)[Len(q) + 1] = v
  OBVIOUS

(* What dropping the oldest message held does.                             *)
LEMMA TailFacts ==
  ASSUME NEW q \in Seq(Versions), q # <<>>
  PROVE  /\ Tail(q) \in Seq(Versions)
         /\ Len(q) \in Nat \ {0}
         /\ Len(Tail(q)) = Len(q) - 1
         /\ \A i \in 1 .. Len(q) - 1 : Tail(q)[i] = q[i + 1]
         /\ Head(q) = q[1] /\ Head(q) \in Versions
  OBVIOUS

(* A notification of the current version keeps the order.                  *)
LEMMA AppendInOrder ==
  ASSUME NEW q \in Seq(Versions), NEW l \in Nat, NEW v \in Versions, InOrder(q, l, v)
  PROVE  InOrder(Append(q, v), l, v)
<1> DEFINE r == Append(q, v)
<1>1. /\ r \in Seq(Versions) /\ Len(r) = Len(q) + 1 /\ r[Len(q) + 1] = v
      /\ \A i \in 1 .. Len(q) : r[i] = q[i]
  BY AppendFacts
<1>2. \A i \in 1 .. Len(q) : q[i] \in Versions
  OBVIOUS
<1> HIDE DEF r
<1>3. QED
  <2>1. Len(q) \in Nat
    OBVIOUS
  <2>2. \A i \in 1 .. Len(r) : i \in 1 .. Len(q) \/ i = Len(q) + 1
    BY <1>1, <2>1
  <2>3. \A i \in 1 .. Len(r) : r[i] \in Nat /\ l <= r[i] /\ r[i] <= v
    <3>1. \A i \in 1 .. Len(q) : r[i] \in Nat /\ l <= r[i] /\ r[i] <= v
      BY <1>1, <1>2 DEF InOrder, Versions
    <3>2. v \in Nat /\ l <= v
      BY DEF InOrder, Versions
    <3>3. QED
      BY <1>1, <2>2, <3>1, <3>2
  <2>4. ASSUME NEW i \in 1 .. Len(r), NEW j \in 1 .. Len(r), i <= j
        PROVE  r[i] <= r[j]
    <3>1. CASE j = Len(q) + 1
      BY <1>1, <2>3, <3>1
    <3>2. CASE j \in 1 .. Len(q)
      <4>1. i \in 1 .. Len(q)
        BY <2>1, <2>4, <3>2
      <4>2. q[i] <= q[j]
        BY <2>4, <3>2, <4>1 DEF InOrder
      <4>3. QED
        BY <1>1, <3>2, <4>1, <4>2
    <3>3. QED
      BY <2>2, <3>1, <3>2
  <2>5. InOrder(r, l, v)
    BY <2>3, <2>4 DEF InOrder
  <2>6. QED
    BY <2>5 DEF r

(* Without the oldest message the others are still in order, and none of   *)
(* them is older than it.                                                  *)
LEMMA TailInOrder ==
  ASSUME NEW q \in Seq(Versions), q # <<>>, NEW l \in Nat, NEW v \in Nat, InOrder(q, l, v)
  PROVE  InOrder(Tail(q), l, v) /\ InOrder(Tail(q), Head(q), v)
<1> DEFINE r == Tail(q)
<1>1. /\ Len(q) \in Nat \ {0} /\ Len(r) = Len(q) - 1 /\ Head(q) = q[1]
      /\ \A i \in 1 .. Len(q) - 1 : r[i] = q[i + 1]
  BY TailFacts
<1> HIDE DEF r
<1>2. \A i \in 1 .. Len(r) : r[i] = q[i + 1] /\ i + 1 \in 1 .. Len(q)
  BY <1>1
<1>3. 1 \in 1 .. Len(q) /\ \A i \in 1 .. Len(q) : q[i] \in Nat /\ 1 <= i
  BY <1>1 DEF Versions
<1>4. \A i \in 1 .. Len(q) : q[1] <= q[i]
  BY <1>3 DEF InOrder
<1>5. \A i, j \in 1 .. Len(r) : i <= j => r[i] <= r[j]
  <2> SUFFICES ASSUME NEW i \in 1 .. Len(r), NEW j \in 1 .. Len(r), i <= j
               PROVE  r[i] <= r[j]
    OBVIOUS
  <2>1. i + 1 <= j + 1
    BY <1>1
  <2>2. q[i + 1] <= q[j + 1]
    BY <1>2, <2>1 DEF InOrder
  <2>3. QED
    BY <1>2, <2>2
<1>6. \A i \in 1 .. Len(r) : l <= r[i] /\ r[i] <= v /\ Head(q) <= r[i]
  BY <1>1, <1>2, <1>4 DEF InOrder
<1>7. l <= v /\ Head(q) <= v
  BY <1>1, <1>3 DEF InOrder
<1>8. InOrder(r, l, v) /\ InOrder(r, Head(q), v)
  BY <1>5, <1>6, <1>7 DEF InOrder
<1>9. QED
  BY <1>8 DEF r

(* An empty receiver holds no more than it can.                            *)
LEMMA NothingFits == <<>> \in Seq(Versions) /\ Len(<<>>) <= BroadcastCapacity
<1>1. <<>> \in Seq(Versions) /\ Len(<<>>) = 0
  OBVIOUS
<1>2. 0 <= BroadcastCapacity
  BY LiveViewAssumption
<1>3. QED
  BY <1>1, <1>2

(* With nothing held the order is trivial.                                 *)
LEMMA NothingHeld ==
  ASSUME NEW l \in Nat, NEW v \in Nat, l <= v
  PROVE  InOrder(<<>>, l, v)
  BY DEF InOrder

(* A newer version changes nothing about what is held.                     *)
LEMMA NewerVersion ==
  ASSUME NEW q \in Seq(Versions), NEW l \in Nat, NEW v \in Nat, InOrder(q, l, v)
  PROVE  InOrder(q, l, v + 1)
<1>1. \A i \in 1 .. Len(q) : q[i] \in Nat
  BY DEF Versions
<1>2. QED
  BY <1>1 DEF InOrder

(* What a notification does to the messages held for a page.               *)
LEMMA ReceivesFacts ==
  ASSUME TypeOK, ServerInv, version # 0, NEW receiving \in BOOLEAN, Receives(receiving)
  PROVE  /\ inbox' \in Seq(Versions) /\ Len(inbox') <= BroadcastCapacity
         /\ lagged' \in BOOLEAN
         /\ InOrder(inbox', last, version)
         /\ ~receiving => inbox' = inbox
<1>1. inbox \in Seq(Versions) /\ version \in Versions /\ version \in Nat /\ last \in Nat
      /\ Len(inbox) \in Nat /\ Len(inbox) <= BroadcastCapacity
      /\ InOrder(inbox, last, version) /\ lagged \in BOOLEAN
  BY DEF TypeOK, ServerInv, Versions
<1>2. BroadcastCapacity \in Nat \ {0}
  BY LiveViewAssumption
<1>3. CASE ~receiving
  BY <1>1, <1>3 DEF Receives
<1>4. CASE receiving /\ Len(inbox) < BroadcastCapacity
  <2>1. inbox' = Append(inbox, version) /\ lagged' = lagged
    BY <1>4 DEF Receives
  <2>2. Len(inbox') = Len(inbox) + 1 /\ inbox' \in Seq(Versions)
    BY <1>1, <2>1, AppendFacts
  <2>3. InOrder(inbox', last, version)
    BY <1>1, <2>1, AppendInOrder
  <2>4. QED
    BY <1>1, <1>2, <1>4, <2>1, <2>2, <2>3
<1>5. CASE receiving /\ ~(Len(inbox) < BroadcastCapacity)
  <2> DEFINE r == Tail(inbox)
  <2>1. inbox' = Append(r, version) /\ lagged' = TRUE
    BY <1>5 DEF Receives
  <2>2. inbox # <<>>
    BY <1>1, <1>2, <1>5
  <2>3. r \in Seq(Versions) /\ Len(r) = Len(inbox) - 1
    BY <1>1, <2>2, TailFacts
  <2>4. InOrder(r, last, version)
    BY <1>1, <2>2, TailInOrder
  <2> HIDE DEF r
  <2>5. inbox' \in Seq(Versions) /\ Len(inbox') = Len(r) + 1
    BY <1>1, <2>1, <2>3, AppendFacts
  <2>6. InOrder(inbox', last, version)
    BY <1>1, <2>1, <2>3, <2>4, AppendInOrder
  <2>7. QED
    BY <1>1, <1>2, <1>5, <2>1, <2>3, <2>5, <2>6
<1>6. QED
  BY <1>3, <1>4, <1>5

-----------------------------------------------------------------------------
(* The invariant.                                                          *)

(* Whatever the processes answer, the verdict is a status.                 *)
LEMMA VerdictsAreStatuses ==
  ASSUME NEW answers \in SUBSET Answers
  PROVE  Verdicts(answers) \subseteq Status
  BY DEF Verdicts, Answers, Status

(* The end of the program, however it comes: what was held for the page is *)
(* gone, and nothing the page was told is newer than the last state.       *)
LEMMA EndsKeeps ==
  ASSUME TypeOK, ServerInv, Ends, port' \in Port
  PROVE  TypeOK' /\ ServerInv'
<1>1. TypeOK'
  <2>1. inbox' \in Seq(Versions) /\ Len(inbox') <= BroadcastCapacity
    BY NothingFits DEF Ends, HangsUp
  <2>2. monitor' \in [pc : {"none", "round", "probe", "send"},
                      sample : Status, previous : Status \cup {"none"}]
    BY DEF Ends, Asleep, Status
  <2>3. QED
    BY <2>1, <2>2 DEF Ends, HangsUp, TypeOK
<1>2. InOrder(inbox', last', version')
  BY NothingHeld DEF Ends, HangsUp, TypeOK, ServerInv, InOrder
<1>3. ServerInv'
  BY <1>2 DEF Ends, HangsUp, ServerInv
<1>4. QED
  BY <1>1, <1>3

(* The invariant holds initially ...                                       *)
LEMMA InitInv ==
  ASSUME Init
  PROVE  TypeOK /\ ServerInv
<1>1. TypeOK
  <2>1. inbox \in Seq(Versions) /\ Len(inbox) <= BroadcastCapacity
    BY NothingFits DEF Init
  <2>2. monitor \in [pc : {"none", "round", "probe", "send"},
                     sample : Status, previous : Status \cup {"none"}]
    BY DEF Init, Asleep, Status
  <2>3. QED
    BY <2>1, <2>2 DEF Init, TypeOK, Status
<1>2. InOrder(inbox, last, version)
  BY NothingHeld DEF Init
<1>3. ServerInv
  BY <1>2 DEF Init, ServerInv
<1>4. QED
  BY <1>1, <1>3

(* ... and every step keeps it.                                            *)
LEMMA StepInv ==
  ASSUME TypeOK, ServerInv, [Next]_vars
  PROVE  TypeOK' /\ ServerInv'
<1>1. ASSUME NEW busy \in SUBSET Port, BindServer(busy)
      PROVE  TypeOK' /\ ServerInv'
  <2>1. TypeOK'
    BY <1>1 DEF BindServer, TypeOK, Status, gameVars, appVars, stateVars, serverVars, pageVars
  <2>2. InOrder(inbox', last', version')
    BY <1>1, NewerVersion
       DEF BindServer, TypeOK, ServerInv, gameVars, appVars, stateVars, serverVars, pageVars
  <2>3. ServerInv'
    BY <1>1, <2>2
       DEF BindServer, TypeOK, ServerInv, gameVars, appVars, stateVars, serverVars, pageVars
  <2>4. QED
    BY <2>1, <2>3
<1>2. CASE SavePort
  <2>1. TypeOK'
    BY <1>2 DEF SavePort, TypeOK, gameVars, appVars, stateVars, serverVars, pageVars
  <2>2. ServerInv'
    BY <1>2 DEF SavePort, ServerInv, TypeOK, gameVars, appVars, stateVars, serverVars, pageVars
  <2>3. QED
    BY <2>1, <2>2
<1>3. CASE SaveFails
  BY <1>3, EndsKeeps DEF SaveFails, TypeOK
<1>4. CASE OpenWindow
  <2>1. TypeOK'
    BY <1>4
       DEF OpenWindow, Asleep, TypeOK, Status,
           gameVars, appVars, stateVars, serverVars, pageVars
  <2>2. InOrder(inbox', last', version')
    BY <1>4, NewerVersion
       DEF OpenWindow, Asleep, TypeOK, ServerInv,
           gameVars, appVars, stateVars, serverVars, pageVars
  <2>3. ServerInv'
    BY <1>4, <2>2
       DEF OpenWindow, Asleep, TypeOK, ServerInv,
           gameVars, appVars, stateVars, serverVars, pageVars
  <2>4. QED
    BY <2>1, <2>3
<1>5. CASE Quit
  <2>1. TypeOK'
    BY <1>5 DEF Quit, TypeOK, gameVars, appVars, stateVars, serverVars, pageVars
  <2>2. ServerInv'
    BY <1>5 DEF Quit, ServerInv, TypeOK, gameVars, appVars, stateVars, serverVars, pageVars
  <2>3. QED
    BY <2>1, <2>2
<1>6. CASE Stopped
  BY <1>6, EndsKeeps DEF Stopped, TypeOK
<1>7. CASE Crash
  BY <1>7, EndsKeeps DEF Crash, TypeOK
<1>8. CASE Look
  <2>1. TypeOK'
    BY <1>8 DEF Look, MonitorDoes, TypeOK, gameVars, appVars, stateVars, serverVars, pageVars
  <2>2. ServerInv'
    BY <1>8
       DEF Look, MonitorDoes, ServerInv, TypeOK,
           gameVars, appVars, stateVars, serverVars, pageVars
  <2>3. QED
    BY <2>1, <2>2
<1>9. CASE Probe
  <2>1. TypeOK'
    <3>1. PICK v \in Verdicts(game) :
                 monitor' = [monitor EXCEPT !.pc = "send", !.sample = v]
      BY <1>9 DEF Probe, MonitorDoes
    <3>2. v \in Status
      BY <3>1, VerdictsAreStatuses DEF TypeOK
    <3>3. monitor' \in [pc : {"none", "round", "probe", "send"},
                        sample : Status, previous : Status \cup {"none"}]
      BY <3>1, <3>2 DEF TypeOK
    <3>4. QED
      BY <1>9, <3>3
         DEF Probe, MonitorDoes, TypeOK, gameVars, appVars, stateVars, serverVars, pageVars
  <2>2. ServerInv'
    BY <1>9
       DEF Probe, MonitorDoes, ServerInv, TypeOK,
           gameVars, appVars, stateVars, serverVars, pageVars
  <2>3. QED
    BY <2>1, <2>2
<1>10. CASE Send
  <2>1. TypeOK'
    <3>1. /\ changes' \in {changes, monitor.sample}
          /\ \E d \in {monitor.sample, monitor.previous} :
               monitor' = [Asleep EXCEPT !.pc = "round", !.previous = d]
      BY <1>10 DEF Send, MonitorDoes
    <3>2. monitor.sample \in Status /\ monitor.previous \in Status \cup {"none"}
      BY DEF TypeOK
    <3>3. monitor' \in [pc : {"none", "round", "probe", "send"},
                        sample : Status, previous : Status \cup {"none"}]
      BY <3>1, <3>2 DEF Asleep, Status
    <3>4. QED
      BY <1>10, <3>1, <3>2, <3>3
         DEF Send, MonitorDoes, TypeOK, gameVars, appVars, stateVars, serverVars, pageVars
  <2>2. ServerInv'
    BY <1>10
       DEF Send, MonitorDoes, Asleep, Status, ServerInv, TypeOK,
           gameVars, appVars, stateVars, serverVars, pageVars
  <2>3. QED
    BY <2>1, <2>2
<1>11. CASE MonitorEnds
  <2>1. TypeOK'
    BY <1>11
       DEF MonitorEnds, MonitorDoes, Asleep, Status, TypeOK,
           gameVars, appVars, stateVars, serverVars, pageVars
  <2>2. ServerInv'
    BY <1>11
       DEF MonitorEnds, MonitorDoes, Asleep, Status, ServerInv, TypeOK,
           gameVars, appVars, stateVars, serverVars, pageVars
  <2>3. QED
    BY <2>1, <2>2
<1>12. CASE DrainMonitor
  <2>1. TypeOK'
    BY <1>12
       DEF DrainMonitor, WindowDoes, TypeOK, Status,
           gameVars, appVars, stateVars, serverVars, pageVars
  <2>2. InOrder(inbox', last', version')
    BY <1>12, NewerVersion
       DEF DrainMonitor, WindowDoes, TypeOK, ServerInv,
           gameVars, appVars, stateVars, serverVars, pageVars
  <2>3. ServerInv'
    BY <1>12, <2>2
       DEF DrainMonitor, WindowDoes, TypeOK, ServerInv,
           gameVars, appVars, stateVars, serverVars, pageVars
  <2>4. QED
    BY <2>1, <2>3
<1>13. CASE DrainCollector
  <2>1. TypeOK'
    BY <1>13
       DEF DrainCollector, WindowDoes, TypeOK,
           gameVars, appVars, stateVars, serverVars, pageVars
  <2>2. ServerInv'
    BY <1>13
       DEF DrainCollector, WindowDoes, ServerInv, TypeOK,
           gameVars, appVars, stateVars, serverVars, pageVars
  <2>3. QED
    BY <2>1, <2>2
<1>14. CASE Edit
  <2>1. TypeOK'
    BY <1>14
       DEF Edit, WindowDoes, TypeOK, Status, gameVars, appVars, stateVars, serverVars, pageVars
  <2>2. InOrder(inbox', last', version')
    BY <1>14, NewerVersion
       DEF Edit, WindowDoes, TypeOK, ServerInv,
           gameVars, appVars, stateVars, serverVars, pageVars
  <2>3. ServerInv'
    BY <1>14, <2>2
       DEF Edit, WindowDoes, TypeOK, ServerInv,
           gameVars, appVars, stateVars, serverVars, pageVars
  <2>4. QED
    BY <2>1, <2>3
<1>15. CASE Notify
  <2>1. version # 0 /\ Receives(conn = "subscribed")
    BY <1>15 DEF Notify, Notified, ServerInv
  <2>2. /\ inbox' \in Seq(Versions) /\ Len(inbox') <= BroadcastCapacity
        /\ lagged' \in BOOLEAN
        /\ InOrder(inbox', last, version)
        /\ conn # "subscribed" => inbox' = inbox
    BY <2>1, ReceivesFacts
  <2>3. TypeOK'
    BY <1>15, <2>2
       DEF Notify, Notified, TypeOK, gameVars, appVars, stateVars, serverVars, pageVars
  <2>4. ServerInv'
    BY <1>15, <2>2
       DEF Notify, Notified, ServerInv, gameVars, appVars, stateVars, serverVars, pageVars
  <2>5. QED
    BY <2>3, <2>4
<1>16. CASE AnswerFetch
  <2>1. TypeOK'
    BY <1>16
       DEF AnswerFetch, ServerDoes, TypeOK, gameVars, appVars, stateVars, serverVars, pageVars
  <2>2. ServerInv'
    BY <1>16
       DEF AnswerFetch, ServerDoes, ServerInv, TypeOK,
           gameVars, appVars, stateVars, serverVars, pageVars
  <2>3. QED
    BY <2>1, <2>2
<1>17. CASE Upgrade
  <2>1. TypeOK'
    BY <1>17
       DEF Upgrade, ServerDoes, TypeOK, gameVars, appVars, stateVars, serverVars, pageVars
  <2>2. ServerInv'
    BY <1>17
       DEF Upgrade, ServerDoes, ServerInv, TypeOK,
           gameVars, appVars, stateVars, serverVars, pageVars
  <2>3. QED
    BY <2>1, <2>2
<1>18. CASE Greet
  <2>1. TypeOK'
    BY <1>18
       DEF Greet, Tells, ServerDoes, TypeOK, gameVars, appVars, stateVars, serverVars, pageVars
  <2>2. inbox' = <<>> /\ last' = version /\ version' = version
    BY <1>18
       DEF Greet, Tells, ServerDoes, ServerInv,
           gameVars, appVars, stateVars, serverVars, pageVars
  <2>3. InOrder(inbox', last', version')
    BY <2>2, NothingHeld DEF TypeOK
  <2>4. ServerInv'
    BY <1>18, <2>3
       DEF Greet, Tells, ServerDoes, ServerInv,
           gameVars, appVars, stateVars, serverVars, pageVars
  <2>5. QED
    BY <2>1, <2>4
<1>19. CASE Subscribe
  <2>1. TypeOK'
    BY <1>19
       DEF Subscribe, ServerDoes, TypeOK, gameVars, appVars, stateVars, serverVars, pageVars
  <2>2. ServerInv'
    BY <1>19
       DEF Subscribe, ServerDoes, ServerInv, TypeOK,
           gameVars, appVars, stateVars, serverVars, pageVars
  <2>3. QED
    BY <2>1, <2>2
<1>20. CASE Forward
  <2>1. inbox' = Tail(inbox) /\ last' = Head(inbox) /\ view' = Head(inbox)
        /\ version' = version /\ inbox # <<>>
    BY <1>20 DEF Forward, Tells, ServerDoes, gameVars, appVars, stateVars, serverVars, pageVars
  <2>2. /\ Tail(inbox) \in Seq(Versions) /\ Len(Tail(inbox)) = Len(inbox) - 1
        /\ Head(inbox) \in Versions /\ Len(inbox) \in Nat
    BY <2>1, TailFacts DEF TypeOK
  <2>3. inbox' \in Seq(Versions) /\ Len(inbox') <= BroadcastCapacity
    BY <2>1, <2>2, LiveViewAssumption DEF TypeOK
  <2>4. last' \in Nat /\ view' \in Nat
    BY <2>1, <2>2 DEF Versions
  <2>5. TypeOK'
    BY <1>20, <2>3, <2>4
       DEF Forward, Tells, ServerDoes, TypeOK,
           gameVars, appVars, stateVars, serverVars, pageVars
  <2>6. InOrder(inbox', last', version')
    BY <2>1, TailInOrder DEF TypeOK, ServerInv
  <2>7. ServerInv'
    BY <1>20, <2>6
       DEF Forward, Tells, ServerDoes, ServerInv,
           gameVars, appVars, stateVars, serverVars, pageVars
  <2>8. QED
    BY <2>5, <2>7
<1>21. CASE LetGo
  <2>1. inbox' = <<>> /\ last' = last /\ version' = version
    BY <1>21 DEF LetGo, HangsUp, ServerDoes, stateVars
  <2>2. inbox' \in Seq(Versions) /\ Len(inbox') <= BroadcastCapacity
    BY <2>1, NothingFits
  <2>3. /\ conn' = "none" /\ lagged' \in BOOLEAN
        /\ UNCHANGED <<game, monitor, changes, app, config, port, shown, version, window>>
        /\ UNCHANGED <<last, url, socket, fetch, answer, view>>
    BY <1>21 DEF LetGo, HangsUp, ServerDoes, gameVars, appVars, stateVars
  <2>4. TypeOK'
    BY <2>2, <2>3 DEF TypeOK
  <2>5. InOrder(inbox', last', version')
    BY <2>1, NothingHeld DEF TypeOK, ServerInv, InOrder
  <2>6. ServerInv'
    BY <2>1, <2>3, <2>5 DEF ServerInv
  <2>7. QED
    BY <2>4, <2>6
<1>22. CASE LoadPage
  <2>1. TypeOK'
    BY <1>22 DEF LoadPage, PageDoes, TypeOK, gameVars, appVars, stateVars, serverVars, pageVars
  <2>2. ServerInv'
    BY <1>22, LiveViewAssumption
      
         DEF LoadPage, PageDoes, ServerInv, TypeOK,
             gameVars, appVars, stateVars, serverVars, pageVars
  <2>3. QED
    BY <2>1, <2>2
<1>23. CASE FetchLands
  <2>1. TypeOK'
    BY <1>23
       DEF FetchLands, PageDoes, TypeOK, gameVars, appVars, stateVars, serverVars, pageVars
  <2>2. ServerInv'
    BY <1>23
       DEF FetchLands, PageDoes, ServerInv, TypeOK,
           gameVars, appVars, stateVars, serverVars, pageVars
  <2>3. QED
    BY <2>1, <2>2
<1>24. CASE Reconnect
  <2>1. TypeOK'
    BY <1>24
       DEF Reconnect, PageDoes, TypeOK, gameVars, appVars, stateVars, serverVars, pageVars
  <2>2. inbox' = <<>> /\ last' = 0 /\ version' = version
    BY <1>24
       DEF Reconnect, PageDoes, ServerInv, gameVars, appVars, stateVars, serverVars, pageVars
  <2>3. InOrder(inbox', last', version')
    BY <2>2, NothingHeld DEF TypeOK
  <2>4. ServerInv'
    BY <1>24, <2>3
       DEF Reconnect, PageDoes, ServerInv, gameVars, appVars, stateVars, serverVars, pageVars
  <2>5. QED
    BY <2>1, <2>4
<1>25. CASE GameChanges
  <2>1. TypeOK'
    BY <1>25, LiveViewAssumption
       DEF GameChanges, Answers, TypeOK, gameVars, appVars, stateVars, serverVars, pageVars
  <2>2. ServerInv'
    BY <1>25
       DEF GameChanges, Answers, ServerInv, TypeOK,
           gameVars, appVars, stateVars, serverVars, pageVars
  <2>3. QED
    BY <2>1, <2>2
<1>26. CASE UNCHANGED vars
  BY <1>26 DEF TypeOK, ServerInv, vars, gameVars, appVars, stateVars, serverVars, pageVars
<1>27. QED
  BY <1>1, <1>2, <1>3, <1>4, <1>5, <1>6, <1>7, <1>8, <1>9, <1>10, <1>11, <1>12,
     <1>13, <1>14, <1>15, <1>16, <1>17, <1>18, <1>19, <1>20, <1>21, <1>22, <1>23, <1>24, <1>25, <1>26
     DEF Next, Starting, Monitor, Server, Page

(* The state of the live view keeps its types, and no receiver ever holds  *)
(* more notifications than its channel was made for.                       *)
THEOREM LiveViewTypeCorrect == Spec => []TypeOK
<1>1. Init => TypeOK /\ ServerInv
  BY InitInv
<1>2. TypeOK /\ ServerInv /\ [Next]_vars => (TypeOK /\ ServerInv)'
  BY StepInv
<1>3. QED
  BY <1>1, <1>2, PTL DEF Spec

(* Over one connection the page is never told an older state after a newer *)
(* one: the greeting is read before the subscription, and a receiver that  *)
(* drops its oldest message keeps the order of the others (websocket_loop).*)
THEOREM NeverGoesBack == Spec => []NeverBack
<1>1. Init => TypeOK /\ ServerInv
  BY InitInv
<1>2. TypeOK /\ ServerInv /\ [Next]_vars => (TypeOK /\ ServerInv)'
  BY StepInv
<1>3. ServerInv => NeverBack
  BY DEF ServerInv, InOrder, NeverBack
<1>4. QED
  BY <1>1, <1>2, <1>3, PTL DEF Spec

-----------------------------------------------------------------------------
(* The port.                                                               *)

(* No step leaves a port that is neither bound just now nor saved.         *)
LEMMA PortInvStep ==
  ASSUME PortInv, [Next]_vars
  PROVE  PortInv'
<1> USE DEF PortInv
<1>1. ASSUME NEW busy \in SUBSET Port, BindServer(busy)
      PROVE  PortInv'
  BY <1>1 DEF BindServer
<1>2. CASE Starting
  BY <1>2 DEF Starting, SavePort, SaveFails, OpenWindow, Ends
<1>3. CASE Quit \/ Stopped \/ Crash
  BY <1>3 DEF Quit, Stopped, Crash, Ends, appVars
<1>4. CASE Monitor
  BY <1>4 DEF Monitor, Look, Probe, Send, MonitorEnds, MonitorDoes, appVars
<1>5. CASE DrainMonitor \/ DrainCollector \/ Edit \/ Notify
  BY <1>5 DEF DrainMonitor, DrainCollector, Edit, WindowDoes, Notify, Notified, appVars
<1>6. CASE Server
  BY <1>6 DEF Server, AnswerFetch, Upgrade, Greet, Subscribe, Forward, LetGo,
              ServerDoes, appVars
<1>7. CASE LoadPage \/ Page
  BY <1>7 DEF LoadPage, Page, FetchLands, Reconnect, PageDoes, appVars
<1>8. CASE GameChanges
  BY <1>8 DEF GameChanges, appVars
<1>9. CASE UNCHANGED vars
  BY <1>9 DEF vars, appVars
<1>10. QED
  BY <1>1, <1>2, <1>3, <1>4, <1>5, <1>6, <1>7, <1>8, <1>9 DEF Next

(* bind_local_listener tries the configured port first.                    *)
LEMMA BindKeepsPort ==
  ASSUME TypeOK, PortInv, NEW busy \in SUBSET Port, BindServer(busy), port \notin busy
  PROVE  port' = port
<1>1. config \in Port /\ Port \subseteq Nat /\ Span \in Nat /\ port = config
  BY LiveViewAssumption DEF TypeOK, PortInv, BindServer
<1>2. config \in Candidates \ busy
  BY <1>1 DEF Candidates
<1>3. port' \in Candidates /\ \A q \in Candidates \ busy : port' <= q
  BY <1>2 DEF BindServer
<1>4. port' <= config /\ port' >= config /\ port' \in Nat
  BY <1>1, <1>2, <1>3 DEF Candidates
<1>5. QED
  BY <1>1, <1>4

(* The port a run ends with is the one the next run asks for first, for    *)
(* the port is saved before anything else happens.                         *)
THEOREM PortStays == Spec => PortIsKept
<1> DEFINE Kept == \A busy \in SUBSET Port :
                     BindServer(busy) /\ port \notin busy => port' = port
<1>1. Init => TypeOK /\ ServerInv /\ PortInv
  BY InitInv DEF Init, PortInv
<1>2. TypeOK /\ ServerInv /\ PortInv /\ [Next]_vars => (TypeOK /\ ServerInv /\ PortInv)'
  BY StepInv, PortInvStep
<1>3. TypeOK /\ PortInv => Kept
  BY BindKeepsPort
<1>4. QED
  BY <1>1, <1>2, <1>3, PTL DEF Spec, PortIsKept
=============================================================================

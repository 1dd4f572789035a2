---------------------------- MODULE StreamLedger ----------------------------
(***************************************************************************)
(* What ARC Live promises a streamer about one stream: the counters of a   *)
(* stream are the growth of the account totals since a starting point, the *)
(* starting point moves only when the streamer restarts the stream or a    *)
(* new local day begins, and nothing else (a crash, a restart, a game that *)
(* is closed) is visible at all.                                           *)
(***************************************************************************)
EXTENDS Integers

CONSTANT None      \* no stream has begun on the current day

VARIABLES
  base,            \* account total the stream is counted from, or None
  total            \* account total reported last on this stream, or None

vars == <<base, total>>

Growth(now, then) == IF now > then THEN now - then ELSE 0

\* The figure the widget shows.
Counter == IF base = None THEN 0 ELSE Growth(total, base)

Init == base = None /\ total = None

\* The game reports its totals; the first report of a day is the start.
Report ==
  /\ total' \in Nat
  /\ base' = IF base = None THEN total' ELSE base

\* The streamer starts the stream again from the totals known last.
Restart ==
  /\ base # None
  /\ total' = total
  /\ base' = total

NewDay == base' = None /\ total' = None

Next == Report \/ Restart \/ NewDay

Spec == Init /\ [][Next]_vars
=============================================================================

---------------------------- MODULE SocketCapture ----------------------------
(***************************************************************************)
(* The packet source on raw sockets: src/crates/capture/src/rawsock.rs.    *)
(*                                                                         *)
(* One socket per interface address that is up.  The capture thread polls  *)
(* them in turn and, every REBIND_INTERVAL, reconciles the set with the    *)
(* addresses it finds: it looks them up first and takes the lock on the    *)
(* list only afterwards, so that the control may shut everything down in   *)
(* between.  Module PacketSource says when each action runs.               *)
(***************************************************************************)
EXTENDS Naturals, Sequences, FiniteSets, Functions

CONSTANTS
  Interface,     \* the IPv4 addresses this host may have
  Refusing,      \* those on which a capture socket cannot be opened
  MaxInterfaces  \* how many of the addresses are looked at

ASSUME InterfaceAssumption ==
  /\ IsFiniteSet(Interface)
  /\ Refusing \subseteq Interface
  /\ MaxInterfaces \in Nat \ {0}

VARIABLES
  up,          \* addresses that are up now
  found,       \* those the capture thread looked up and has not reconciled yet
  sockets,     \* the list of open sockets, each named by its address
  next,        \* where the next poll starts, counted from 0
  pending,     \* addresses whose socket holds an unread packet
  socketStop   \* the stop flag

socketVars == <<up, found, sockets, next, pending, socketStop>>

(* The elements of S in any order, each once.                              *)
Listings(S) == {s \in [1 .. Cardinality(S) -> S] : Range(s) = S}

Bound == Range(sockets)

SocketTypeOK ==
  /\ up \subseteq Interface
  /\ found \subseteq Interface
  /\ \E S \in SUBSET Interface : sockets \in Listings(S)
  /\ next \in 0 .. Cardinality(Interface)
  /\ pending \subseteq Bound
  /\ socketStop \in BOOLEAN

SocketInit ==
  /\ up = Interface
  /\ found = {}
  /\ sockets = <<>>
  /\ next = 0
  /\ pending = {}
  /\ socketStop = FALSE

-----------------------------------------------------------------------------
(* The addresses enumerated: those up, cut at MaxInterfaces in an order    *)
(* that is Windows' own.                                                   *)
Addresses ==
  {A \in SUBSET up : \/ A = up /\ Cardinality(up) <= MaxInterfaces
                     \/ Cardinality(A) = MaxInterfaces}

(* A socket on each address that takes one, and at least one.              *)
SocketOpens ==
  /\ \E A \in Addresses : \E S \in SUBSET (A \ Refusing) :
       /\ S # {}
       /\ sockets' \in Listings(S)
  /\ next' = 0
  /\ socketStop' = FALSE
  /\ UNCHANGED <<up, found, pending>>

-----------------------------------------------------------------------------
(* next_packet with the rebind due: the addresses are looked up.  With     *)
(* none up the sockets stay as they are.                                   *)
LookUp ==
  /\ ~socketStop
  /\ up # {}
  /\ found' \in Addresses
  /\ UNCHANGED <<up, sockets, next, pending, socketStop>>

\* Mutant: a rebind that only adds.
ReconcileAdds(S) ==
  /\ S \subseteq found \ (Bound \cup Refusing)
  /\ \E opened \in Listings(S) : sockets' = sockets \o opened
  /\ found' = {}
  /\ UNCHANGED <<up, next, pending, socketStop>>

(* The list without the sockets of other addresses than A.                 *)
Keeping(A) ==
  {list \in Listings(Bound \cap A) :
     \A i, j \in DOMAIN list : i < j =>
       \E k, l \in DOMAIN sockets :
         k < l /\ sockets[k] = list[i] /\ sockets[l] = list[j]}

(* Under the lock: sockets of vanished addresses are closed, and one is    *)
(* opened on each new address that takes one, at the end of the list.      *)
Reconcile(S) ==
  /\ S \subseteq found \ (Bound \cup Refusing)
  /\ \E kept \in Keeping(found), opened \in Listings(S) : sockets' = kept \o opened
  /\ pending' = pending \cap found
  /\ found' = {}
  /\ UNCHANGED <<up, next, socketStop>>

ReconcilesAll == Reconcile(found \ (Bound \cup Refusing))

-----------------------------------------------------------------------------
(* The list positions, counted from 0, in the order a poll visits them.    *)
At(offset) == sockets[((next + offset) % Len(sockets)) + 1]

\* Mutant: every poll starts at the head of the list.
SocketReadsFromHead ==
  \E i \in 1 .. Len(sockets) :
    /\ sockets[i] \in pending
    /\ \A earlier \in 1 .. i - 1 : sockets[earlier] \notin pending
    /\ pending' = pending \ {sockets[i]}
    /\ UNCHANGED <<up, found, sockets, next, socketStop>>

(* The first socket with a packet is read, and the next poll starts after  *)
(* it.                                                                     *)
SocketReads ==
  \E offset \in 0 .. Len(sockets) - 1 :
    /\ At(offset) \in pending
    /\ \A earlier \in 0 .. offset - 1 : At(earlier) \notin pending
    /\ pending' = pending \ {At(offset)}
    /\ next' = (((next + offset) % Len(sockets)) + 1) % Len(sockets)
    /\ UNCHANGED <<up, found, sockets, socketStop>>

(* Nothing anywhere, or no socket left to poll.                            *)
SocketReadsNothing ==
  /\ pending = {}
  /\ next' = IF sockets = <<>> THEN next ELSE (next + 1) % Len(sockets)
  /\ UNCHANGED <<up, found, sockets, pending, socketStop>>

-----------------------------------------------------------------------------
(* shutdown of the control, from any thread.                               *)
SocketShutdown ==
  /\ socketStop' = TRUE
  /\ sockets' = <<>>
  /\ pending' = {}
  /\ UNCHANGED <<up, found, next>>

\* Mutant: the drop relies on the control to have closed them.
SocketDropKeeps ==
  /\ next' = 0
  /\ pending' = {}
  /\ UNCHANGED <<up, found, sockets, socketStop>>

(* The drop of the capture closes what is still in the list.               *)
SocketDrop ==
  /\ sockets' = <<>>
  /\ next' = 0
  /\ pending' = {}
  /\ UNCHANGED <<up, found, socketStop>>

(* The process dies, and Windows closes its sockets.                       *)
SocketCrash ==
  /\ sockets' = <<>>
  /\ found' = {}
  /\ next' = 0
  /\ pending' = {}
  /\ UNCHANGED <<up, socketStop>>

-----------------------------------------------------------------------------
(* An address comes up or goes away; a packet reaches a socket.            *)
AddressChanges ==
  /\ \E i \in Interface : up' = (up \ {i}) \cup ({i} \ up)
  /\ UNCHANGED <<found, sockets, next, pending, socketStop>>

PacketReaches ==
  /\ \E i \in (Bound \cap up) \ pending : pending' = pending \cup {i}
  /\ UNCHANGED <<up, found, sockets, next, socketStop>>
=============================================================================

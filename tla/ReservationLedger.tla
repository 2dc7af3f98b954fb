-------------------------- MODULE ReservationLedger -------------------------
(***************************************************************************)
(* What the webhook server promises about the triggers it answers with 200:    *)
(* each of them is booked on its target once, in the order in which they were   *)
(* accepted, and nothing else reserves capacity. A trigger that takes capacity  *)
(* back stops at zero. Between two bookings a reservation can only expire.      *)
(*                                                                         *)
(* A server that restarts may forget what it has not booked yet; one whose      *)
(* calls stay unanswered may book a trigger again; one that reads an old cache   *)
(* books on a count of the past.                                              *)
(***************************************************************************)
EXTENDS Integers, Sequences, SequencesExt

CONSTANT Targets

VARIABLES
    pending,   \* the triggers accepted and not yet booked, per target
    reserved,  \* the reservations, per target
    troubles   \* what the server has to reckon with

ledger == <<pending, reserved, troubles>>

Init ==
    /\ pending = [t \in Targets |-> <<>>]
    /\ reserved = [t \in Targets |-> 0]
    /\ troubles \subseteq {"restarts", "unanswered", "stale"}

(* The count after triggers of these amounts, from a count of n *)
Booked(n, amounts) == FoldLeft(LAMBDA m, a : IF m + a > 0 THEN m + a ELSE 0, n, amounts)

SomeOf(s) == Prefixes(s) \ {<<>>}
Rest(s, p) == SubSeq(s, Len(p) + 1, Len(s))

Accept(t) ==
    /\ \E a \in {-1, 1} : pending' = [pending EXCEPT ![t] = Append(@, a)]
    /\ UNCHANGED reserved

(* Some of the reservations may have expired. *)
Book(t) ==
    \E p \in SomeOf(pending[t]), n \in 0..reserved[t] :
        /\ pending' = [pending EXCEPT ![t] = Rest(@, p)]
        /\ reserved' = [reserved EXCEPT ![t] = Booked(n, p)]

Rebook(t) ==
    /\ \E p \in SomeOf(pending[t]), n \in 0..reserved[t] :
           reserved' = [reserved EXCEPT ![t] = Booked(n, p)]
    /\ UNCHANGED pending

BookOnStale(t) ==
    /\ \E p \in SomeOf(pending[t]) :
           \/ pending' = [pending EXCEPT ![t] = Rest(@, p)]
           \/ "unanswered" \in troubles /\ UNCHANGED pending
    /\ reserved'[t] \in Nat
    /\ \A u \in Targets \ {t} : reserved'[u] = reserved[u]

Forget ==
    /\ pending' = [t \in Targets |-> <<>>]
    /\ UNCHANGED reserved

Next ==
    /\ \/ \E t \in Targets : \/ Accept(t) \/ Book(t)
                             \/ "unanswered" \in troubles /\ Rebook(t)
                             \/ "stale" \in troubles /\ BookOnStale(t)
       \/ "restarts" \in troubles /\ Forget
    /\ UNCHANGED troubles

Spec == Init /\ [][Next]_ledger
=============================================================================

--------------------------- MODULE ProjectStream ---------------------------
(***************************************************************************)
(* What an event store promises the readers of a project: a set of         *)
(* event_sequence numbers that only grows, and only above its largest      *)
(* element.  EventLedger implements it with transactions; SnapshotReplay   *)
(* relies on it.                                                           *)
(***************************************************************************)
EXTENDS Integers

CONSTANT Projects

VARIABLE stream   \* project -> the event_sequence numbers a reader can see

Init == stream = [p \in Projects |-> {}]

AppendAt(p, n) ==
    /\ n \in Nat
    /\ \A e \in stream[p] : e < n
    /\ stream' = [stream EXCEPT ![p] = @ \cup {n}]

Next == \E p \in Projects : \E n \in stream'[p] : AppendAt(p, n)

Spec == Init /\ [][Next]_stream

=============================================================================

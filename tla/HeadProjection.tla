--------------------------- MODULE HeadProjection ---------------------------
(***************************************************************************)
(* The cognitive head as a projection of the platform (ADR-027):           *)
(* CognitiveHeadProjection, compiled by ProjectionCompiler through         *)
(* compile_cognitive_head_v2, beside the legacy path of CognitiveHead.     *)
(* Both paths read and write the same snapshot table, under the same name, *)
(* with different contents: the projection's serialized form has neither a *)
(* sequence nor the three dicts, so its row has sequence 0 and empty dicts.*)
(***************************************************************************)
EXTENDS CognitiveHead

Nothing == [name |-> "none"]

-----------------------------------------------------------------------------
(* CognitiveHeadProjection *)

\* Mutant: the open items are not carried over
StateOfHead_NoQuestions(h) ==
    [name |-> h.name, goal |-> h.goal, focus |-> h.focus,
     tasks |-> h.tasks, decisions |-> h.decisions, questions |-> <<>>]

\* _head_to_project_state and the three _head_to_*_dict: the head holds only
\* open tasks, accepted decisions and open questions
StateOfHead(h) ==
    [name |-> h.name, goal |-> h.goal, focus |-> h.focus,
     tasks |-> h.tasks, decisions |-> h.decisions, questions |-> h.questions]

\* reduce: no events and a state, the state itself; no state, the stream must
\* be bootstrapped; the head's version is that of the last event reduced
ReduceHead(events, first, initial) ==
    CASE events = <<>> /\ initial # Nothing -> [ok |-> TRUE, head |-> initial]
      [] initial = Nothing /\ ~ Bootstrapped(events) -> [ok |-> FALSE]
      [] OTHER -> [ok |-> TRUE,
                   head |-> BuildHead(Reduce(events, IF initial = Nothing THEN EmptyState
                                                     ELSE StateOfHead(initial)),
                                      first + Len(events))]

\* serialize, read back by CognitiveHeadSnapshotPayload.from_dict: the active
\* items are under names it does not read, and no sequence is given
SnapshotOfHead(h, latest) ==
    [sequence |-> 0, name |-> h.name, goal |-> h.goal, focus |-> h.focus,
     version |-> h.version, tasks |-> <<>>, decisions |-> <<>>, questions |-> <<>>,
     blockers |-> h.blockers]

\* deserialize of a stored payload: every stored item, closed ones too
PayloadToHead(p) ==
    [name |-> p.name, goal |-> p.goal, focus |-> p.focus, version |-> p.version,
     tasks |-> p.tasks, decisions |-> p.decisions, questions |-> p.questions,
     blockers |-> p.blockers]

\* deserialize of the serialized form
SerializedToHead(d) == d

-----------------------------------------------------------------------------
(* ProjectionCompiler.compile for this projection *)

Failed == [mode |-> "v2_failed", head |-> Nothing]

\* Mutant: the version in the snapshot is taken for the sequence it covers
CompileHead_FromVersion(p, events) ==
    IF p = NoRow
    THEN LET r == ReduceHead(events, 0, Nothing)
         IN  IF r.ok THEN [mode |-> "v2_replay", head |-> r.head] ELSE Failed
    ELSE [mode |-> "v2_replay",
          head |-> ReduceHead(EventsSince(events, p.version), p.version, PayloadToHead(p)).head]

\* a delta replay calls get_events_since, which no event store defines
CompileHead(p, events) ==
    CASE p # NoRow /\ p.sequence >= Len(events) ->
            [mode |-> "v2_fast_path", head |-> PayloadToHead(p)]
      [] p # NoRow /\ p.sequence > 0 /\ p.sequence < Len(events) -> Failed
      [] OTHER ->
            LET r == ReduceHead(events, 0, IF p = NoRow THEN Nothing ELSE PayloadToHead(p))
            IN  IF r.ok THEN [mode |-> "v2_replay", head |-> r.head] ELSE Failed

\* refresh_snapshot inserts a row; the latest row is the one with the highest
\* sequence, and of several with sequence 0 any may be returned
CompileV2 ==
    LET result == CompileHead(snap, stream)
    IN  /\ last' = [mode |-> result.mode, head |-> result.head, at |-> Len(stream)]
        /\ IF result.mode = "v2_replay" /\ ShouldSnapshot(Len(stream), snap)
           THEN \/ snap' = SnapshotOfHead(result.head, Len(stream))
                \/ snap.sequence = 0 /\ UNCHANGED snap
           ELSE UNCHANGED snap
        /\ UNCHANGED stream

\* both paths on one ledger and one snapshot table
BothNext == HeadNext \/ CompileV2

BothSpec == HeadInit /\ [][BothNext]_headVars

-----------------------------------------------------------------------------
(* Properties *)

\* Whenever the platform replays, from nothing or on top of a snapshot it wrote
\* itself, the head is that of a full legacy replay: its own rows never make it
\* skip an event, whoever appended since.
ReplayIsFull ==
    Done("v2_replay") => last.head = FullHead(stream)

\* "Produces identical output to compile_cognitive_head()"
\* (cognitive_head/compiler.py:240): refuted by a legacy snapshot in the table.
IdenticalOutput ==
    /\ Done("v2_failed") => ~ Bootstrapped(stream)
    /\ Done("v2_fast_path") \/ Done("v2_replay") => last.head = FullHead(stream)

\* Law 4 of the conformance suite, "replay(A+B) == replay(B,
\* initial_state=replay(A))" (projection_platform/conformance/laws.py:78), of
\* this projection: refuted by a decision proposed before the cut.
Incrementality ==
    \A k \in 1..Len(stream) - 1 :
        LET a == ReduceHead(SubSeq(stream, 1, k), 0, Nothing)
        IN  a.ok => ReduceHead(SubSeq(stream, k + 1, Len(stream)), k, SerializedToHead(a.head)).head
                        = FullHead(stream)

\* What of law 4 does hold, for every cut: project fields and version agree, no
\* item is invented, and the only items lost are those that were closed (or only
\* proposed) at the cut and are not created again after it.
LossIsExactlyTheClosed ==
    \A k \in 1..Len(stream) - 1 :
        LET a == ReduceHead(SubSeq(stream, 1, k), 0, Nothing)
            b == ReduceHead(SubSeq(stream, k + 1, Len(stream)), k, SerializedToHead(a.head)).head
            full == FullHead(stream)
            Made(types) == {stream[i].id : i \in {j \in k + 1..Len(stream) : stream[j].type \in types}}
        IN  a.ok =>
            /\ <<b.name, b.goal, b.focus, b.version>> =
                   <<full.name, full.goal, full.focus, full.version>>
            /\ Ids(b.tasks) = Ids(full.tasks) \cap (Ids(a.head.tasks) \cup Made({"TASK_CREATED"}))
            /\ Ids(b.decisions) =
                   Ids(full.decisions) \cap (Ids(a.head.decisions) \cup Made({"DECISION_PROPOSED"}))
            /\ Ids(b.questions) =
                   Ids(full.questions) \cap (Ids(a.head.questions) \cup Made({"OPEN_QUESTION_RAISED"}))

\* Whatever path compiled it, from a snapshot that either path may have left, the
\* head that is returned is that of a full replay, or holds all a full replay
\* reduces to; a head resumed from a serialized one lacks only what was closed.
ResumedIsFull == DeltaIsFull /\ FastPathHoldsAll /\ ReplayIsFull /\ LossIsExactlyTheClosed

=============================================================================

-------------------------- MODULE HeadReplayProofs --------------------------
(***************************************************************************)
(* Proofs about CognitiveHead and HeadProjection: a stream can be cut at   *)
(* any event and resumed from what a snapshot stores, for every stream and *)
(* every event, and what the two compilers return from snapshots that      *)
(* either has left is the head of a full replay.  About KernelReplay: the  *)
(* reference kernel's replays agree and keep projections apart; about      *)
(* SchemaReplay: replay under governance is canonical and reproducible.    *)
(* About Reasoning: doubts spread exactly along the supports, and the gate *)
(* places every candidate.                                                 *)
(*                                                                         *)
(* Reducers, upcasters and governance are recursions over events or steps, *)
(* so the argument is by induction on their number.  The induction         *)
(* theorems of the library take the induction predicate as an operator;    *)
(* here it is the set of the lengths at which the claim fails, which has a *)
(* least element if it is not empty.                                       *)
(***************************************************************************)
EXTENDS HeadProjection, KernelReplay, SchemaReplay, Reasoning, FiniteSetTheorems, WellFoundedInduction, TLAPS

-----------------------------------------------------------------------------
(* Induction *)

Below == {p \in Nat \X Nat : p[1] < p[2]}

\* The order of the natural numbers, as a set of pairs, is well founded.
LEMMA BelowWellFounded == IsWellFoundedOn(Below, Nat)
    BY NatLessThanWellFounded, Zenon DEF OpToRel, Below

\* A set of natural numbers that is not empty has a least element.
LEMMA LeastNatural ==
    ASSUME NEW S, S \subseteq Nat, S # {}
    PROVE  \E n \in S : \A m \in S : n <= m
<1>1. \E x \in S : \A y \in S : ~(<<y, x>> \in Below)
    BY BelowWellFounded, WFMin
<1>2. \A x, y \in S : ~(<<y, x>> \in Below) => x <= y
    BY DEF Below
<1> QED BY <1>1, <1>2

-----------------------------------------------------------------------------
(* The states after each event *)

\* f is the sequence of states that the first m events lead through
Folded(f, m, events, initial) ==
    f = [n \in 0..m |-> IF n = 0 THEN initial ELSE ReduceStep(f[n - 1], events[n])]

\* There are such states for every stretch of the stream.
LEMMA FoldExists ==
    ASSUME NEW T, NEW events \in Seq(T), NEW initial, NEW m \in 0..Len(events)
    PROVE  \E f : Folded(f, m, events, initial)
<1> DEFINE Bad == {k \in 0..Len(events) : ~\E f : Folded(f, k, events, initial)}
<1> SUFFICES ASSUME Bad # {} PROVE FALSE
    OBVIOUS
<1>0. Bad \subseteq Nat
    OBVIOUS
<1>1. PICK k \in Bad : \A j \in Bad : k <= j
    BY <1>0, LeastNatural
<1>2. CASE k = 0
    <2>1. Folded([n \in 0..0 |-> initial], 0, events, initial)
        BY DEF Folded
    <2> QED BY <1>2, <2>1
<1>3. CASE k # 0
    <2>1. k - 1 \in 0..Len(events) /\ k - 1 \notin Bad
        BY <1>1, <1>3
    <2>2. PICK g : Folded(g, k - 1, events, initial)
        BY <2>1
    <2> DEFINE f == [n \in 0..k |-> IF n = k THEN ReduceStep(g[k - 1], events[k]) ELSE g[n]]
    <2>3. \A n \in 0..k : f[n] = IF n = 0 THEN initial ELSE ReduceStep(f[n - 1], events[n])
        BY <1>3, <2>2 DEF Folded
    <2>4. Folded(f, k, events, initial)
        BY <2>3 DEF Folded
    <2> QED BY <2>4
<1> QED BY <1>2, <1>3

\* The recursion of the reducers defines the states after each event.
LEMMA StatesAfterIs ==
    ASSUME NEW T, NEW events \in Seq(T), NEW initial
    PROVE  /\ StatesAfter(events, initial)[0] = initial
           /\ \A n \in 1..Len(events) :
                 StatesAfter(events, initial)[n] = ReduceStep(StatesAfter(events, initial)[n - 1], events[n])
<1>1. Len(events) \in Nat /\ Len(events) \in 0..Len(events)
    OBVIOUS
<1>2. \E f : Folded(f, Len(events), events, initial)
    BY <1>1, FoldExists
<1>3. Folded(StatesAfter(events, initial), Len(events), events, initial)
    BY <1>2 DEF StatesAfter, Folded
<1> QED BY <1>1, <1>3 DEF Folded

\* The states after the events of two streams that agree from some place on are
\* the same if they were the same there.
LEMMA SameStates ==
    ASSUME NEW T, NEW a \in Seq(T), NEW b \in Seq(T), NEW i, NEW k \in Nat, k + Len(b) <= Len(a),
           \A n \in 1..Len(b) : a[k + n] = b[n]
    PROVE  StatesAfter(a, i)[k + Len(b)] = Reduce(b, StatesAfter(a, i)[k])
<1> DEFINE m == Len(b)
           j == StatesAfter(a, i)[k]
           Bad == {n \in 0..m : StatesAfter(a, i)[k + n] # StatesAfter(b, j)[n]}
<1> SUFFICES ASSUME Bad # {} PROVE FALSE
    <2>1. m \in 0..m
        OBVIOUS
    <2>2. ASSUME Bad = {} PROVE StatesAfter(a, i)[k + m] = StatesAfter(b, j)[m]
        BY <2>1, <2>2
    <2> QED BY <2>2 DEF Reduce
<1>0. Bad \subseteq Nat /\ Len(a) \in Nat /\ Len(b) \in Nat
    OBVIOUS
<1>1. PICK n \in Bad : \A l \in Bad : n <= l
    BY <1>0, LeastNatural
<1>2. n # 0
    BY StatesAfterIs
<1>3. n - 1 \in 0..m /\ n - 1 \notin Bad /\ n \in 1..Len(b) /\ k + n \in 1..Len(a) /\ n \in 1..m
    BY <1>0, <1>1, <1>2
<1>4. StatesAfter(a, i)[k + (n - 1)] = StatesAfter(b, j)[n - 1]
    BY <1>3
<1>5. StatesAfter(b, j)[n] = ReduceStep(StatesAfter(b, j)[n - 1], b[n])
    BY <1>3, StatesAfterIs
<1>6. StatesAfter(a, i)[k + n] = ReduceStep(StatesAfter(a, i)[(k + n) - 1], a[k + n])
    BY <1>3, StatesAfterIs
<1>7. (k + n) - 1 = k + (n - 1) /\ a[k + n] = b[n]
    BY <1>3
<1> QED BY <1>4, <1>5, <1>6, <1>7

\* Reducing a prefix gives the state after its last event.
LEMMA ReducePrefix ==
    ASSUME NEW T, NEW events \in Seq(T), NEW initial, NEW k \in 0..Len(events)
    PROVE  Reduce(SubSeq(events, 1, k), initial) = StatesAfter(events, initial)[k]
<1> DEFINE first == SubSeq(events, 1, k)
<1>1. first \in Seq(T) /\ Len(first) = k /\ 0 \in Nat /\ 0 + Len(first) <= Len(events)
    OBVIOUS
<1>2. \A n \in 1..Len(first) : events[0 + n] = first[n]
    OBVIOUS
<1>3. StatesAfter(events, initial)[0] = initial
    BY StatesAfterIs
<1> HIDE DEF first
<1>4. StatesAfter(events, initial)[0 + Len(first)] = Reduce(first, StatesAfter(events, initial)[0])
    BY <1>1, <1>2, SameStates
<1>5. 0 + k = k
    OBVIOUS
<1> QED BY <1>1, <1>3, <1>4, <1>5 DEF first

\* reduce(A+B) == reduce(B, reduce(A)): the rest of the stream, reduced from the
\* state of the first part, gives the state of the whole.
LEMMA ReduceSplits ==
    ASSUME NEW T, NEW events \in Seq(T), NEW initial, NEW k \in 0..Len(events)
    PROVE  Reduce(EventsSince(events, k), Reduce(SubSeq(events, 1, k), initial)) = Reduce(events, initial)
<1> DEFINE rest == EventsSince(events, k)
           state == Reduce(SubSeq(events, 1, k), initial)
<1>1. Len(rest) = Len(events) - k
    BY DEF EventsSince
<1>2. k + Len(rest) = Len(events)
    BY <1>1
<1>3. rest \in Seq(T) /\ k \in Nat /\ k + Len(rest) <= Len(events)
    BY <1>2 DEF EventsSince
<1>4. \A n \in 1..Len(rest) : events[k + n] = rest[n]
    BY DEF EventsSince
<1>5. StatesAfter(events, initial)[k] = state
    BY ReducePrefix
<1> HIDE DEF rest, state
<1>6. StatesAfter(events, initial)[k + Len(rest)] = Reduce(rest, StatesAfter(events, initial)[k])
    <2>1. rest \in Seq(T) /\ k \in Nat
        BY <1>3
    <2>2. k + Len(rest) <= Len(events)
        BY <1>3
    <2> QED BY <1>4, <2>1, <2>2, SameStates
<1> QED BY <1>2, <1>5, <1>6 DEF Reduce, rest, state

-----------------------------------------------------------------------------
(* What a state is made of *)

\* s has the project's fields and the three dicts, and nothing else
IsState(s) ==
    s = [name |-> s.name, goal |-> s.goal, focus |-> s.focus,
         tasks |-> s.tasks, decisions |-> s.decisions, questions |-> s.questions]

\* One event leaves a state a state.
LEMMA StepKeepsState ==
    ASSUME NEW s, NEW e, IsState(s)
    PROVE  IsState(ReduceStep(s, e))
<1>1. ASSUME NEW t, IsState(t) PROVE IsState(ProjectStep(t, e))
    BY <1>1 DEF IsState, ProjectStep
<1>2. ASSUME NEW t, IsState(t) PROVE IsState(TaskStep(t, e))
    BY <1>2 DEF IsState, TaskStep
<1>3. ASSUME NEW t, IsState(t) PROVE IsState(DecisionStep(t, e))
    BY <1>3 DEF IsState, DecisionStep
<1>4. ASSUME NEW t, IsState(t) PROVE IsState(QuestionStep(t, e))
    BY <1>4 DEF IsState, QuestionStep
<1> QED BY <1>1, <1>2, <1>3, <1>4 DEF ReduceStep

\* Reducing leaves a state a state.
LEMMA ReduceKeepsState ==
    ASSUME NEW T, NEW events \in Seq(T), NEW initial, IsState(initial), NEW k \in 0..Len(events)
    PROVE  IsState(StatesAfter(events, initial)[k])
<1> DEFINE Bad == {n \in 0..Len(events) : ~IsState(StatesAfter(events, initial)[n])}
<1> SUFFICES ASSUME Bad # {} PROVE FALSE
    OBVIOUS
<1>0. Bad \subseteq Nat /\ Len(events) \in Nat
    OBVIOUS
<1>1. PICK n \in Bad : \A l \in Bad : n <= l
    BY <1>0, LeastNatural
<1>2. n # 0
    BY StatesAfterIs
<1>3. n - 1 \in 0..Len(events) /\ n - 1 \notin Bad /\ n \in 1..Len(events)
    BY <1>0, <1>1, <1>2
<1>4. StatesAfter(events, initial)[n] = ReduceStep(StatesAfter(events, initial)[n - 1], events[n])
    BY <1>3, StatesAfterIs
<1> QED BY <1>3, <1>4, StepKeepsState

\* What a snapshot stores of a state is the state.
LEMMA PayloadKeepsState ==
    ASSUME NEW s, IsState(s), NEW v, NEW seq
    PROVE  ResumeState(Payload(BuildHead(s, v), s, seq)) = s
BY DEF IsState, ResumeState, Payload, BuildHead

\* The law for one stream and one cut.
LEMMA CutAnywhere ==
    ASSUME NEW T, NEW events \in Seq(T), NEW k \in 0..Len(events)
    PROVE  LET first == SubSeq(events, 1, k)
           IN  DeltaHead(Payload(FullHead(first), Reduce(first, EmptyState), k), events) = FullHead(events)
<1> DEFINE first == SubSeq(events, 1, k)
           state == Reduce(first, EmptyState)
           p == Payload(FullHead(first), state, k)
<1>1. IsState(EmptyState)
    BY DEF IsState, EmptyState
<1>2. IsState(state)
    BY <1>1, ReducePrefix, ReduceKeepsState
<1>3. ResumeState(p) = state /\ p.sequence = k
    BY <1>2, PayloadKeepsState DEF FullHead, Payload
<1>4. Reduce(EventsSince(events, k), state) = Reduce(events, EmptyState)
    BY ReduceSplits
<1> HIDE DEF p, state
<1>5. DeltaHead(p, events) = FullHead(events)
    BY <1>3, <1>4 DEF DeltaHead, FullHead
<1> QED BY <1>5 DEF p, state

-----------------------------------------------------------------------------
(* Reducing on top of the row the projection platform leaves *)

\* a and b hold the same dicts, and the same value of every project field whose
\* event is among the types
Agree(a, b, types) ==
    /\ a.tasks = b.tasks /\ a.decisions = b.decisions /\ a.questions = b.questions
    /\ "PROJECT_CREATED" \in types => a.name = b.name
    /\ "PROJECT_GOAL_SET" \in types => a.goal = b.goal
    /\ "PROJECT_FOCUS_CHANGED" \in types => a.focus = b.focus

\* One event makes two states that agree agree on its own field too.
LEMMA StepAgrees ==
    ASSUME NEW a, NEW b, NEW e, NEW types, IsState(a), IsState(b), Agree(a, b, types)
    PROVE  Agree(ReduceStep(a, e), ReduceStep(b, e), types \cup {e.type})
<1> DEFINE all == types \cup {e.type}
<1>1. /\ IsState(ProjectStep(a, e)) /\ IsState(ProjectStep(b, e))
      /\ Agree(ProjectStep(a, e), ProjectStep(b, e), all)
    BY DEF IsState, ProjectStep, Agree
<1>2. ASSUME NEW s, NEW t, IsState(s), IsState(t), Agree(s, t, all)
      PROVE  IsState(TaskStep(s, e)) /\ IsState(TaskStep(t, e)) /\ Agree(TaskStep(s, e), TaskStep(t, e), all)
    <2>1. IsState(TaskStep(s, e))
        BY <1>2 DEF IsState, TaskStep
    <2>2. IsState(TaskStep(t, e))
        BY <1>2 DEF IsState, TaskStep
    <2>3. /\ TaskStep(s, e).name = s.name /\ TaskStep(s, e).goal = s.goal /\ TaskStep(s, e).focus = s.focus
          /\ TaskStep(s, e).decisions = s.decisions /\ TaskStep(s, e).questions = s.questions
        BY <1>2 DEF IsState, TaskStep
    <2>4. /\ TaskStep(t, e).name = t.name /\ TaskStep(t, e).goal = t.goal /\ TaskStep(t, e).focus = t.focus
          /\ TaskStep(t, e).decisions = t.decisions /\ TaskStep(t, e).questions = t.questions
        BY <1>2 DEF IsState, TaskStep
    <2>5. TaskStep(s, e).tasks = TaskStep(t, e).tasks
        BY <1>2 DEF IsState, TaskStep, Agree
    <2> QED BY <1>2, <2>1, <2>2, <2>3, <2>4, <2>5 DEF Agree
<1>3. ASSUME NEW s, NEW t, IsState(s), IsState(t), Agree(s, t, all)
      PROVE  /\ IsState(DecisionStep(s, e)) /\ IsState(DecisionStep(t, e))
             /\ Agree(DecisionStep(s, e), DecisionStep(t, e), all)
    BY <1>3 DEF IsState, DecisionStep, Agree
<1>4. ASSUME NEW s, NEW t, IsState(s), IsState(t), Agree(s, t, all)
      PROVE  Agree(QuestionStep(s, e), QuestionStep(t, e), all)
    BY <1>4 DEF IsState, QuestionStep, Agree
<1> QED BY <1>1, <1>2, <1>3, <1>4 DEF ReduceStep

\* A stream that has its three bootstrap events gives the same state whatever
\* name, goal and focus it is reduced from.
LEMMA Overwritten ==
    ASSUME NEW T, NEW events \in Seq(T), Bootstrapped(events), NEW s, IsState(s),
           s.tasks = <<>>, s.decisions = <<>>, s.questions = <<>>
    PROVE  Reduce(events, s) = Reduce(events, EmptyState)
<1> DEFINE A == StatesAfter(events, EmptyState)
           B == StatesAfter(events, s)
           Seen(n) == {events[i].type : i \in 1..n}
           Bad == {n \in 0..Len(events) : ~Agree(A[n], B[n], Seen(n))}
<1>0. Bad \subseteq Nat /\ Len(events) \in Nat /\ Len(events) \in 0..Len(events)
    OBVIOUS
<1>1. IsState(EmptyState)
    BY DEF IsState, EmptyState
<1>2. \A n \in 0..Len(events) : IsState(A[n]) /\ IsState(B[n])
    BY <1>1, ReduceKeepsState
<1>3. A[0] = EmptyState /\ B[0] = s
    BY StatesAfterIs
<1>4. \A n \in 1..Len(events) :
          A[n] = ReduceStep(A[n - 1], events[n]) /\ B[n] = ReduceStep(B[n - 1], events[n])
    BY StatesAfterIs
<1> HIDE DEF A, B
<1>5. Bad = {}
    <2> SUFFICES ASSUME Bad # {} PROVE FALSE
        OBVIOUS
    <2>1. PICK n \in Bad : \A l \in Bad : n <= l
        BY <1>0, LeastNatural
    <2>2. CASE n = 0
        <3>1. Seen(0) = {}
            OBVIOUS
        <3>2. Agree(A[0], B[0], {})
            <4>1. EmptyState.tasks = <<>> /\ EmptyState.decisions = <<>> /\ EmptyState.questions = <<>>
                BY DEF EmptyState
            <4> QED BY <1>3, <4>1 DEF Agree
        <3> QED BY <2>2, <3>1, <3>2
    <2>3. CASE n # 0
        <3>1. n - 1 \in 0..Len(events) /\ n - 1 \notin Bad /\ n \in 1..Len(events)
            <4>1. n \in 0..Len(events)
                OBVIOUS
            <4> HIDE DEF Bad
            <4> QED BY <1>0, <2>1, <2>3, <4>1
        <3>2. Agree(A[n - 1], B[n - 1], Seen(n - 1))
            BY <3>1
        <3>3. Seen(n) = Seen(n - 1) \cup {events[n].type}
            <4>1. 1..n = (1..(n - 1)) \cup {n}
                BY <3>1
            <4> QED BY <4>1
        <3> HIDE DEF Seen
        <3>4. Agree(A[n], B[n], Seen(n - 1) \cup {events[n].type})
            BY <1>2, <1>4, <3>1, <3>2, StepAgrees
        <3> QED BY <3>3, <3>4
    <2> QED BY <2>2, <2>3
<1>6. Agree(A[Len(events)], B[Len(events)], Seen(Len(events)))
    BY <1>0, <1>5
<1>7. Required \subseteq Seen(Len(events))
    BY DEF Bootstrapped
<1>8. IsState(A[Len(events)]) /\ IsState(B[Len(events)])
    BY <1>0, <1>2
<1>9. A[Len(events)] = B[Len(events)]
    BY <1>6, <1>7, <1>8 DEF Required, Agree, IsState
<1> QED BY <1>9 DEF Reduce, A, B

-----------------------------------------------------------------------------
(* The inductive invariant of the two compilers on one table *)

Events == StreamEvents \cup UNION {{l[i] : i \in DOMAIN l} : l \in InitialLogs}

\* What a row of the table holds.  The legacy path's rows hold the state of the
\* stream up to their sequence.  The projection platform's have sequence 0 and
\* nothing but the project's fields, and are written for bootstrapped streams.
RowSound(p, events) ==
    \/ p = NoRow
    \/ /\ Bootstrapped(events)
       /\ p.sequence \in 0..Len(events)
       /\ p.sequence = 0 => p.tasks = <<>> /\ p.decisions = <<>> /\ p.questions = <<>>
       /\ p.sequence > 0 => ResumeState(p) = Reduce(SubSeq(events, 1, p.sequence), EmptyState)

HeadInv ==
    /\ stream \in Seq(Events)
    /\ RowSound(snap, stream)
    /\ DeltaIsFull /\ FastPathHoldsAll /\ ReplayIsFull

\* An event is in every longer stream, so a stream stays bootstrapped and a row
\* stays sound.
LEMMA RowStaysSound ==
    ASSUME NEW T, NEW events \in Seq(T), NEW e \in T, NEW p, RowSound(p, events)
    PROVE  RowSound(p, Append(events, e))
<1> DEFINE longer == Append(events, e)
<1> SUFFICES ASSUME p # NoRow PROVE RowSound(p, longer)
    BY DEF RowSound
<1>1. /\ Len(events) \in Nat /\ Len(longer) = Len(events) + 1 /\ longer \in Seq(T)
      /\ DOMAIN events \subseteq DOMAIN longer /\ \A i \in DOMAIN events : longer[i] = events[i]
    OBVIOUS
<1>2. Bootstrapped(longer)
    BY <1>1 DEF Bootstrapped, RowSound
<1>3. p.sequence \in 0..Len(events) /\ p.sequence \in 0..Len(longer)
    BY <1>1 DEF RowSound
<1>4. SubSeq(longer, 1, p.sequence) = SubSeq(events, 1, p.sequence)
    BY <1>1, <1>3
<1> HIDE DEF longer
<1> QED BY <1>2, <1>3, <1>4 DEF RowSound

\* A bootstrapped stream is not empty.
LEMMA BootstrappedHasEvents ==
    ASSUME NEW T, NEW events \in Seq(T), Bootstrapped(events)
    PROVE  Len(events) > 0 /\ events # <<>>
<1>1. "PROJECT_CREATED" \in {events[i].type : i \in DOMAIN events}
    BY DEF Bootstrapped, Required
<1>2. PICK i \in DOMAIN events : TRUE
    BY <1>1
<1> QED BY <1>2

\* The whole stream is its own longest prefix.
LEMMA WholePrefix ==
    ASSUME NEW T, NEW events \in Seq(T)
    PROVE  SubSeq(events, 1, Len(events)) = events
OBVIOUS

\* a result of the legacy path: the head of a full replay, or on the fast path
\* all that a full replay reduces to, and a row may be written from it
LegacyResult(r, events) ==
    LET s == Reduce(events, EmptyState) IN
    /\ r.mode \in {"fast_path", "delta", "full"}
    /\ r.mode # "fast_path" => r.head = FullHead(events)
    /\ r.mode = "fast_path" => /\ r.head.tasks = s.tasks /\ r.head.decisions = s.decisions
                               /\ r.head.questions = s.questions /\ r.head.focus = s.focus
    /\ RowSound(Payload(r.head, s, Len(events)), events)

\* What the legacy path returns: the head of a full replay, except on the fast
\* path, where it is what the row holds.  In either case the row written from it
\* holds the state of the stream.
LEMMA LegacyBuilds ==
    ASSUME NEW T, NEW events \in Seq(T), NEW p, RowSound(p, events), p # NoRow \/ Bootstrapped(events)
    PROVE  LegacyResult(BuildProjection(p, events), events)
<1> DEFINE s == Reduce(events, EmptyState)
           n == Len(events)
<1>1. Bootstrapped(events) /\ n \in Nat /\ n > 0
    BY BootstrappedHasEvents DEF RowSound
<1>2. IsState(s)
    <2>1. IsState(EmptyState) /\ n \in 0..n
        BY <1>1 DEF IsState, EmptyState
    <2> QED BY <2>1, ReduceKeepsState DEF Reduce
<1>3. SubSeq(events, 1, n) = events
    BY WholePrefix
<1> HIDE DEF s
<1>4. ASSUME NEW head, head.name = s.name, head.goal = s.goal, head.focus = s.focus
      PROVE  RowSound(Payload(head, s, n), events)
    <2>1. ResumeState(Payload(head, s, n)) = s /\ Payload(head, s, n).sequence = n
        BY <1>2, <1>4 DEF ResumeState, Payload, IsState
    <2>2. Reduce(SubSeq(events, 1, Payload(head, s, n).sequence), EmptyState) = s
        BY <1>3, <2>1 DEF s
    <2>3. Payload(head, s, n).sequence \in 0..n /\ Payload(head, s, n).sequence # 0
        BY <1>1, <2>1
    <2> QED BY <1>1, <2>1, <2>2, <2>3 DEF RowSound
<1>5. FullHead(events).name = s.name /\ FullHead(events).goal = s.goal /\ FullHead(events).focus = s.focus
    BY DEF FullHead, BuildHead, s
<1>6. CASE IsCurrent(p, n)
    <2>1. p # NoRow /\ p.sequence = n /\ ResumeState(p) = s
        <3>1. p # NoRow /\ p.sequence >= n
            BY <1>6 DEF IsCurrent
        <3>2. p.sequence \in 0..n
            BY <3>1 DEF RowSound
        <3>3. p.sequence = n /\ p.sequence > 0
            BY <1>1, <3>1, <3>2
        <3>4. ResumeState(p) = Reduce(SubSeq(events, 1, p.sequence), EmptyState)
            BY <3>1, <3>3 DEF RowSound
        <3> QED BY <1>3, <3>1, <3>3, <3>4 DEF s
    <2>2. BuildProjection(p, events) = [mode |-> "fast_path", head |-> ToCognitiveHead(p)]
        BY <1>6 DEF BuildProjection
    <2>3. /\ p.name = s.name /\ p.goal = s.goal /\ p.focus = s.focus
          /\ p.tasks = s.tasks /\ p.decisions = s.decisions /\ p.questions = s.questions
        BY <2>1 DEF ResumeState
    <2> DEFINE stored == ToCognitiveHead(p)
    <2>4. /\ stored.name = s.name /\ stored.goal = s.goal /\ stored.focus = s.focus
          /\ stored.tasks = s.tasks /\ stored.decisions = s.decisions /\ stored.questions = s.questions
        BY <2>3 DEF ToCognitiveHead
    <2> HIDE DEF stored
    <2>5. RowSound(Payload(stored, s, n), events)
        BY <1>4, <2>4
    <2>6. BuildProjection(p, events) = [mode |-> "fast_path", head |-> stored]
        BY <2>2 DEF stored
    <2> QED BY <2>4, <2>5, <2>6 DEF LegacyResult, s
<1>7. CASE ~IsCurrent(p, n)
    <2>1. ASSUME p # NoRow /\ p.sequence > 0
          PROVE  BuildProjection(p, events) = [mode |-> "delta", head |-> FullHead(events)]
        <3>1. p.sequence \in 0..n /\ ResumeState(p) = Reduce(SubSeq(events, 1, p.sequence), EmptyState)
            BY <2>1 DEF RowSound
        <3>2. Reduce(EventsSince(events, p.sequence), ResumeState(p)) = s
            BY <3>1, ReduceSplits DEF s
        <3>3. DeltaHead(p, events) = FullHead(events)
            BY <3>2 DEF DeltaHead, FullHead, s
        <3> QED BY <1>7, <2>1, <3>3 DEF BuildProjection
    <2>2. ASSUME ~(p # NoRow /\ p.sequence > 0)
          PROVE  BuildProjection(p, events) = [mode |-> "full", head |-> FullHead(events)]
        BY <1>7, <2>2 DEF BuildProjection
    <2>3. RowSound(Payload(FullHead(events), s, n), events)
        BY <1>4, <1>5
    <2> QED BY <2>1, <2>2, <2>3 DEF LegacyResult, s
<1> QED BY <1>6, <1>7

\* What the projection platform returns when it replays: the head of a full
\* replay, for which the stream must be bootstrapped.
LEMMA PlatformReplays ==
    ASSUME NEW T, NEW events \in Seq(T), NEW p, RowSound(p, events), CompileHead(p, events).mode = "v2_replay"
    PROVE  Bootstrapped(events) /\ CompileHead(p, events).head = FullHead(events)
<1> DEFINE n == Len(events)
           initial == IF p = NoRow THEN Nothing ELSE PayloadToHead(p)
           r == ReduceHead(events, 0, initial)
<1>1. n \in Nat
    OBVIOUS
<1>2. ~(p # NoRow /\ p.sequence >= n) /\ ~(p # NoRow /\ p.sequence > 0 /\ p.sequence < n)
    BY DEF CompileHead, Failed
<1>3. CompileHead(p, events) = IF r.ok THEN [mode |-> "v2_replay", head |-> r.head] ELSE Failed
    BY <1>2 DEF CompileHead
<1>4. r.ok /\ CompileHead(p, events).head = r.head
    BY <1>3 DEF Failed
<1>5. CASE p = NoRow
    <2>1. r = IF ~Bootstrapped(events) THEN [ok |-> FALSE]
              ELSE [ok |-> TRUE, head |-> BuildHead(Reduce(events, EmptyState), 0 + n)]
        BY <1>5 DEF ReduceHead
    <2>2. Bootstrapped(events)
        BY <1>4, <2>1
    <2>3. r.head = BuildHead(Reduce(events, EmptyState), 0 + n)
        BY <2>1, <2>2
    <2>4. 0 + n = n
        BY <1>1
    <2> QED BY <1>4, <2>2, <2>3, <2>4 DEF FullHead
<1>6. CASE p # NoRow
    <2>1. Bootstrapped(events) /\ p.sequence \in 0..n
        BY <1>6 DEF RowSound
    <2>2. n > 0 /\ events # <<>>
        BY <2>1, BootstrappedHasEvents
    <2>3. p.sequence = 0
        BY <1>1, <1>2, <1>6, <2>1
    <2>4. PayloadToHead(p) # Nothing
        BY DEF PayloadToHead, Nothing
    <2> DEFINE s == StateOfHead(PayloadToHead(p))
    <2>5. r = [ok |-> TRUE, head |-> BuildHead(Reduce(events, s), 0 + n)]
        BY <1>6, <2>2, <2>4 DEF ReduceHead
    <2>6. IsState(s) /\ s.tasks = <<>> /\ s.decisions = <<>> /\ s.questions = <<>>
        BY <1>6, <2>3 DEF RowSound, StateOfHead, PayloadToHead, IsState
    <2>7. 0 + n = n
        BY <1>1
    <2> HIDE DEF s
    <2>8. Reduce(events, s) = Reduce(events, EmptyState)
        BY <2>1, <2>6, Overwritten
    <2> QED BY <1>4, <2>1, <2>5, <2>7, <2>8 DEF FullHead
<1> QED BY <1>5, <1>6

\* Initially there is no row and no result.
LEMMA InitHeadInv == ASSUME LogsAssumption PROVE HeadInit => HeadInv
<1> SUFFICES ASSUME HeadInit PROVE HeadInv
    OBVIOUS
<1>1. stream \in Seq({stream[i] : i \in DOMAIN stream}) /\ {stream[i] : i \in DOMAIN stream} \subseteq Events
    BY DEF LogsAssumption, HeadInit, Events
<1>2. stream \in Seq(Events)
    BY <1>1
<1> QED BY <1>2 DEF HeadInv, HeadInit, RowSound, DeltaIsFull, FastPathHoldsAll, ReplayIsFull, Done

\* An append leaves the row sound and no result to judge.
LEMMA AppendKeepsHead == ASSUME HeadInv, NEW e \in StreamEvents, AppendToStream(e) PROVE HeadInv'
<1>1. stream \in Seq(Events) /\ e \in Events /\ stream' = Append(stream, e) /\ snap' = snap /\ last' = [mode |-> "none"]
    BY DEF HeadInv, AppendToStream, Events
<1>2. stream' \in Seq(Events)
    BY <1>1
<1>3. RowSound(snap', stream')
    BY <1>1, RowStaysSound DEF HeadInv
<1> QED BY <1>1, <1>2, <1>3 DEF HeadInv, DeltaIsFull, FastPathHoldsAll, ReplayIsFull, Done

\* The legacy path keeps the table and its own result sound.
LEMMA CompileKeepsHead == ASSUME HeadInv, Compile \/ CompileRefused PROVE HeadInv'
<1>1. CASE CompileRefused
    BY <1>1 DEF HeadInv, CompileRefused, DeltaIsFull, FastPathHoldsAll, ReplayIsFull, Done
<1>2. CASE Compile
    <2>1. stream \in Seq(Events) /\ RowSound(snap, stream) /\ (snap # NoRow \/ Bootstrapped(stream)) /\ stream' = stream
        BY <1>2 DEF HeadInv, Compile, Compilable
    <2> DEFINE result == BuildProjection(snap, stream)
    <2>2. LegacyResult(result, stream)
        BY <2>1, LegacyBuilds
    <2>3. last' = [mode |-> result.mode, head |-> result.head, at |-> Len(stream)]
        BY <1>2 DEF Compile
    <2>4. snap' = Payload(result.head, Reduce(stream, EmptyState), Len(stream)) \/ snap' = snap
        BY <1>2 DEF Compile
    <2> HIDE DEF result
    <2>5. RowSound(snap', stream')
        BY <2>1, <2>2, <2>4 DEF LegacyResult
    <2> QED BY <2>1, <2>2, <2>3, <2>5 DEF HeadInv, LegacyResult, DeltaIsFull, FastPathHoldsAll, ReplayIsFull, Done
<1> QED BY <1>1, <1>2

\* So does the projection platform.
LEMMA PlatformKeepsHead == ASSUME HeadInv, CompileV2 PROVE HeadInv'
<1> DEFINE result == CompileHead(snap, stream)
<1>1. stream \in Seq(Events) /\ RowSound(snap, stream) /\ stream' = stream
    BY DEF HeadInv, CompileV2
<1>2. last' = [mode |-> result.mode, head |-> result.head, at |-> Len(stream)]
    BY DEF CompileV2
<1>3. result.mode \in {"v2_fast_path", "v2_failed", "v2_replay"}
    BY DEF CompileHead, Failed
<1>4. snap' = snap \/ (result.mode = "v2_replay" /\ snap' = SnapshotOfHead(result.head, Len(stream)))
    BY DEF CompileV2
<1>5. result.mode = "v2_replay" => Bootstrapped(stream) /\ result.head = FullHead(stream)
    BY <1>1, PlatformReplays
<1> HIDE DEF result
<1>6. RowSound(snap', stream')
    <2>1. CASE snap' = snap
        BY <1>1, <2>1
    <2>2. CASE result.mode = "v2_replay" /\ snap' = SnapshotOfHead(result.head, Len(stream))
        BY <1>1, <1>5, <2>2 DEF SnapshotOfHead, RowSound
    <2> QED BY <1>4, <2>1, <2>2
<1> QED BY <1>1, <1>2, <1>3, <1>5, <1>6 DEF HeadInv, DeltaIsFull, FastPathHoldsAll, ReplayIsFull, Done

\* The rows of the shared table stay sound, whichever compiler wrote them last.
LEMMA HeadInvHolds == ASSUME LogsAssumption PROVE BothSpec => []HeadInv
<1>1. HeadInit => HeadInv
    BY InitHeadInv
<1>2. HeadInv /\ [BothNext]_headVars => HeadInv'
    <2> SUFFICES ASSUME HeadInv, [BothNext]_headVars PROVE HeadInv'
        OBVIOUS
    <2>1. CASE UNCHANGED headVars
        BY <2>1 DEF headVars, HeadInv, DeltaIsFull, FastPathHoldsAll, ReplayIsFull, Done
    <2>2. CASE \E e \in StreamEvents : AppendToStream(e)
        BY <2>2, AppendKeepsHead
    <2>3. CASE Compile \/ CompileRefused
        BY <2>3, CompileKeepsHead
    <2>4. CASE CompileV2
        BY <2>4, PlatformKeepsHead
    <2> QED BY <2>1, <2>2, <2>3, <2>4 DEF BothNext, HeadNext
<1> QED BY <1>1, <1>2, PTL DEF BothSpec

-----------------------------------------------------------------------------
(* What a list comprehension keeps *)

\* f is the list of the values picked from each prefix
PickedUpTo(f, m, d, places) ==
    f = [n \in 0..m |-> IF n = 0 THEN <<>>
                        ELSE IF n \in places THEN Append(f[n - 1], d[n]) ELSE f[n - 1]]

\* The equations of those lists.
LEMMA PickingIs ==
    ASSUME NEW f, NEW m, NEW d, NEW places, PickedUpTo(f, m, d, places)
    PROVE  \A n \in 0..m : f[n] = IF n = 0 THEN <<>>
                                  ELSE IF n \in places THEN Append(f[n - 1], d[n]) ELSE f[n - 1]
BY DEF PickedUpTo

\* There are such lists for every prefix.
LEMMA PickingExists ==
    ASSUME NEW T, NEW d \in Seq(T), NEW places, NEW m \in 0..Len(d)
    PROVE  \E f : PickedUpTo(f, m, d, places)
<1> DEFINE Bad == {k \in 0..Len(d) : ~\E f : PickedUpTo(f, k, d, places)}
<1> SUFFICES ASSUME Bad # {} PROVE FALSE
    OBVIOUS
<1>0. Bad \subseteq Nat
    OBVIOUS
<1>1. PICK k \in Bad : \A j \in Bad : k <= j
    BY <1>0, LeastNatural
<1>2. CASE k = 0
    <2>1. PickedUpTo([n \in 0..0 |-> <<>>], 0, d, places)
        BY DEF PickedUpTo
    <2> QED BY <1>2, <2>1
<1>3. CASE k # 0
    <2>1. k - 1 \in 0..Len(d) /\ k - 1 \notin Bad
        BY <1>1, <1>3
    <2>2. PICK g : PickedUpTo(g, k - 1, d, places)
        BY <2>1
    <2> DEFINE next == IF k \in places THEN Append(g[k - 1], d[k]) ELSE g[k - 1]
               f == [n \in 0..k |-> IF n = k THEN next ELSE g[n]]
    <2>3. \A n \in 0..k : f[n] = IF n = 0 THEN <<>>
                                 ELSE IF n \in places THEN Append(f[n - 1], d[n]) ELSE f[n - 1]
        <3>1. \A n \in 0..(k - 1) : g[n] = IF n = 0 THEN <<>>
                                 ELSE IF n \in places THEN Append(g[n - 1], d[n]) ELSE g[n - 1]
            BY <2>2, PickingIs
        <3> SUFFICES ASSUME NEW n \in 0..k
                     PROVE  f[n] = IF n = 0 THEN <<>>
                                   ELSE IF n \in places THEN Append(f[n - 1], d[n]) ELSE f[n - 1]
            OBVIOUS
        <3>2. CASE n = k
            <4>1. f[k] = next /\ f[k - 1] = g[k - 1]
                BY <1>3
            <4> HIDE DEF f
            <4> QED BY <1>3, <3>2, <4>1
        <3>3. CASE n # k
            <4>1. n \in 0..(k - 1) /\ f[n] = g[n]
                BY <3>3
            <4>2. n # 0 => f[n - 1] = g[n - 1]
                BY <3>3
            <4> HIDE DEF f
            <4> QED BY <3>1, <4>1, <4>2
        <3> QED BY <3>2, <3>3
    <2>4. PickedUpTo(f, k, d, places)
        BY <2>3 DEF PickedUpTo
    <2> QED BY <2>4
<1> QED BY <1>2, <1>3

\* Appending adds one value.
LEMMA AppendSet ==
    ASSUME NEW T, NEW q \in Seq(T), NEW v \in T
    PROVE  Append(q, v) \in Seq(T) /\ ToSet(Append(q, v)) = ToSet(q) \cup {v}
<1>1. Len(q) \in Nat /\ DOMAIN q = 1..Len(q) /\ DOMAIN Append(q, v) = 1..(Len(q) + 1)
    OBVIOUS
<1>2. (\A i \in 1..Len(q) : Append(q, v)[i] = q[i]) /\ Append(q, v)[Len(q) + 1] = v
    OBVIOUS
<1>3. 1..(Len(q) + 1) = (1..Len(q)) \cup {Len(q) + 1}
    BY <1>1
<1>4. ToSet(Append(q, v)) = {Append(q, v)[i] : i \in (1..Len(q)) \cup {Len(q) + 1}}
    BY <1>1, <1>3 DEF ToSet
<1>5. ToSet(q) = {q[i] : i \in 1..Len(q)}
    BY <1>1 DEF ToSet
<1> QED BY <1>2, <1>4, <1>5

\* Joining two sequences joins their values.
LEMMA ConcatSet ==
    ASSUME NEW T, NEW a \in Seq(T), NEW b \in Seq(T)
    PROVE  a \o b \in Seq(T) /\ ToSet(a \o b) = ToSet(a) \cup ToSet(b)
<1> DEFINE c == a \o b
<1>1. Len(a) \in Nat /\ Len(b) \in Nat /\ DOMAIN a = 1..Len(a) /\ DOMAIN b = 1..Len(b)
    OBVIOUS
<1>2. c \in Seq(T) /\ DOMAIN c = 1..(Len(a) + Len(b))
    OBVIOUS
<1>3. \A i \in 1..Len(a) : c[i] = a[i] /\ i \in DOMAIN c
    BY <1>1, <1>2
<1>4. \A i \in 1..Len(b) : c[Len(a) + i] = b[i] /\ Len(a) + i \in DOMAIN c
    BY <1>1, <1>2
<1> HIDE DEF c
<1>5. ASSUME NEW i \in DOMAIN c PROVE c[i] \in ToSet(a) \cup ToSet(b)
    <2>1. CASE i \in 1..Len(a)
        BY <1>1, <1>3, <2>1 DEF ToSet
    <2>2. CASE i \notin 1..Len(a)
        <3>1. i - Len(a) \in 1..Len(b) /\ i = Len(a) + (i - Len(a))
            BY <1>1, <1>2, <2>2
        <3>2. c[i] = b[i - Len(a)]
            BY <1>4, <3>1
        <3> QED BY <1>1, <3>1, <3>2 DEF ToSet
    <2> QED BY <2>1, <2>2
<1>6. ToSet(a) \subseteq ToSet(c)
    BY <1>1, <1>3 DEF ToSet
<1>7. ToSet(b) \subseteq ToSet(c)
    BY <1>1, <1>4 DEF ToSet
<1>8. ToSet(c) \subseteq ToSet(a) \cup ToSet(b)
    BY <1>5 DEF ToSet
<1>9. ToSet(c) = ToSet(a) \cup ToSet(b)
    BY <1>6, <1>7, <1>8
<1> QED BY <1>2, <1>9 DEF c

\* A list comprehension keeps the values at the places of its condition, and no
\* others.
LEMMA PickedKeeps ==
    ASSUME NEW T, NEW d \in Seq(T), NEW places \in SUBSET DOMAIN d
    PROVE  Picked(d, places) \in Seq(T) /\ ToSet(Picked(d, places)) = {d[i] : i \in places}
<1>1. Len(d) \in Nat /\ Len(d) \in 0..Len(d) /\ DOMAIN d = 1..Len(d)
    OBVIOUS
<1>2. \E f : PickedUpTo(f, Len(d), d, places)
    BY <1>1, PickingExists
<1>3. PICK f : PickedUpTo(f, Len(d), d, places) /\ Picked(d, places) = f[Len(d)]
    BY <1>2 DEF Picked, PickedUpTo
<1>4. f[0] = <<>> /\ \A n \in 1..Len(d) :
                        f[n] = IF n \in places THEN Append(f[n - 1], d[n]) ELSE f[n - 1]
    <2>1. \A n \in 0..Len(d) : f[n] = IF n = 0 THEN <<>>
                                      ELSE IF n \in places THEN Append(f[n - 1], d[n]) ELSE f[n - 1]
        BY <1>3, PickingIs
    <2>2. f[0] = <<>>
        BY <1>1, <2>1
    <2>3. \A n \in 1..Len(d) : n \in 0..Len(d) /\ n # 0
        BY <1>1
    <2> QED BY <2>1, <2>2, <2>3
<1> DEFINE Holds(n) == f[n] \in Seq(T) /\ ToSet(f[n]) = {d[i] : i \in {j \in places : j <= n}}
           Bad == {n \in 0..Len(d) : ~Holds(n)}
<1>5. Bad = {}
    <2> SUFFICES ASSUME Bad # {} PROVE FALSE
        OBVIOUS
    <2>0. Bad \subseteq Nat
        OBVIOUS
    <2>1. PICK n \in Bad : \A j \in Bad : n <= j
        BY <2>0, LeastNatural
    <2>2. CASE n = 0
        <3>1. {j \in places : j <= 0} = {}
            BY <1>1
        <3>2. ToSet(<<>>) = {}
            BY DEF ToSet
        <3>3. f[0] = <<>> /\ <<>> \in Seq(T)
            BY <1>4
        <3>4. {d[i] : i \in {j \in places : j <= 0}} = {}
            BY <3>1
        <3>5. Holds(0)
            BY <3>2, <3>3, <3>4
        <3> QED BY <2>2, <3>5
    <2>3. CASE n # 0
        <3>1. n - 1 \in 0..Len(d) /\ n - 1 \notin Bad /\ n \in 1..Len(d)
            <4>1. n \in 0..Len(d)
                OBVIOUS
            <4> HIDE DEF Bad
            <4> QED BY <1>1, <2>1, <2>3, <4>1
        <3>2. Holds(n - 1)
            BY <3>1
        <3>3. CASE n \in places
            <4>1. f[n] = Append(f[n - 1], d[n]) /\ f[n - 1] \in Seq(T) /\ d[n] \in T
                <5>1. f[n] = Append(f[n - 1], d[n])
                    BY <1>4, <3>1, <3>3
                <5>2. f[n - 1] \in Seq(T)
                    BY <3>2
                <5> QED BY <1>1, <3>1, <5>1, <5>2
            <4>2. f[n] \in Seq(T) /\ ToSet(f[n]) = ToSet(f[n - 1]) \cup {d[n]}
                BY <4>1, AppendSet
            <4>3. {j \in places : j <= n} = {j \in places : j <= n - 1} \cup {n}
                BY <1>1, <3>1, <3>3
            <4> QED BY <3>2, <4>2, <4>3
        <3>4. CASE n \notin places
            <4>1. f[n] = f[n - 1]
                BY <1>4, <3>1, <3>4
            <4>2. {j \in places : j <= n} = {j \in places : j <= n - 1}
                BY <1>1, <3>1, <3>4
            <4> QED BY <3>2, <4>1, <4>2
        <3> QED BY <3>3, <3>4
    <2> QED BY <2>2, <2>3
<1>6. Holds(Len(d))
    BY <1>1, <1>5
<1>7. {j \in places : j <= Len(d)} = places
    BY <1>1
<1> QED BY <1>3, <1>6, <1>7

\* A dict is a sequence of records with an id.
IsDict(d) == d \in Seq(ToSet(d)) /\ \A x \in ToSet(d) : "id" \in DOMAIN x

\* Sorting by priority keeps every value.
LEMMA ByPriorityKeeps ==
    ASSUME NEW T, NEW d \in Seq(T)
    PROVE  ByPriority(d) \in Seq(T) /\ ToSet(ByPriority(d)) = ToSet(d)
<1> DEFINE Of(rank) == Picked(d, {i \in DOMAIN d : Rank(d[i].priority) = rank})
<1>1. \A rank \in {0, 1, 2, 3} :
          /\ Of(rank) \in Seq(T)
          /\ ToSet(Of(rank)) = {d[i] : i \in {j \in DOMAIN d : Rank(d[j].priority) = rank}}
    BY PickedKeeps
<1>2. \A i \in DOMAIN d : Rank(d[i].priority) \in {0, 1, 2, 3}
    BY DEF Rank
<1>3. ByPriority(d) = Of(0) \o Of(1) \o Of(2) \o Of(3)
    BY DEF ByPriority
<1> HIDE DEF Of
<1>4. /\ ByPriority(d) \in Seq(T)
      /\ ToSet(ByPriority(d)) = ToSet(Of(0)) \cup ToSet(Of(1)) \cup ToSet(Of(2)) \cup ToSet(Of(3))
    <2> DEFINE one == Of(0) \o Of(1)
               two == one \o Of(2)
    <2>1. Of(0) \in Seq(T) /\ Of(1) \in Seq(T) /\ Of(2) \in Seq(T) /\ Of(3) \in Seq(T)
        BY <1>1
    <2>2. one \in Seq(T) /\ ToSet(one) = ToSet(Of(0)) \cup ToSet(Of(1))
        BY <2>1, ConcatSet
    <2> HIDE DEF one
    <2>3. two \in Seq(T) /\ ToSet(two) = ToSet(one) \cup ToSet(Of(2))
        BY <2>1, <2>2, ConcatSet
    <2> HIDE DEF two
    <2>4. two \o Of(3) \in Seq(T) /\ ToSet(two \o Of(3)) = ToSet(two) \cup ToSet(Of(3))
        BY <2>1, <2>3, ConcatSet
    <2>5. ByPriority(d) = two \o Of(3)
        BY <1>3 DEF one, two
    <2> QED BY <2>2, <2>3, <2>4, <2>5
<1> QED BY <1>1, <1>2, <1>4 DEF ToSet

\* What the head lists of each dict.
LEMMA HeadLists ==
    ASSUME NEW T, NEW d \in Seq(T)
    PROVE  /\ ActiveTasks(d) \in Seq(T) /\ ToSet(ActiveTasks(d)) = {x \in ToSet(d) : x.status # "completed"}
           /\ ActiveDecisions(d) \in Seq(T) /\ ToSet(ActiveDecisions(d)) = {x \in ToSet(d) : x.status = "accepted"}
           /\ OpenQuestions(d) \in Seq(T) /\ ToSet(OpenQuestions(d)) = {x \in ToSet(d) : x.status = "open"}
<1> DEFINE pending == {i \in DOMAIN d : d[i].status # "completed"}
           accepted == {i \in DOMAIN d : d[i].status = "accepted"}
           open == {i \in DOMAIN d : d[i].status = "open"}
<1>1. Picked(d, pending) \in Seq(T) /\ ToSet(Picked(d, pending)) = {d[i] : i \in pending}
    BY PickedKeeps
<1>2. Picked(d, accepted) \in Seq(T) /\ ToSet(Picked(d, accepted)) = {d[i] : i \in accepted}
    BY PickedKeeps
<1>3. Picked(d, open) \in Seq(T) /\ ToSet(Picked(d, open)) = {d[i] : i \in open}
    BY PickedKeeps
<1>4. ActiveTasks(d) \in Seq(T) /\ ToSet(ActiveTasks(d)) = {d[i] : i \in pending}
    BY <1>1, ByPriorityKeeps DEF ActiveTasks
<1>5. ActiveDecisions(d) \in Seq(T) /\ ToSet(ActiveDecisions(d)) = {d[i] : i \in accepted}
    BY <1>2 DEF ActiveDecisions
<1>6. OpenQuestions(d) \in Seq(T) /\ ToSet(OpenQuestions(d)) = {d[i] : i \in open}
    BY <1>3, ByPriorityKeeps DEF OpenQuestions
<1>7. /\ {d[i] : i \in pending} = {x \in ToSet(d) : x.status # "completed"}
      /\ {d[i] : i \in accepted} = {x \in ToSet(d) : x.status = "accepted"}
      /\ {d[i] : i \in open} = {x \in ToSet(d) : x.status = "open"}
    BY DEF ToSet
<1> QED BY <1>4, <1>5, <1>6, <1>7

-----------------------------------------------------------------------------
(* What is lost by resuming from a head *)

\* b holds the values of the dict a whose ids are in kept, in any order; a holds
\* one value for an id
Lost(a, b, kept) ==
    /\ IsDict(a) /\ IsDict(b)
    /\ \A x, y \in ToSet(a) : x.id = y.id => x = y
    /\ ToSet(b) = {x \in ToSet(a) : x.id \in kept}

\* dict[key] = value, as a change of the set of values.
LEMMA PutSet ==
    ASSUME NEW d, IsDict(d), NEW v, "id" \in DOMAIN v
    PROVE  IsDict(Put(d, v)) /\ ToSet(Put(d, v)) = {x \in ToSet(d) : x.id # v.id} \cup {v}
<1>1. d \in Seq(ToSet(d)) /\ DOMAIN d = 1..Len(d) /\ Len(d) \in Nat
    BY DEF IsDict
<1>2. CASE Has(d, v.id)
    <2>1. Put(d, v) = [i \in DOMAIN d |-> IF d[i].id = v.id THEN v ELSE d[i]]
        BY <1>2 DEF Put
    <2>2. ToSet(Put(d, v)) = {IF d[i].id = v.id THEN v ELSE d[i] : i \in DOMAIN d}
        BY <2>1 DEF ToSet
    <2>3. \E i \in DOMAIN d : d[i].id = v.id
        BY <1>2 DEF Has
    <2>4. ToSet(Put(d, v)) = {x \in ToSet(d) : x.id # v.id} \cup {v}
        BY <2>2, <2>3 DEF ToSet
    <2>5. Put(d, v) \in [1..Len(d) -> ToSet(Put(d, v))]
        BY <1>1, <2>1 DEF ToSet
    <2>6. Put(d, v) \in Seq(ToSet(Put(d, v)))
        BY <1>1, <2>5
    <2> QED BY <2>4, <2>6 DEF IsDict
<1>3. CASE ~Has(d, v.id)
    <2>1. Put(d, v) = Append(d, v)
        BY <1>3 DEF Put
    <2>2. d \in Seq(ToSet(d) \cup {v})
        BY <1>1
    <2>3. Append(d, v) \in Seq(ToSet(d) \cup {v}) /\ ToSet(Append(d, v)) = ToSet(d) \cup {v}
        BY <2>2, AppendSet
    <2>4. \A x \in ToSet(d) : x.id # v.id
        BY <1>3 DEF Has, ToSet
    <2> QED BY <2>1, <2>3, <2>4 DEF IsDict
<1> QED BY <1>2, <1>3

\* Creating an item keeps the relation, with the item among the kept.
LEMMA PutLost ==
    ASSUME NEW a, NEW b, NEW kept, Lost(a, b, kept), NEW v, "id" \in DOMAIN v
    PROVE  Lost(Put(a, v), Put(b, v), kept \cup {v.id})
<1>1. IsDict(a) /\ IsDict(b)
    BY DEF Lost
<1>2. IsDict(Put(a, v)) /\ ToSet(Put(a, v)) = {x \in ToSet(a) : x.id # v.id} \cup {v}
    BY <1>1, PutSet
<1>3. IsDict(Put(b, v)) /\ ToSet(Put(b, v)) = {x \in ToSet(b) : x.id # v.id} \cup {v}
    BY <1>1, PutSet
<1>4. ToSet(b) = {x \in ToSet(a) : x.id \in kept} /\ \A x, y \in ToSet(a) : x.id = y.id => x = y
    BY DEF Lost
<1>5. \A x, y \in ToSet(Put(a, v)) : x.id = y.id => x = y
    BY <1>2, <1>4
<1>6. ToSet(Put(b, v)) = {x \in ToSet(Put(a, v)) : x.id \in kept \cup {v.id}}
    BY <1>2, <1>3, <1>4
<1> QED BY <1>2, <1>3, <1>5, <1>6 DEF Lost

\* Changing a field of the items of one id, but not the id, keeps the relation.
LEMMA SetFieldLost ==
    ASSUME NEW a, NEW b, NEW kept, Lost(a, b, kept), NEW id, NEW f, f # "id", NEW val
    PROVE  Lost(SetField(a, id, f, val), SetField(b, id, f, val), kept)
<1> DEFINE G(x) == IF x.id = id THEN [x EXCEPT ![f] = val] ELSE x
<1>1. ASSUME NEW x, "id" \in DOMAIN x PROVE "id" \in DOMAIN G(x) /\ G(x).id = x.id
    BY <1>1
<1>2. ASSUME NEW d, IsDict(d)
      PROVE  /\ IsDict(SetField(d, id, f, val))
             /\ ToSet(SetField(d, id, f, val)) = {G(x) : x \in ToSet(d)}
    <2>1. SetField(d, id, f, val) = [i \in DOMAIN d |-> G(d[i])]
        BY DEF SetField
    <2> HIDE DEF G
    <2>2. ToSet(SetField(d, id, f, val)) = {G(x) : x \in ToSet(d)}
        BY <2>1 DEF ToSet
    <2>3. DOMAIN d = 1..Len(d) /\ Len(d) \in Nat
        BY <1>2 DEF IsDict
    <2>4. SetField(d, id, f, val) \in [1..Len(d) -> ToSet(SetField(d, id, f, val))]
        BY <2>1, <2>3 DEF ToSet
    <2>5. SetField(d, id, f, val) \in Seq(ToSet(SetField(d, id, f, val)))
        BY <2>3, <2>4
    <2>6. \A x \in ToSet(SetField(d, id, f, val)) : "id" \in DOMAIN x
        BY <1>1, <1>2, <2>2 DEF IsDict
    <2> QED BY <2>2, <2>5, <2>6 DEF IsDict
<1> HIDE DEF G
<1>3. IsDict(a) /\ IsDict(b) /\ (\A x \in ToSet(a) : "id" \in DOMAIN x)
    BY DEF Lost, IsDict
<1>4. ToSet(b) = {x \in ToSet(a) : x.id \in kept} /\ \A x, y \in ToSet(a) : x.id = y.id => x = y
    BY DEF Lost
<1>5. /\ IsDict(SetField(a, id, f, val)) /\ IsDict(SetField(b, id, f, val))
      /\ ToSet(SetField(a, id, f, val)) = {G(x) : x \in ToSet(a)}
      /\ ToSet(SetField(b, id, f, val)) = {G(x) : x \in ToSet(b)}
    BY <1>2, <1>3
<1>6. \A x, y \in ToSet(a) : G(x).id = G(y).id => G(x) = G(y)
    BY <1>1, <1>3, <1>4
<1>7. {G(x) : x \in ToSet(b)} = {y \in {G(x) : x \in ToSet(a)} : y.id \in kept}
    BY <1>1, <1>3, <1>4
<1> QED BY <1>5, <1>6, <1>7 DEF Lost

\* So does adding a note.
LEMMA AddNoteLost ==
    ASSUME NEW a, NEW b, NEW kept, Lost(a, b, kept), NEW id, NEW note
    PROVE  Lost(AddNote(a, id, note), AddNote(b, id, note), kept)
<1> DEFINE G(x) == IF x.id = id THEN [x EXCEPT !.notes = Append(@, note)] ELSE x
<1>1. ASSUME NEW x, "id" \in DOMAIN x PROVE "id" \in DOMAIN G(x) /\ G(x).id = x.id
    BY <1>1
<1>2. ASSUME NEW d, IsDict(d)
      PROVE  IsDict(AddNote(d, id, note)) /\ ToSet(AddNote(d, id, note)) = {G(x) : x \in ToSet(d)}
    <2>1. AddNote(d, id, note) = [i \in DOMAIN d |-> G(d[i])]
        BY DEF AddNote
    <2> HIDE DEF G
    <2>2. ToSet(AddNote(d, id, note)) = {G(x) : x \in ToSet(d)}
        BY <2>1 DEF ToSet
    <2>3. DOMAIN d = 1..Len(d) /\ Len(d) \in Nat
        BY <1>2 DEF IsDict
    <2>4. AddNote(d, id, note) \in [1..Len(d) -> ToSet(AddNote(d, id, note))]
        BY <2>1, <2>3 DEF ToSet
    <2>5. AddNote(d, id, note) \in Seq(ToSet(AddNote(d, id, note)))
        BY <2>3, <2>4
    <2>6. \A x \in ToSet(AddNote(d, id, note)) : "id" \in DOMAIN x
        BY <1>1, <1>2, <2>2 DEF IsDict
    <2> QED BY <2>2, <2>5, <2>6 DEF IsDict
<1> HIDE DEF G
<1>3. IsDict(a) /\ IsDict(b) /\ (\A x \in ToSet(a) : "id" \in DOMAIN x)
    BY DEF Lost, IsDict
<1>4. ToSet(b) = {x \in ToSet(a) : x.id \in kept} /\ \A x, y \in ToSet(a) : x.id = y.id => x = y
    BY DEF Lost
<1>5. /\ IsDict(AddNote(a, id, note)) /\ IsDict(AddNote(b, id, note))
      /\ ToSet(AddNote(a, id, note)) = {G(x) : x \in ToSet(a)}
      /\ ToSet(AddNote(b, id, note)) = {G(x) : x \in ToSet(b)}
    BY <1>2, <1>3
<1>6. \A x, y \in ToSet(a) : G(x).id = G(y).id => G(x) = G(y)
    BY <1>1, <1>3, <1>4
<1>7. {G(x) : x \in ToSet(b)} = {y \in {G(x) : x \in ToSet(a)} : y.id \in kept}
    BY <1>1, <1>3, <1>4
<1> QED BY <1>5, <1>6, <1>7 DEF Lost

\* The state b resumed from a head beside the state a of a full replay, where kept
\* has the ids of tasks, decisions and questions that b knows of
Resumed(a, b, kept) ==
    /\ IsState(a) /\ IsState(b)
    /\ a.name = b.name /\ a.goal = b.goal /\ a.focus = b.focus
    /\ Lost(a.tasks, b.tasks, kept.tasks)
    /\ Lost(a.decisions, b.decisions, kept.decisions)
    /\ Lost(a.questions, b.questions, kept.questions)

MadeBy(e, type) == IF e.type = type THEN {e.id} ELSE {}

\* One event keeps the relation of the tasks, with a task it creates among the kept.
LEMMA TaskStepLost ==
    ASSUME NEW a, NEW b, NEW e, NEW kept, IsState(a), IsState(b), Lost(a.tasks, b.tasks, kept)
    PROVE  Lost(TaskStep(a, e).tasks, TaskStep(b, e).tasks, kept \cup MadeBy(e, "TASK_CREATED"))
<1>1. CASE e.type = "TASK_CREATED"
    <2> DEFINE v == [id |-> e.id, status |-> "open", priority |-> e.priority,
                     blockedBy |-> e.blockedBy, notes |-> <<>>]
    <2>1. ASSUME NEW s, IsState(s) PROVE TaskStep(s, e).tasks = Put(s.tasks, v)
        BY <1>1, <2>1 DEF TaskStep, IsState
    <2>2. "id" \in DOMAIN v /\ v.id = e.id
        OBVIOUS
    <2> HIDE DEF v
    <2>3. Lost(Put(a.tasks, v), Put(b.tasks, v), kept \cup {v.id})
        BY <2>2, PutLost
    <2> QED BY <1>1, <2>1, <2>2, <2>3 DEF MadeBy
<1>2. CASE e.type = "TASK_PROGRESS_NOTED"
    <2>1. ASSUME NEW s, IsState(s) PROVE TaskStep(s, e).tasks = AddNote(s.tasks, e.id, e.note)
        BY <1>2, <2>1 DEF TaskStep, IsState
    <2>2. kept \cup MadeBy(e, "TASK_CREATED") = kept
        BY <1>2 DEF MadeBy
    <2> QED BY <2>1, <2>2, AddNoteLost
<1>3. CASE e.type = "TASK_MUTATED" /\ e.field # "id"
    <2>1. ASSUME NEW s, IsState(s) PROVE TaskStep(s, e).tasks = SetField(s.tasks, e.id, e.field, e.value)
        BY <1>3, <2>1 DEF TaskStep, IsState
    <2>2. kept \cup MadeBy(e, "TASK_CREATED") = kept
        BY <1>3 DEF MadeBy
    <2> QED BY <1>3, <2>1, <2>2, SetFieldLost
<1>4. CASE e.type = "TASK_COMPLETED"
    <2>1. ASSUME NEW s, IsState(s) PROVE TaskStep(s, e).tasks = SetField(s.tasks, e.id, "status", "completed")
        BY <1>4, <2>1 DEF TaskStep, IsState
    <2>2. kept \cup MadeBy(e, "TASK_CREATED") = kept /\ "status" # "id"
        BY <1>4 DEF MadeBy
    <2> QED BY <2>1, <2>2, SetFieldLost
<1>5. CASE /\ e.type \notin {"TASK_CREATED", "TASK_PROGRESS_NOTED", "TASK_COMPLETED"}
           /\ ~(e.type = "TASK_MUTATED" /\ e.field # "id")
    <2>1. ASSUME NEW s, IsState(s) PROVE TaskStep(s, e) = s
        BY <1>5 DEF TaskStep
    <2>2. kept \cup MadeBy(e, "TASK_CREATED") = kept
        BY <1>5 DEF MadeBy
    <2> QED BY <2>1, <2>2
<1> QED BY <1>1, <1>2, <1>3, <1>4, <1>5

\* The same of decisions.
LEMMA DecisionStepLost ==
    ASSUME NEW a, NEW b, NEW e, NEW kept, IsState(a), IsState(b), Lost(a.decisions, b.decisions, kept)
    PROVE  Lost(DecisionStep(a, e).decisions, DecisionStep(b, e).decisions,
                kept \cup MadeBy(e, "DECISION_PROPOSED"))
<1>1. CASE e.type = "DECISION_PROPOSED"
    <2> DEFINE v == [id |-> e.id, status |-> "proposed"]
    <2>1. ASSUME NEW s, IsState(s) PROVE DecisionStep(s, e).decisions = Put(s.decisions, v)
        BY <1>1, <2>1 DEF DecisionStep, IsState
    <2>2. "id" \in DOMAIN v /\ v.id = e.id
        OBVIOUS
    <2> HIDE DEF v
    <2>3. Lost(Put(a.decisions, v), Put(b.decisions, v), kept \cup {v.id})
        BY <2>2, PutLost
    <2> QED BY <1>1, <2>1, <2>2, <2>3 DEF MadeBy
<1>2. CASE e.type \in {"DECISION_ACCEPTED", "DECISION_SUPERSEDED"}
    <2> DEFINE status == IF e.type = "DECISION_ACCEPTED" THEN "accepted" ELSE "superseded"
    <2>1. ASSUME NEW s, IsState(s) PROVE DecisionStep(s, e).decisions = SetField(s.decisions, e.id, "status", status)
        BY <1>2, <2>1 DEF DecisionStep, IsState
    <2>2. kept \cup MadeBy(e, "DECISION_PROPOSED") = kept /\ "status" # "id"
        BY <1>2 DEF MadeBy
    <2> HIDE DEF status
    <2> QED BY <2>1, <2>2, SetFieldLost
<1>3. CASE e.type \notin {"DECISION_PROPOSED", "DECISION_ACCEPTED", "DECISION_SUPERSEDED"}
    <2>1. ASSUME NEW s, IsState(s) PROVE DecisionStep(s, e) = s
        BY <1>3 DEF DecisionStep
    <2>2. kept \cup MadeBy(e, "DECISION_PROPOSED") = kept
        BY <1>3 DEF MadeBy
    <2> QED BY <2>1, <2>2
<1> QED BY <1>1, <1>2, <1>3

\* The same of questions.
LEMMA QuestionStepLost ==
    ASSUME NEW a, NEW b, NEW e, NEW kept, IsState(a), IsState(b), Lost(a.questions, b.questions, kept)
    PROVE  Lost(QuestionStep(a, e).questions, QuestionStep(b, e).questions,
                kept \cup MadeBy(e, "OPEN_QUESTION_RAISED"))
<1>1. CASE e.type = "OPEN_QUESTION_RAISED"
    <2> DEFINE v == [id |-> e.id, status |-> "open", priority |-> e.priority, blocks |-> e.blocks]
    <2>1. ASSUME NEW s, IsState(s) PROVE QuestionStep(s, e).questions = Put(s.questions, v)
        BY <1>1, <2>1 DEF QuestionStep, IsState
    <2>2. "id" \in DOMAIN v /\ v.id = e.id
        OBVIOUS
    <2> HIDE DEF v
    <2>3. Lost(Put(a.questions, v), Put(b.questions, v), kept \cup {v.id})
        BY <2>2, PutLost
    <2> QED BY <1>1, <2>1, <2>2, <2>3 DEF MadeBy
<1>2. CASE e.type = "OPEN_QUESTION_RESOLVED"
    <2>1. ASSUME NEW s, IsState(s) PROVE QuestionStep(s, e).questions = SetField(s.questions, e.id, "status", "resolved")
        BY <1>2, <2>1 DEF QuestionStep, IsState
    <2>2. kept \cup MadeBy(e, "OPEN_QUESTION_RAISED") = kept /\ "status" # "id"
        BY <1>2 DEF MadeBy
    <2> QED BY <2>1, <2>2, SetFieldLost
<1>3. CASE e.type \notin {"OPEN_QUESTION_RAISED", "OPEN_QUESTION_RESOLVED"}
    <2>1. ASSUME NEW s, IsState(s) PROVE QuestionStep(s, e) = s
        BY <1>3 DEF QuestionStep
    <2>2. kept \cup MadeBy(e, "OPEN_QUESTION_RAISED") = kept
        BY <1>3 DEF MadeBy
    <2> QED BY <2>1, <2>2
<1> QED BY <1>1, <1>2, <1>3

\* Each reducer leaves the fields of the others alone.
LEMMA StepsFrame ==
    ASSUME NEW s, NEW e, IsState(s)
    PROVE  /\ LET p == ProjectStep(s, e)
              IN  IsState(p) /\ p.tasks = s.tasks /\ p.decisions = s.decisions /\ p.questions = s.questions
           /\ LET p == TaskStep(s, e)
              IN  /\ IsState(p) /\ p.name = s.name /\ p.goal = s.goal /\ p.focus = s.focus
                  /\ p.decisions = s.decisions /\ p.questions = s.questions
           /\ LET p == DecisionStep(s, e)
              IN  /\ IsState(p) /\ p.name = s.name /\ p.goal = s.goal /\ p.focus = s.focus
                  /\ p.tasks = s.tasks /\ p.questions = s.questions
           /\ LET p == QuestionStep(s, e)
              IN  /\ IsState(p) /\ p.name = s.name /\ p.goal = s.goal /\ p.focus = s.focus
                  /\ p.tasks = s.tasks /\ p.decisions = s.decisions
<1>1. LET p == ProjectStep(s, e)
      IN  IsState(p) /\ p.tasks = s.tasks /\ p.decisions = s.decisions /\ p.questions = s.questions
    BY DEF IsState, ProjectStep
<1>2. LET p == TaskStep(s, e)
      IN  /\ IsState(p) /\ p.name = s.name /\ p.goal = s.goal /\ p.focus = s.focus
          /\ p.decisions = s.decisions /\ p.questions = s.questions
    BY DEF IsState, TaskStep
<1>3. LET p == DecisionStep(s, e)
      IN  /\ IsState(p) /\ p.name = s.name /\ p.goal = s.goal /\ p.focus = s.focus
          /\ p.tasks = s.tasks /\ p.questions = s.questions
    BY DEF IsState, DecisionStep
<1>4. LET p == QuestionStep(s, e)
      IN  /\ IsState(p) /\ p.name = s.name /\ p.goal = s.goal /\ p.focus = s.focus
          /\ p.tasks = s.tasks /\ p.decisions = s.decisions
    BY DEF IsState, QuestionStep
<1> QED BY <1>1, <1>2, <1>3, <1>4

\* One event keeps the relation of two states.
LEMMA StepResumes ==
    ASSUME NEW a, NEW b, NEW e, NEW kept, Resumed(a, b, kept)
    PROVE  Resumed(ReduceStep(a, e), ReduceStep(b, e),
                   [tasks |-> kept.tasks \cup MadeBy(e, "TASK_CREATED"),
                    decisions |-> kept.decisions \cup MadeBy(e, "DECISION_PROPOSED"),
                    questions |-> kept.questions \cup MadeBy(e, "OPEN_QUESTION_RAISED")])
<1> DEFINE a1 == ProjectStep(a, e)
           b1 == ProjectStep(b, e)
           a2 == TaskStep(a1, e)
           b2 == TaskStep(b1, e)
           a3 == DecisionStep(a2, e)
           b3 == DecisionStep(b2, e)
           a4 == QuestionStep(a3, e)
           b4 == QuestionStep(b3, e)
<1>0. IsState(a) /\ IsState(b)
    BY DEF Resumed
<1>1. /\ IsState(a1) /\ IsState(b1) /\ a1.name = b1.name /\ a1.goal = b1.goal /\ a1.focus = b1.focus
      /\ a1.tasks = a.tasks /\ a1.decisions = a.decisions /\ a1.questions = a.questions
      /\ b1.tasks = b.tasks /\ b1.decisions = b.decisions /\ b1.questions = b.questions
    <2>1. a1.name = b1.name /\ a1.goal = b1.goal /\ a1.focus = b1.focus
        BY <1>0 DEF Resumed, IsState, ProjectStep
    <2> QED BY <1>0, <2>1, StepsFrame
<1> HIDE DEF a1, b1
<1>2. /\ IsState(a2) /\ a2.name = a1.name /\ a2.goal = a1.goal /\ a2.focus = a1.focus
      /\ a2.decisions = a1.decisions /\ a2.questions = a1.questions
      /\ IsState(b2) /\ b2.name = b1.name /\ b2.goal = b1.goal /\ b2.focus = b1.focus
      /\ b2.decisions = b1.decisions /\ b2.questions = b1.questions
    BY <1>1, StepsFrame
<1>3. Lost(a2.tasks, b2.tasks, kept.tasks \cup MadeBy(e, "TASK_CREATED"))
    BY <1>1, TaskStepLost DEF Resumed
<1> HIDE DEF a2, b2
<1>4. /\ IsState(a3) /\ a3.name = a2.name /\ a3.goal = a2.goal /\ a3.focus = a2.focus
      /\ a3.tasks = a2.tasks /\ a3.questions = a2.questions
      /\ IsState(b3) /\ b3.name = b2.name /\ b3.goal = b2.goal /\ b3.focus = b2.focus
      /\ b3.tasks = b2.tasks /\ b3.questions = b2.questions
    BY <1>2, StepsFrame
<1>5. Lost(a3.decisions, b3.decisions, kept.decisions \cup MadeBy(e, "DECISION_PROPOSED"))
    BY <1>1, <1>2, DecisionStepLost DEF Resumed
<1> HIDE DEF a3, b3
<1>6. /\ IsState(a4) /\ a4.name = a3.name /\ a4.goal = a3.goal /\ a4.focus = a3.focus
      /\ a4.tasks = a3.tasks /\ a4.decisions = a3.decisions
      /\ IsState(b4) /\ b4.name = b3.name /\ b4.goal = b3.goal /\ b4.focus = b3.focus
      /\ b4.tasks = b3.tasks /\ b4.decisions = b3.decisions
    BY <1>4, StepsFrame
<1>7. Lost(a4.questions, b4.questions, kept.questions \cup MadeBy(e, "OPEN_QUESTION_RAISED"))
    <2>1. a3.questions = a.questions /\ b3.questions = b.questions
        BY <1>1, <1>2, <1>4
    <2> QED BY <1>4, <2>1, QuestionStepLost DEF Resumed
<1> HIDE DEF a4, b4
<1>8. ReduceStep(a, e) = a4 /\ ReduceStep(b, e) = b4
    BY DEF ReduceStep, a1, a2, a3, a4, b1, b2, b3, b4
<1>9. Resumed(a4, b4, [tasks |-> kept.tasks \cup MadeBy(e, "TASK_CREATED"),
                       decisions |-> kept.decisions \cup MadeBy(e, "DECISION_PROPOSED"),
                       questions |-> kept.questions \cup MadeBy(e, "OPEN_QUESTION_RAISED")])
    BY <1>1, <1>2, <1>3, <1>4, <1>5, <1>6, <1>7 DEF Resumed
<1> QED BY <1>8, <1>9

\* The ids of the first n events of a type
MadeIn(events, n, type) == {events[i].id : i \in {j \in 1..n : events[j].type = type}}

KeptAfter(kept, events, n) ==
    [tasks |-> kept.tasks \cup MadeIn(events, n, "TASK_CREATED"),
     decisions |-> kept.decisions \cup MadeIn(events, n, "DECISION_PROPOSED"),
     questions |-> kept.questions \cup MadeIn(events, n, "OPEN_QUESTION_RAISED")]

\* What the next event adds to them.
LEMMA MadeNext ==
    ASSUME NEW events, NEW n \in Nat, n # 0, NEW type
    PROVE  MadeIn(events, n, type) = MadeIn(events, n - 1, type) \cup MadeBy(events[n], type)
<1>1. 1..n = (1..(n - 1)) \cup {n}
    OBVIOUS
<1>2. {j \in 1..n : events[j].type = type}
          = {j \in 1..(n - 1) : events[j].type = type} \cup {j \in {n} : events[j].type = type}
    BY <1>1
<1>3. MadeBy(events[n], type) = {events[i].id : i \in {j \in {n} : events[j].type = type}}
    BY DEF MadeBy
<1> QED BY <1>2, <1>3 DEF MadeIn

\* Two states that are related stay related through a stream.
LEMMA ResumedAfter ==
    ASSUME NEW T, NEW events \in Seq(T), NEW a, NEW b, NEW kept, Resumed(a, b, kept)
    PROVE  Resumed(Reduce(events, a), Reduce(events, b), KeptAfter(kept, events, Len(events)))
<1> DEFINE A == StatesAfter(events, a)
           B == StatesAfter(events, b)
           Bad == {n \in 0..Len(events) : ~Resumed(A[n], B[n], KeptAfter(kept, events, n))}
<1>0. Bad \subseteq Nat /\ Len(events) \in Nat /\ Len(events) \in 0..Len(events)
    OBVIOUS
<1>1. A[0] = a /\ B[0] = b
    BY StatesAfterIs
<1>2. \A n \in 1..Len(events) :
          A[n] = ReduceStep(A[n - 1], events[n]) /\ B[n] = ReduceStep(B[n - 1], events[n])
    BY StatesAfterIs
<1> HIDE DEF A, B
<1>3. Bad = {}
    <2> SUFFICES ASSUME Bad # {} PROVE FALSE
        OBVIOUS
    <2>1. PICK n \in Bad : \A l \in Bad : n <= l
        BY <1>0, LeastNatural
    <2>2. CASE n = 0
        <3>1. \A type : MadeIn(events, 0, type) = {}
            BY DEF MadeIn
        <3>2. Resumed(A[0], B[0], KeptAfter(kept, events, 0))
            BY <1>1, <3>1 DEF Resumed, KeptAfter
        <3> QED BY <2>2, <3>2
    <2>3. CASE n # 0
        <3>1. n - 1 \in 0..Len(events) /\ n - 1 \notin Bad /\ n \in 1..Len(events) /\ n \in Nat
            <4>1. n \in 0..Len(events)
                OBVIOUS
            <4> HIDE DEF Bad
            <4> QED BY <1>0, <2>1, <2>3, <4>1
        <3> DEFINE before == KeptAfter(kept, events, n - 1)
        <3>2. Resumed(A[n - 1], B[n - 1], before)
            BY <3>1
        <3>3. Resumed(A[n], B[n],
                      [tasks |-> before.tasks \cup MadeBy(events[n], "TASK_CREATED"),
                       decisions |-> before.decisions \cup MadeBy(events[n], "DECISION_PROPOSED"),
                       questions |-> before.questions \cup MadeBy(events[n], "OPEN_QUESTION_RAISED")])
            <4>1. A[n] = ReduceStep(A[n - 1], events[n]) /\ B[n] = ReduceStep(B[n - 1], events[n])
                BY <1>2, <3>1
            <4> DEFINE x == A[n - 1]
                       y == B[n - 1]
                       e == events[n]
            <4>2. Resumed(x, y, before)
                BY <3>2
            <4> HIDE DEF before, x, y, e
            <4>3. Resumed(ReduceStep(x, e), ReduceStep(y, e),
                          [tasks |-> before.tasks \cup MadeBy(e, "TASK_CREATED"),
                           decisions |-> before.decisions \cup MadeBy(e, "DECISION_PROPOSED"),
                           questions |-> before.questions \cup MadeBy(e, "OPEN_QUESTION_RAISED")])
                BY <4>2, StepResumes
            <4> QED BY <4>1, <4>3 DEF x, y, e
        <3>4. \A type : MadeIn(events, n, type) = MadeIn(events, n - 1, type) \cup MadeBy(events[n], type)
            BY <2>3, <3>1, MadeNext
        <3>5. KeptAfter(kept, events, n) =
                  [tasks |-> before.tasks \cup MadeBy(events[n], "TASK_CREATED"),
                   decisions |-> before.decisions \cup MadeBy(events[n], "DECISION_PROPOSED"),
                   questions |-> before.questions \cup MadeBy(events[n], "OPEN_QUESTION_RAISED")]
            BY <3>4 DEF KeptAfter
        <3> QED BY <3>3, <3>5
    <2> QED BY <2>2, <2>3
<1>4. Resumed(A[Len(events)], B[Len(events)], KeptAfter(kept, events, Len(events)))
    BY <1>0, <1>3
<1> QED BY <1>4 DEF Reduce, A, B

\* A dict whose ids are single holds, of the items of the listed ids, the listed
\* ones and no others.
LEMMA ListedAreKept ==
    ASSUME NEW a, IsDict(a), \A x, y \in ToSet(a) : x.id = y.id => x = y, NEW b \in Seq(ToSet(a))
    PROVE  Lost(a, b, Ids(b))
<1>1. ToSet(b) \subseteq ToSet(a) /\ b \in Seq(ToSet(b))
    BY DEF ToSet
<1>2. IsDict(b)
    BY <1>1 DEF IsDict
<1>3. Ids(b) = {x.id : x \in ToSet(b)}
    BY DEF Ids, ToSet
<1>4. ToSet(b) = {x \in ToSet(a) : x.id \in Ids(b)}
    BY <1>1, <1>3
<1> QED BY <1>2, <1>4 DEF Lost

\* The head of a prefix, taken up as a state, is related to the state of the prefix.
LEMMA HeadResumes ==
    ASSUME NEW T, NEW events \in Seq(T), NEW v
    PROVE  LET s == Reduce(events, EmptyState)
               h == BuildHead(s, v)
           IN  Resumed(s, StateOfHead(h),
                       [tasks |-> Ids(h.tasks), decisions |-> Ids(h.decisions), questions |-> Ids(h.questions)])
<1> DEFINE s == Reduce(events, EmptyState)
           h == BuildHead(s, v)
           none == [tasks |-> {}, decisions |-> {}, questions |-> {}]
<1>1. Resumed(EmptyState, EmptyState, none)
    <2>1. ToSet(<<>>) = {} /\ IsDict(<<>>)
        BY DEF ToSet, IsDict
    <2>2. Lost(<<>>, <<>>, {})
        BY <2>1 DEF Lost
    <2> QED BY <2>2 DEF Resumed, EmptyState, IsState
<1>2. Resumed(s, s, KeptAfter(none, events, Len(events)))
    BY <1>1, ResumedAfter
<1> HIDE DEF s
<1>3. IsState(s)
    BY <1>2 DEF Resumed
<1>4. /\ IsDict(s.tasks) /\ \A x, y \in ToSet(s.tasks) : x.id = y.id => x = y
      /\ IsDict(s.decisions) /\ \A x, y \in ToSet(s.decisions) : x.id = y.id => x = y
      /\ IsDict(s.questions) /\ \A x, y \in ToSet(s.questions) : x.id = y.id => x = y
    BY <1>2 DEF Resumed, Lost
<1>5. /\ s.tasks \in Seq(ToSet(s.tasks)) /\ s.decisions \in Seq(ToSet(s.decisions))
      /\ s.questions \in Seq(ToSet(s.questions))
    BY <1>4 DEF IsDict
<1>6. Lost(s.tasks, ActiveTasks(s.tasks), Ids(ActiveTasks(s.tasks)))
    BY <1>4, <1>5, HeadLists, ListedAreKept
<1>7. Lost(s.decisions, ActiveDecisions(s.decisions), Ids(ActiveDecisions(s.decisions)))
    BY <1>4, <1>5, HeadLists, ListedAreKept
<1>8. Lost(s.questions, OpenQuestions(s.questions), Ids(OpenQuestions(s.questions)))
    BY <1>4, <1>5, HeadLists, ListedAreKept
<1>9. /\ h.name = s.name /\ h.goal = s.goal /\ h.focus = s.focus /\ h.tasks = ActiveTasks(s.tasks)
      /\ h.decisions = ActiveDecisions(s.decisions) /\ h.questions = OpenQuestions(s.questions)
    BY DEF BuildHead
<1> HIDE DEF h
<1>10. Resumed(s, StateOfHead(h),
               [tasks |-> Ids(h.tasks), decisions |-> Ids(h.decisions), questions |-> Ids(h.questions)])
    BY <1>3, <1>6, <1>7, <1>8, <1>9 DEF Resumed, StateOfHead, IsState
<1> QED BY <1>10 DEF s, h

\* Of the items of a state, those a head lists, where b knows of the kept ones only.
LEMMA ListsOfResumed ==
    ASSUME NEW a, NEW b, NEW kept, Resumed(a, b, kept), NEW v
    PROVE  LET x == BuildHead(a, v)
               y == BuildHead(b, v)
           IN  /\ <<y.name, y.goal, y.focus, y.version>> = <<x.name, x.goal, x.focus, x.version>>
               /\ Ids(y.tasks) = Ids(x.tasks) \cap kept.tasks
               /\ Ids(y.decisions) = Ids(x.decisions) \cap kept.decisions
               /\ Ids(y.questions) = Ids(x.questions) \cap kept.questions
<1>1. ASSUME NEW d PROVE Ids(d) = {x.id : x \in ToSet(d)}
    BY DEF Ids, ToSet
<1>2. /\ a.tasks \in Seq(ToSet(a.tasks)) /\ b.tasks \in Seq(ToSet(b.tasks))
      /\ a.decisions \in Seq(ToSet(a.decisions)) /\ b.decisions \in Seq(ToSet(b.decisions))
      /\ a.questions \in Seq(ToSet(a.questions)) /\ b.questions \in Seq(ToSet(b.questions))
    BY DEF Resumed, Lost, IsDict
<1>3. /\ ToSet(b.tasks) = {x \in ToSet(a.tasks) : x.id \in kept.tasks}
      /\ ToSet(b.decisions) = {x \in ToSet(a.decisions) : x.id \in kept.decisions}
      /\ ToSet(b.questions) = {x \in ToSet(a.questions) : x.id \in kept.questions}
    BY DEF Resumed, Lost
<1>4. Ids(ActiveTasks(b.tasks)) = Ids(ActiveTasks(a.tasks)) \cap kept.tasks
    <2>1. ToSet(ActiveTasks(a.tasks)) = {x \in ToSet(a.tasks) : x.status # "completed"}
        BY <1>2, HeadLists
    <2>2. ToSet(ActiveTasks(b.tasks)) = {x \in ToSet(b.tasks) : x.status # "completed"}
        BY <1>2, HeadLists
    <2> QED BY <1>1, <1>3, <2>1, <2>2
<1>5. Ids(ActiveDecisions(b.decisions)) = Ids(ActiveDecisions(a.decisions)) \cap kept.decisions
    <2>1. ToSet(ActiveDecisions(a.decisions)) = {x \in ToSet(a.decisions) : x.status = "accepted"}
        BY <1>2, HeadLists
    <2>2. ToSet(ActiveDecisions(b.decisions)) = {x \in ToSet(b.decisions) : x.status = "accepted"}
        BY <1>2, HeadLists
    <2> QED BY <1>1, <1>3, <2>1, <2>2
<1>6. Ids(OpenQuestions(b.questions)) = Ids(OpenQuestions(a.questions)) \cap kept.questions
    <2>1. ToSet(OpenQuestions(a.questions)) = {x \in ToSet(a.questions) : x.status = "open"}
        BY <1>2, HeadLists
    <2>2. ToSet(OpenQuestions(b.questions)) = {x \in ToSet(b.questions) : x.status = "open"}
        BY <1>2, HeadLists
    <2> QED BY <1>1, <1>3, <2>1, <2>2
<1>7. a.name = b.name /\ a.goal = b.goal /\ a.focus = b.focus
    BY DEF Resumed
<1> QED BY <1>4, <1>5, <1>6, <1>7 DEF BuildHead

\* A head resumed from a serialized one lacks exactly what was closed, or only
\* proposed, at the cut and was not made again after it.
LEMMA LossAtCut ==
    ASSUME stream \in Seq(Events), NEW k \in 1..(Len(stream) - 1)
    PROVE  LET a == ReduceHead(SubSeq(stream, 1, k), 0, Nothing)
               b == ReduceHead(SubSeq(stream, k + 1, Len(stream)), k, SerializedToHead(a.head)).head
               full == FullHead(stream)
               Made(types) == {stream[i].id : i \in {j \in k + 1..Len(stream) : stream[j].type \in types}}
           IN  a.ok =>
               /\ <<b.name, b.goal, b.focus, b.version>> =
                      <<full.name, full.goal, full.focus, full.version>>
               /\ Ids(b.tasks) = Ids(full.tasks) \cap (Ids(a.head.tasks) \cup Made({"TASK_CREATED"}))
               /\ Ids(b.decisions) =
                      Ids(full.decisions) \cap (Ids(a.head.decisions) \cup Made({"DECISION_PROPOSED"}))
               /\ Ids(b.questions) =
                      Ids(full.questions) \cap (Ids(a.head.questions) \cup Made({"OPEN_QUESTION_RAISED"}))
<1> DEFINE first == SubSeq(stream, 1, k)
           rest == EventsSince(stream, k)
           n == Len(stream)
           a == ReduceHead(first, 0, Nothing)
           b == ReduceHead(rest, k, a.head).head
           full == FullHead(stream)
           Made(types) == {stream[i].id : i \in {j \in k + 1..n : stream[j].type \in types}}
           s == Reduce(first, EmptyState)
           h == BuildHead(s, k)
           kept == [tasks |-> Ids(h.tasks), decisions |-> Ids(h.decisions), questions |-> Ids(h.questions)]
<1>1. /\ n \in Nat /\ k \in Nat /\ k \in 0..n /\ k < n
      /\ first \in Seq(Events) /\ Len(first) = k /\ rest \in Seq(Events) /\ Len(rest) = n - k
    BY DEF EventsSince
<1>2. \A i \in 1..(n - k) : rest[i] = stream[k + i]
    BY DEF EventsSince
<1>3. 0 + k = k /\ k + (n - k) = n /\ rest # <<>> /\ SubSeq(stream, k + 1, n) = rest
    <2>1. SubSeq(stream, k + 1, n) = rest
        BY DEF EventsSince
    <2> HIDE DEF rest, n
    <2>2. 0 + k = k /\ k + (n - k) = n /\ Len(rest) # 0
        BY <1>1
    <2> QED BY <2>1, <2>2
<1> SUFFICES ASSUME a.ok
             PROVE  /\ <<b.name, b.goal, b.focus, b.version>> = <<full.name, full.goal, full.focus, full.version>>
                    /\ Ids(b.tasks) = Ids(full.tasks) \cap (Ids(a.head.tasks) \cup Made({"TASK_CREATED"}))
                    /\ Ids(b.decisions) =
                           Ids(full.decisions) \cap (Ids(a.head.decisions) \cup Made({"DECISION_PROPOSED"}))
                    /\ Ids(b.questions) =
                           Ids(full.questions) \cap (Ids(a.head.questions) \cup Made({"OPEN_QUESTION_RAISED"}))
    BY <1>3 DEF SerializedToHead
<1>4. a.head = h
    <2>1. a = IF ~Bootstrapped(first) THEN [ok |-> FALSE]
              ELSE [ok |-> TRUE, head |-> BuildHead(Reduce(first, EmptyState), 0 + Len(first))]
        BY DEF ReduceHead
    <2>2. Bootstrapped(first)
        BY <2>1
    <2> QED BY <1>1, <1>3, <2>1, <2>2
<1>5. b = BuildHead(Reduce(rest, StateOfHead(h)), n)
    <2>1. h # Nothing
        BY DEF BuildHead, Nothing
    <2> HIDE DEF h, a, rest
    <2>2. ReduceHead(rest, k, h) = [ok |-> TRUE, head |-> BuildHead(Reduce(rest, StateOfHead(h)), k + Len(rest))]
        BY <1>3, <2>1 DEF ReduceHead
    <2> QED BY <1>1, <1>3, <1>4, <2>2
<1>6. full = BuildHead(Reduce(rest, s), n)
    BY <1>1, ReduceSplits DEF FullHead
<1>7. Resumed(s, StateOfHead(h), kept)
    BY <1>1, HeadResumes
<1> HIDE DEF s, h, kept, rest, first
<1>8. Resumed(Reduce(rest, s), Reduce(rest, StateOfHead(h)), KeptAfter(kept, rest, Len(rest)))
    BY <1>1, <1>7, ResumedAfter
<1>9. \A type : MadeIn(rest, Len(rest), type) = Made({type})
    <2> SUFFICES ASSUME NEW type PROVE MadeIn(rest, Len(rest), type) = Made({type})
        OBVIOUS
    <2>1. ASSUME NEW i \in 1..(n - k), rest[i].type = type PROVE rest[i].id \in Made({type})
        <3>1. k + i \in k + 1..n /\ rest[i] = stream[k + i]
            BY <1>1, <1>2
        <3> QED BY <2>1, <3>1
    <2>2. ASSUME NEW j \in k + 1..n, stream[j].type = type PROVE stream[j].id \in MadeIn(rest, Len(rest), type)
        <3>1. j - k \in 1..(n - k) /\ k + (j - k) = j
            BY <1>1
        <3>2. rest[j - k] = stream[j]
            BY <1>2, <3>1
        <3> QED BY <1>1, <2>2, <3>1, <3>2 DEF MadeIn
    <2>3. MadeIn(rest, Len(rest), type) \subseteq Made({type})
        BY <1>1, <2>1 DEF MadeIn
    <2>4. Made({type}) \subseteq MadeIn(rest, Len(rest), type)
        BY <2>2
    <2> QED BY <2>3, <2>4
<1> HIDE DEF Made
<1>10. LET K == KeptAfter(kept, rest, Len(rest))
       IN  /\ K.tasks = Ids(h.tasks) \cup Made({"TASK_CREATED"})
           /\ K.decisions = Ids(h.decisions) \cup Made({"DECISION_PROPOSED"})
           /\ K.questions = Ids(h.questions) \cup Made({"OPEN_QUESTION_RAISED"})
    BY <1>9 DEF KeptAfter, kept
<1> HIDE DEF a, b, full
<1>11. LET K == KeptAfter(kept, rest, Len(rest))
       IN  /\ <<b.name, b.goal, b.focus, b.version>> = <<full.name, full.goal, full.focus, full.version>>
           /\ Ids(b.tasks) = Ids(full.tasks) \cap K.tasks
           /\ Ids(b.decisions) = Ids(full.decisions) \cap K.decisions
           /\ Ids(b.questions) = Ids(full.questions) \cap K.questions
    <2> DEFINE x == Reduce(rest, s)
               y == Reduce(rest, StateOfHead(h))
               K == KeptAfter(kept, rest, Len(rest))
    <2>1. Resumed(x, y, K)
        BY <1>8
    <2>2. b = BuildHead(y, n) /\ full = BuildHead(x, n)
        BY <1>5, <1>6
    <2> HIDE DEF x, y, K
    <2>3. /\ <<BuildHead(y, n).name, BuildHead(y, n).goal, BuildHead(y, n).focus, BuildHead(y, n).version>> =
             <<BuildHead(x, n).name, BuildHead(x, n).goal, BuildHead(x, n).focus, BuildHead(x, n).version>>
          /\ Ids(BuildHead(y, n).tasks) = Ids(BuildHead(x, n).tasks) \cap K.tasks
          /\ Ids(BuildHead(y, n).decisions) = Ids(BuildHead(x, n).decisions) \cap K.decisions
          /\ Ids(BuildHead(y, n).questions) = Ids(BuildHead(x, n).questions) \cap K.questions
        BY <2>1, ListsOfResumed
    <2>4. /\ <<b.name, b.goal, b.focus, b.version>> = <<full.name, full.goal, full.focus, full.version>>
          /\ Ids(b.tasks) = Ids(full.tasks) \cap K.tasks
          /\ Ids(b.decisions) = Ids(full.decisions) \cap K.decisions
          /\ Ids(b.questions) = Ids(full.questions) \cap K.questions
        BY <2>2, <2>3, Zenon
    <2> QED BY <2>4 DEF K
<1> QED BY <1>4, <1>10, <1>11

-----------------------------------------------------------------------------
(* Results *)

\* The reducers can be cut at any event and resumed from what a snapshot stores,
\* whatever the stream: ADR-026's reduce(A+B) == reduce(B, reduce(A)) survives the
\* snapshot payload.
THEOREM SplitLawHolds == ASSUME LogsAssumption PROVE BothSpec => []SplitLaw
<1>1. HeadInv => SplitLaw
    BY CutAnywhere DEF HeadInv, SplitLaw
<1> QED BY <1>1, HeadInvHolds, PTL

\* Both compilers on one ledger and one table: a delta replay returns the head of
\* a full replay, the fast path all that a full replay reduces to, and the
\* projection platform, whenever it replays, the head of a full replay; a head
\* resumed from a serialized one, wherever the stream is cut, lacks exactly what
\* was closed or only proposed at the cut and not made again.
THEOREM ResumedIsFullHolds == ASSUME LogsAssumption PROVE BothSpec => []ResumedIsFull
<1>1. HeadInv => LossIsExactlyTheClosed
    <2> SUFFICES ASSUME HeadInv PROVE LossIsExactlyTheClosed
        OBVIOUS
    <2>1. stream \in Seq(Events)
        BY DEF HeadInv
    <2> QED BY <2>1, LossAtCut DEF LossIsExactlyTheClosed
<1>2. HeadInv => ResumedIsFull
    BY <1>1 DEF HeadInv, ResumedIsFull
<1> QED BY <1>2, HeadInvHolds, PTL

-----------------------------------------------------------------------------
(* Numbers and sequences *)

\* A set of natural numbers with a bound has a greatest element.
LEMMA Greatest ==
    ASSUME NEW S, S \subseteq Nat, S # {}, NEW n \in Nat, \A k \in S : k <= n
    PROVE  \E m \in S : \A k \in S : k <= m
<1> DEFINE D == {n - k : k \in S}
<1>0. \A k \in S : n - k \in Nat
    OBVIOUS
<1>1. D \subseteq Nat /\ D # {}
    BY <1>0
<1>2. PICK d \in D : \A c \in D : d <= c
    BY <1>1, LeastNatural
<1>3. PICK m \in S : d = n - m
    BY <1>2
<1>4. \A k \in S : n - m <= n - k
    BY <1>2, <1>3
<1> QED BY <1>3, <1>4

\* f is a sequence, of whatever
IsSequence(f) == Len(f) \in Nat /\ f \in Seq({f[i] : i \in 1..Len(f)})

\* A sequence stays one when something is added to it.
LEMMA AppendSequence ==
    ASSUME NEW f, IsSequence(f), NEW x
    PROVE  /\ IsSequence(Append(f, x)) /\ Len(Append(f, x)) = Len(f) + 1
           /\ Append(f, x)[Len(f) + 1] = x
           /\ \A i \in 1..Len(f) : Append(f, x)[i] = f[i]
<1> DEFINE S == {f[i] : i \in 1..Len(f)} \cup {x}
           g == Append(f, x)
<1>1. f \in Seq(S) /\ Len(f) \in Nat
    BY DEF IsSequence
<1> HIDE DEF S
<1>2. x \in S
    BY DEF S
<1>3. g \in Seq(S) /\ Len(g) = Len(f) + 1 /\ g[Len(f) + 1] = x /\ \A i \in 1..Len(f) : g[i] = f[i]
    BY <1>1, <1>2
<1> HIDE DEF g
<1>4. g = [i \in 1..Len(g) |-> g[i]]
    BY <1>3
<1>5. g \in Seq({g[i] : i \in 1..Len(g)})
    BY <1>1, <1>3, <1>4
<1>6. Len(g) \in Nat
    BY <1>1, <1>3
<1>7. IsSequence(g)
    BY <1>5, <1>6 DEF IsSequence
<1> QED BY <1>3, <1>7 DEF g

-----------------------------------------------------------------------------
(* The kernel: one reducer over the events *)

Names == {r.name : r \in Reducers}
Event == [order : Int, stream : {e.stream : e \in CommitMenu}, type : {e.type : e \in CommitMenu},
          tags : SUBSET Names, payload : SUBSET Names]

\* the run of a reducer that has not been called
Unfed(start, events) == [ok |-> TRUE, state |-> start, events |-> events]

\* f is what a reducer has made of the events after each of the first m
Feeds(f, m, r, start, events) ==
    f = [k \in 0..m |-> IF k = 0 THEN Unfed(start, events)
                        ELSE Feed(r, f[k - 1], k)]

\* A reducer can be called with every stretch of the events.
LEMMA FeedsExist ==
    ASSUME NEW r, NEW start, NEW T, NEW events \in Seq(T), NEW m \in 0..Len(events)
    PROVE  \E f : Feeds(f, m, r, start, events)
<1> DEFINE Bad == {k \in 0..Len(events) : ~\E f : Feeds(f, k, r, start, events)}
<1> SUFFICES ASSUME Bad # {} PROVE FALSE
    OBVIOUS
<1>0. Bad \subseteq Nat
    OBVIOUS
<1>1. PICK k \in Bad : \A j \in Bad : k <= j
    BY <1>0, LeastNatural
<1>2. CASE k = 0
    <2>1. Feeds([n \in 0..0 |-> Unfed(start, events)], 0, r, start, events)
        BY DEF Feeds
    <2> QED BY <1>2, <2>1
<1>3. CASE k # 0
    <2>1. k - 1 \in 0..Len(events) /\ k - 1 \notin Bad
        BY <1>1, <1>3
    <2>2. PICK g : Feeds(g, k - 1, r, start, events)
        BY <2>1
    <2> DEFINE f == [n \in 0..k |-> IF n = k THEN Feed(r, g[k - 1], k) ELSE g[n]]
    <2>3. \A n \in 0..k : f[n] = IF n = 0 THEN Unfed(start, events)
                                 ELSE Feed(r, f[n - 1], n)
        BY <1>3, <2>2 DEF Feeds
    <2>4. Feeds(f, k, r, start, events)
        BY <2>3 DEF Feeds
    <2> QED BY <2>4
<1> QED BY <1>2, <1>3

\* The recursion over the events defines what a reducer makes of each of them.
LEMMA FedByIs ==
    ASSUME NEW r, NEW start, NEW T, NEW events \in Seq(T)
    PROVE  /\ FedBy(r, start, events)[0] = Unfed(start, events)
           /\ \A k \in 1..Len(events) : FedBy(r, start, events)[k] = Feed(r, FedBy(r, start, events)[k - 1], k)
<1>1. Len(events) \in Nat /\ Len(events) \in 0..Len(events)
    OBVIOUS
<1>2. \E f : Feeds(f, Len(events), r, start, events)
    BY <1>1, FeedsExist
<1>3. Feeds(FedBy(r, start, events), Len(events), r, start, events)
    BY <1>2 DEF FedBy, Feeds, Unfed
<1> QED BY <1>1, <1>3 DEF Feeds

\* A reducer's call hands an event back, and the state it was shown the event in.
LEMMA TouchIs ==
    ASSUME NEW r \in Reducers, NEW e \in Event
    PROVE  /\ Touch(r, e) \in Event
           /\ r.body \in {"fold", "counter"} => Touch(r, e) = e
           /\ r.body # "scrub" => Touch(r, e).payload = e.payload
<1>1. r.name \in Names
    BY DEF Names
<1> QED BY <1>1 DEF Touch, Event

\* What one call may do to the event and to the state.
LEMMA CallIs ==
    ASSUME NEW r \in Reducers, NEW e \in Event, NEW s \in Seq(Event)
    PROVE  /\ Call(r, s, e).event \in Event /\ Call(r, s, e).state \in Seq(Event)
           /\ ~ WritesPayload(r) => Call(r, s, e).event.payload = e.payload
           /\ Guarded(r) /\ Call(r, s, e).ok => Call(r, s, e).event = e
<1>1. Append(s, e) \in Seq(Event)
    OBVIOUS
<1> QED BY <1>1, TouchIs DEF Call, WritesPayload, Guarded

\* Lemma FedKeeps speaks of a reducer's run after k events: the events are as
\* many as before, their payloads are those before if the reducer writes into
\* none, and they are the same if it is guarded and has not raised.
FedWell(run, r, events) ==
    /\ run.events \in Seq(Event) /\ Len(run.events) = Len(events)
    /\ run.state \in Seq(Event)
    /\ ~ WritesPayload(r) => \A i \in 1..Len(events) : run.events[i].payload = events[i].payload
    /\ Guarded(r) /\ run.ok => run.events = events

\* One more event keeps a run well.
LEMMA FeedKeeps ==
    ASSUME NEW r \in Reducers, NEW events \in Seq(Event), NEW run, FedWell(run, r, events),
           NEW k \in 1..Len(events)
    PROVE  FedWell(Feed(r, run, k), r, events)
<1> DEFINE c == Call(r, run.state, run.events[k])
<1>1. run.events[k] \in Event /\ run.state \in Seq(Event)
    BY DEF FedWell
<1>2. /\ c.event \in Event /\ c.state \in Seq(Event)
      /\ ~ WritesPayload(r) => c.event.payload = run.events[k].payload
      /\ Guarded(r) /\ c.ok => c.event = run.events[k]
    BY <1>1, CallIs
<1> HIDE DEF c
<1>3. CASE run.ok
    <2>1. Feed(r, run, k) = [ok |-> c.ok, state |-> c.state, events |-> [run.events EXCEPT ![k] = c.event]]
        BY <1>3 DEF Feed, c
    <2> DEFINE es == [run.events EXCEPT ![k] = c.event]
    <2>2. es \in Seq(Event) /\ Len(es) = Len(events) /\ \A i \in 1..Len(events) : es[i] = IF i = k THEN c.event ELSE run.events[i]
        BY <1>2 DEF FedWell
    <2>3. c.event = run.events[k] => es = run.events
        BY <1>2 DEF FedWell
    <2>4. ~ WritesPayload(r) => \A i \in 1..Len(events) : es[i].payload = events[i].payload
        BY <1>2, <2>2 DEF FedWell
    <2>5. Guarded(r) /\ c.ok => es = events
        BY <1>2, <1>3, <2>3 DEF FedWell
    <2> HIDE DEF es
    <2>6. Feed(r, run, k) = [ok |-> c.ok, state |-> c.state, events |-> es]
        BY <2>1 DEF es
    <2> QED BY <1>2, <2>2, <2>4, <2>5, <2>6 DEF FedWell
<1>4. CASE ~ run.ok
    BY <1>4 DEF Feed
<1> QED BY <1>3, <1>4

\* After each of the events a reducer's run is well.
LEMMA FedKeeps ==
    ASSUME NEW r \in Reducers, NEW start \in Seq(Event), NEW events \in Seq(Event)
    PROVE  FedWell(FeedAll(r, start, events), r, events)
<1> DEFINE fed == FedBy(r, start, events)
           Bad == {k \in 0..Len(events) : ~ FedWell(fed[k], r, events)}
<1>0. Bad \subseteq Nat /\ Len(events) \in 0..Len(events) /\ Len(events) \in Nat
    OBVIOUS
<1>1. fed[0] = Unfed(start, events)
      /\ \A k \in 1..Len(events) : fed[k] = Feed(r, fed[k - 1], k)
    BY FedByIs
<1> HIDE DEF fed
<1>2. ASSUME Bad # {} PROVE FALSE
    <2>1. PICK k \in Bad : \A j \in Bad : k <= j
        BY <1>0, <1>2, LeastNatural
    <2>2. FedWell(fed[0], r, events)
        BY <1>1 DEF FedWell, Unfed
    <2>3. k # 0
        BY <2>2
    <2>4. k - 1 \in 0..Len(events) /\ k - 1 \notin Bad /\ k \in 1..Len(events)
        BY <1>0, <2>1, <2>3
    <2>5. FedWell(fed[k - 1], r, events)
        BY <2>4
    <2>6. FedWell(Feed(r, fed[k - 1], k), r, events)
        BY <2>4, <2>5, FeedKeeps
    <2> QED BY <1>1, <2>4, <2>6
<1>3. FedWell(fed[Len(events)], r, events)
    BY <1>0, <1>2
<1> QED BY <1>3 DEF FeedAll, fed

-----------------------------------------------------------------------------
(* The kernel: all reducers over the same events *)

\* a replay in which no reducer has been called
Fresh(events) == [ok |-> TRUE, events |-> events, states |-> <<>>]

\* f is what the first reducers have made of the events, after each of m
Projects(f, m, reducers, events) ==
    f = [n \in 0..m |-> IF n = 0 THEN Fresh(events) ELSE Project(f[n - 1], reducers[n], <<>>)]

\* Every stretch of the registry can be run.
LEMMA ProjectsExist ==
    ASSUME NEW T, NEW reducers \in Seq(T), NEW events, NEW m \in 0..Len(reducers)
    PROVE  \E f : Projects(f, m, reducers, events)
<1> DEFINE Bad == {k \in 0..Len(reducers) : ~\E f : Projects(f, k, reducers, events)}
<1> SUFFICES ASSUME Bad # {} PROVE FALSE
    OBVIOUS
<1>0. Bad \subseteq Nat
    OBVIOUS
<1>1. PICK k \in Bad : \A j \in Bad : k <= j
    BY <1>0, LeastNatural
<1>2. CASE k = 0
    <2>1. Projects([n \in 0..0 |-> Fresh(events)], 0, reducers, events)
        BY DEF Projects
    <2> QED BY <1>2, <2>1
<1>3. CASE k # 0
    <2>1. k - 1 \in 0..Len(reducers) /\ k - 1 \notin Bad
        BY <1>1, <1>3
    <2>2. PICK g : Projects(g, k - 1, reducers, events)
        BY <2>1
    <2> DEFINE f == [n \in 0..k |-> IF n = k THEN Project(g[k - 1], reducers[k], <<>>) ELSE g[n]]
    <2>3. \A n \in 0..k : f[n] = IF n = 0 THEN Fresh(events) ELSE Project(f[n - 1], reducers[n], <<>>)
        BY <1>3, <2>2 DEF Projects
    <2>4. Projects(f, k, reducers, events)
        BY <2>3 DEF Projects
    <2> QED BY <2>4
<1> QED BY <1>2, <1>3

\* The recursion over the registry defines the replay after each reducer.
LEMMA RunsAfterIs ==
    ASSUME NEW T, NEW reducers \in Seq(T), NEW events
    PROVE  /\ RunsAfter(reducers, events)[0] = Fresh(events)
           /\ \A n \in 1..Len(reducers) :
                 RunsAfter(reducers, events)[n] = Project(RunsAfter(reducers, events)[n - 1], reducers[n], <<>>)
<1>1. Len(reducers) \in Nat /\ Len(reducers) \in 0..Len(reducers)
    OBVIOUS
<1>2. \E f : Projects(f, Len(reducers), reducers, events)
    BY <1>1, ProjectsExist
<1>3. Projects(RunsAfter(reducers, events), Len(reducers), reducers, events)
    BY <1>2 DEF RunsAfter, Projects, Fresh
<1> QED BY <1>1, <1>3 DEF Projects

AllGuarded(reducers, n) == \A m \in 1..n : Guarded(reducers[m])
NoWriter(reducers, n) == \A m \in 1..n : ~ WritesPayload(reducers[m])

\* what the first n reducers leave of the events, and the states they return
RunWell(run, n, reducers, events) ==
    /\ run.events \in Seq(Event) /\ Len(run.events) = Len(events)
    /\ NoWriter(reducers, n) => \A i \in 1..Len(events) : run.events[i].payload = events[i].payload
    /\ run.states \in Seq(Seq(Event))
    /\ run.ok => Len(run.states) = n
    /\ AllGuarded(reducers, n) /\ run.ok =>
           /\ run.events = events
           /\ \A m \in 1..n : run.states[m] = FeedAll(reducers[m], <<>>, events).state

\* One more reducer keeps a replay well.
LEMMA ProjectKeeps ==
    ASSUME NEW reducers \in Seq(Reducers), NEW events \in Seq(Event), NEW run,
           NEW n \in 1..Len(reducers), RunWell(run, n - 1, reducers, events)
    PROVE  RunWell(Project(run, reducers[n], <<>>), n, reducers, events)
<1> DEFINE r == reducers[n]
           fed == FeedAll(r, <<>>, run.events)
<1>0. r \in Reducers /\ <<>> \in Seq(Event) /\ run.events \in Seq(Event) /\ Len(run.events) = Len(events)
      /\ run.states \in Seq(Seq(Event)) /\ n - 1 \in Nat
    BY DEF RunWell
<1>1. FedWell(fed, r, run.events)
    BY <1>0, FedKeeps
<1>2. /\ AllGuarded(reducers, n) => AllGuarded(reducers, n - 1) /\ Guarded(r)
      /\ NoWriter(reducers, n) => NoWriter(reducers, n - 1) /\ ~ WritesPayload(r)
    BY DEF AllGuarded, NoWriter
<1>3. CASE run.ok
    <2>1. Project(run, r, <<>>) = [ok |-> fed.ok, events |-> fed.events, states |-> Append(run.states, fed.state)]
        BY <1>3 DEF Project
    <2> DEFINE states == Append(run.states, fed.state)
    <2>2. Len(run.states) = n - 1
        BY <1>3 DEF RunWell
    <2>3. fed.state \in Seq(Event) /\ fed.events \in Seq(Event) /\ Len(fed.events) = Len(events)
        BY <1>0, <1>1 DEF FedWell
    <2>4. states \in Seq(Seq(Event)) /\ Len(states) = n /\ states[n] = fed.state
          /\ \A m \in 1..n - 1 : states[m] = run.states[m]
        BY <1>0, <2>2, <2>3
    <2>5. NoWriter(reducers, n) => \A i \in 1..Len(events) : fed.events[i].payload = events[i].payload
        BY <1>0, <1>1, <1>2 DEF FedWell, RunWell
    <2>6. ASSUME AllGuarded(reducers, n), fed.ok
          PROVE  fed.events = events /\ \A m \in 1..n : states[m] = FeedAll(reducers[m], <<>>, events).state
        <3>1. run.events = events /\ \A m \in 1..n - 1 : run.states[m] = FeedAll(reducers[m], <<>>, events).state
            BY <1>2, <1>3, <2>6 DEF RunWell
        <3>2. fed.events = run.events
            BY <1>1, <1>2, <2>6 DEF FedWell
        <3>3. states[n] = FeedAll(reducers[n], <<>>, events).state
            BY <2>4, <3>1
        <3> HIDE DEF states, fed
        <3>4. \A m \in 1..n : m \in 1..n - 1 \/ m = n
            OBVIOUS
        <3> QED BY <2>4, <3>1, <3>2, <3>3, <3>4
    <2> HIDE DEF states, fed
    <2>7. Project(run, r, <<>>) = [ok |-> fed.ok, events |-> fed.events, states |-> states]
        BY <2>1 DEF states
    <2> QED BY <2>3, <2>4, <2>5, <2>6, <2>7 DEF RunWell
<1>4. CASE ~ run.ok
    <2>1. Project(run, r, <<>>) = run
        BY <1>4 DEF Project
    <2> QED BY <1>2, <1>4, <2>1 DEF RunWell
<1> QED BY <1>3, <1>4

\* A replay is well when all reducers have been called.
LEMMA ReplayWell ==
    ASSUME NEW reducers \in Seq(Reducers), NEW events \in Seq(Event)
    PROVE  RunWell(ApplyReducers(reducers, events), Len(reducers), reducers, events)
<1> DEFINE run == RunsAfter(reducers, events)
           Bad == {n \in 0..Len(reducers) : ~ RunWell(run[n], n, reducers, events)}
<1>0. Bad \subseteq Nat /\ Len(reducers) \in 0..Len(reducers) /\ Len(reducers) \in Nat
    OBVIOUS
<1>1. run[0] = Fresh(events) /\ \A n \in 1..Len(reducers) : run[n] = Project(run[n - 1], reducers[n], <<>>)
    BY RunsAfterIs
<1> HIDE DEF run
<1>2. ASSUME Bad # {} PROVE FALSE
    <2>1. PICK n \in Bad : \A j \in Bad : n <= j
        BY <1>0, <1>2, LeastNatural
    <2>2. RunWell(run[0], 0, reducers, events)
        BY <1>1 DEF RunWell, Fresh
    <2>3. n # 0
        BY <2>2
    <2>4. n - 1 \in 0..Len(reducers) /\ n - 1 \notin Bad /\ n \in 1..Len(reducers)
        BY <1>0, <2>1, <2>3
    <2>5. RunWell(run[n - 1], n - 1, reducers, events)
        BY <2>4
    <2>6. RunWell(Project(run[n - 1], reducers[n], <<>>), n, reducers, events)
        BY <2>4, <2>5, ProjectKeeps
    <2> QED BY <1>1, <2>4, <2>6
<1>3. RunWell(run[Len(reducers)], Len(reducers), reducers, events)
    BY <1>0, <1>2
<1> QED BY <1>3 DEF ApplyReducers, run

\* Guarded reducers that have not raised have each made of the events what they
\* would have made of them alone.
LEMMA GuardedApart ==
    ASSUME NEW reducers \in Seq(Reducers), NEW events \in Seq(Event),
           ApplyReducers(reducers, events).ok, AllGuarded(reducers, Len(reducers)), NEW n \in 1..Len(reducers)
    PROVE  ApplyReducers(reducers, events).states[n] = ApplyReducers(<<reducers[n]>>, events).states[1]
<1> DEFINE r == reducers[n]
           one == <<r>>
           fed == FeedAll(r, <<>>, events)
<1>1. one \in Seq(Reducers) /\ Len(one) = 1 /\ one[1] = r /\ r \in Reducers
    OBVIOUS
<1>2. RunsAfter(one, events)[0] = Fresh(events)
      /\ RunsAfter(one, events)[1] = Project(RunsAfter(one, events)[0], r, <<>>)
    <2> HIDE DEF one
    <2>1. 1 \in 1..Len(one) /\ 1 - 1 = 0
        BY <1>1
    <2> QED BY <1>1, <2>1, RunsAfterIs
<1>3. Project(Fresh(events), r, <<>>).states = Append(<<>>, fed.state)
    BY DEF Project, Fresh
<1>4. ApplyReducers(one, events).states = Append(<<>>, fed.state)
    BY <1>1, <1>2, <1>3 DEF ApplyReducers
<1>5. ApplyReducers(reducers, events).states[n] = fed.state
    BY ReplayWell DEF RunWell
<1>6. Append(<<>>, fed.state)[1] = fed.state
    <2> HIDE DEF fed
    <2> QED OBVIOUS
<1> QED BY <1>4, <1>5, <1>6

-----------------------------------------------------------------------------
(* The kernel: what a replay reads *)

\* the k-th entry is read if it is in the scope
ReadOne(read, scope, k) == IF InScope(scope, k) THEN Append(read, k) ELSE read

\* f is the positions read of the first entries, up to each of m
Reads(f, m, scope) == f = [k \in 0..m |-> IF k = 0 THEN <<>> ELSE ReadOne(f[k - 1], scope, k)]

\* Every stretch of the ledger can be read.
LEMMA ReadsExist ==
    ASSUME NEW scope, Len(entries) \in Nat, NEW m \in 0..Len(entries)
    PROVE  \E f : Reads(f, m, scope)
<1> DEFINE Bad == {k \in 0..Len(entries) : ~\E f : Reads(f, k, scope)}
<1> SUFFICES ASSUME Bad # {} PROVE FALSE
    OBVIOUS
<1>0. Bad \subseteq Nat
    OBVIOUS
<1>1. PICK k \in Bad : \A j \in Bad : k <= j
    BY <1>0, LeastNatural
<1>2. CASE k = 0
    <2>1. Reads([n \in 0..0 |-> <<>>], 0, scope)
        BY DEF Reads
    <2> QED BY <1>2, <2>1
<1>3. CASE k # 0
    <2>1. k - 1 \in 0..Len(entries) /\ k - 1 \notin Bad
        BY <1>1, <1>3
    <2>2. PICK g : Reads(g, k - 1, scope)
        BY <2>1
    <2> DEFINE f == [n \in 0..k |-> IF n = k THEN ReadOne(g[k - 1], scope, k) ELSE g[n]]
    <2>3. \A n \in 0..k : f[n] = IF n = 0 THEN <<>> ELSE ReadOne(f[n - 1], scope, n)
        BY <1>3, <2>2 DEF Reads
    <2>4. Reads(f, k, scope)
        BY <2>3 DEF Reads
    <2> QED BY <2>4
<1> QED BY <1>2, <1>3

\* positions of the first k entries, the last of them the highest
Ascends(read, k) ==
    /\ read \in Seq(1..k)
    /\ \A i \in DOMAIN read : read[i] <= read[Len(read)]

\* A replay reads entries of the ledger, the last one last.
LEMMA ReadEntriesAscend ==
    ASSUME NEW scope, Len(entries) \in Nat
    PROVE  Ascends(ReadEntries(scope), Len(entries))
<1> DEFINE read == ReadUpTo(scope)
           Bad == {k \in 0..Len(entries) : ~ Ascends(read[k], k)}
<1>0. Bad \subseteq Nat /\ Len(entries) \in 0..Len(entries)
    OBVIOUS
<1>1. Reads(read, Len(entries), scope)
    <2>1. \E f : Reads(f, Len(entries), scope)
        BY <1>0, ReadsExist
    <2> QED BY <2>1 DEF ReadUpTo, Reads, ReadOne
<1>2. read[0] = <<>> /\ \A k \in 1..Len(entries) : read[k] = ReadOne(read[k - 1], scope, k)
    BY <1>1 DEF Reads
<1> HIDE DEF read
<1>3. ASSUME Bad # {} PROVE FALSE
    <2>1. PICK k \in Bad : \A j \in Bad : k <= j
        BY <1>0, <1>3, LeastNatural
    <2>2. Ascends(read[0], 0)
        BY <1>2 DEF Ascends
    <2>3. k # 0
        BY <2>2
    <2>4. k - 1 \in 0..Len(entries) /\ k - 1 \notin Bad /\ k \in 1..Len(entries)
        BY <1>0, <2>1, <2>3
    <2>5. Ascends(read[k - 1], k - 1)
        BY <2>4
    <2> DEFINE before == read[k - 1]
    <2>6. before \in Seq(1..k) /\ \A i \in DOMAIN before : before[i] < k
        BY <2>4, <2>5 DEF Ascends
    <2> HIDE DEF before
    <2>7. Append(before, k) \in Seq(1..k) /\ Len(Append(before, k)) = Len(before) + 1
          /\ Append(before, k)[Len(before) + 1] = k
          /\ \A i \in DOMAIN Append(before, k) : Append(before, k)[i] <= k
        BY <2>4, <2>6
    <2>8. Ascends(Append(before, k), k)
        BY <2>6, <2>7 DEF Ascends
    <2>9. Ascends(before, k)
        BY <2>5, <2>6 DEF Ascends, before
    <2> QED BY <1>2, <2>4, <2>8, <2>9 DEF before, ReadOne
<1>4. Ascends(read[Len(entries)], Len(entries))
    BY <1>0, <1>3
<1> QED BY <1>4 DEF ReadEntries, read

-----------------------------------------------------------------------------
(* The kernel: its inductive invariant *)

\* an entry as it was committed
Entry == [stream : {e.stream : e \in CommitMenu}, type : {e.type : e \in CommitMenu}, payload : {{}}]

\* a replay's result is what its reducers make of the committed events it read
ResultOf(r) ==
    /\ r.reducers \in Seq(Reducers)
    /\ r.read \in Seq(1..Len(entries))
    /\ \A k \in DOMAIN r.read : r.read[k] - 1 <= r.boundary
    /\ r.ok = ApplyReducers(r.reducers, Committed(r.read)).ok
    /\ r.states = ApplyReducers(r.reducers, Committed(r.read)).states

\* The registry only grows, so a ledger that may have been written into once may
\* have been ever after; until then this holds.
KernelInv ==
    /\ registry \in Seq(Reducers)
    /\ LedgerIsSafe =>
           /\ entries \in Seq(Entry)
           /\ IsSequence(results)
           /\ \A i \in 1..Len(results) : ResultOf(results[i])

\* The events a replay hands out are the committed ones as long as the ledger is
\* safe.
LEMMA HandsOutCommitted ==
    ASSUME entries \in Seq(Entry), NEW read \in Seq(1..Len(entries))
    PROVE  /\ [i \in DOMAIN read |-> EntryToEvent(read[i], entries[read[i]].payload)] = Committed(read)
           /\ Committed(read) \in Seq(Event) /\ Len(Committed(read)) = Len(read)
           /\ DOMAIN read = 1..Len(read)
           /\ \A i \in 1..Len(read) : Committed(read)[i].payload = {}
<1>1. \A i \in 1..Len(read) : entries[read[i]] \in Entry /\ read[i] - 1 \in Int
    OBVIOUS
<1>2. \A i \in 1..Len(read) : entries[read[i]].payload = {} /\ EntryToEvent(read[i], {}) \in Event
                              /\ EntryToEvent(read[i], {}).payload = {}
    BY <1>1 DEF EntryToEvent, Event, Entry
<1>3. DOMAIN read = 1..Len(read) /\ Len(read) \in Nat
    OBVIOUS
<1>4. Committed(read) = [i \in 1..Len(read) |-> EntryToEvent(read[i], {})]
    BY <1>3 DEF Committed
<1>5. Committed(read) \in Seq(Event) /\ Len(Committed(read)) = Len(read)
    BY <1>2, <1>3, <1>4
<1> QED BY <1>2, <1>3, <1>4, <1>5

\* The kernel starts with nothing.
LEMMA KernelStarts == KInit => KernelInv
<1> SUFFICES ASSUME KInit PROVE KernelInv
    OBVIOUS
<1>1. entries = <<>> /\ registry = <<>> /\ results = <<>>
    BY DEF KInit
<1>2. IsSequence(<<>>) /\ Len(<<>>) = 0
    BY DEF IsSequence
<1> QED BY <1>1, <1>2 DEF KernelInv

\* A result stays what its reducers make of the entries it read when entries are
\* added.
LEMMA ResultStays ==
    ASSUME entries \in Seq(Entry), entries' \in Seq(Entry), Len(entries) <= Len(entries'),
           \A k \in 1..Len(entries) : entries'[k] = entries[k], NEW r, ResultOf(r)
    PROVE  ResultOf(r)'
<1>1. r.read \in Seq(1..Len(entries)) /\ Len(entries) \in Nat /\ Len(entries') \in Nat
    BY DEF ResultOf
<1>2. r.read \in Seq(1..Len(entries'))
    BY <1>1
<1>0. \A i \in DOMAIN r.read : entries'[r.read[i]] = entries[r.read[i]]
    <2>1. ASSUME NEW i \in DOMAIN r.read PROVE entries'[r.read[i]] = entries[r.read[i]]
        <3>1. r.read[i] \in 1..Len(entries)
            BY <1>1
        <3> QED BY <3>1
    <2> QED BY <2>1
<1>3. \A i \in DOMAIN r.read : EntryToEvent(r.read[i], {})' = EntryToEvent(r.read[i], {})
    BY <1>0 DEF EntryToEvent
<1>4. Committed(r.read)' = Committed(r.read)
    BY <1>3 DEF Committed
<1> QED BY <1>2, <1>4 DEF ResultOf

\* Every step of the kernel keeps its invariant.
LEMMA KernelStep ==
    ASSUME KernelInv, [KNext]_kernelVars
    PROVE  KernelInv'
<1>0. registry \in Seq(Reducers)
    BY DEF KernelInv
<1>1. ASSUME NEW e \in CommitMenu, AppendCommit(e) PROVE KernelInv'
    <2> DEFINE new == [stream |-> e.stream, type |-> e.type, payload |-> {}]
    <2>1. entries' = Append(entries, new) /\ backend' = backend /\ registry' = registry /\ results' = results
        BY <1>1 DEF AppendCommit
    <2>2. new \in Entry
        BY DEF Entry
    <2> HIDE DEF new
    <2>3. ASSUME LedgerIsSafe' PROVE entries' \in Seq(Entry) /\ IsSequence(results)'
                                    /\ (\A i \in 1..Len(results) : ResultOf(results[i]))'
        <3>1. LedgerIsSafe
            BY <2>1, <2>3 DEF LedgerIsSafe
        <3>2. entries \in Seq(Entry) /\ IsSequence(results) /\ \A i \in 1..Len(results) : ResultOf(results[i])
            BY <3>1 DEF KernelInv
        <3>3. entries' \in Seq(Entry) /\ Len(entries) <= Len(entries')
              /\ \A k \in 1..Len(entries) : entries'[k] = entries[k]
            BY <2>1, <2>2, <3>2
        <3>4. \A q : ResultOf(q) => ResultOf(q)'
            BY <3>2, <3>3, ResultStays
        <3> QED BY <2>1, <3>2, <3>3, <3>4 DEF IsSequence
    <2> QED BY <1>0, <2>1, <2>3 DEF KernelInv
<1>2. ASSUME NEW r \in Reducers, RegisterProjection(r) PROVE KernelInv'
    <2>1. registry' = Append(registry, r) /\ backend' = backend /\ entries' = entries /\ results' = results
        BY <1>2 DEF RegisterProjection
    <2>2. registry' \in Seq(Reducers) /\ DOMAIN registry \subseteq DOMAIN registry'
          /\ \A i \in DOMAIN registry : registry'[i] = registry[i]
        BY <1>0, <2>1
    <2>3. LedgerIsSafe' => LedgerIsSafe
        BY <2>1, <2>2 DEF LedgerIsSafe
    <2>4. \A q : ResultOf(q) => ResultOf(q)'
        BY <2>1 DEF ResultOf, Committed, EntryToEvent
    <2> QED BY <2>1, <2>2, <2>3, <2>4 DEF KernelInv, IsSequence
<1>3. ASSUME NEW scope \in Scopes, ReplayScope(scope) PROVE KernelInv'
    <2> DEFINE read == ReadEntries(scope)
               given == [i \in DOMAIN read |-> EntryToEvent(read[i], entries[read[i]].payload)]
               run == ApplyReducers(registry, given)
               made == [scope |-> scope, reducers |-> registry, read |-> read, ok |-> run.ok,
                        states |-> run.states, boundary |-> ComputeBoundary(read)]
    <2>1. results' = Append(results, made) /\ backend' = backend /\ registry' = registry
        BY <1>3 DEF ReplayScope
    <2>2. ASSUME LedgerIsSafe' PROVE entries' \in Seq(Entry) /\ IsSequence(results)'
                                    /\ (\A i \in 1..Len(results) : ResultOf(results[i]))'
        <3>1. LedgerIsSafe
            BY <2>1, <2>2 DEF LedgerIsSafe
        <3>2. entries \in Seq(Entry) /\ IsSequence(results) /\ \A i \in 1..Len(results) : ResultOf(results[i])
            BY <3>1 DEF KernelInv
        <3>3. Len(entries) \in Nat /\ DOMAIN entries = 1..Len(entries)
            BY <3>2
        <3>4. Ascends(read, Len(entries))
            BY <3>3, ReadEntriesAscend
        <3>5. read \in Seq(1..Len(entries)) /\ DOMAIN read = 1..Len(read) /\ Len(read) \in Nat
            BY <3>4 DEF Ascends
        <3> HIDE DEF read
        <3>6. given = Committed(read) /\ given \in Seq(Event) /\ Len(given) = Len(read)
              /\ \A i \in 1..Len(read) : given[i].payload = {}
            BY <3>2, <3>5, HandsOutCommitted
        <3> HIDE DEF given
        <3>7. RunWell(run, Len(registry), registry, given)
            BY <1>0, <3>6, ReplayWell
        <3> HIDE DEF run
        <3>8. entries' = entries
            <4>1. CASE backend = "sqlite"
                BY <1>3, <4>1 DEF ReplayScope
            <4>2. CASE backend # "sqlite"
                <5>1. NoWriter(registry, Len(registry))
                    BY <1>0, <3>1, <4>2 DEF LedgerIsSafe, NoWriter
                <5>2. \A i \in 1..Len(read) : run.events[i].payload = {}
                    BY <3>6, <3>7, <5>1 DEF RunWell
                <5>3. entries' = [k \in DOMAIN entries |->
                                     IF \E i \in DOMAIN read : read[i] = k
                                     THEN [entries[k] EXCEPT !.payload =
                                              run.events[CHOOSE i \in DOMAIN read : read[i] = k].payload]
                                     ELSE entries[k]]
                    BY <1>3, <4>2 DEF ReplayScope, read, run, given
                <5>4. ASSUME NEW k \in DOMAIN entries, \E i \in DOMAIN read : read[i] = k
                      PROVE  [entries[k] EXCEPT !.payload =
                                 run.events[CHOOSE i \in DOMAIN read : read[i] = k].payload] = entries[k]
                    <6>1. run.events[CHOOSE i \in DOMAIN read : read[i] = k].payload = {}
                        BY <3>5, <5>2, <5>4
                    <6>2. entries[k] \in Entry
                        BY <3>2
                    <6> QED BY <6>1, <6>2 DEF Entry
                <5>5. \A k \in DOMAIN entries : entries'[k] = entries[k]
                    BY <5>3, <5>4
                <5>6. DOMAIN entries' = DOMAIN entries /\ entries' = [k \in DOMAIN entries |-> entries'[k]]
                    BY <5>3
                <5>7. entries = [k \in DOMAIN entries |-> entries[k]]
                    BY <3>2
                <5> QED BY <5>5, <5>6, <5>7
            <4> QED BY <4>1, <4>2
        <3>9. \A k \in DOMAIN read : read[k] - 1 <= ComputeBoundary(read)
            <4>1. ASSUME NEW k \in DOMAIN read PROVE read[k] - 1 <= ComputeBoundary(read)
                <5>1. read # <<>> /\ read[k] <= read[Len(read)]
                    BY <3>4, <3>5 DEF Ascends
                <5>2. read[k] \in Int /\ read[Len(read)] \in Int
                    BY <3>5
                <5> QED BY <5>1, <5>2 DEF ComputeBoundary
            <4> QED BY <4>1
        <3>10. ResultOf(made)
            <4>1. made.reducers = registry /\ made.read = read /\ made.boundary = ComputeBoundary(read)
                  /\ made.ok = run.ok /\ made.states = run.states
                OBVIOUS
            <4> HIDE DEF made
            <4>2. run = ApplyReducers(made.reducers, Committed(made.read))
                BY <3>6, <4>1 DEF run
            <4> QED BY <1>0, <3>5, <3>9, <4>1, <4>2 DEF ResultOf
        <3> HIDE DEF made
        <3>11. \A q : ResultOf(q) => ResultOf(q)'
            BY <3>8 DEF ResultOf, Committed, EntryToEvent
        <3>12. IsSequence(results') /\ Len(results') = Len(results) + 1 /\ results'[Len(results) + 1] = made
               /\ \A i \in 1..Len(results) : results'[i] = results[i]
            BY <2>1, <3>2, AppendSequence
        <3>13. Len(results) \in Nat
            BY <3>2 DEF IsSequence
        <3>14. \A i \in 1..Len(results') : ResultOf(results'[i])
            BY <3>2, <3>10, <3>12, <3>13
        <3>15. (\A i \in 1..Len(results) : ResultOf(results[i]))'
            BY <3>11, <3>14
        <3>16. IsSequence(results)'
            BY <3>12
        <3> QED BY <3>2, <3>8, <3>15, <3>16
    <2> QED BY <1>0, <2>1, <2>2 DEF KernelInv
<1>4. CASE UNCHANGED kernelVars
    <2>1. backend' = backend /\ entries' = entries /\ registry' = registry /\ results' = results
        BY <1>4 DEF kernelVars
    <2>2. \A q : ResultOf(q) => ResultOf(q)'
        BY <2>1 DEF ResultOf, Committed, EntryToEvent
    <2> QED BY <2>1, <2>2 DEF KernelInv, IsSequence, LedgerIsSafe
<1> QED BY <1>1, <1>2, <1>3, <1>4 DEF KNext

\* Of the reference kernel, for every registry and every ledger: replays of the
\* same entries by the same reducers agree, whatever else has happened; guarded
\* reducers get what they would alone; and the ledger stays as committed.
THEOREM KernelSoundHolds == KSpec => []KernelSound
<1>1. KernelInv => KernelSound
    <2> SUFFICES ASSUME KernelInv, LedgerIsSafe
                 PROVE  ProjectionsIsolated /\ KernelDeterministic /\ LedgerUntouched
        BY DEF KernelSound, ProjectionsIsolated, KernelDeterministic, LedgerUntouched
    <2>1. entries \in Seq(Entry) /\ IsSequence(results) /\ \A i \in 1..Len(results) : ResultOf(results[i])
        BY DEF KernelInv
    <2>2. DOMAIN results = 1..Len(results) /\ DOMAIN entries = 1..Len(entries)
        BY <2>1 DEF IsSequence
    <2>3. LedgerUntouched
        <3>1. \A k \in DOMAIN entries : entries[k] \in Entry
            BY <2>1, <2>2
        <3> QED BY <3>1 DEF LedgerUntouched, Entry
    <2>4. KernelDeterministic
        <3>1. ASSUME NEW i \in DOMAIN results, NEW j \in DOMAIN results,
                     results[i].read = results[j].read, results[i].reducers = results[j].reducers
              PROVE  results[i].ok = results[j].ok /\ results[i].states = results[j].states
            <4>1. ResultOf(results[i]) /\ ResultOf(results[j])
                BY <2>1, <2>2
            <4> QED BY <3>1, <4>1 DEF ResultOf
        <3> QED BY <3>1 DEF KernelDeterministic
    <2>5. ProjectionsIsolated
        <3>1. ASSUME NEW i \in DOMAIN results, results[i].ok,
                     \A n \in DOMAIN results[i].reducers : Guarded(results[i].reducers[n])
              PROVE  /\ \A n \in DOMAIN results[i].reducers : results[i].states[n] =
                            ApplyReducers(<<results[i].reducers[n]>>, Committed(results[i].read)).states[1]
                     /\ \A k \in DOMAIN results[i].read : results[i].read[k] - 1 <= results[i].boundary
            <4> DEFINE r == results[i]
            <4>1. ResultOf(r)
                BY <2>1, <2>2
            <4> HIDE DEF r
            <4>2. r.reducers \in Seq(Reducers) /\ r.read \in Seq(1..Len(entries))
                BY <4>1 DEF ResultOf
            <4>3. DOMAIN r.reducers = 1..Len(r.reducers)
                BY <4>2
            <4>4. Committed(r.read) \in Seq(Event)
                BY <2>1, <4>2, HandsOutCommitted
            <4>5. AllGuarded(r.reducers, Len(r.reducers)) /\ ApplyReducers(r.reducers, Committed(r.read)).ok
                BY <3>1, <4>1, <4>3 DEF r, AllGuarded, ResultOf
            <4>6. \A n \in 1..Len(r.reducers) : ApplyReducers(r.reducers, Committed(r.read)).states[n] =
                      ApplyReducers(<<r.reducers[n]>>, Committed(r.read)).states[1]
                BY <4>2, <4>4, <4>5, GuardedApart
            <4> QED BY <4>1, <4>3, <4>6 DEF r, ResultOf
        <3> QED BY <3>1 DEF ProjectionsIsolated
    <2> QED BY <2>3, <2>4, <2>5
<1> QED BY <1>1, KernelStarts, KernelStep, PTL DEF KSpec

-----------------------------------------------------------------------------
(* Governance decisions *)

\* f is the governance after each of the first m events
Governs(f, m) == f = [k \in 0..m |-> IF k = 0 THEN NoGovernance ELSE GovernanceStep(f[k - 1], k)]

\* Every stretch of the ledger can be projected.
LEMMA GovernsExist ==
    ASSUME Len(ledger) \in Nat, NEW m \in 0..Len(ledger)
    PROVE  \E f : Governs(f, m)
<1> DEFINE Bad == {k \in 0..Len(ledger) : ~\E f : Governs(f, k)}
<1> SUFFICES ASSUME Bad # {} PROVE FALSE
    OBVIOUS
<1>0. Bad \subseteq Nat
    OBVIOUS
<1>1. PICK k \in Bad : \A j \in Bad : k <= j
    BY <1>0, LeastNatural
<1>2. CASE k = 0
    <2>1. Governs([n \in 0..0 |-> NoGovernance], 0)
        BY DEF Governs
    <2> QED BY <1>2, <2>1
<1>3. CASE k # 0
    <2>1. k - 1 \in 0..Len(ledger) /\ k - 1 \notin Bad
        BY <1>1, <1>3
    <2>2. PICK g : Governs(g, k - 1)
        BY <2>1
    <2> DEFINE f == [n \in 0..k |-> IF n = k THEN GovernanceStep(g[k - 1], k) ELSE g[n]]
    <2>3. \A n \in 0..k : f[n] = IF n = 0 THEN NoGovernance ELSE GovernanceStep(f[n - 1], n)
        BY <1>3, <2>2 DEF Governs
    <2>4. Governs(f, k)
        BY <2>3 DEF Governs
    <2> QED BY <2>4
<1> QED BY <1>2, <1>3

\* The recursion over the ledger defines the governance after each event.
LEMMA GovernanceAfterIs ==
    ASSUME Len(ledger) \in Nat
    PROVE  /\ GovernanceAfter[0] = NoGovernance
           /\ \A k \in 1..Len(ledger) : GovernanceAfter[k] = GovernanceStep(GovernanceAfter[k - 1], k)
<1>1. Len(ledger) \in 0..Len(ledger)
    OBVIOUS
<1>2. \E f : Governs(f, Len(ledger))
    BY <1>1, GovernsExist
<1>3. Governs(GovernanceAfter, Len(ledger))
    BY <1>2 DEF GovernanceAfter, Governs
<1> QED BY <1>1, <1>3 DEF Governs

\* the decisions about a target among the first k events
Switches(k, target) ==
    {j \in 1..k : Decision(ledger[j]) /\ ledger[j].domain = "PROJECTION"
                  /\ ledger[j].target = target /\ ledger[j].action \in {"DISABLED", "ADJUSTED"}}
Tunes(k, target) ==
    {j \in 1..k : Decision(ledger[j]) /\ ledger[j].domain = "POLICY"
                  /\ ledger[j].target = target /\ ledger[j].action \in {"ADJUSTED", "DISABLED"}}
Moves(k, target) ==
    {j \in 1..k : Decision(ledger[j]) /\ ledger[j].domain = "SCHEMA" /\ ledger[j].target = target
                  /\ ledger[j].action = "MIGRATION_APPLIED" /\ ledger[j].new > 0}

\* The last of the first k numbers is k if it is there.
LEMMA LastOfIs ==
    ASSUME NEW k \in Nat, NEW S, S \subseteq 1..k, k \in S
    PROVE  LastOf(S) = k
<1>1. \A j \in S : j <= k
    OBVIOUS
<1>2. \A i \in S : (\A j \in S : j <= i) => i = k
    OBVIOUS
<1> QED BY <1>1, <1>2 DEF LastOf

\* the last of the decisions has this action
Lastly(S, action) == S # {} /\ ledger[LastOf(S)].action = action

\* what is known of a target is what the last decision about it says
KnownOf(g, k, target) ==
    /\ target \in DOMAIN g.disabled <=> Lastly(Switches(k, target), "DISABLED")
    /\ target \in DOMAIN g.disabled => g.disabled[target] = TakesEffect(LastOf(Switches(k, target)))
    /\ target \in DOMAIN g.policies <=> Lastly(Tunes(k, target), "ADJUSTED")
    /\ target \in DOMAIN g.policies =>
           g.policies[target] = <<ledger[LastOf(Tunes(k, target))].new, TakesEffect(LastOf(Tunes(k, target)))>>
    /\ target \in DOMAIN g.schemas <=> Moves(k, target) # {}
    /\ target \in DOMAIN g.schemas =>
           g.schemas[target] = <<ledger[LastOf(Moves(k, target))].new, TakesEffect(LastOf(Moves(k, target)))>>

\* An event about a target is the last of the decisions about it; one that is
\* not leaves them as they are.
LEMMA DecisionsGrow ==
    ASSUME NEW k \in Nat \ {0}, NEW target
    PROVE  /\ IF k \in Switches(k, target) THEN LastOf(Switches(k, target)) = k
              ELSE Switches(k, target) = Switches(k - 1, target)
           /\ IF k \in Tunes(k, target) THEN LastOf(Tunes(k, target)) = k
              ELSE Tunes(k, target) = Tunes(k - 1, target)
           /\ IF k \in Moves(k, target) THEN LastOf(Moves(k, target)) = k
              ELSE Moves(k, target) = Moves(k - 1, target)
<1>1. Switches(k, target) \subseteq 1..k /\ Tunes(k, target) \subseteq 1..k /\ Moves(k, target) \subseteq 1..k
    BY DEF Switches, Tunes, Moves
<1>2. \A j : j \in 1..k <=> j \in 1..k - 1 \/ j = k
    OBVIOUS
<1>3. k \notin Switches(k, target) => Switches(k, target) = Switches(k - 1, target)
    BY <1>2 DEF Switches
<1>4. k \notin Tunes(k, target) => Tunes(k, target) = Tunes(k - 1, target)
    BY <1>2 DEF Tunes
<1>5. k \notin Moves(k, target) => Moves(k, target) = Moves(k - 1, target)
    BY <1>2 DEF Moves
<1>6. k \in Nat
    OBVIOUS
<1> QED BY <1>1, <1>3, <1>4, <1>5, <1>6, LastOfIs

\* One more event keeps what is known of a target.
LEMMA GovernanceStepKeeps ==
    ASSUME NEW k \in Nat \ {0}, NEW target, NEW g, KnownOf(g, k - 1, target)
    PROVE  KnownOf(GovernanceStep(g, k), k, target)
<1> DEFINE e == ledger[k]
           h == GovernanceStep(g, k)
<1>0. k \in 1..k
    OBVIOUS
<1>1. h.disabled = DisabledAfter(g.disabled, k) /\ h.policies = PoliciesAfter(g.policies, k)
      /\ h.schemas = SchemasAfter(g.schemas, k)
    BY DEF GovernanceStep
<1> HIDE DEF h
<1>2. /\ target \in DOMAIN h.disabled <=> Lastly(Switches(k, target), "DISABLED")
      /\ target \in DOMAIN h.disabled => h.disabled[target] = TakesEffect(LastOf(Switches(k, target)))
    <2>1. k \in Switches(k, target) <=>
              e.target = target /\ (Decides(e, "PROJECTION", "DISABLED") \/ Decides(e, "PROJECTION", "ADJUSTED"))
        BY <1>0 DEF Switches, Decides
    <2>2. ~(Decides(e, "PROJECTION", "DISABLED") /\ Decides(e, "PROJECTION", "ADJUSTED"))
        BY DEF Decides
    <2>3. Decides(e, "PROJECTION", "DISABLED") <=> Decides(e, "PROJECTION", "DISABLED") /\ e.action = "DISABLED"
        BY DEF Decides
    <2>4. Decides(e, "PROJECTION", "ADJUSTED") => e.action = "ADJUSTED"
        BY DEF Decides
    <2>5. CASE k \in Switches(k, target)
        <3>1. LastOf(Switches(k, target)) = k /\ Switches(k, target) # {}
            BY <2>5, DecisionsGrow
        <3> QED BY <1>1, <2>1, <2>2, <2>3, <2>4, <2>5, <3>1 DEF DisabledAfter, With, Without, Lastly
    <2>6. CASE k \notin Switches(k, target)
        <3>1. Switches(k, target) = Switches(k - 1, target)
            BY <2>6, DecisionsGrow
        <3>2. (target \in DOMAIN h.disabled <=> target \in DOMAIN g.disabled)
              /\ (target \in DOMAIN g.disabled => h.disabled[target] = g.disabled[target])
            BY <1>1, <2>1, <2>2, <2>6 DEF DisabledAfter, With, Without
        <3> QED BY <3>1, <3>2 DEF KnownOf
    <2> QED BY <2>5, <2>6
<1>3. /\ target \in DOMAIN h.policies <=> Lastly(Tunes(k, target), "ADJUSTED")
      /\ target \in DOMAIN h.policies =>
             h.policies[target] = <<ledger[LastOf(Tunes(k, target))].new, TakesEffect(LastOf(Tunes(k, target)))>>
    <2>1. k \in Tunes(k, target) <=>
              e.target = target /\ (Decides(e, "POLICY", "DISABLED") \/ Decides(e, "POLICY", "ADJUSTED"))
        BY <1>0 DEF Tunes, Decides
    <2>2. ~(Decides(e, "POLICY", "DISABLED") /\ Decides(e, "POLICY", "ADJUSTED"))
        BY DEF Decides
    <2>3. Decides(e, "POLICY", "DISABLED") => e.action = "DISABLED"
        BY DEF Decides
    <2>4. Decides(e, "POLICY", "ADJUSTED") => e.action = "ADJUSTED"
        BY DEF Decides
    <2>5. CASE k \in Tunes(k, target)
        <3>1. LastOf(Tunes(k, target)) = k /\ Tunes(k, target) # {}
            BY <2>5, DecisionsGrow
        <3> QED BY <1>1, <2>1, <2>2, <2>3, <2>4, <2>5, <3>1 DEF PoliciesAfter, With, Without, Lastly
    <2>6. CASE k \notin Tunes(k, target)
        <3>1. Tunes(k, target) = Tunes(k - 1, target)
            BY <2>6, DecisionsGrow
        <3>2. (target \in DOMAIN h.policies <=> target \in DOMAIN g.policies)
              /\ (target \in DOMAIN g.policies => h.policies[target] = g.policies[target])
            BY <1>1, <2>1, <2>2, <2>6 DEF PoliciesAfter, With, Without
        <3> QED BY <3>1, <3>2 DEF KnownOf
    <2> QED BY <2>5, <2>6
<1>4. /\ target \in DOMAIN h.schemas <=> Moves(k, target) # {}
      /\ target \in DOMAIN h.schemas =>
             h.schemas[target] = <<ledger[LastOf(Moves(k, target))].new, TakesEffect(LastOf(Moves(k, target)))>>
    <2>1. k \in Moves(k, target) <=>
              e.target = target /\ Decides(e, "SCHEMA", "MIGRATION_APPLIED") /\ e.new > 0
        BY <1>0 DEF Moves, Decides
    <2>5. CASE k \in Moves(k, target)
        <3>1. LastOf(Moves(k, target)) = k /\ Moves(k, target) # {}
            BY <2>5, DecisionsGrow
        <3> QED BY <1>1, <2>1, <2>5, <3>1 DEF SchemasAfter, With
    <2>6. CASE k \notin Moves(k, target)
        <3>1. Moves(k, target) = Moves(k - 1, target)
            BY <2>6, DecisionsGrow
        <3>2. (target \in DOMAIN h.schemas <=> target \in DOMAIN g.schemas)
              /\ (target \in DOMAIN g.schemas => h.schemas[target] = g.schemas[target])
            BY <1>1, <2>1, <2>6 DEF SchemasAfter, With
        <3> QED BY <3>1, <3>2 DEF KnownOf
    <2> QED BY <2>5, <2>6
<1> QED BY <1>2, <1>3, <1>4 DEF KnownOf, h

\* At the end of the ledger, too.
LEMMA GovernanceKnows ==
    ASSUME Len(ledger) \in Nat, NEW target
    PROVE  KnownOf(GovernanceState, Len(ledger), target)
<1> DEFINE g == GovernanceAfter
           Bad == {k \in 0..Len(ledger) : ~ KnownOf(g[k], k, target)}
<1>0. Bad \subseteq Nat /\ Len(ledger) \in 0..Len(ledger)
    OBVIOUS
<1>1. g[0] = NoGovernance /\ \A k \in 1..Len(ledger) : g[k] = GovernanceStep(g[k - 1], k)
    BY GovernanceAfterIs
<1> HIDE DEF g
<1>2. ASSUME Bad # {} PROVE FALSE
    <2>1. PICK k \in Bad : \A j \in Bad : k <= j
        BY <1>0, <1>2, LeastNatural
    <2>2. KnownOf(g[0], 0, target)
        <3>1. Switches(0, target) = {} /\ Tunes(0, target) = {} /\ Moves(0, target) = {}
            BY DEF Switches, Tunes, Moves
        <3>2. DOMAIN NoGovernance.disabled = {} /\ DOMAIN NoGovernance.policies = {}
              /\ DOMAIN NoGovernance.schemas = {}
            BY DEF NoGovernance
        <3> QED BY <1>1, <3>1, <3>2 DEF KnownOf, Lastly
    <2>3. k # 0
        BY <2>2
    <2>4. k - 1 \in 0..Len(ledger) /\ k - 1 \notin Bad /\ k \in 1..Len(ledger) /\ k \in Nat \ {0}
        BY <1>0, <2>1, <2>3
    <2>5. KnownOf(g[k - 1], k - 1, target)
        BY <2>4
    <2>6. KnownOf(GovernanceStep(g[k - 1], k), k, target)
        BY <2>4, <2>5, GovernanceStepKeeps
    <2> QED BY <1>1, <2>4, <2>6
<1>3. KnownOf(g[Len(ledger)], Len(ledger), target)
    BY <1>0, <1>2
<1> QED BY <1>3 DEF GovernanceState, g

\* What is in force is what the last decision about a target says.
LEMMA GovernanceIsExact ==
    ASSUME Len(ledger) \in Nat, DOMAIN ledger = 1..Len(ledger)
    PROVE  GovernanceExact
<1> SUFFICES ASSUME NEW target, NEW at
             PROVE LET g == GovernanceState
                       switches == DecidedAbout("PROJECTION", target, {"DISABLED", "ADJUSTED"})
                       moves == {k \in DecidedAbout("SCHEMA", target, {"MIGRATION_APPLIED"}) : ledger[k].new > 0}
                       tunes == DecidedAbout("POLICY", target, {"ADJUSTED", "DISABLED"})
                       InForce(S, action) ==
                           S # {} /\ ledger[LastOf(S)].action = action /\ TakesEffect(LastOf(S)) <= at
                   IN  /\ IsDisabled(g, target, at) <=> InForce(switches, "DISABLED")
                       /\ EffectiveSchema(g, target, at) =
                              IF InForce(moves, "MIGRATION_APPLIED") THEN ledger[LastOf(moves)].new ELSE 1
                       /\ EffectivePolicy(g, target, at) =
                              IF InForce(tunes, "ADJUSTED") THEN ledger[LastOf(tunes)].new ELSE 0
    BY DEF GovernanceExact
<1> DEFINE n == Len(ledger)
           g == GovernanceState
           S == Switches(n, target)
           M == Moves(n, target)
           U == Tunes(n, target)
<1>1. /\ DecidedAbout("PROJECTION", target, {"DISABLED", "ADJUSTED"}) = S
      /\ {k \in DecidedAbout("SCHEMA", target, {"MIGRATION_APPLIED"}) : ledger[k].new > 0} = M
      /\ DecidedAbout("POLICY", target, {"ADJUSTED", "DISABLED"}) = U
    BY DEF DecidedAbout, Switches, Moves, Tunes
<1>2. KnownOf(g, n, target)
    BY GovernanceKnows
<1>3. M # {} => ledger[LastOf(M)].action = "MIGRATION_APPLIED"
    <2>1. \A k \in M : ledger[k].action = "MIGRATION_APPLIED"
        BY DEF Moves
    <2>2. M # {} => LastOf(M) \in M
        <3>1. M \subseteq Nat /\ \A k \in M : k <= n
            BY DEF Moves
        <3> QED BY <3>1, Greatest DEF LastOf
    <2> QED BY <2>1, <2>2
<1> HIDE DEF S, M, U, g, n
<1>4. IsDisabled(g, target, at) <=> S # {} /\ ledger[LastOf(S)].action = "DISABLED" /\ TakesEffect(LastOf(S)) <= at
    BY <1>2 DEF KnownOf, IsDisabled, Lastly, S
<1>5. EffectiveSchema(g, target, at) =
          IF M # {} /\ ledger[LastOf(M)].action = "MIGRATION_APPLIED" /\ TakesEffect(LastOf(M)) <= at
          THEN ledger[LastOf(M)].new ELSE 1
    BY <1>2, <1>3 DEF KnownOf, EffectiveSchema, M
<1>6. EffectivePolicy(g, target, at) =
          IF U # {} /\ ledger[LastOf(U)].action = "ADJUSTED" /\ TakesEffect(LastOf(U)) <= at
          THEN ledger[LastOf(U)].new ELSE 0
    BY <1>2 DEF KnownOf, EffectivePolicy, Lastly, U
<1> QED BY <1>1, <1>4, <1>5, <1>6 DEF g

-----------------------------------------------------------------------------
(* Upcasting *)

IsPath(path) == path \in Seq(Int \X Int)

\* the form of what a reducer reads
IsResolved(x) == x = [ok |-> x.ok, type |-> x.type, version |-> x.version, payload |-> x.payload]

\* the version after a step, if it is taken
NextVersion(s, version, i) ==
    IF version # s.latest /\ s.path[i][1] = version THEN s.path[i][2] ELSE version

\* f is the versions that the first m steps lead through
Versions(f, m, s, version) == f = [i \in 0..m |-> IF i = 0 THEN version ELSE NextVersion(s, f[i - 1], i)]

\* f is what the first m steps make of an event
Upcasts(f, m, upcasters, path, e) ==
    f = [i \in 0..m |-> IF i = 0 THEN Resolved(e, TRUE) ELSE Upcast(upcasters, f[i - 1], path[i])]

\* Every stretch of a path can be followed.
LEMMA VersionsExist ==
    ASSUME NEW s, IsPath(s.path), NEW version, NEW m \in 0..Len(s.path)
    PROVE  \E f : Versions(f, m, s, version)
<1> DEFINE Bad == {k \in 0..Len(s.path) : ~\E f : Versions(f, k, s, version)}
<1> SUFFICES ASSUME Bad # {} PROVE FALSE
    OBVIOUS
<1>0. Bad \subseteq Nat /\ Len(s.path) \in Nat
    BY DEF IsPath
<1>1. PICK k \in Bad : \A j \in Bad : k <= j
    BY <1>0, LeastNatural
<1>2. CASE k = 0
    <2>1. Versions([n \in 0..0 |-> version], 0, s, version)
        BY DEF Versions
    <2> QED BY <1>2, <2>1
<1>3. CASE k # 0
    <2>1. k - 1 \in 0..Len(s.path) /\ k - 1 \notin Bad
        BY <1>0, <1>1, <1>3
    <2>2. PICK g : Versions(g, k - 1, s, version)
        BY <2>1
    <2> DEFINE f == [n \in 0..k |-> IF n = k THEN NextVersion(s, g[k - 1], k) ELSE g[n]]
    <2>3. \A n \in 0..k : f[n] = IF n = 0 THEN version ELSE NextVersion(s, f[n - 1], n)
        BY <1>3, <2>2 DEF Versions
    <2>4. Versions(f, k, s, version)
        BY <2>3 DEF Versions
    <2> QED BY <2>4
<1> QED BY <1>2, <1>3

\* Every stretch of a path can be upcast along.
LEMMA UpcastsExist ==
    ASSUME NEW upcasters, NEW path, IsPath(path), NEW e, NEW m \in 0..Len(path)
    PROVE  \E f : Upcasts(f, m, upcasters, path, e)
<1> DEFINE Bad == {k \in 0..Len(path) : ~\E f : Upcasts(f, k, upcasters, path, e)}
<1> SUFFICES ASSUME Bad # {} PROVE FALSE
    OBVIOUS
<1>0. Bad \subseteq Nat /\ Len(path) \in Nat
    BY DEF IsPath
<1>1. PICK k \in Bad : \A j \in Bad : k <= j
    BY <1>0, LeastNatural
<1>2. CASE k = 0
    <2>1. Upcasts([n \in 0..0 |-> Resolved(e, TRUE)], 0, upcasters, path, e)
        BY DEF Upcasts
    <2> QED BY <1>2, <2>1
<1>3. CASE k # 0
    <2>1. k - 1 \in 0..Len(path) /\ k - 1 \notin Bad
        BY <1>0, <1>1, <1>3
    <2>2. PICK g : Upcasts(g, k - 1, upcasters, path, e)
        BY <2>1
    <2> DEFINE f == [n \in 0..k |-> IF n = k THEN Upcast(upcasters, g[k - 1], path[k]) ELSE g[n]]
    <2>3. \A n \in 0..k : f[n] = IF n = 0 THEN Resolved(e, TRUE) ELSE Upcast(upcasters, f[n - 1], path[n])
        BY <1>3, <2>2 DEF Upcasts
    <2>4. Upcasts(f, k, upcasters, path, e)
        BY <2>3 DEF Upcasts
    <2> QED BY <2>4
<1> QED BY <1>2, <1>3

\* The recursion over a path defines the version after each step.
LEMMA VersionsAlongIs ==
    ASSUME NEW s, IsPath(s.path), NEW version
    PROVE  /\ VersionsAlong(s, version)[0] = version
           /\ \A i \in 1..Len(s.path) :
                 VersionsAlong(s, version)[i] = NextVersion(s, VersionsAlong(s, version)[i - 1], i)
<1>1. Len(s.path) \in Nat /\ Len(s.path) \in 0..Len(s.path)
    BY DEF IsPath
<1>2. \E f : Versions(f, Len(s.path), s, version)
    BY <1>1, VersionsExist
<1> DEFINE v == VersionsAlong(s, version)
<1>3. Versions(v, Len(s.path), s, version)
    BY <1>2 DEF VersionsAlong, Versions, NextVersion
<1> HIDE DEF v
<1>4. \A i \in 0..Len(s.path) : v[i] = IF i = 0 THEN version ELSE NextVersion(s, v[i - 1], i)
    BY <1>3 DEF Versions
<1> QED BY <1>1, <1>4 DEF v

UpcastLaw(f, upcasters, path, e) ==
    /\ f[0] = Resolved(e, TRUE)
    /\ \A i \in 1..Len(path) : f[i] = Upcast(upcasters, f[i - 1], path[i])

\* The recursion over a path defines what each step makes of an event.
LEMMA UpcastAlongIs ==
    ASSUME NEW upcasters, NEW path, IsPath(path), NEW e
    PROVE  UpcastLaw(UpcastAlong(upcasters, path, e), upcasters, path, e)
<1>1. Len(path) \in Nat /\ Len(path) \in 0..Len(path)
    BY DEF IsPath
<1>2. \E f : Upcasts(f, Len(path), upcasters, path, e)
    BY <1>1, UpcastsExist
<1>3. Upcasts(UpcastAlong(upcasters, path, e), Len(path), upcasters, path, e)
    BY <1>2 DEF UpcastAlong, Upcasts
<1> QED BY <1>1, <1>3 DEF Upcasts, UpcastLaw

\* After some steps an upcast event is of its type, of the version the steps have
\* led to if none starts at the canonical one, and has come there by steps; with
\* more upcasters it would be the same.
UpcastWell(x, y, v, s, e) ==
    /\ IsResolved(x) /\ x.ok \in BOOLEAN
    /\ x.type = e.type
    /\ e.payload = <<>> => x.payload \in Seq(Int)
    /\ e.payload = <<>> /\ x.ok => Chain(s.path, e.version, x.payload, x.version)
    /\ x.ok /\ ~ Overshoots(s) => x.version = v
    /\ x.ok => y = x

\* A chain can be continued with the step that starts where it ends.
LEMMA ChainGoesOn ==
    ASSUME NEW path, IsPath(path), NEW i \in 1..Len(path), NEW from, NEW versions \in Seq(Int), NEW to,
           Chain(path, from, versions, to), path[i][1] = to
    PROVE  Chain(path, from, Append(versions, to), path[i][2])
<1> DEFINE b == path[i][2]
           was == Append(versions, to)
           is == Append(was, b)
<1>0. to \in Int /\ b \in Int /\ path[i] = <<to, b>> /\ DOMAIN path = 1..Len(path)
    BY DEF IsPath
<1>1. was \in Seq(Int) /\ Len(was) = Len(versions) + 1 /\ Len(versions) \in Nat
      /\ was[Len(versions) + 1] = to /\ \A n \in 1..Len(versions) : was[n] = versions[n]
    BY <1>0
<1>2. was[1] = from /\ \A n \in 1..Len(versions) : \E j \in DOMAIN path : path[j] = <<was[n], was[n + 1]>>
    <2>1. DOMAIN versions = 1..Len(versions)
        OBVIOUS
    <2> QED BY <2>1 DEF Chain
<1> HIDE DEF was, b
<1>3. is \in Seq(Int) /\ Len(is) = Len(was) + 1 /\ is[Len(was) + 1] = b /\ \A n \in 1..Len(was) : is[n] = was[n]
    BY <1>0, <1>1
<1> HIDE DEF is
<1>4. is[1] = from
    BY <1>1, <1>2, <1>3
<1>5. ASSUME NEW n \in 1..Len(was) PROVE \E j \in DOMAIN path : path[j] = <<is[n], is[n + 1]>>
    <2>1. CASE n = Len(was)
        BY <1>0, <1>1, <1>3, <2>1
    <2>2. CASE n # Len(was)
        <3>1. n \in 1..Len(versions) /\ n + 1 \in 1..Len(was) /\ n \in 1..Len(was)
            BY <1>1, <2>2
        <3> QED BY <1>2, <1>3, <3>1
    <2> QED BY <2>1, <2>2
<1>6. DOMAIN was = 1..Len(was)
    BY <1>1
<1> QED BY <1>4, <1>5, <1>6 DEF Chain, was, is, b

\* One more step keeps an event well.
LEMMA UpcastKeeps ==
    ASSUME NEW s, IsPath(s.path), NEW i \in 1..Len(s.path), NEW e, NEW x, NEW y, NEW v,
           NEW old, NEW new, old \subseteq new, UpcastWell(x, y, v, s, e)
    PROVE  UpcastWell(Upcast(old, x, s.path[i]), Upcast(new, y, s.path[i]), NextVersion(s, v, i), s, e)
<1> DEFINE step == s.path[i]
<1>0. step \in Int \X Int /\ DOMAIN s.path = 1..Len(s.path)
    BY DEF IsPath
<1>1. CASE ~ x.ok
    BY <1>1 DEF Upcast, UpcastWell
<1>2. CASE x.ok /\ step[1] # x.version
    BY <1>2 DEF Upcast, UpcastWell, NextVersion
<1>3. CASE x.ok /\ step[1] = x.version /\ <<x.type, step[1]>> \notin old
    BY <1>3 DEF Upcast, UpcastWell, Resolved, IsResolved
<1>4. CASE x.ok /\ step[1] = x.version /\ <<x.type, step[1]>> \in old
    <2> DEFINE z == [ok |-> TRUE, type |-> x.type, version |-> step[2], payload |-> Append(x.payload, step[1])]
    <2>1. Upcast(old, x, step) = z
        BY <1>4 DEF Upcast
    <2>2. Upcast(new, y, step) = z
        BY <1>4 DEF Upcast, UpcastWell
    <2>3. e.payload = <<>> => z.payload \in Seq(Int) /\ Chain(s.path, e.version, z.payload, z.version)
        <3> SUFFICES ASSUME e.payload = <<>> PROVE z.payload \in Seq(Int) /\ Chain(s.path, e.version, z.payload, z.version)
            OBVIOUS
        <3>1. x.payload \in Seq(Int) /\ Chain(s.path, e.version, x.payload, x.version)
            BY <1>4 DEF UpcastWell
        <3>2. Chain(s.path, e.version, Append(x.payload, x.version), step[2])
            BY <1>4, <3>1, ChainGoesOn
        <3>3. Append(x.payload, step[1]) \in Seq(Int)
            BY <1>0, <3>1
        <3> QED BY <1>4, <3>2, <3>3
    <2>4. ~ Overshoots(s) => NextVersion(s, v, i) = step[2]
        BY <1>0, <1>4 DEF Overshoots, NextVersion, UpcastWell
    <2> QED BY <1>4, <2>1, <2>2, <2>3, <2>4 DEF UpcastWell, IsResolved
<1> QED BY <1>1, <1>2, <1>3, <1>4

\* After all steps an event is well.
LEMMA UpcastEndsWell ==
    ASSUME NEW s, IsPath(s.path), NEW e, NEW old, NEW new, old \subseteq new
    PROVE  UpcastWell(UpcastAlong(old, s.path, e)[Len(s.path)], UpcastAlong(new, s.path, e)[Len(s.path)],
                      VersionsAlong(s, e.version)[Len(s.path)], s, e)
<1> DEFINE n == Len(s.path)
           x == UpcastAlong(old, s.path, e)
           y == UpcastAlong(new, s.path, e)
           v == VersionsAlong(s, e.version)
           Bad == {i \in 0..n : ~ UpcastWell(x[i], y[i], v[i], s, e)}
<1>0. Bad \subseteq Nat /\ n \in 0..n /\ n \in Nat
    BY DEF IsPath
<1>1. /\ x[0] = Resolved(e, TRUE) /\ \A i \in 1..n : x[i] = Upcast(old, x[i - 1], s.path[i])
      /\ y[0] = Resolved(e, TRUE) /\ \A i \in 1..n : y[i] = Upcast(new, y[i - 1], s.path[i])
      /\ v[0] = e.version /\ \A i \in 1..n : v[i] = NextVersion(s, v[i - 1], i)
    <2>1. UpcastLaw(x, old, s.path, e) /\ UpcastLaw(y, new, s.path, e)
        BY UpcastAlongIs
    <2>2. v[0] = e.version /\ \A i \in 1..n : v[i] = NextVersion(s, v[i - 1], i)
        BY VersionsAlongIs
    <2> QED BY <2>1, <2>2 DEF UpcastLaw
<1> HIDE DEF x, y, v
<1>2. ASSUME Bad # {} PROVE FALSE
    <2>1. PICK i \in Bad : \A j \in Bad : i <= j
        BY <1>0, <1>2, LeastNatural
    <2>2. UpcastWell(x[0], y[0], v[0], s, e)
        <3>1. e.payload = <<>> => Chain(s.path, e.version, e.payload, e.version) /\ e.payload \in Seq(Int)
            <4>1. IsSequence(<<>>) /\ Len(<<>>) = 0 /\ DOMAIN <<>> = {}
                BY DEF IsSequence
            <4>2. Append(<<>>, e.version)[0 + 1] = e.version
                BY <4>1, AppendSequence
            <4> QED BY <4>1, <4>2 DEF Chain
        <3> QED BY <1>1, <3>1 DEF UpcastWell, Resolved, IsResolved
    <2>3. i # 0
        BY <2>2
    <2>4. i - 1 \in 0..n /\ i - 1 \notin Bad /\ i \in 1..n
        BY <1>0, <2>1, <2>3
    <2>5. UpcastWell(x[i - 1], y[i - 1], v[i - 1], s, e)
        BY <2>4
    <2>6. UpcastWell(Upcast(old, x[i - 1], s.path[i]), Upcast(new, y[i - 1], s.path[i]),
                     NextVersion(s, v[i - 1], i), s, e)
        BY <2>4, <2>5, UpcastKeeps
    <2> QED BY <1>1, <2>4, <2>6
<1>3. UpcastWell(x[n], y[n], v[n], s, e)
    BY <1>0, <1>2
<1> QED BY <1>3 DEF x, y, v

GoodPolicy(policy) == \A type \in DOMAIN policy : IsPath(policy[type].path)

ResolvesWell(old, new, policy, e) ==
    LET x == ResolveWith(old, policy, e)
        s == SchemaOf(policy, e.type)
    IN  /\ ResolveWith(new, policy, e) = x
        /\ x.type = e.type
        /\ e.payload = <<>> => Chain(s.path, e.version, x.payload, x.version)
        /\ ~ Overshoots(s) => IsCurrentVersion(policy, x) /\ ResolveWith(new, policy, x) = x

\* An event that is resolved keeps its type, has come to its version by steps and
\* to the canonical one if none starts there; it would be resolved the same with
\* more upcasters, and is resolved already.
LEMMA ResolveIs ==
    ASSUME NEW policy, GoodPolicy(policy), NEW e, NEW old, NEW new, old \subseteq new, ResolveWith(old, policy, e).ok
    PROVE  ResolvesWell(old, new, policy, e)
<1> DEFINE x == ResolveWith(old, policy, e)
           s == SchemaOf(policy, e.type)
           n == Len(s.path)
<1>0. IsPath(s.path)
    BY DEF GoodPolicy, SchemaOf, IsPath
<1>1. ASSUME IsCurrentVersion(policy, x), IsResolved(x), x.ok = TRUE PROVE ResolveWith(new, policy, x) = x
    <2>1. ResolveWith(new, policy, x) = Resolved(x, TRUE)
        BY <1>1 DEF ResolveWith
    <2> HIDE DEF x
    <2> QED BY <1>1, <2>1 DEF Resolved, IsResolved
<1>2. CASE IsCurrentVersion(policy, e)
    <2>1. x = Resolved(e, TRUE) /\ ResolveWith(new, policy, e) = Resolved(e, TRUE)
        BY <1>2 DEF ResolveWith
    <2>2. IsResolved(x) /\ x.ok = TRUE /\ x.type = e.type /\ x.version = e.version /\ x.payload = e.payload
        BY <2>1 DEF Resolved, IsResolved
    <2>3. IsCurrentVersion(policy, x)
        BY <1>2, <2>2 DEF IsCurrentVersion
    <2>4. e.payload = <<>> => Chain(s.path, e.version, e.payload, e.version)
        <4>1. IsSequence(<<>>) /\ Len(<<>>) = 0 /\ DOMAIN <<>> = {}
            BY DEF IsSequence
        <4>2. Append(<<>>, e.version)[0 + 1] = e.version
            BY <4>1, AppendSequence
        <4> QED BY <4>1, <4>2 DEF Chain
    <2> QED BY <1>1, <2>1, <2>2, <2>3, <2>4 DEF ResolvesWell
<1>3. CASE ~ IsCurrentVersion(policy, e)
    <2>1. CanResolve(policy, e)
        BY <1>3 DEF ResolveWith, Resolved
    <2> DEFINE y == ResolveWith(new, policy, e)
               v == VersionsAlong(s, e.version)[n]
    <2>2. x = UpcastAlong(old, s.path, e)[n] /\ y = UpcastAlong(new, s.path, e)[n]
        BY <1>3, <2>1 DEF ResolveWith
    <2>3. v = s.latest
        BY <2>1 DEF CanResolve
    <2>4. UpcastWell(x, y, v, s, e)
        BY <1>0, <2>2, UpcastEndsWell
    <2> HIDE DEF x, y, v, s
    <2>5. x.ok
        BY DEF x
    <2>6. IsResolved(x) /\ x.ok = TRUE /\ x.type = e.type /\ y = x
          /\ (e.payload = <<>> => Chain(s.path, e.version, x.payload, x.version))
          /\ (~ Overshoots(s) => x.version = s.latest)
        BY <2>3, <2>4, <2>5 DEF UpcastWell
    <2>7. ~ Overshoots(s) => IsCurrentVersion(policy, x)
        BY <2>6 DEF IsCurrentVersion, s
    <2> QED BY <1>1, <2>6, <2>7 DEF x, y, s, ResolvesWell
<1> QED BY <1>2, <1>3

-----------------------------------------------------------------------------
(* Replay under a policy: the inductive invariant *)

\* a replay that has succeeded gives what its policy makes of the first events
ReplayOf(r) ==
    /\ r.max \in Nat
    /\ r.length \in 0..Len(ledger)
    /\ GoodPolicy(r.policy)
    /\ r.ok => /\ r.max # 0
               /\ r.events = [k \in 1..Bounded(r.max, r.length) |-> Resolve(r.policy, ledger[k])]
               /\ \A k \in 1..Bounded(r.max, r.length) : Resolve(r.policy, ledger[k]).ok

SchemaInv ==
    /\ ledger \in Seq(SchemaEvents)
    /\ IsSequence(replays)
    /\ \A i \in 1..Len(replays) : ReplayOf(replays[i])
    /\ ReplayReproducible

\* A bound within two natural numbers is one.
LEMMA BoundedIs ==
    ASSUME NEW max \in Nat, NEW n \in Nat
    PROVE  Bounded(max, n) \in 0..n /\ (max <= n => Bounded(max, n) = max)
BY DEF Bounded

\* A replay stays true when events are appended and upcasters are registered.
LEMMA ReplayStays ==
    ASSUME Len(ledger) \in Nat, Len(ledger') \in Nat, Len(ledger) <= Len(ledger'), registered \subseteq registered',
           \A k \in 1..Len(ledger) : ledger'[k] = ledger[k], NEW r, ReplayOf(r)
    PROVE  ReplayOf(r)'
<1> DEFINE n == Bounded(r.max, r.length)
<1>1. r.max \in Nat /\ r.length \in 0..Len(ledger) /\ r.length \in 0..Len(ledger') /\ GoodPolicy(r.policy)
      /\ r.length \in Nat
    BY DEF ReplayOf
<1>2. n \in 0..r.length
    BY <1>1, BoundedIs
<1>3. ASSUME r.ok, NEW k \in 1..n
      PROVE  Resolve(r.policy, ledger[k])' = Resolve(r.policy, ledger[k])
    <2>1. ledger'[k] = ledger[k]
        BY <1>1, <1>2
    <2>2. ResolveWith(registered, r.policy, ledger[k]).ok
        BY <1>3 DEF ReplayOf, Resolve
    <2>3. ResolveWith(registered', r.policy, ledger[k]) = ResolveWith(registered, r.policy, ledger[k])
        <3>1. ResolvesWell(registered, registered', r.policy, ledger[k])
            BY <1>1, <2>2, ResolveIs
        <3> QED BY <3>1 DEF ResolvesWell
    <2> QED BY <2>1, <2>3 DEF Resolve
<1> HIDE DEF n
<1>4. r.ok => /\ r.max # 0
              /\ r.events = [k \in 1..n |-> Resolve(r.policy, ledger[k])]
              /\ \A k \in 1..n : Resolve(r.policy, ledger[k]).ok
    BY DEF ReplayOf, n
<1>5. r.ok => /\ r.events = [k \in 1..n |-> Resolve(r.policy, ledger[k])']
              /\ \A k \in 1..n : Resolve(r.policy, ledger[k])'.ok
    BY <1>3, <1>4
<1> QED BY <1>1, <1>4, <1>5 DEF ReplayOf, n

\* The invariant holds at first.
LEMMA SchemaStarts == SInit => SchemaInv
<1> SUFFICES ASSUME SInit PROVE SchemaInv
    OBVIOUS
<1>1. ledger = <<>> /\ replays = <<>>
    BY DEF SInit
<1>2. IsSequence(<<>>) /\ Len(<<>>) = 0 /\ DOMAIN <<>> = {}
    BY DEF IsSequence
<1> QED BY <1>1, <1>2 DEF SchemaInv, ReplayReproducible

\* A later replay with the policy and the bound of an earlier one that succeeded
\* within the ledger gives the same.
LEMMA ReplayAgain ==
    ASSUME Len(ledger) \in Nat, NEW a, ReplayOf(a), a.ok, a.max <= a.length
    PROVE  LET events == Process(a.policy, a.max)
           IN  events = a.events /\ \A k \in DOMAIN events : events[k].ok
<1> DEFINE n == Bounded(a.max, a.length)
           m == Bounded(a.max, Len(ledger))
<1>1. a.max \in Nat /\ a.length \in 0..Len(ledger) /\ a.length \in Nat /\ a.max <= Len(ledger)
    BY DEF ReplayOf
<1>2. n = a.max /\ m = a.max
    BY <1>1, BoundedIs
<1> HIDE DEF n, m
<1>3. a.events = [k \in 1..n |-> Resolve(a.policy, ledger[k])] /\ \A k \in 1..n : Resolve(a.policy, ledger[k]).ok
    BY DEF ReplayOf, n
<1>4. Process(a.policy, a.max) = [k \in 1..m |-> Resolve(a.policy, ledger[k])]
    BY DEF Process, m
<1> QED BY <1>2, <1>3, <1>4

\* a replay returns if each of its events can be resolved
Made(b) == b.events = Process(b.policy, b.max) /\ (b.ok <=> \A k \in DOMAIN b.events : b.events[k].ok)

\* A replay that is made, or that fails before it is, keeps the invariant.
LEMMA ReplayKeeps ==
    ASSUME SchemaInv, NEW b, ReplayOf(b), b.ok \in BOOLEAN,
           b.max = 0 \/ Made(b),
           replays' = Append(replays, b), ledger' = ledger, registered' = registered
    PROVE  SchemaInv'
<1>0. ledger \in Seq(SchemaEvents) /\ Len(ledger) \in Nat /\ IsSequence(replays) /\ Len(replays) \in Nat
      /\ \A i \in 1..Len(replays) : ReplayOf(replays[i])
    BY DEF SchemaInv, IsSequence
<1>1. IsSequence(replays') /\ Len(replays') = Len(replays) + 1 /\ replays'[Len(replays) + 1] = b
      /\ \A i \in 1..Len(replays) : replays'[i] = replays[i]
    BY <1>0, AppendSequence
<1>2. \A q : ReplayOf(q) => ReplayOf(q)'
    BY DEF ReplayOf, Resolve
<1>3. \A i \in 1..Len(replays') : ReplayOf(replays'[i])
    BY <1>0, <1>1
<1>4. (\A i \in 1..Len(replays) : ReplayOf(replays[i]))'
    BY <1>2, <1>3
<1>5. DOMAIN replays = 1..Len(replays) /\ DOMAIN replays' = 1..Len(replays')
    BY <1>0, <1>1 DEF IsSequence
<1>6. ASSUME NEW i \in 1..Len(replays'), NEW j \in 1..Len(replays'), i < j,
             replays'[i].policy = replays'[j].policy, replays'[i].max = replays'[j].max,
             replays'[i].max <= replays'[i].length, replays'[i].ok
      PROVE  replays'[j].ok /\ replays'[i].events = replays'[j].events
    <2>1. i \in 1..Len(replays) /\ replays'[i] = replays[i]
        BY <1>0, <1>1, <1>6
    <2>2. CASE j \in 1..Len(replays)
        BY <1>1, <1>5, <1>6, <2>1, <2>2 DEF SchemaInv, ReplayReproducible
    <2>3. CASE j = Len(replays) + 1
        <3> DEFINE a == replays[i]
        <3>1. ReplayOf(a) /\ a.ok /\ a.max <= a.length /\ a.policy = b.policy /\ a.max = b.max
            BY <1>0, <1>1, <1>6, <2>1, <2>3
        <3> HIDE DEF a
        <3>2. Process(a.policy, a.max) = a.events /\ \A k \in DOMAIN a.events : a.events[k].ok
            BY <1>0, <3>1, ReplayAgain
        <3>3. b.max # 0
            BY <3>1 DEF ReplayOf
        <3>4. b.events = a.events /\ b.ok
            BY <3>1, <3>2, <3>3 DEF Made
        <3> QED BY <1>1, <2>1, <2>3, <3>4 DEF a
    <2> QED BY <1>0, <1>1, <2>2, <2>3
<1>7. ReplayReproducible'
    BY <1>5, <1>6 DEF ReplayReproducible
<1> QED BY <1>0, <1>1, <1>4, <1>7 DEF SchemaInv

\* A replay that is made is what its policy makes of the ledger.
LEMMA PipelineKeeps ==
    ASSUME SchemaInv, NEW request, GoodPolicy(request.policy), request.max \in Nat \ {0}, RunPipeline(request)
    PROVE  SchemaInv'
<1> DEFINE events == Process(request.policy, request.max)
           ok == \A k \in DOMAIN events : events[k].ok
           b == [policy |-> request.policy, mode |-> request.mode, max |-> request.max, ok |-> ok,
                 events |-> events, length |-> Len(ledger)]
           n == Bounded(request.max, Len(ledger))
<1>1. replays' = Append(replays, b) /\ ledger' = ledger /\ registered' = registered
    BY DEF RunPipeline
<1>2. Len(ledger) \in Nat
    BY DEF SchemaInv
<1>3. events = [k \in 1..n |-> Resolve(request.policy, ledger[k])]
    BY DEF Process
<1>4. ok \in BOOLEAN /\ (ok => \A k \in 1..n : Resolve(request.policy, ledger[k]).ok)
    BY <1>3
<1> HIDE DEF events, ok
<1>5. b.policy = request.policy /\ b.max = request.max /\ b.ok = ok /\ b.events = events /\ b.length = Len(ledger)
    OBVIOUS
<1> HIDE DEF b
<1>6. ReplayOf(b)
    BY <1>2, <1>3, <1>4, <1>5 DEF ReplayOf, n
<1>7. Made(b)
    BY <1>5 DEF Made, events, ok
<1>8. b.ok \in BOOLEAN
    BY <1>4, <1>5
<1> QED BY <1>1, <1>6, <1>7, <1>8, ReplayKeeps

\* Every step keeps the invariant.
LEMMA SchemaStep ==
    ASSUME SchemaInv, [SNext]_schemaVars
    PROVE  SchemaInv'
<1>0. ledger \in Seq(SchemaEvents) /\ Len(ledger) \in Nat /\ IsSequence(replays)
      /\ \A i \in 1..Len(replays) : ReplayOf(replays[i])
    BY DEF SchemaInv
<1>1. ASSUME ledger' \in Seq(SchemaEvents), Len(ledger) <= Len(ledger'), registered \subseteq registered',
             \A k \in 1..Len(ledger) : ledger'[k] = ledger[k], replays' = replays
      PROVE  SchemaInv'
    <2>1. \A q : ReplayOf(q) => ReplayOf(q)'
        BY <1>0, <1>1, ReplayStays
    <2>2. ReplayReproducible'
        BY <1>1 DEF SchemaInv, ReplayReproducible
    <2> QED BY <1>0, <1>1, <2>1, <2>2 DEF SchemaInv, IsSequence
<1>2. ASSUME NEW e \in SchemaEvents, AppendToLedger(e) PROVE SchemaInv'
    <2>1. ledger' \in Seq(SchemaEvents) /\ Len(ledger) <= Len(ledger')
          /\ (\A k \in 1..Len(ledger) : ledger'[k] = ledger[k]) /\ registered' = registered /\ replays' = replays
        BY <1>0, <1>2 DEF AppendToLedger
    <2> QED BY <1>1, <2>1
<1>3. ASSUME NEW type, NEW version, RegisterUpcaster(type, version) PROVE SchemaInv'
    <2>1. ledger' = ledger /\ registered \subseteq registered' /\ replays' = replays
        BY <1>3 DEF RegisterUpcaster
    <2> QED BY <1>0, <1>1, <2>1
<1>4. ASSUME NEW mode \in Modes, NEW sequence \in 1..Len(ledger), RunPipeline(Request(mode, sequence))
      PROVE  SchemaInv'
    <2>1. GoodPolicy(Request(mode, sequence).policy)
        BY DEF Request, CompilePolicy, GoodPolicy, IsPath
    <2>2. Request(mode, sequence).max \in Nat \ {0}
        BY <1>0, SchemaAssumption DEF Request, Unlimited
    <2> QED BY <1>4, <2>1, <2>2, PipelineKeeps
<1>5. ASSUME GovernanceFails PROVE SchemaInv'
    <2> DEFINE b == [policy |-> <<>>, mode |-> "failed", max |-> 0, ok |-> FALSE, events |-> <<>>, length |-> Len(ledger)]
    <2>1. replays' = Append(replays, b) /\ ledger' = ledger /\ registered' = registered
        BY <1>5 DEF GovernanceFails
    <2>2. ReplayOf(b) /\ b.ok \in BOOLEAN /\ b.max = 0
        BY <1>0 DEF ReplayOf, GoodPolicy
    <2> HIDE DEF b
    <2> QED BY <2>1, <2>2, ReplayKeeps
<1>6. ASSUME NEW policy \in HandWritten,
             RunPipeline([policy |-> policy, mode |-> "by hand", max |-> Unlimited])
      PROVE  SchemaInv'
    <2> DEFINE q == [policy |-> policy, mode |-> "by hand", max |-> Unlimited]
    <2>1. GoodPolicy(q.policy) /\ q.max \in Nat \ {0}
        BY SchemaAssumption DEF GoodPolicy, IsPath, Unlimited
    <2>2. RunPipeline(q)
        BY <1>6
    <2> HIDE DEF q
    <2> QED BY <2>1, <2>2, PipelineKeeps
<1>7. CASE UNCHANGED schemaVars
    <2>1. ledger' = ledger /\ registered' = registered /\ replays' = replays
        BY <1>7 DEF schemaVars
    <2> QED BY <1>0, <1>1, <2>1
<1> QED BY <1>2, <1>3, <1>4, <1>5, <1>6, <1>7 DEF SNext

\* Of replay under governance, for every ledger, policy and set of upcasters: the
\* last decision about a target is in force, a replay that returns gives
\* canonical events that its path has led to, and one like it gives the same.
THEOREM SchemaSoundHolds == SchemaSpec => []SchemaSound
<1>1. SchemaInv => SchemaSound
    <2> SUFFICES ASSUME SchemaInv PROVE SchemaSound
        OBVIOUS
    <2>1. Len(ledger) \in Nat /\ DOMAIN ledger = 1..Len(ledger) /\ DOMAIN replays = 1..Len(replays)
        BY DEF SchemaInv, IsSequence
    <2>2. GovernanceExact
        BY <2>1, GovernanceIsExact
    <2>3. ASSUME NEW i \in DOMAIN replays, replays[i].ok
          PROVE  LET r == replays[i]
                 IN  /\ Len(r.events) = Bounded(r.max, r.length)
                     /\ \A k \in DOMAIN r.events :
                            /\ r.events[k].type = ledger[k].type
                            /\ ledger[k].payload = <<>> =>
                                   Chain(SchemaOf(r.policy, r.events[k].type).path, ledger[k].version,
                                         r.events[k].payload, r.events[k].version)
                            /\ ~ Overshoots(SchemaOf(r.policy, r.events[k].type)) =>
                                   IsCurrentVersion(r.policy, r.events[k])
                                   /\ Resolve(r.policy, r.events[k]) = r.events[k]
        <3> DEFINE r == replays[i]
                   n == Bounded(r.max, r.length)
        <3>1. ReplayOf(r) /\ r.ok
            BY <2>1, <2>3 DEF SchemaInv
        <3> HIDE DEF r
        <3>2. r.max \in Nat /\ r.length \in Nat /\ GoodPolicy(r.policy)
            BY <2>1, <3>1 DEF ReplayOf
        <3>3. n \in Nat
            BY <3>2, BoundedIs
        <3>4. r.events = [k \in 1..n |-> Resolve(r.policy, ledger[k])]
              /\ \A k \in 1..n : Resolve(r.policy, ledger[k]).ok
            BY <3>1 DEF ReplayOf
        <3> HIDE DEF n
        <3>5. Len(r.events) = n /\ DOMAIN r.events = 1..n
            BY <3>3, <3>4
        <3>6. ASSUME NEW k \in 1..n
              PROVE  LET e == ledger[k]
                         x == r.events[k]
                     IN  /\ x.type = e.type
                         /\ e.payload = <<>> => Chain(SchemaOf(r.policy, e.type).path, e.version, x.payload, x.version)
                         /\ ~ Overshoots(SchemaOf(r.policy, e.type)) =>
                                IsCurrentVersion(r.policy, x) /\ Resolve(r.policy, x) = x
            <4>1. r.events[k] = ResolveWith(registered, r.policy, ledger[k])
                  /\ ResolveWith(registered, r.policy, ledger[k]).ok
                BY <3>4, <3>6 DEF Resolve
            <4>2. ResolvesWell(registered, registered, r.policy, ledger[k])
                BY <3>2, <4>1, ResolveIs
            <4> QED BY <4>1, <4>2 DEF Resolve, ResolvesWell
        <3> QED BY <3>5, <3>6 DEF r, n
    <2>4. ReplayIsCanonical
        BY <2>3 DEF ReplayIsCanonical
    <2> QED BY <2>2, <2>4 DEF SchemaInv, SchemaSound
<1> QED BY <1>1, SchemaStarts, SchemaStep, PTL DEF SchemaSpec

-----------------------------------------------------------------------------
(* Reasoning: what the projects hold *)

\* the objects are from the menu, each id once, and the queues are finite
HeldInv ==
    /\ active \in Seq(KnowledgeMenu)
    /\ \A i, j \in DOMAIN active : active[i].id = active[j].id => i = j
    /\ IsFiniteSet(conflicts)

\* What the projects hold stays so with every object, support and conflict.
LEMMA HeldStep ==
    ASSUME HeldInv, [ReasonNext]_reasoningVars
    PROVE  HeldInv'
<1>1. ASSUME NEW k \in KnowledgeMenu, Learn(k) PROVE HeldInv'
    <2>1. active' = Append(active, k) /\ conflicts' = conflicts /\ \A i \in DOMAIN active : active[i].id # k.id
        BY <1>1 DEF Learn
    <2>2. active \in Seq(KnowledgeMenu) /\ Len(active) \in Nat /\ DOMAIN active = 1..Len(active)
        BY DEF HeldInv
    <2>3. active' \in Seq(KnowledgeMenu) /\ DOMAIN active' = 1..(Len(active) + 1)
        BY <2>1, <2>2
    <2>4. (\A i \in 1..Len(active) : active'[i] = active[i]) /\ active'[Len(active) + 1] = k
        BY <2>1, <2>2
    <2>5. \A i, j \in DOMAIN active' : active'[i].id = active'[j].id => i = j
        BY <2>1, <2>2, <2>3, <2>4 DEF HeldInv
    <2> QED BY <2>1, <2>3, <2>5 DEF HeldInv
<1>2. ASSUME NEW edge \in SupportMenu, Connect(edge) PROVE HeldInv'
    BY <1>2 DEF Connect, HeldInv
<1>3. ASSUME NEW pair \in ConflictMenu, Queue(pair) PROVE HeldInv'
    <2>1. IsFiniteSet(conflicts \cup {pair})
        BY FS_AddElement DEF HeldInv
    <2> QED BY <1>3, <2>1 DEF Queue, HeldInv
<1>4. CASE UNCHANGED reasoningVars
    BY <1>4 DEF reasoningVars, HeldInv
<1> QED BY <1>1, <1>2, <1>3, <1>4 DEF ReasonNext

\* What is known of an object.
LEMMA PremiseIs ==
    ASSUME ReasoningAssumption, HeldInv, NEW i \in DOMAIN active
    PROVE  /\ active[i].id \in Nat /\ active[i].title \in Nat /\ active[i].project \in Nat /\ active[i].age \in Nat
           /\ active[i].confidence \in Int /\ IsFiniteSet(active[i].supporting) /\ IsFiniteSet(active[i].contradicting)
<1>1. active[i] \in KnowledgeMenu
    BY DEF HeldInv
<1> QED BY <1>1 DEF ReasoningAssumption

\* There are finitely many titles, and some but finitely many objects to each.
LEMMA TitlesAre ==
    ASSUME ReasoningAssumption, HeldInv
    PROVE  /\ IsFiniteSet(Titles) /\ Titles \subseteq Nat
           /\ \A t \in Titles : /\ WithTitle(t) \subseteq DOMAIN active /\ WithTitle(t) # {} /\ IsFiniteSet(WithTitle(t))
                                /\ Cardinality(WithTitle(t)) \in Nat \ {0}
<1>1. Len(active) \in Nat /\ DOMAIN active = 1..Len(active)
    BY DEF HeldInv
<1>2. IsFiniteSet(DOMAIN active)
    BY <1>1, FS_Interval
<1>3. IsFiniteSet(Titles)
    <2> DEFINE f == [i \in DOMAIN active |-> active[i].title]
    <2>1. f \in Surjection(DOMAIN active, Titles)
        BY DEF Surjection, Titles
    <2> QED BY <1>2, <2>1, FS_Surjection
<1>4. Titles \subseteq Nat
    BY PremiseIs DEF Titles
<1>5. ASSUME NEW t \in Titles
      PROVE  /\ WithTitle(t) \subseteq DOMAIN active /\ WithTitle(t) # {} /\ IsFiniteSet(WithTitle(t)) /\ Cardinality(WithTitle(t)) \in Nat \ {0}
    <2>1. WithTitle(t) \subseteq DOMAIN active /\ WithTitle(t) # {}
        BY DEF WithTitle, Titles
    <2>2. IsFiniteSet(WithTitle(t))
        BY <1>2, <2>1, FS_Subset
    <2> QED BY <2>1, <2>2, FS_CardinalityType, FS_EmptySet
<1> QED BY <1>3, <1>4, <1>5

\* The first object of a title is one of its objects.
LEMMA FirstOfIs ==
    ASSUME ReasoningAssumption, HeldInv, NEW t \in Titles
    PROVE  FirstOf(t) \in WithTitle(t)
<1> DEFINE O == WithTitle(t)
           projects == {active[i].project : i \in O}
<1>1. O \subseteq DOMAIN active /\ O # {} /\ DOMAIN active \subseteq Nat
    BY TitlesAre DEF HeldInv
<1>2. projects \subseteq Nat /\ projects # {}
    BY <1>1, PremiseIs
<1>3. PICK p \in projects : \A q \in projects : p <= q
    BY <1>2, LeastNatural
<1> DEFINE early == {i \in O : active[i].project = p}
<1>4. early \subseteq Nat /\ early # {}
    BY <1>1, <1>3
<1>5. PICK i \in early : \A j \in early : i <= j
    BY <1>4, LeastNatural
<1>6. \A j \in O : active[j].project \in Nat /\ p <= active[j].project
    BY <1>1, <1>3, PremiseIs
<1>7. p \in Nat
    BY <1>2, <1>3
<1>8. \A j \in O : \/ active[i].project < active[j].project
                   \/ (active[i].project = active[j].project /\ i <= j)
    BY <1>5, <1>6, <1>7
<1>9. i \in O
    BY <1>5
<1> QED BY <1>8, <1>9 DEF FirstOf

\* f is the sum over the first n objects, for n up to m
Summing(f, m, title) ==
    f = [n \in 0..m |-> IF n = 0 THEN 0
                        ELSE f[n - 1] + (IF active[n].title = title THEN active[n].confidence ELSE 0)]

\* The confidences of a title add up to a number.
LEMMA SumsAreIntegers ==
    ASSUME ReasoningAssumption, HeldInv, NEW title
    PROVE  ConfidenceSums(title)[Len(active)] \in Int
<1> DEFINE N == Len(active)
           Bad == {k \in 0..N : ~\E f : Summing(f, k, title)}
<1>0. N \in Nat /\ DOMAIN active = 1..N
    BY DEF HeldInv
<1>1. ASSUME Bad # {} PROVE FALSE
    <2>1. Bad \subseteq Nat
        BY <1>0
    <2>2. PICK k \in Bad : \A j \in Bad : k <= j
        BY <1>1, <2>1, LeastNatural
    <2>3. CASE k = 0
        <3>1. Summing([n \in 0..0 |-> 0], 0, title)
            BY DEF Summing
        <3> QED BY <2>3, <3>1
    <2>4. CASE k # 0
        <3>1. k - 1 \in 0..N /\ k - 1 \notin Bad
            BY <1>0, <2>2, <2>4
        <3>2. PICK g : Summing(g, k - 1, title)
            BY <3>1
        <3> DEFINE more(n) == IF active[n].title = title THEN active[n].confidence ELSE 0
                   f == [n \in 0..k |-> IF n = k THEN g[k - 1] + more(k) ELSE g[n]]
        <3>3. \A n \in 0..(k - 1) : g[n] = IF n = 0 THEN 0 ELSE g[n - 1] + more(n)
            BY <3>2 DEF Summing
        <3>4. k \in Nat
            BY <1>0, <2>1
        <3> HIDE DEF more
        <3>5. \A n \in 0..k : f[n] = IF n = 0 THEN 0 ELSE f[n - 1] + more(n)
            BY <2>4, <3>3, <3>4
        <3>6. f = [n \in 0..k |-> IF n = 0 THEN 0 ELSE f[n - 1] + more(n)]
            BY <3>5
        <3>7. Summing(f, k, title)
            BY <3>6 DEF Summing, more
        <3> QED BY <3>7
    <2> QED BY <2>3, <2>4
<1>2. \E f : Summing(f, N, title)
    BY <1>0, <1>1
<1> DEFINE sum == ConfidenceSums(title)
<1>3. Summing(sum, N, title)
    BY <1>2 DEF ConfidenceSums, Summing
<1> HIDE DEF sum
<1>4. sum[0] = 0 /\ \A n \in 1..N : sum[n] = sum[n - 1] + (IF active[n].title = title THEN active[n].confidence ELSE 0)
    BY <1>0, <1>3 DEF Summing
<1>5. \A n \in 1..N : active[n].confidence \in Int
    BY <1>0, PremiseIs
<1> DEFINE Off == {k \in 0..N : sum[k] \notin Int}
<1>6. ASSUME Off # {} PROVE FALSE
    <2>1. Off \subseteq Nat
        BY <1>0
    <2>2. PICK k \in Off : \A j \in Off : k <= j
        BY <1>6, <2>1, LeastNatural
    <2>3. k \in 1..N /\ k - 1 \in 0..N /\ k - 1 \notin Off
        BY <1>0, <1>4, <2>2
    <2> QED BY <1>4, <1>5, <2>2, <2>3
<1> QED BY <1>0, <1>6 DEF sum

\* What is gathered about a title: numbers, finitely much evidence, and the id of
\* an object that has the title.
LEMMA BundleIs ==
    ASSUME ReasoningAssumption, HeldInv, NEW t \in Titles
    PROVE  /\ Bundle(t).title = t
           /\ \E i \in WithTitle(t) : Bundle(t).concept = active[i].id
           /\ Bundle(t).supporting \subseteq UNION {active[i].supporting : i \in DOMAIN active}
           /\ Cardinality(Bundle(t).supporting) \in Nat /\ Cardinality(Bundle(t).contradicting) \in Nat
           /\ Bundle(t).freshness \in Nat /\ Bundle(t).diversity \in Nat
           /\ Bundle(t).base \in Int /\ Bundle(t).findings \in Nat
<1> DEFINE O == WithTitle(t)
           supporting == UNION {active[i].supporting : i \in O}
           contradicting == UNION {active[i].contradicting : i \in O}
           ages == {active[i].age : i \in O}
           projects == {active[i].project : i \in O}
<1>1. O \subseteq DOMAIN active /\ O # {} /\ IsFiniteSet(O) /\ Cardinality(O) \in Nat \ {0}
    BY TitlesAre
<1>2. IsFiniteSet(supporting)
    <2> DEFINE f == [i \in O |-> active[i].supporting]
               T == {active[i].supporting : i \in O}
    <2>1. f \in Surjection(O, T)
        BY DEF Surjection
    <2>2. IsFiniteSet(T)
        BY <1>1, <2>1, FS_Surjection
    <2>3. \A s \in T : IsFiniteSet(s)
        BY <1>1, PremiseIs
    <2> QED BY <2>2, <2>3, FS_UNION
<1>3. IsFiniteSet(contradicting)
    <2> DEFINE f == [i \in O |-> active[i].contradicting]
               T == {active[i].contradicting : i \in O}
    <2>1. f \in Surjection(O, T)
        BY DEF Surjection
    <2>2. IsFiniteSet(T)
        BY <1>1, <2>1, FS_Surjection
    <2>3. \A s \in T : IsFiniteSet(s)
        BY <1>1, PremiseIs
    <2> QED BY <2>2, <2>3, FS_UNION
<1>4. Min(ages) \in Nat
    <2>1. ages \subseteq Nat /\ ages # {}
        BY <1>1, PremiseIs
    <2>2. \E x \in ages : \A y \in ages : x <= y
        BY <2>1, LeastNatural
    <2>3. Min(ages) \in ages
        BY <2>2 DEF Min
    <2> QED BY <2>1, <2>3
<1>5. IsFiniteSet(projects)
    <2> DEFINE f == [i \in O |-> active[i].project]
    <2>1. f \in Surjection(O, projects)
        BY DEF Surjection
    <2> QED BY <1>1, <2>1, FS_Surjection
<1>6. ConfidenceSums(t)[Len(active)] \div Cardinality(O) \in Int
    <2>1. ConfidenceSums(t)[Len(active)] \in Int
        BY SumsAreIntegers
    <2> QED BY <1>1, <2>1
<1>7. Findings(t) \in Nat
    <2> DEFINE left == {c \in conflicts : c[1] = t}
               right == {c \in conflicts : c[2] = t}
    <2>1. IsFiniteSet(left) /\ IsFiniteSet(right)
        BY FS_Subset DEF HeldInv
    <2>2. Cardinality(left) \in Nat /\ Cardinality(right) \in Nat
        BY <2>1, FS_CardinalityType
    <2> QED BY <2>2 DEF Findings
<1>8. Cardinality(supporting) \in Nat /\ Cardinality(contradicting) \in Nat /\ Cardinality(projects) \in Nat
    BY <1>2, <1>3, <1>5, FS_CardinalityType
<1>9. supporting \subseteq UNION {active[i].supporting : i \in DOMAIN active}
    BY <1>1
<1>10. FirstOf(t) \in O
    BY FirstOfIs
<1> HIDE DEF supporting, contradicting, ages, projects, O
<1>11. Bundle(t) = [concept |-> active[FirstOf(t)].id, title |-> t, supporting |-> supporting,
                   contradicting |-> contradicting, freshness |-> Min(ages), diversity |-> Cardinality(projects),
                   base |-> ConfidenceSums(t)[Len(active)] \div Cardinality(O), findings |-> Findings(t)]
    BY DEF Bundle, supporting, contradicting, ages, projects, O
<1> QED BY <1>4, <1>6, <1>7, <1>8, <1>9, <1>10, <1>11 DEF O

\* What is believed of a bundle is within its range.
LEMMA BelieveIs ==
    ASSUME NEW b, Cardinality(b.supporting) \in Nat, Cardinality(b.contradicting) \in Nat,
           b.freshness \in Nat, b.diversity \in Nat, b.base \in Int, b.findings \in Nat
    PROVE  Believe(b) \in [title : {b.title}, concept : {b.concept}, supporting : {b.supporting},
                           agreement : 0..One, corroboration : 0..One, staleness : 0..One, local : 0..One,
                           adjustment : {0}]
<1> DEFINE agreement == Capped((b.diversity - 1) * 10000, 20000)
           corroboration == Capped(Cardinality(b.supporting) * 5000, 20000)
           contradiction == Capped((Cardinality(b.contradicting) + b.findings) * 30000, One)
           staleness == Capped(b.freshness * 1000, 50000)
           local == Clamp(b.base + agreement + corroboration - contradiction - staleness)
<1>0. One \in Nat /\ 20000 <= One /\ 50000 <= One
    BY DEF One
<1>1. agreement \in 0..One
    <2>1. agreement \in Int /\ 0 <= agreement /\ agreement <= 20000
        BY DEF Capped
    <2> HIDE DEF agreement
    <2> QED BY <1>0, <2>1
<1>2. corroboration \in 0..One
    <2>1. corroboration \in Int /\ 0 <= corroboration /\ corroboration <= 20000
        BY DEF Capped
    <2> HIDE DEF corroboration
    <2> QED BY <1>0, <2>1
<1>3. contradiction \in Int
    BY <1>0 DEF Capped
<1>4. staleness \in 0..One
    <2>1. staleness \in Int /\ 0 <= staleness /\ staleness <= 50000
        BY DEF Capped
    <2> HIDE DEF staleness
    <2> QED BY <1>0, <2>1
<1>5. local \in 0..One
    <2> HIDE DEF agreement, corroboration, contradiction, staleness
    <2> DEFINE x == b.base + agreement + corroboration - contradiction - staleness
    <2>1. x \in Int
        BY <1>0, <1>1, <1>2, <1>3, <1>4
    <2> HIDE DEF x
    <2>2. Clamp(x) \in 0..One
        BY <1>0, <2>1 DEF Clamp, Capped
    <2> QED BY <2>2 DEF x
<1>6. Believe(b) = [title |-> b.title, concept |-> b.concept, supporting |-> b.supporting,
                    agreement |-> agreement, corroboration |-> corroboration, staleness |-> staleness,
                    local |-> local, adjustment |-> 0]
    BY DEF Believe
<1> HIDE DEF agreement, corroboration, contradiction, staleness, local
<1> QED BY <1>1, <1>2, <1>4, <1>5, <1>6

\* beliefs that are well formed: one to a title
Beliefs(beliefs) == beliefs \in [Titles -> Belief] /\ \A t \in Titles : beliefs[t].title = t

\* Every title has a belief of its own evidence, which nothing has moved yet.
LEMMA LocalBeliefsAre ==
    ASSUME ReasoningAssumption, HeldInv
    PROVE  Beliefs(LocalBeliefs) /\ \A t \in Titles : LocalBeliefs[t].adjustment = 0
<1>1. ASSUME NEW t \in Titles
      PROVE  Believe(Bundle(t)) \in Belief /\ Believe(Bundle(t)).title = t /\ Believe(Bundle(t)).adjustment = 0
    <2> DEFINE b == Bundle(t)
    <2>1. /\ b.title = t
          /\ \E i \in WithTitle(t) : b.concept = active[i].id
          /\ b.supporting \subseteq UNION {active[i].supporting : i \in DOMAIN active}
          /\ Cardinality(b.supporting) \in Nat /\ Cardinality(b.contradicting) \in Nat
          /\ b.freshness \in Nat /\ b.diversity \in Nat /\ b.base \in Int /\ b.findings \in Nat
        BY BundleIs
    <2>2. b.concept \in {active[i].id : i \in DOMAIN active}
        BY <2>1 DEF WithTitle
    <2> HIDE DEF b
    <2>3. Believe(b) \in [title : {b.title}, concept : {b.concept}, supporting : {b.supporting},
                          agreement : 0..One, corroboration : 0..One, staleness : 0..One, local : 0..One,
                          adjustment : {0}]
        BY <2>1, BelieveIs
    <2>4. One \in Nat
        BY DEF One
    <2>5. Believe(b) \in Belief /\ Believe(b).title = t /\ Believe(b).adjustment = 0
        <3> DEFINE x == Believe(b)
        <3> HIDE DEF x
        <3>1. x \in [title : {b.title}, concept : {b.concept}, supporting : {b.supporting},
                     agreement : 0..One, corroboration : 0..One, staleness : 0..One, local : 0..One,
                     adjustment : {0}]
            BY <2>3 DEF x
        <3>2. 0 \in (-One)..0
            BY <2>4
        <3>3. x \in Belief /\ x.title = t /\ x.adjustment = 0
            BY <2>1, <2>2, <3>1, <3>2 DEF Belief
        <3> QED BY <3>3 DEF x
    <2> QED BY <2>5 DEF b
<1> QED BY <1>1 DEF Beliefs, LocalBeliefs

\* What a belief comes to.
LEMMA FinalIs ==
    ASSUME NEW b \in Belief
    PROVE  Final(b) \in 0..One /\ Penalty(b) \in (-One)..0
<1>0. One \in Nat
    BY DEF One
<1>1. b.local \in Int /\ b.adjustment \in Int
    BY <1>0 DEF Belief
<1>2. Final(b) \in Int /\ 0 <= Final(b) /\ Final(b) <= One
    BY <1>0, <1>1 DEF Final, Clamp, Capped
<1>3. Penalty(b) \in Int /\ -One <= Penalty(b) /\ Penalty(b) <= 0
    BY <1>2 DEF Penalty, One
<1> QED BY <1>0, <1>2, <1>3

-----------------------------------------------------------------------------
(* Reasoning: the order of the propagation *)

\* f is the order after each of m turns
Queueing(f, m, beliefs) == f = [n \in 0..m |-> IF n = 0 THEN <<>> ELSE NextInOrder(beliefs, f[n - 1])]

\* The loop over the queue defines the order after each turn.
LEMMA TopoOrdersAre ==
    ASSUME NEW beliefs, Cardinality(DOMAIN beliefs) \in Nat
    PROVE  /\ TopoOrders(beliefs)[0] = <<>>
           /\ \A n \in 1..Cardinality(DOMAIN beliefs) :
                TopoOrders(beliefs)[n] = NextInOrder(beliefs, TopoOrders(beliefs)[n - 1])
<1> DEFINE N == Cardinality(DOMAIN beliefs)
           Bad == {k \in 0..N : ~\E f : Queueing(f, k, beliefs)}
<1>1. ASSUME Bad # {} PROVE FALSE
    <2>1. Bad \subseteq Nat
        OBVIOUS
    <2>2. PICK k \in Bad : \A j \in Bad : k <= j
        BY <1>1, <2>1, LeastNatural
    <2>3. CASE k = 0
        <3>1. Queueing([n \in 0..0 |-> <<>>], 0, beliefs)
            BY DEF Queueing
        <3> QED BY <2>3, <3>1
    <2>4. CASE k # 0
        <3>1. k - 1 \in 0..N /\ k - 1 \notin Bad
            BY <2>2, <2>4
        <3>2. PICK g : Queueing(g, k - 1, beliefs)
            BY <3>1
        <3> DEFINE f == [n \in 0..k |-> IF n = k THEN NextInOrder(beliefs, g[k - 1]) ELSE g[n]]
        <3>3. \A n \in 0..k : f[n] = IF n = 0 THEN <<>> ELSE NextInOrder(beliefs, f[n - 1])
            BY <2>4, <3>2 DEF Queueing
        <3>4. Queueing(f, k, beliefs)
            BY <3>3 DEF Queueing
        <3> QED BY <3>4
    <2> QED BY <2>3, <2>4
<1>2. \E f : Queueing(f, N, beliefs)
    BY <1>1
<1>3. Queueing(TopoOrders(beliefs), N, beliefs)
    BY <1>2 DEF TopoOrders, Queueing
<1> QED BY <1>3 DEF Queueing

\* each title once and after the ones that support it
InSupportOrder(beliefs, order) ==
    /\ order \in Seq(Titles)
    /\ \A i, j \in 1..Len(order) : order[i] = order[j] => i = j
    /\ \A i \in 1..Len(order) : \A s \in Titles :
          Supports(beliefs, s, order[i]) => \E j \in 1..(i - 1) : order[j] = s

\* Of the titles that are ready there is one with the least id.
LEMMA NextIsReady ==
    ASSUME ReasoningAssumption, HeldInv, NEW beliefs, Beliefs(beliefs), NEW ready, ready \subseteq Titles, ready # {}
    PROVE  (CHOOSE t \in ready : \A s \in ready : beliefs[t].concept <= beliefs[s].concept) \in ready
<1> DEFINE concepts == {beliefs[t].concept : t \in ready}
<1>1. \A t \in Titles : beliefs[t].concept \in Nat
    <2> TAKE t \in Titles
    <2>1. beliefs[t].concept \in {active[i].id : i \in DOMAIN active}
        BY DEF Beliefs, Belief
    <2> QED BY <2>1, PremiseIs
<1>2. concepts \subseteq Nat /\ concepts # {}
    BY <1>1
<1>3. PICK c \in concepts : \A d \in concepts : c <= d
    BY <1>2, LeastNatural
<1>4. \E t \in ready : \A s \in ready : beliefs[t].concept <= beliefs[s].concept
    BY <1>3
<1> QED BY <1>4

\* A turn adds a title that is ready, if there is one.
LEMMA NextKeepsOrder ==
    ASSUME ReasoningAssumption, HeldInv, NEW beliefs, Beliefs(beliefs), NEW order, InSupportOrder(beliefs, order)
    PROVE  LET next == NextInOrder(beliefs, order) IN
           /\ InSupportOrder(beliefs, next)
           /\ Ready(beliefs, order) = {} => next = order
           /\ Ready(beliefs, order) # {} => Len(next) = Len(order) + 1
<1> DEFINE ready == Ready(beliefs, order)
           t == CHOOSE t \in ready : \A s \in ready : beliefs[t].concept <= beliefs[s].concept
           next == Append(order, t)
           n == Len(order)
<1>1. CASE ready = {}
    BY <1>1 DEF NextInOrder
<1>2. CASE ready # {}
    <2>0. DOMAIN beliefs = Titles
        BY DEF Beliefs
    <2>1. ready \subseteq Titles
        BY <2>0 DEF Ready
    <2>2. t \in ready
        BY <1>2, <2>1, NextIsReady
    <2>3. NextInOrder(beliefs, order) = next
        BY <1>2 DEF NextInOrder
    <2>4. t \in Titles /\ t \notin ToSet(order) /\ \A s \in Titles : Supports(beliefs, s, t) => s \in ToSet(order)
        BY <2>0, <2>2 DEF Ready
    <2> HIDE DEF t, ready
    <2>5. order \in Seq(Titles) /\ n \in Nat /\ DOMAIN order = 1..n
        BY DEF InSupportOrder
    <2>6. next \in Seq(Titles) /\ Len(next) = n + 1 /\ next[n + 1] = t /\ \A i \in 1..n : next[i] = order[i]
        BY <2>4, <2>5
    <2> HIDE DEF next
    <2>7. \A i \in 1..n : order[i] # t
        BY <2>4, <2>5 DEF ToSet
    <2>8. \A i, j \in 1..(n + 1) : next[i] = next[j] => i = j
        BY <2>5, <2>6, <2>7 DEF InSupportOrder
    <2>9. ASSUME NEW i \in 1..(n + 1), NEW s \in Titles, Supports(beliefs, s, next[i])
          PROVE  \E j \in 1..(i - 1) : next[j] = s
        <3>1. CASE i = n + 1
            <4>1. s \in ToSet(order)
                BY <2>4, <2>6, <2>9, <3>1
            <4>2. PICK j \in 1..n : order[j] = s
                BY <2>5, <4>1 DEF ToSet
            <4> QED BY <2>5, <2>6, <3>1, <4>2
        <3>2. CASE i # n + 1
            <4>1. i \in 1..n
                BY <2>5, <3>2
            <4>2. Supports(beliefs, s, order[i])
                BY <2>6, <2>9, <4>1
            <4>3. PICK j \in 1..(i - 1) : order[j] = s
                BY <4>1, <4>2 DEF InSupportOrder
            <4>4. j \in 1..n
                BY <2>5, <4>1
            <4> QED BY <2>6, <4>3, <4>4
        <3> QED BY <3>1, <3>2
    <2>10. InSupportOrder(beliefs, next)
        BY <2>6, <2>8, <2>9 DEF InSupportOrder
    <2> QED BY <1>2, <2>3, <2>6, <2>10 DEF ready
<1> QED BY <1>1, <1>2

\* A sequence that has none twice and as many as there are has them all.
LEMMA ListsAll ==
    ASSUME NEW S, IsFiniteSet(S), NEW order \in Seq(S), Len(order) = Cardinality(S),
           \A i, j \in 1..Len(order) : order[i] = order[j] => i = j
    PROVE  ToSet(order) = S
<1> DEFINE N == Cardinality(S)
<1>1. N \in Nat
    BY FS_CardinalityType
<1>2. IsFiniteSet(1..N) /\ Cardinality(1..N) = N
    BY <1>1, FS_Interval
<1>3. order \in [1..N -> S] /\ DOMAIN order = 1..N
    OBVIOUS
<1>4. order \in Injection(1..N, S)
    BY <1>3 DEF Injection, IsInjective
<1>5. order \in Surjection(1..N, S)
    BY <1>1, <1>2, <1>4, FS_Injection
<1> QED BY <1>3, <1>5 DEF Surjection, ToSet

\* A sequence that is shorter than a set leaves something out.
LEMMA LeavesOut ==
    ASSUME NEW S, IsFiniteSet(S), NEW order \in Seq(S), Len(order) < Cardinality(S)
    PROVE  S \ ToSet(order) # {}
<1> DEFINE n == Len(order)
<1>1. n \in Nat /\ Cardinality(S) \in Nat /\ DOMAIN order = 1..n /\ n < Cardinality(S)
    BY FS_CardinalityType
<1> HIDE DEF n
<1>2. IsFiniteSet(1..n) /\ Cardinality(1..n) = n
    BY <1>1, FS_Interval
<1>3. order \in Surjection(1..n, ToSet(order))
    BY <1>1 DEF ToSet, Surjection
<1>4. Cardinality(ToSet(order)) <= n
    BY <1>2, <1>3, FS_Surjection
<1>5. ToSet(order) \subseteq S
    BY <1>1 DEF ToSet
<1>6. ToSet(order) # S
    BY <1>1, <1>4
<1> QED BY <1>5, <1>6

\* The order is complete exactly when no beliefs support each other in a circle.
LEMMA TopoOrderIs ==
    ASSUME ReasoningAssumption, HeldInv, NEW beliefs, Beliefs(beliefs)
    PROVE  LET order == TopoOrder(beliefs) IN
           /\ InSupportOrder(beliefs, order)
           /\ Len(order) = Cardinality(DOMAIN beliefs) <=> \A S \in SUBSET DOMAIN beliefs : ~ SupportCycle(beliefs, S)
           /\ Len(order) = Cardinality(DOMAIN beliefs) => ToSet(order) = Titles
<1> DEFINE o == TopoOrders(beliefs)
           N == Cardinality(Titles)
           order == o[N]
<1>1. DOMAIN beliefs = Titles /\ IsFiniteSet(Titles) /\ N \in Nat
    BY TitlesAre, FS_CardinalityType DEF Beliefs
<1>2. o[0] = <<>> /\ \A n \in 1..N : o[n] = NextInOrder(beliefs, o[n - 1])
    BY <1>1, TopoOrdersAre
<1>3. TopoOrder(beliefs) = order
    BY <1>1 DEF TopoOrder
<1> HIDE DEF o
<1> DEFINE Good(k) == InSupportOrder(beliefs, o[k]) /\ (Len(o[k]) = k \/ (Len(o[k]) < k /\ Ready(beliefs, o[k]) = {}))
           Bad == {k \in 0..N : ~ Good(k)}
<1>4. ASSUME Bad # {} PROVE FALSE
    <2>1. Bad \subseteq Nat
        BY <1>1
    <2>2. PICK k \in Bad : \A j \in Bad : k <= j
        BY <1>4, <2>1, LeastNatural
    <2>3. Good(0)
        BY <1>2 DEF InSupportOrder
    <2> HIDE DEF Good
    <2>a. k # 0
        BY <2>2, <2>3
    <2>4. k \in 1..N /\ k - 1 \in 0..N /\ k - 1 \notin Bad /\ k \in Nat
        BY <1>1, <2>2, <2>a
    <2> DEFINE prior == o[k - 1]
    <2>5. InSupportOrder(beliefs, prior) /\ (Len(prior) = k - 1 \/ (Len(prior) < k - 1 /\ Ready(beliefs, prior) = {}))
        BY <2>4 DEF Good
    <2>6. o[k] = NextInOrder(beliefs, prior)
        BY <1>2, <2>4
    <2> HIDE DEF prior
    <2>7. /\ InSupportOrder(beliefs, o[k])
          /\ Ready(beliefs, prior) = {} => o[k] = prior
          /\ Ready(beliefs, prior) # {} => Len(o[k]) = Len(prior) + 1
        BY <2>5, <2>6, NextKeepsOrder
    <2>8. Len(prior) \in Nat
        BY <2>5 DEF InSupportOrder
    <2>9. Good(k)
        BY <2>4, <2>5, <2>7, <2>8 DEF Good
    <2> QED BY <2>2, <2>9
<1>5. InSupportOrder(beliefs, order) /\ (Len(order) = N \/ (Len(order) < N /\ Ready(beliefs, order) = {}))
    BY <1>1, <1>4
<1> HIDE DEF order, Good
<1>6. order \in Seq(Titles) /\ Len(order) \in Nat /\ DOMAIN order = 1..Len(order)
    BY <1>5 DEF InSupportOrder
<1>7. ASSUME Len(order) # N PROVE \E S \in SUBSET Titles : SupportCycle(beliefs, S)
    <2> DEFINE left == Titles \ ToSet(order)
    <2>1. left # {}
        BY <1>1, <1>5, <1>6, <1>7, LeavesOut
    <2>2. ASSUME NEW t \in left PROVE \E s \in left : Supports(beliefs, s, t)
        BY <1>1, <1>5, <1>7 DEF Ready
    <2>3. SupportCycle(beliefs, left)
        BY <2>1, <2>2 DEF SupportCycle
    <2> QED BY <2>3
<1>8. Len(order) = N => ToSet(order) = Titles
    BY <1>1, <1>5, <1>6, ListsAll DEF InSupportOrder
<1>9. ASSUME Len(order) = N, NEW S \in SUBSET Titles, SupportCycle(beliefs, S) PROVE FALSE
    <2> DEFINE places == {i \in 1..N : order[i] \in S}
    <2>1. places \subseteq Nat /\ places # {}
        BY <1>1, <1>6, <1>8, <1>9 DEF ToSet, SupportCycle
    <2>2. PICK i \in places : \A j \in places : i <= j
        BY <2>1, LeastNatural
    <2>3. PICK s \in S : Supports(beliefs, s, order[i])
        BY <1>9, <2>2 DEF SupportCycle
    <2>4. i \in 1..Len(order) /\ s \in Titles
        BY <1>9, <2>2
    <2>5. PICK j \in 1..(i - 1) : order[j] = s
        BY <1>5, <2>3, <2>4 DEF InSupportOrder
    <2>6. j \in places /\ j < i
        BY <1>1, <2>2, <2>3, <2>5
    <2> QED BY <1>1, <2>2, <2>6
<1> QED BY <1>1, <1>3, <1>5, <1>7, <1>8, <1>9

-----------------------------------------------------------------------------
(* Reasoning: the propagation *)

\* One parent moves what it supports down to its penalty, and nothing else.
LEMMA PropagateFromIs ==
    ASSUME ReasoningAssumption, HeldInv, NEW beliefs, Beliefs(beliefs), NEW s \in Titles
    PROVE  LET next == PropagateFrom(beliefs, s) IN
           /\ Beliefs(next)
           /\ \A t \in Titles : /\ next[t].concept = beliefs[t].concept
                                /\ ~ Supports(beliefs, s, t) => next[t] = beliefs[t]
                                /\ Supports(beliefs, s, t) =>
                                      next[t].adjustment = Lower(beliefs[t].adjustment, Penalty(beliefs[s]))
<1> DEFINE next == PropagateFrom(beliefs, s)
<1>0. DOMAIN beliefs = Titles /\ \A t \in Titles : beliefs[t] \in Belief /\ beliefs[t].title = t
    BY DEF Beliefs
<1>1. DOMAIN next = Titles
    BY <1>0 DEF PropagateFrom
<1>2. ASSUME NEW t \in Titles
      PROVE  /\ next[t] \in Belief /\ next[t].title = t /\ next[t].concept = beliefs[t].concept
             /\ ~ Supports(beliefs, s, t) => next[t] = beliefs[t]
             /\ Supports(beliefs, s, t) => next[t].adjustment = Lower(beliefs[t].adjustment, Penalty(beliefs[s]))
    <2>1. CASE ~ Supports(beliefs, s, t)
        <3>1. next[t] = beliefs[t]
            BY <1>0, <2>1 DEF PropagateFrom
        <3> QED BY <1>0, <2>1, <3>1
    <2>2. CASE Supports(beliefs, s, t)
        <3> DEFINE b == beliefs[t]
                   a == Lower(b.adjustment, Penalty(beliefs[s]))
        <3>1. next[t] = Revalued(b, b.local, a)
            BY <1>0, <2>2 DEF PropagateFrom
        <3>2. One \in Nat
            BY DEF One
        <3>3. b \in Belief /\ b.title = t
            BY <1>0
        <3>4. Penalty(beliefs[s]) \in (-One)..0
            BY <1>0, FinalIs
        <3>5. b.adjustment \in (-One)..0
            BY <3>3 DEF Belief
        <3>6. a \in (-One)..0
            BY <3>4, <3>5 DEF Lower
        <3> HIDE DEF a, b
        <3>7. Revalued(b, b.local, a) \in Belief
            BY <3>3, <3>6 DEF Revalued, Belief
        <3>8. /\ Revalued(b, b.local, a).title = b.title /\ Revalued(b, b.local, a).concept = b.concept
              /\ Revalued(b, b.local, a).adjustment = a
            BY DEF Revalued
        <3>9. next[t] \in Belief /\ next[t].title = t /\ next[t].concept = b.concept /\ next[t].adjustment = a
            BY <3>1, <3>3, <3>7, <3>8
        <3> QED BY <2>2, <3>9 DEF a, b
    <2> QED BY <2>1, <2>2
<1>3. next \in [Titles -> Belief]
    BY <1>1, <1>2 DEF PropagateFrom
<1> HIDE DEF next
<1>4. Beliefs(next)
    BY <1>2, <1>3 DEF Beliefs
<1> QED BY <1>2, <1>4 DEF next

\* after k parents every belief is where the worst of those that support it has
\* dragged it, and where it was if none does
DraggedBy(beliefs, order, k, moved) ==
    /\ Beliefs(moved)
    /\ \A t \in Titles :
          /\ moved[t].concept = beliefs[t].concept
          /\ \A j \in 1..k : Supports(beliefs, order[j], t) => moved[t].adjustment <= Penalty(moved[order[j]])
          /\ \/ moved[t].adjustment = 0
             \/ \E j \in 1..k : Supports(beliefs, order[j], t) /\ moved[t].adjustment = Penalty(moved[order[j]])

\* The next parent of the order drags what it supports and leaves the parents
\* before it alone.
LEMMA NextParentDrags ==
    ASSUME ReasoningAssumption, HeldInv, NEW beliefs, Beliefs(beliefs), NEW order, InSupportOrder(beliefs, order),
           NEW k \in Nat, k < Len(order), NEW moved, DraggedBy(beliefs, order, k, moved)
    PROVE  DraggedBy(beliefs, order, k + 1, PropagateFrom(moved, order[k + 1]))
<1> DEFINE s == order[k + 1]
           next == PropagateFrom(moved, s)
<1>1. Len(order) \in Nat /\ k + 1 \in 1..Len(order) /\ \A j \in 1..(k + 1) : j \in 1..Len(order) /\ order[j] \in Titles
    BY DEF InSupportOrder
<1>2. s \in Titles
    BY <1>1
<1>3. Beliefs(moved) /\ \A t \in Titles : moved[t].concept = beliefs[t].concept
    BY DEF DraggedBy
<1>4. \A t \in Titles : Supports(moved, s, t) <=> Supports(beliefs, s, t)
    BY <1>2, <1>3 DEF Supports
<1>5. /\ Beliefs(next)
      /\ \A t \in Titles : /\ next[t].concept = moved[t].concept
                           /\ ~ Supports(moved, s, t) => next[t] = moved[t]
                           /\ Supports(moved, s, t) => next[t].adjustment = Lower(moved[t].adjustment, Penalty(moved[s]))
    BY <1>2, <1>3, PropagateFromIs
<1>6. ASSUME NEW j \in 1..(k + 1) PROVE next[order[j]] = moved[order[j]]
    <2>1. SUFFICES ASSUME Supports(beliefs, s, order[j]) PROVE FALSE
        BY <1>1, <1>4, <1>5
    <2>2. PICK i \in 1..(j - 1) : order[i] = s
        BY <1>1, <1>2, <2>1 DEF InSupportOrder
    <2>3. i \in 1..Len(order) /\ i # k + 1
        BY <1>1, <2>2
    <2> QED BY <1>1, <2>2, <2>3 DEF InSupportOrder
<1>7. ASSUME NEW t \in Titles
      PROVE  /\ next[t].concept = beliefs[t].concept
             /\ \A j \in 1..(k + 1) : Supports(beliefs, order[j], t) => next[t].adjustment <= Penalty(next[order[j]])
             /\ \/ next[t].adjustment = 0
                \/ \E j \in 1..(k + 1) : Supports(beliefs, order[j], t) /\ next[t].adjustment = Penalty(next[order[j]])
    <2> DEFINE a == moved[t].adjustment
               p == Penalty(moved[s])
               P(j) == Penalty(moved[order[j]])
    <2>1. next[t].concept = beliefs[t].concept
        BY <1>3, <1>5
    <2>2. \A j \in 1..(k + 1) : Penalty(next[order[j]]) = P(j)
        BY <1>6
    <2>3. \A j \in 1..(k + 1) : P(j) \in Int
        <3> TAKE j \in 1..(k + 1)
        <3>1. moved[order[j]] \in Belief
            BY <1>1, <1>3 DEF Beliefs
        <3>2. One \in Nat
            BY DEF One
        <3> QED BY <3>1, <3>2, FinalIs
    <2>4. a \in Int
        <3>1. moved[t] \in Belief
            BY <1>3 DEF Beliefs
        <3>2. One \in Nat
            BY DEF One
        <3> QED BY <3>1, <3>2 DEF Belief
    <2>5. (\A j \in 1..k : Supports(beliefs, order[j], t) => a <= P(j))
          /\ (a = 0 \/ \E j \in 1..k : Supports(beliefs, order[j], t) /\ a = P(j))
        BY DEF DraggedBy
    <2>6. p = P(k + 1)
        OBVIOUS
    <2>7. next[t].adjustment = IF Supports(beliefs, s, t) THEN Lower(a, p) ELSE a
        BY <1>4, <1>5
    <2> HIDE DEF a, p, P, next
    <2>8. ASSUME NEW j \in 1..(k + 1), Supports(beliefs, order[j], t) PROVE next[t].adjustment <= P(j)
        <3>1. p \in Int /\ P(j) \in Int
            BY <2>3, <2>6
        <3>2. Lower(a, p) \in Int /\ Lower(a, p) <= a /\ Lower(a, p) <= p
            BY <2>4, <3>1 DEF Lower
        <3>3. CASE j = k + 1
            BY <2>6, <2>7, <2>8, <3>1, <3>2, <3>3
        <3>4. CASE j # k + 1
            <4>1. a <= P(j)
                BY <2>5, <2>8, <3>4
            <4> QED BY <2>4, <2>7, <3>1, <3>2, <4>1
        <3> QED BY <3>3, <3>4
    <2>9. \/ next[t].adjustment = 0
          \/ \E j \in 1..(k + 1) : Supports(beliefs, order[j], t) /\ next[t].adjustment = P(j)
        <3>1. k + 1 \in 1..(k + 1) /\ \A j \in 1..k : j \in 1..(k + 1)
            OBVIOUS
        <3>2. CASE Supports(beliefs, s, t) /\ next[t].adjustment = p
            BY <2>6, <3>1, <3>2
        <3>3. CASE next[t].adjustment = a
            BY <2>5, <3>1, <3>3
        <3> QED BY <2>7, <3>2, <3>3 DEF Lower
    <2> QED BY <2>1, <2>2, <2>8, <2>9
<1> HIDE DEF next
<1>8. DraggedBy(beliefs, order, k + 1, next)
    BY <1>5, <1>7 DEF DraggedBy
<1> QED BY <1>8 DEF next

\* f is the beliefs after each of the first m parents
Spreading(f, m, beliefs, order) ==
    f = [n \in 0..m |-> IF n = 0 THEN beliefs ELSE PropagateFrom(f[n - 1], order[n])]

\* The loop over the parents defines the beliefs after each.
LEMMA PropagateAlongIs ==
    ASSUME NEW beliefs, NEW order, Len(order) \in Nat
    PROVE  /\ PropagateAlong(beliefs, order)[0] = beliefs
           /\ \A n \in 1..Len(order) :
                PropagateAlong(beliefs, order)[n] = PropagateFrom(PropagateAlong(beliefs, order)[n - 1], order[n])
<1> DEFINE N == Len(order)
           Bad == {k \in 0..N : ~\E f : Spreading(f, k, beliefs, order)}
<1>1. ASSUME Bad # {} PROVE FALSE
    <2>1. Bad \subseteq Nat
        OBVIOUS
    <2>2. PICK k \in Bad : \A j \in Bad : k <= j
        BY <1>1, <2>1, LeastNatural
    <2>3. CASE k = 0
        <3>1. Spreading([n \in 0..0 |-> beliefs], 0, beliefs, order)
            BY DEF Spreading
        <3> QED BY <2>3, <3>1
    <2>4. CASE k # 0
        <3>1. k - 1 \in 0..N /\ k - 1 \notin Bad
            BY <2>2, <2>4
        <3>2. PICK g : Spreading(g, k - 1, beliefs, order)
            BY <3>1
        <3> DEFINE f == [n \in 0..k |-> IF n = k THEN PropagateFrom(g[k - 1], order[k]) ELSE g[n]]
        <3>3. \A n \in 0..k : f[n] = IF n = 0 THEN beliefs ELSE PropagateFrom(f[n - 1], order[n])
            BY <2>4, <3>2 DEF Spreading
        <3>4. Spreading(f, k, beliefs, order)
            BY <3>3 DEF Spreading
        <3> QED BY <3>4
    <2> QED BY <2>3, <2>4
<1>2. \E f : Spreading(f, N, beliefs, order)
    BY <1>1
<1>3. Spreading(PropagateAlong(beliefs, order), N, beliefs, order)
    BY <1>2 DEF PropagateAlong, Spreading
<1> QED BY <1>3 DEF Spreading

\* Along an order every parent drags what it supports.
LEMMA AllParentsDrag ==
    ASSUME ReasoningAssumption, HeldInv, NEW beliefs, Beliefs(beliefs), \A t \in Titles : beliefs[t].adjustment = 0,
           NEW order, InSupportOrder(beliefs, order)
    PROVE  DraggedBy(beliefs, order, Len(order), PropagateAlong(beliefs, order)[Len(order)])
<1> DEFINE N == Len(order)
           after == PropagateAlong(beliefs, order)
           Bad == {k \in 0..N : ~ DraggedBy(beliefs, order, k, after[k])}
<1>1. N \in Nat
    BY DEF InSupportOrder
<1>2. after[0] = beliefs /\ \A n \in 1..N : after[n] = PropagateFrom(after[n - 1], order[n])
    BY <1>1, PropagateAlongIs
<1> HIDE DEF after
<1>3. ASSUME Bad # {} PROVE FALSE
    <2>1. Bad \subseteq Nat
        BY <1>1
    <2>2. PICK k \in Bad : \A j \in Bad : k <= j
        BY <1>3, <2>1, LeastNatural
    <2>3. DraggedBy(beliefs, order, 0, after[0])
        BY <1>2 DEF DraggedBy
    <2>4. k # 0
        BY <2>2, <2>3
    <2>5. k \in 1..N /\ k - 1 \in Nat /\ k - 1 < N /\ k - 1 \in 0..N /\ k - 1 \notin Bad /\ (k - 1) + 1 = k
        BY <1>1, <2>2, <2>4
    <2>6. DraggedBy(beliefs, order, k - 1, after[k - 1])
        BY <2>5
    <2>7. DraggedBy(beliefs, order, (k - 1) + 1, PropagateFrom(after[k - 1], order[(k - 1) + 1]))
        BY <2>5, <2>6, NextParentDrags
    <2>8. DraggedBy(beliefs, order, k, after[k])
        BY <1>2, <2>5, <2>7
    <2> QED BY <2>2, <2>8
<1> QED BY <1>1, <1>3 DEF after

\* The beliefs that come out are well formed, and each is exactly where its worst
\* supporter drags it.
LEMMA PropagationIs ==
    ASSUME ReasoningAssumption, HeldInv
    PROVE  Beliefs(Propagate(LocalBeliefs)) /\ PropagationExact
<1> DEFINE b == LocalBeliefs
           bs == Propagate(b)
           order == TopoOrder(b)
           N == Cardinality(DOMAIN b)
           Drag(t) == {Penalty(bs[s]) : s \in {s \in DOMAIN bs : Supports(bs, s, t)}} \cup {0}
           acyclic == \A S \in SUBSET DOMAIN bs : ~ SupportCycle(bs, S)
<1>1. Beliefs(b) /\ (\A t \in Titles : b[t].adjustment = 0) /\ DOMAIN b = Titles
    BY LocalBeliefsAre DEF Beliefs
<1> HIDE DEF b
<1>2. /\ InSupportOrder(b, order)
      /\ Len(order) = N <=> \A S \in SUBSET DOMAIN b : ~ SupportCycle(b, S)
      /\ Len(order) = N => ToSet(order) = Titles
    BY <1>1, TopoOrderIs
<1>3. bs = IF Len(order) # N THEN b ELSE PropagateAlong(b, order)[Len(order)]
    BY DEF Propagate
<1>4. DraggedBy(b, order, Len(order), PropagateAlong(b, order)[Len(order)])
    BY <1>1, <1>2, AllParentsDrag
<1> HIDE DEF order, bs, N
<1>5. Beliefs(bs) /\ DOMAIN bs = Titles /\ \A t \in Titles : bs[t].concept = b[t].concept
    BY <1>1, <1>3, <1>4 DEF DraggedBy, Beliefs
<1>6. \A s, t \in Titles : Supports(bs, s, t) <=> Supports(b, s, t)
    BY <1>5 DEF Supports
<1>7. \A S \in SUBSET Titles : SupportCycle(bs, S) <=> SupportCycle(b, S)
    BY <1>6 DEF SupportCycle
<1>8. acyclic <=> Len(order) = N
    BY <1>1, <1>2, <1>5, <1>7
<1>9. ASSUME NEW t \in Titles PROVE bs[t].adjustment = IF acyclic THEN Min(Drag(t)) ELSE 0
    <2>1. CASE ~ acyclic
        BY <1>1, <1>3, <1>8, <2>1
    <2>2. CASE acyclic
        <3> DEFINE a == bs[t].adjustment
        <3>1. DraggedBy(b, order, Len(order), bs) /\ ToSet(order) = Titles
            BY <1>2, <1>3, <1>4, <1>8, <2>2
        <3>2. DOMAIN order = 1..Len(order) /\ \A j \in 1..Len(order) : order[j] \in Titles
            BY <1>2 DEF InSupportOrder
        <3>3. \A s \in Titles : \E j \in 1..Len(order) : order[j] = s
            BY <3>1, <3>2 DEF ToSet
        <3>4. One \in Nat
            BY DEF One
        <3>5. a \in Int /\ a <= 0
            BY <1>5, <3>4 DEF Beliefs, Belief
        <3>6. \A s \in Titles : Penalty(bs[s]) \in Int
            <4> TAKE s \in Titles
            <4>1. bs[s] \in Belief
                BY <1>5 DEF Beliefs
            <4> QED BY <3>4, <4>1, FinalIs
        <3>7. \A s \in Titles : Supports(b, s, t) => a <= Penalty(bs[s])
            BY <3>1, <3>3 DEF DraggedBy
        <3>8. a = 0 \/ \E s \in Titles : Supports(b, s, t) /\ a = Penalty(bs[s])
            BY <3>1, <3>2 DEF DraggedBy
        <3> HIDE DEF a
        <3>9. a \in Drag(t)
            BY <1>5, <1>6, <3>8
        <3>10. \A y \in Drag(t) : y \in Int /\ a <= y
            BY <1>5, <1>6, <3>5, <3>6, <3>7
        <3> HIDE DEF Drag
        <3>11. Min(Drag(t)) = a
            <4>1. \E x \in Drag(t) : \A y \in Drag(t) : x <= y
                BY <3>9, <3>10
            <4>2. Min(Drag(t)) \in Drag(t) /\ \A y \in Drag(t) : Min(Drag(t)) <= y
                BY <4>1 DEF Min
            <4> DEFINE m == Min(Drag(t))
            <4>3. m \in Drag(t) /\ m <= a
                BY <3>9, <4>2
            <4> HIDE DEF m
            <4>4. m \in Int /\ a <= m
                BY <3>10, <4>3
            <4>5. m = a
                BY <3>5, <4>3, <4>4
            <4> QED BY <4>5 DEF m
        <3> QED BY <2>2, <3>11 DEF a
    <2> QED BY <2>1, <2>2
<1>10. PropagationExact
    BY <1>5, <1>9 DEF PropagationExact, bs, b
<1> QED BY <1>5, <1>10 DEF bs, b

-----------------------------------------------------------------------------
(* Reasoning: the ranking *)

\* Among the titles that are left one ranks before the others.
LEMMA BestOfLeft ==
    ASSUME ReasoningAssumption, HeldInv, NEW beliefs, Beliefs(beliefs), NEW left, left \subseteq Titles, left # {}
    PROVE  \E t \in left : \A s \in left \ {t} : RanksBefore(beliefs[t], beliefs[s])
<1> DEFINE P(t) == Priority(beliefs[t])
           F(t) == Final(beliefs[t])
           priorities == {P(t) : t \in left}
<1>0. One \in Nat
    BY DEF One
<1>1. \A t \in left : P(t) \in Nat
    BY DEF Priority
<1>2. \A t \in left : F(t) \in Int /\ F(t) <= One
    <2> TAKE t \in left
    <2>1. beliefs[t] \in Belief
        BY DEF Beliefs
    <2> QED BY <1>0, <2>1, FinalIs
<1>3. \A t \in left : t \in Nat /\ beliefs[t].title = t
    BY TitlesAre DEF Beliefs
<1> HIDE DEF P, F
<1>4. priorities \subseteq Nat /\ priorities # {}
    BY <1>1
<1>5. PICK p \in priorities : \A q \in priorities : p <= q
    BY <1>4, LeastNatural
<1> DEFINE urgent == {t \in left : P(t) = p}
           lacks == {One - F(t) : t \in urgent}
<1>6. urgent # {} /\ lacks \subseteq Nat /\ lacks # {}
    BY <1>0, <1>2, <1>5
<1>7. PICK c \in lacks : \A d \in lacks : c <= d
    BY <1>6, LeastNatural
<1> DEFINE surest == {t \in urgent : One - F(t) = c}
<1>8. surest \subseteq Nat /\ surest # {}
    BY <1>3, <1>7
<1>9. PICK t \in surest : \A s \in surest : t <= s
    BY <1>8, LeastNatural
<1>10. ASSUME NEW s \in left \ {t} PROVE RanksBefore(beliefs[t], beliefs[s])
    <2>1. t \in left /\ P(t) = p /\ p \in Nat /\ t \in Nat /\ s \in Nat /\ P(s) \in Nat /\ F(t) \in Int /\ F(s) \in Int
        BY <1>1, <1>2, <1>3, <1>9
    <2>2. p <= P(s)
        BY <1>5
    <2>3. ASSUME P(s) = p PROVE F(t) >= F(s)
        <3>1. One - F(s) \in lacks
            BY <2>3
        <3>2. One - F(t) <= One - F(s)
            BY <1>7, <1>9, <3>1
        <3> QED BY <1>0, <2>1, <3>2
    <2>4. ASSUME P(s) = p, F(s) = F(t) PROVE t < s
        <3>1. s \in surest
            BY <1>9, <2>4
        <3>2. t <= s /\ t # s
            BY <1>9, <3>1
        <3> QED BY <2>1, <3>2
    <2>5. \/ P(t) < P(s)
          \/ P(t) = P(s) /\ F(t) > F(s)
          \/ P(t) = P(s) /\ F(t) = F(s) /\ t < s
        BY <2>1, <2>2, <2>3, <2>4
    <2>6. beliefs[t].title = t /\ beliefs[s].title = s
        BY <1>3, <2>1
    <2> QED BY <2>5, <2>6 DEF RanksBefore, P, F
<1>11. t \in left
    BY <1>9
<1> QED BY <1>10, <1>11

\* f is the ranking after each of m turns
Sorting(f, m, beliefs) == f = [n \in 0..m |-> IF n = 0 THEN <<>> ELSE NextRanked(beliefs, f[n - 1])]

\* The recursion of the ranking defines it after each turn.
LEMMA RankedIs ==
    ASSUME NEW beliefs, Cardinality(DOMAIN beliefs) \in Nat
    PROVE  /\ Ranked(beliefs)[0] = <<>>
           /\ \A n \in 1..Cardinality(DOMAIN beliefs) : Ranked(beliefs)[n] = NextRanked(beliefs, Ranked(beliefs)[n - 1])
<1> DEFINE N == Cardinality(DOMAIN beliefs)
           Bad == {k \in 0..N : ~\E f : Sorting(f, k, beliefs)}
<1>1. ASSUME Bad # {} PROVE FALSE
    <2>1. Bad \subseteq Nat
        OBVIOUS
    <2>2. PICK k \in Bad : \A j \in Bad : k <= j
        BY <1>1, <2>1, LeastNatural
    <2>3. CASE k = 0
        <3>1. Sorting([n \in 0..0 |-> <<>>], 0, beliefs)
            BY DEF Sorting
        <3> QED BY <2>3, <3>1
    <2>4. CASE k # 0
        <3>1. k - 1 \in 0..N /\ k - 1 \notin Bad
            BY <2>2, <2>4
        <3>2. PICK g : Sorting(g, k - 1, beliefs)
            BY <3>1
        <3> DEFINE f == [n \in 0..k |-> IF n = k THEN NextRanked(beliefs, g[k - 1]) ELSE g[n]]
        <3>3. \A n \in 0..k : f[n] = IF n = 0 THEN <<>> ELSE NextRanked(beliefs, f[n - 1])
            BY <2>4, <3>2 DEF Sorting
        <3>4. Sorting(f, k, beliefs)
            BY <3>3 DEF Sorting
        <3> QED BY <3>4
    <2> QED BY <2>3, <2>4
<1>2. \E f : Sorting(f, N, beliefs)
    BY <1>1
<1>3. Sorting(Ranked(beliefs), N, beliefs)
    BY <1>2 DEF Ranked, Sorting
<1> QED BY <1>3 DEF Sorting

\* n titles, each once, the more pressing first and before all that are left
Pressing(beliefs, ranked, n) ==
    /\ ranked \in Seq(Titles) /\ Len(ranked) = n
    /\ \A i, j \in 1..n : ranked[i] = ranked[j] => i = j
    /\ \A i, j \in 1..n : i <= j => Priority(beliefs[ranked[i]]) <= Priority(beliefs[ranked[j]])
    /\ \A i \in 1..n : \A t \in Titles \ ToSet(ranked) : Priority(beliefs[ranked[i]]) <= Priority(beliefs[t])

\* A turn adds the most pressing of the titles that are left.
LEMMA NextKeepsRanking ==
    ASSUME ReasoningAssumption, HeldInv, NEW beliefs, Beliefs(beliefs), NEW n \in Nat, n < Cardinality(Titles),
           NEW ranked, Pressing(beliefs, ranked, n)
    PROVE  Pressing(beliefs, NextRanked(beliefs, ranked), n + 1)
<1> DEFINE left == Titles \ ToSet(ranked)
           t == CHOOSE t \in left : \A s \in left \ {t} : RanksBefore(beliefs[t], beliefs[s])
           next == Append(ranked, t)
           P(s) == Priority(beliefs[s])
<1>1. ranked \in Seq(Titles) /\ Len(ranked) = n /\ DOMAIN ranked = 1..n
    BY DEF Pressing
<1>2. left # {}
    BY <1>1, TitlesAre, LeavesOut
<1>3. t \in left /\ \A s \in left \ {t} : RanksBefore(beliefs[t], beliefs[s])
    BY <1>2, BestOfLeft
<1>4. NextRanked(beliefs, ranked) = next
    BY DEF NextRanked, Beliefs
<1> HIDE DEF t
<1>5. \A s : P(s) \in Nat
    BY DEF Priority
<1>6. \A s \in left : P(t) <= P(s)
    BY <1>3, <1>5 DEF RanksBefore
<1> HIDE DEF P
<1>7. next \in Seq(Titles) /\ Len(next) = n + 1 /\ next[n + 1] = t /\ \A i \in 1..n : next[i] = ranked[i]
    BY <1>1, <1>3
<1>8. ToSet(next) = ToSet(ranked) \cup {t}
    BY <1>1, <1>3, AppendSet
<1> HIDE DEF next
<1>9. \A i \in 1..n : ranked[i] # t
    BY <1>1, <1>3 DEF ToSet
<1>10. \A i, j \in 1..(n + 1) : next[i] = next[j] => i = j
    BY <1>7, <1>9 DEF Pressing
<1>11. /\ \A i, j \in 1..n : i <= j => P(ranked[i]) <= P(ranked[j])
       /\ \A i \in 1..n : \A s \in left : P(ranked[i]) <= P(s)
    BY DEF Pressing, P
<1>12. \A i, j \in 1..(n + 1) : i <= j => P(next[i]) <= P(next[j])
    <2> SUFFICES ASSUME NEW i \in 1..(n + 1), NEW j \in 1..(n + 1), i <= j PROVE P(next[i]) <= P(next[j])
        OBVIOUS
    <2>1. CASE j = n + 1 /\ i = n + 1
        BY <1>5, <2>1
    <2>2. CASE j = n + 1 /\ i # n + 1
        BY <1>3, <1>7, <1>11, <2>2
    <2>3. CASE j # n + 1
        <3>1. i \in 1..n /\ j \in 1..n
            BY <2>3
        <3> QED BY <1>7, <1>11, <3>1
    <2> QED BY <2>1, <2>2, <2>3
<1>13. \A i \in 1..(n + 1) : \A s \in Titles \ ToSet(next) : P(next[i]) <= P(s)
    <2> SUFFICES ASSUME NEW i \in 1..(n + 1), NEW s \in Titles \ ToSet(next) PROVE P(next[i]) <= P(s)
        OBVIOUS
    <2>1. s \in left
        BY <1>8
    <2>2. CASE i = n + 1
        BY <1>6, <1>7, <2>1, <2>2
    <2>3. CASE i # n + 1
        BY <1>7, <1>11, <2>1, <2>3
    <2> QED BY <2>2, <2>3
<1>14. Pressing(beliefs, next, n + 1)
    BY <1>7, <1>10, <1>12, <1>13 DEF Pressing, P
<1> QED BY <1>4, <1>14

\* The ranking has every title once, the more pressing first.
LEMMA RankingIs ==
    ASSUME ReasoningAssumption, HeldInv, NEW beliefs, Beliefs(beliefs)
    PROVE  Pressing(beliefs, Ranking(beliefs), Cardinality(Titles)) /\ ToSet(Ranking(beliefs)) = Titles
<1> DEFINE o == Ranked(beliefs)
           N == Cardinality(Titles)
           Bad == {k \in 0..N : ~ Pressing(beliefs, o[k], k)}
<1>1. DOMAIN beliefs = Titles /\ IsFiniteSet(Titles) /\ N \in Nat
    BY TitlesAre, FS_CardinalityType DEF Beliefs
<1>2. o[0] = <<>> /\ \A n \in 1..N : o[n] = NextRanked(beliefs, o[n - 1])
    BY <1>1, RankedIs
<1>3. Ranking(beliefs) = o[N]
    BY <1>1 DEF Ranking
<1> HIDE DEF o
<1>4. ASSUME Bad # {} PROVE FALSE
    <2>1. Bad \subseteq Nat
        BY <1>1
    <2>2. PICK k \in Bad : \A j \in Bad : k <= j
        BY <1>4, <2>1, LeastNatural
    <2>3. Pressing(beliefs, o[0], 0)
        BY <1>2 DEF Pressing
    <2>4. k # 0
        BY <2>2, <2>3
    <2>5. k \in 1..N /\ k - 1 \in Nat /\ k - 1 < N /\ k - 1 \in 0..N /\ k - 1 \notin Bad /\ (k - 1) + 1 = k
        BY <1>1, <2>2, <2>4
    <2>6. Pressing(beliefs, o[k - 1], k - 1)
        BY <2>5
    <2>7. Pressing(beliefs, NextRanked(beliefs, o[k - 1]), (k - 1) + 1)
        BY <2>5, <2>6, NextKeepsRanking
    <2>8. Pressing(beliefs, o[k], k)
        BY <1>2, <2>5, <2>7
    <2> QED BY <2>2, <2>8
<1>5. Pressing(beliefs, o[N], N)
    BY <1>1, <1>4
<1>6. ToSet(o[N]) = Titles
    BY <1>1, <1>5, ListsAll DEF Pressing
<1> QED BY <1>3, <1>5, <1>6

\* The items are the candidates of all beliefs, the more pressing first.
LEMMA ItemsAre ==
    ASSUME ReasoningAssumption, HeldInv, NEW beliefs, Beliefs(beliefs)
    PROVE  /\ Items(beliefs) \in Seq({Candidate(beliefs[t]) : t \in Titles})
           /\ ToSet(Items(beliefs)) = {Candidate(beliefs[t]) : t \in Titles}
           /\ \A i, j \in 1..Len(Items(beliefs)) : i <= j => Items(beliefs)[i].priority <= Items(beliefs)[j].priority
<1> DEFINE ranking == Ranking(beliefs)
           N == Len(ranking)
           items == [i \in 1..N |-> Candidate(beliefs[ranking[i]])]
           C == {Candidate(beliefs[t]) : t \in Titles}
<1>1. Pressing(beliefs, ranking, Cardinality(Titles)) /\ ToSet(ranking) = Titles
    BY RankingIs
<1>2. Items(beliefs) = items
    BY DEF Items
<1> HIDE DEF ranking
<1>3. ranking \in Seq(Titles) /\ N \in Nat /\ DOMAIN ranking = 1..N /\ N = Cardinality(Titles)
    BY <1>1 DEF Pressing
<1> HIDE DEF N
<1>4. items \in Seq(C) /\ Len(items) = N /\ DOMAIN items = 1..N
    BY <1>3
<1>5. ToSet(items) = C
    BY <1>1, <1>3 DEF ToSet
<1>6. \A t : Candidate(beliefs[t]).priority = Priority(beliefs[t])
    BY DEF Candidate
<1>7. \A i, j \in 1..N : i <= j => items[i].priority <= items[j].priority
    BY <1>1, <1>3, <1>6 DEF Pressing
<1> QED BY <1>2, <1>4, <1>5, <1>7

-----------------------------------------------------------------------------
(* Reasoning: the gate *)

Unsorted == [passed |-> <<>>, blocked |-> <<>>]

\* f is what passed and what did not after each of the first m items
Gating(f, m, items, policy) ==
    f = [n \in 0..m |-> IF n = 0 THEN Unsorted ELSE GateStep(f[n - 1], items[n], policy)]

\* The loop over the items defines what passed after each.
LEMMA GateLoopIs ==
    ASSUME NEW items, Len(items) \in Nat, NEW policy
    PROVE  /\ GateLoop(items, policy)[0] = Unsorted
           /\ \A n \in 1..Len(items) : GateLoop(items, policy)[n] = GateStep(GateLoop(items, policy)[n - 1], items[n], policy)
<1> DEFINE N == Len(items)
           Bad == {k \in 0..N : ~\E f : Gating(f, k, items, policy)}
<1>1. ASSUME Bad # {} PROVE FALSE
    <2>1. Bad \subseteq Nat
        OBVIOUS
    <2>2. PICK k \in Bad : \A j \in Bad : k <= j
        BY <1>1, <2>1, LeastNatural
    <2>3. CASE k = 0
        <3>1. Gating([n \in 0..0 |-> Unsorted], 0, items, policy)
            BY DEF Gating
        <3> QED BY <2>3, <3>1
    <2>4. CASE k # 0
        <3>1. k - 1 \in 0..N /\ k - 1 \notin Bad
            BY <2>2, <2>4
        <3>2. PICK g : Gating(g, k - 1, items, policy)
            BY <3>1
        <3> DEFINE f == [n \in 0..k |-> IF n = k THEN GateStep(g[k - 1], items[k], policy) ELSE g[n]]
        <3>3. \A n \in 0..k : f[n] = IF n = 0 THEN Unsorted ELSE GateStep(f[n - 1], items[n], policy)
            BY <2>4, <3>2 DEF Gating
        <3>4. Gating(f, k, items, policy)
            BY <3>3 DEF Gating
        <3> QED BY <3>4
    <2> QED BY <2>3, <2>4
<1>2. \E f : Gating(f, N, items, policy)
    BY <1>1
<1>3. Gating(GateLoop(items, policy), N, items, policy)
    BY <1>2 DEF GateLoop, Gating, Unsorted
<1> QED BY <1>3 DEF Gating

\* the first n items sorted by whether they pass, those that do still in order
SortedOut(items, policy, n, sorted) ==
    /\ sorted.passed \in Seq(ToSet(items)) /\ sorted.blocked \in Seq(ToSet(items))
    /\ Len(sorted.passed) + Len(sorted.blocked) = n
    /\ ToSet(sorted.passed) = {items[i] : i \in {j \in 1..n : Passes(items[j], policy)}}
    /\ ToSet(sorted.blocked) = {items[i] : i \in {j \in 1..n : ~ Passes(items[j], policy)}}
    /\ \A i, j \in 1..Len(sorted.passed) : i <= j => sorted.passed[i].priority <= sorted.passed[j].priority

\* The next item joins those that passed or those that did not.
LEMMA NextIsSortedOut ==
    ASSUME NEW C, NEW items \in Seq(C), NEW policy, NEW n \in Nat, n < Len(items),
           \A i, j \in 1..Len(items) : i <= j => items[i].priority <= items[j].priority,
           NEW sorted, SortedOut(items, policy, n, sorted)
    PROVE  SortedOut(items, policy, n + 1, GateStep(sorted, items[n + 1], policy))
<1> DEFINE I == ToSet(items)
           p == sorted.passed
           b == sorted.blocked
           x == items[n + 1]
           next == GateStep(sorted, x, policy)
           In(m) == {items[i] : i \in {j \in 1..m : Passes(items[j], policy)}}
           Out(m) == {items[i] : i \in {j \in 1..m : ~ Passes(items[j], policy)}}
<1>1. Len(items) \in Nat /\ DOMAIN items = 1..Len(items) /\ n + 1 \in 1..Len(items) /\ x \in I
    BY DEF ToSet
<1>2. p \in Seq(I) /\ b \in Seq(I) /\ Len(p) + Len(b) = n /\ ToSet(p) = In(n) /\ ToSet(b) = Out(n)
    BY DEF SortedOut
<1>3. \A i, j \in 1..Len(p) : i <= j => p[i].priority <= p[j].priority
    BY DEF SortedOut
<1>4. 1..(n + 1) = (1..n) \cup {n + 1}
    OBVIOUS
<1>5. CASE Passes(x, policy)
    <2>1. next.passed = Append(p, x) /\ next.blocked = b
        BY <1>5 DEF GateStep
    <2>2. In(n + 1) = In(n) \cup {x} /\ Out(n + 1) = Out(n)
        BY <1>4, <1>5
    <2>3. Append(p, x) \in Seq(I) /\ ToSet(Append(p, x)) = ToSet(p) \cup {x}
        BY <1>1, <1>2, AppendSet
    <2>4. /\ Len(p) \in Nat /\ Len(b) \in Nat /\ Len(Append(p, x)) = Len(p) + 1 /\ Append(p, x)[Len(p) + 1] = x
          /\ \A i \in 1..Len(p) : Append(p, x)[i] = p[i]
        BY <1>1, <1>2
    <2>5. \A i \in 1..Len(p) : p[i].priority <= x.priority
        <3> TAKE i \in 1..Len(p)
        <3>0. i \in DOMAIN p
            BY <1>2
        <3>1. p[i] \in In(n)
            BY <1>2, <3>0 DEF ToSet
        <3>2. PICK j \in 1..n : p[i] = items[j]
            BY <3>1
        <3> QED BY <1>1, <3>2
    <2>6. x.priority <= x.priority
        BY <1>1
    <2> DEFINE q == Append(p, x)
    <2> HIDE DEF q, next, In, Out, I, p, b, x
    <2>7. \A i, j \in 1..Len(q) : i <= j => q[i].priority <= q[j].priority
        <3> SUFFICES ASSUME NEW i \in 1..Len(q), NEW j \in 1..Len(q), i <= j PROVE q[i].priority <= q[j].priority
            OBVIOUS
        <3>1. Len(q) = Len(p) + 1 /\ q[Len(p) + 1] = x /\ \A l \in 1..Len(p) : q[l] = p[l]
            BY <2>4 DEF q
        <3>2. CASE j = Len(p) + 1
            <4>1. CASE i = Len(p) + 1
                BY <2>6, <3>1, <3>2, <4>1
            <4>2. CASE i # Len(p) + 1
                <5>1. i \in 1..Len(p)
                    BY <2>4, <3>1, <4>2
                <5> QED BY <2>5, <3>1, <3>2, <5>1
            <4> QED BY <4>1, <4>2
        <3>3. CASE j # Len(p) + 1
            <4>1. i \in 1..Len(p) /\ j \in 1..Len(p)
                BY <2>4, <3>1, <3>3
            <4> QED BY <1>3, <3>1, <4>1
        <3> QED BY <3>2, <3>3
    <2>8. Len(q) + Len(b) = n + 1
        <3>1. Len(q) = Len(p) + 1 /\ Len(p) \in Nat /\ Len(b) \in Nat /\ Len(p) + Len(b) = n
            BY <1>2, <2>4 DEF q
        <3> QED BY <3>1
    <2>9. next.passed = q /\ next.blocked = b /\ q \in Seq(I) /\ b \in Seq(I) /\ ToSet(q) = In(n + 1) /\ ToSet(b) = Out(n + 1)
        BY <1>2, <2>1, <2>2, <2>3 DEF q
    <2>10. SortedOut(items, policy, n + 1, next)
        BY <2>7, <2>8, <2>9 DEF SortedOut, In, Out, I
    <2> QED BY <2>10 DEF next, x
<1>6. CASE ~ Passes(x, policy)
    <2>1. next.passed = p /\ next.blocked = Append(b, x)
        BY <1>6 DEF GateStep
    <2>2. In(n + 1) = In(n) /\ Out(n + 1) = Out(n) \cup {x}
        BY <1>4, <1>6
    <2>3. Append(b, x) \in Seq(I) /\ ToSet(Append(b, x)) = ToSet(b) \cup {x}
        BY <1>1, <1>2, AppendSet
    <2>4. Len(p) \in Nat /\ Len(b) \in Nat /\ Len(Append(b, x)) = Len(b) + 1
        BY <1>1, <1>2
    <2> DEFINE q == Append(b, x)
    <2> HIDE DEF q, next, In, Out, I, p, b, x
    <2>5. Len(p) + Len(q) = n + 1
        BY <1>2, <2>4 DEF q
    <2>6. next.passed = p /\ next.blocked = q /\ p \in Seq(I) /\ q \in Seq(I) /\ ToSet(p) = In(n + 1) /\ ToSet(q) = Out(n + 1)
        BY <1>2, <2>1, <2>2, <2>3 DEF q
    <2>7. SortedOut(items, policy, n + 1, next)
        BY <1>3, <2>5, <2>6 DEF SortedOut, In, Out, I
    <2> QED BY <2>7 DEF next, x
<1> QED BY <1>5, <1>6

\* In the end all items are sorted by whether they pass.
LEMMA AllSortedOut ==
    ASSUME NEW C, NEW items \in Seq(C), NEW policy,
           \A i, j \in 1..Len(items) : i <= j => items[i].priority <= items[j].priority
    PROVE  SortedOut(items, policy, Len(items), GateLoop(items, policy)[Len(items)])
<1> DEFINE N == Len(items)
           g == GateLoop(items, policy)
           Bad == {k \in 0..N : ~ SortedOut(items, policy, k, g[k])}
<1>1. N \in Nat
    OBVIOUS
<1>2. g[0] = Unsorted /\ \A n \in 1..N : g[n] = GateStep(g[n - 1], items[n], policy)
    BY <1>1, GateLoopIs
<1> HIDE DEF g
<1>3. ASSUME Bad # {} PROVE FALSE
    <2>1. Bad \subseteq Nat
        BY <1>1
    <2>2. PICK k \in Bad : \A j \in Bad : k <= j
        BY <1>3, <2>1, LeastNatural
    <2>3. SortedOut(items, policy, 0, g[0])
        <3>1. g[0].passed = <<>> /\ g[0].blocked = <<>>
            BY <1>2 DEF Unsorted
        <3>2. <<>> \in Seq(ToSet(items)) /\ Len(<<>>) + Len(<<>>) = 0 /\ ToSet(<<>>) = {}
            BY DEF ToSet
        <3> QED BY <3>1, <3>2 DEF SortedOut
    <2>4. k # 0
        BY <2>2, <2>3
    <2>5. k \in 1..N /\ k - 1 \in Nat /\ k - 1 < N /\ k - 1 \in 0..N /\ k - 1 \notin Bad /\ (k - 1) + 1 = k
        BY <1>1, <2>2, <2>4
    <2>6. SortedOut(items, policy, k - 1, g[k - 1])
        BY <2>5
    <2>7. SortedOut(items, policy, (k - 1) + 1, GateStep(g[k - 1], items[(k - 1) + 1], policy))
        BY <2>5, <2>6, NextIsSortedOut
    <2>8. SortedOut(items, policy, k, g[k])
        BY <1>2, <2>5, <2>7
    <2> QED BY <2>2, <2>8
<1> QED BY <1>1, <1>3 DEF g

\* the items that the policy lets through
LetThrough(items, policy) == {x \in ToSet(items) : Passes(x, policy)}

\* The gate decides or blocks every item, decides the most pressing of those that
\* pass, and decides all of those when there is no ceiling.
LEMMA GateIs ==
    ASSUME NEW C, NEW items \in Seq(C), NEW policy, policy.max_decisions \in Nat,
           \A i, j \in 1..Len(items) : i <= j => items[i].priority <= items[j].priority
    PROVE  LET gate == DecisionGate(items, policy) IN
           /\ Len(gate.decisions) + Len(gate.blocked) = Len(items)
           /\ ToSet(gate.decisions) \cup ToSet(gate.blocked) = ToSet(items)
           /\ \A d \in ToSet(gate.decisions), b \in ToSet(gate.blocked) : Passes(b, policy) => d.priority <= b.priority
           /\ policy.max_decisions = 0 => ToSet(gate.decisions) = LetThrough(items, policy)
<1> DEFINE N == Len(items)
           sorted == GateLoop(items, policy)[N]
           p == sorted.passed
           b == sorted.blocked
           n == Len(p)
           max == policy.max_decisions
           gate == DecisionGate(items, policy)
           I == ToSet(items)
<1>1. SortedOut(items, policy, N, sorted)
    BY AllSortedOut
<1>2. N \in Nat /\ DOMAIN items = 1..N
    OBVIOUS
<1>3. gate = IF max > 0 /\ n > max
             THEN [decisions |-> [i \in 1..max |-> p[i]], blocked |-> b \o [i \in 1..(n - max) |-> p[max + i]]]
             ELSE [decisions |-> p, blocked |-> b]
    BY DEF DecisionGate
<1> HIDE DEF sorted
<1>4. /\ p \in Seq(I) /\ b \in Seq(I) /\ n + Len(b) = N
      /\ \A i, j \in 1..n : i <= j => p[i].priority <= p[j].priority
    BY <1>1 DEF SortedOut
<1>5. ToSet(p) = LetThrough(items, policy) /\ ToSet(b) = {x \in I : ~ Passes(x, policy)}
    <2>1. I = {items[i] : i \in 1..N}
        BY <1>2 DEF ToSet
    <2>2. {items[i] : i \in {j \in 1..N : Passes(items[j], policy)}} = {x \in I : Passes(x, policy)}
        BY <2>1
    <2>3. {items[i] : i \in {j \in 1..N : ~ Passes(items[j], policy)}} = {x \in I : ~ Passes(x, policy)}
        BY <2>1
    <2> QED BY <1>1, <2>2, <2>3 DEF SortedOut, LetThrough
<1>6. ToSet(p) \cup ToSet(b) = I
    BY <1>5 DEF LetThrough
<1> HIDE DEF p, b, I, gate, N, max
<1>7. n \in Nat /\ Len(b) \in Nat /\ DOMAIN p = 1..n /\ DOMAIN b = 1..Len(b)
    BY <1>4
<1>8. max \in Nat
    BY DEF max
<1>9. \A x \in ToSet(b) : ~ Passes(x, policy)
    BY <1>5
<1> HIDE DEF n
<1>10. CASE max > 0 /\ n > max
    <2> DEFINE first == [i \in 1..max |-> p[i]]
               rest == [i \in 1..(n - max) |-> p[max + i]]
               out == b \o rest
    <2>1. gate.decisions = first /\ gate.blocked = out
        BY <1>3, <1>10
    <2>2. first \in Seq(I) /\ Len(first) = max /\ DOMAIN first = 1..max
        BY <1>4, <1>7, <1>8, <1>10
    <2>3. rest \in Seq(I) /\ Len(rest) = n - max /\ DOMAIN rest = 1..(n - max)
        <3>1. n - max \in Nat /\ \A i \in 1..(n - max) : max + i \in 1..n /\ p[max + i] \in I
            BY <1>4, <1>7, <1>8, <1>10
        <3> QED BY <3>1
    <2>4. ToSet(first) = {p[i] : i \in 1..max} /\ ToSet(rest) = {p[i] : i \in (max + 1)..n}
        <3>1. ToSet(first) = {p[i] : i \in 1..max}
            BY <2>2 DEF ToSet
        <3>2. ToSet(rest) = {p[max + i] : i \in 1..(n - max)}
            BY <2>3 DEF ToSet
        <3>3. ASSUME NEW i \in (max + 1)..n PROVE i - max \in 1..(n - max) /\ max + (i - max) = i
            BY <1>7, <1>8
        <3>4. ASSUME NEW i \in 1..(n - max) PROVE max + i \in (max + 1)..n
            BY <1>7, <1>8
        <3>5. {p[max + i] : i \in 1..(n - max)} = {p[i] : i \in (max + 1)..n}
            BY <3>3, <3>4
        <3> QED BY <3>1, <3>2, <3>5
    <2> HIDE DEF first, rest
    <2>a. Len(out) = Len(b) + (n - max)
        <3>1. b \in Seq(I) /\ rest \in Seq(I)
            BY <1>4, <2>3
        <3>2. Len(b \o rest) = Len(b) + Len(rest)
            BY <3>1
        <3> QED BY <2>3, <3>2
    <2>5. Len(out) = Len(b) + (n - max) /\ ToSet(out) = ToSet(b) \cup ToSet(rest)
        BY <1>4, <2>3, <2>a, ConcatSet
    <2> HIDE DEF out
    <2>6. 1..n = (1..max) \cup ((max + 1)..n)
        BY <1>7, <1>8, <1>10
    <2>7. ToSet(p) = ToSet(first) \cup ToSet(rest)
        BY <1>7, <2>4, <2>6 DEF ToSet
    <2>8. Len(gate.decisions) + Len(gate.blocked) = N
        BY <1>4, <1>7, <1>8, <2>1, <2>2, <2>5
    <2>9. ToSet(gate.decisions) \cup ToSet(gate.blocked) = I
        BY <1>6, <2>1, <2>5, <2>7
    <2>10. ASSUME NEW d \in ToSet(gate.decisions), NEW x \in ToSet(gate.blocked), Passes(x, policy)
           PROVE  d.priority <= x.priority
        <3>1. x \in ToSet(rest)
            BY <1>9, <2>1, <2>5, <2>10
        <3>2. PICK i \in 1..max : d = p[i]
            BY <2>1, <2>4
        <3>3. PICK j \in (max + 1)..n : x = p[j]
            BY <2>4, <3>1
        <3>4. i \in 1..n /\ j \in 1..n /\ i <= j
            BY <1>7, <1>8, <1>10
        <3> QED BY <1>4, <3>2, <3>3, <3>4
    <2>11. policy.max_decisions # 0
        BY <1>8, <1>10 DEF max
    <2> QED BY <2>8, <2>9, <2>10, <2>11 DEF gate, N, I
<1>11. CASE ~ (max > 0 /\ n > max)
    <2>1. gate.decisions = p /\ gate.blocked = b
        BY <1>3, <1>11
    <2> QED BY <1>4, <1>5, <1>6, <1>9, <2>1 DEF gate, N, I, n
<1> QED BY <1>10, <1>11

-----------------------------------------------------------------------------
(* Reasoning: what is decided with less confidence *)

\* Beliefs stay well formed when one of them is doubted, and none gains by it.
LEMMA DoubtKeeps ==
    ASSUME ReasoningAssumption, HeldInv, NEW beliefs, Beliefs(beliefs), NEW t \in Titles
    PROVE  /\ Beliefs(Doubt(beliefs, t))
           /\ \A s \in Titles : /\ Doubt(beliefs, t)[s].supporting = beliefs[s].supporting
                                /\ Final(Doubt(beliefs, t)[s]) <= Final(beliefs[s])
<1> DEFINE doubted == Doubt(beliefs, t)
<1>0. One \in Nat
    BY DEF One
<1>1. ASSUME NEW s \in Titles
      PROVE  /\ doubted[s] \in Belief /\ doubted[s].title = s /\ doubted[s].supporting = beliefs[s].supporting
             /\ Final(doubted[s]) <= Final(beliefs[s])
    <2> DEFINE b == beliefs[s]
               less == Clamp(b.local - 30000)
               r == Revalued(b, less, b.adjustment)
    <2>1. b \in Belief /\ b.title = s
        BY DEF Beliefs
    <2>2. doubted[s] = IF s = t THEN r ELSE b
        BY DEF Doubt, Beliefs
    <2> HIDE DEF b
    <2>3. b.local \in Int /\ 0 <= b.local /\ b.local <= One /\ b.adjustment \in Int
        BY <1>0, <2>1 DEF Belief
    <2>4. less \in Int /\ 0 <= less /\ less <= b.local /\ less <= One
        BY <1>0, <2>3 DEF Clamp, Capped
    <2> HIDE DEF less
    <2>5. less \in 0..One
        BY <1>0, <2>4
    <2>6. /\ r.title = b.title /\ r.supporting = b.supporting /\ r.local = less /\ r.adjustment = b.adjustment
          /\ r \in Belief
        BY <2>1, <2>5 DEF Revalued, Belief
    <2> HIDE DEF r
    <2>7. Final(r) <= Final(b) /\ Final(b) <= Final(b)
        BY <1>0, <2>3, <2>4, <2>6 DEF Final, Clamp, Capped
    <2> QED BY <2>1, <2>2, <2>6, <2>7 DEF b
<1>2. doubted \in [Titles -> Belief]
    BY <1>1 DEF Doubt, Beliefs
<1> HIDE DEF doubted
<1> QED BY <1>1, <1>2 DEF Beliefs, doubted

\* What passes with less confidence passes with more.
LEMMA MoreConfidencePasses ==
    ASSUME NEW b \in Belief, NEW c \in Belief, b.supporting = c.supporting, Final(b) <= Final(c),
           NEW policy, policy.minimum_confidence \in Int, Passes(Candidate(b), policy)
    PROVE  Passes(Candidate(c), policy)
<1> DEFINE x == Candidate(b)
           y == Candidate(c)
<1>0. One \in Nat
    BY DEF One
<1>1. Final(b) \in Int /\ Final(c) \in Int
    BY <1>0, FinalIs
<1>2. ActiveContradictions(b) = ActiveContradictions(c)
    BY DEF ActiveContradictions
<1>3. /\ x.category = Classify(b, ActiveContradictions(b) # {}) /\ x.confidence = Final(b)
      /\ x.contradictions = ActiveContradictions(b)
      /\ y.category = Classify(c, ActiveContradictions(c) # {}) /\ y.confidence = Final(c)
      /\ y.contradictions = ActiveContradictions(c)
    BY DEF Candidate
<1>4. x.category # "DEFER" /\ x.confidence >= policy.minimum_confidence
      /\ ~ (policy.block_if_contradicted /\ x.contradictions # {})
    BY DEF Passes
<1> HIDE DEF x, y
<1>5. ~ (Final(b) < 40000)
    BY <1>3, <1>4 DEF Classify
<1>6. ~ (Final(c) < 40000)
    BY <1>1, <1>5
<1>7. y.category # "DEFER"
    BY <1>3, <1>6 DEF Classify
<1>8. y.confidence >= policy.minimum_confidence
    BY <1>1, <1>3, <1>4
<1>9. ~ (policy.block_if_contradicted /\ y.contradictions # {})
    BY <1>2, <1>3, <1>4
<1>10. Passes(y, policy)
    BY <1>7, <1>8, <1>9 DEF Passes
<1> QED BY <1>10 DEF y

\* The gate is sound for whatever the projects hold.
LEMMA GateIsSound ==
    ASSUME ReasoningAssumption, HeldInv
    PROVE  GateSound
<1> DEFINE beliefs == Propagate(LocalBeliefs)
           items == Items(beliefs)
<1>1. Beliefs(beliefs)
    BY PropagationIs
<1>2. beliefs \in [Titles -> Belief] /\ DOMAIN beliefs = Titles
    BY <1>1 DEF Beliefs
<1> HIDE DEF beliefs
<1>3. /\ items \in Seq({Candidate(beliefs[t]) : t \in Titles})
      /\ ToSet(items) = {Candidate(beliefs[t]) : t \in Titles}
      /\ \A i, j \in 1..Len(items) : i <= j => items[i].priority <= items[j].priority
    BY <1>1, ItemsAre
<1> HIDE DEF items
<1>4. ASSUME NEW policy \in GatePolicies
      PROVE  LET gate == DecisionGate(items, policy)
             IN /\ Len(gate.decisions) + Len(gate.blocked) = Len(items)
                /\ ToSet(gate.decisions) \cup ToSet(gate.blocked) = ToSet(items)
                /\ \A d \in ToSet(gate.decisions), b \in ToSet(gate.blocked) :
                     Passes(b, policy) => d.priority <= b.priority
    <2>1. policy.max_decisions \in Nat
        BY DEF ReasoningAssumption
    <2> QED BY <1>3, <2>1, GateIs
<1>5. ASSUME NEW t \in Titles, NEW policy \in GatePolicies,
             NEW d \in ToSet(DecisionGate(Items(Doubt(beliefs, t)), NoCeiling(policy)).decisions)
      PROVE  \E e \in ToSet(DecisionGate(items, NoCeiling(policy)).decisions) : e.title = d.title
    <2> DEFINE open == NoCeiling(policy)
               doubted == Doubt(beliefs, t)
               others == Items(doubted)
    <2>1. open.max_decisions = 0 /\ open.max_decisions \in Nat /\ open.minimum_confidence \in Int
        BY DEF NoCeiling, ReasoningAssumption
    <2>2. Beliefs(doubted) /\ \A s \in Titles : /\ doubted[s].supporting = beliefs[s].supporting
                                                /\ Final(doubted[s]) <= Final(beliefs[s])
        BY <1>1, DoubtKeeps
    <2> HIDE DEF doubted, open
    <2>3. /\ others \in Seq({Candidate(doubted[s]) : s \in Titles})
          /\ ToSet(others) = {Candidate(doubted[s]) : s \in Titles}
          /\ \A i, j \in 1..Len(others) : i <= j => others[i].priority <= others[j].priority
        BY <2>2, ItemsAre
    <2> HIDE DEF others
    <2>4. ToSet(DecisionGate(others, open).decisions) = LetThrough(others, open)
        <3> DEFINE C == {Candidate(doubted[s]) : s \in Titles}
        <3> HIDE DEF C
        <3>1. others \in Seq(C)
            BY <2>3 DEF C
        <3> QED BY <2>1, <2>3, <3>1, GateIs
    <2>5. ToSet(DecisionGate(items, open).decisions) = LetThrough(items, open)
        <3> DEFINE C == {Candidate(beliefs[s]) : s \in Titles}
        <3> HIDE DEF C
        <3>1. items \in Seq(C)
            BY <1>3 DEF C
        <3> QED BY <1>3, <2>1, <3>1, GateIs
    <2>6. d \in LetThrough(others, open)
        BY <2>4 DEF others, doubted, open
    <2>7. PICK s \in Titles : d = Candidate(doubted[s]) /\ Passes(Candidate(doubted[s]), open)
        BY <2>3, <2>6 DEF LetThrough
    <2> DEFINE e == Candidate(beliefs[s])
    <2>8. beliefs[s] \in Belief /\ doubted[s] \in Belief /\ beliefs[s].title = s /\ doubted[s].title = s
        BY <1>1, <2>2 DEF Beliefs
    <2>9. Passes(e, open)
        BY <2>1, <2>2, <2>7, <2>8, MoreConfidencePasses
    <2>10. e.title = s /\ d.title = s
        BY <2>7, <2>8 DEF Candidate
    <2> HIDE DEF e
    <2>11. e \in ToSet(items)
        BY <1>3 DEF e
    <2>12. e \in LetThrough(items, open)
        BY <2>9, <2>11 DEF LetThrough
    <2> QED BY <2>5, <2>10, <2>12 DEF open
<1> QED BY <1>2, <1>4, <1>5 DEF GateSound, items, beliefs

\* Whatever the projects hold, doubts spread exactly along the supports and the
\* gate places every candidate once, decides the most pressing that pass and
\* never decides more on less confidence (propagation.py:6-102, decision.py:35-219).
THEOREM ReasoningIsSound ==
    ASSUME ReasoningAssumption
    PROVE  ReasonSpec => []ReasoningSound
<1>1. RInit => HeldInv
    BY FS_EmptySet DEF RInit, HeldInv
<1>2. HeldInv /\ [ReasonNext]_reasoningVars => HeldInv'
    BY HeldStep
<1>3. HeldInv => ReasoningSound
    BY PropagationIs, GateIsSound DEF ReasoningSound
<1> QED BY <1>1, <1>2, <1>3, PTL DEF ReasonSpec
=============================================================================

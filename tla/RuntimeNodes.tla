---------------------------- MODULE RuntimeNodes ----------------------------
(***************************************************************************)
(* Remote runtime nodes: NodeRegistry (runtime/remote_models.py), an       *)
(* immutable value that each operation copies, and the telemetry of the    *)
(* nodes as NodeTelemetryAggregator (runtime/telemetry_aggregator.py)      *)
(* condenses it.  Handoffs are data only: no code performs one.            *)
(***************************************************************************)
EXTENDS Integers, Sequences, SequencesExt

CONSTANTS NodeIds,
          Values,     \* the values of a metric: integers
          MaxNodes,   \* bound on the nodes in the registry, twice added ones counted twice
          MaxSamples, \* bound on the samples of one node
          MaxSteps    \* bound on the operations on the registry

VARIABLES nodes,     \* NodeRegistry.nodes: ids, in the order added
          health,    \* NodeRegistry.health: [id, status]
          reported,  \* per node, how its latest report came: [status, by]
          samples,   \* per node, the values of the metric, in order
          steps

vars == <<nodes, health, reported, samples, steps>>

Statuses == {"ONLINE", "OFFLINE", "DRAINING"}
NotReported == [status |-> "OFFLINE", by |-> "none"]

-----------------------------------------------------------------------------
(* NodeRegistry *)

\* online_nodes: any report of the node says so
OnlineNodes == {health[i].id : i \in {j \in DOMAIN health : health[j].status = "ONLINE"}}
                   \cap {nodes[i] : i \in DOMAIN nodes}

Operation == steps < MaxSteps /\ steps' = steps + 1

\* nothing keeps a node from being added twice, and a report need not be given
AddNode(n, report) ==
    /\ Operation
    /\ Len(nodes) < MaxNodes
    /\ nodes' = Append(nodes, n)
    /\ health' = IF report = {} THEN health
                 ELSE health \o SetToSeq({[id |-> n, status |-> s] : s \in report})
    /\ reported' = [reported EXCEPT ![n] = [status |-> IF report = {} THEN @.status
                                                       ELSE CHOOSE s \in report : TRUE,
                                            by |-> "add"]]
    /\ UNCHANGED samples

\* Mutant: the first report of the node is replaced
UpdatedHealth_First(n, status) ==
    LET first == {i \in DOMAIN health : health[i].id = n /\ \A j \in 1 .. i - 1 : health[j].id # n}
    IN  [i \in DOMAIN health |-> IF i \in first THEN [id |-> n, status |-> status] ELSE health[i]]

\* replaces every report of the node; a node without one stays without
UpdatedHealth(n, status) ==
    [i \in DOMAIN health |->
        IF health[i].id = n THEN [id |-> n, status |-> status] ELSE health[i]]

UpdateHealth(n, status) ==
    /\ Operation
    /\ health' = UpdatedHealth(n, status)
    /\ reported' = [reported EXCEPT ![n] = [status |-> status, by |-> "update"]]
    /\ UNCHANGED <<nodes, samples>>

RemoveNode(n) ==
    /\ Operation
    /\ nodes' = SelectSeq(nodes, LAMBDA m : m # n)
    /\ health' = SelectSeq(health, LAMBDA h : h.id # n)
    /\ reported' = [reported EXCEPT ![n] = NotReported]
    /\ UNCHANGED samples

-----------------------------------------------------------------------------
(* NodeTelemetryAggregator *)

\* the values of all nodes together
Pooled(S) == FoldSeq(LAMBDA n, all : all \o S[n], <<>>, SetToSeq(NodeIds))
Ordered(values) == SortSeq(values, <)

MinOf(values) == Ordered(values)[1]
MaxOf(values) == Ordered(values)[Len(values)]
SumOf(values) == FoldSeq(LAMBDA v, total : v + total, 0, values)

\* Mutant: the values are not sorted
P95_Unsorted(values) ==
    LET idx == (Len(values) * 95) \div 100 - 1
    IN  values[(IF idx < 0 THEN 0 ELSE idx) + 1]

\* idx = int(n * 0.95) - 1, not below 0, of the sorted values
P95(values) ==
    LET idx == (Len(values) * 95) \div 100 - 1
    IN  Ordered(values)[(IF idx < 0 THEN 0 ELSE idx) + 1]

\* an unknown method is the average; no values give 0
Aggregate(S, method) ==
    LET values == Pooled(S)
    IN  [value |-> CASE values = <<>>    -> 0
                     [] values # <<>> /\ method = "MIN" -> MinOf(values)
                     [] values # <<>> /\ method = "MAX" -> MaxOf(values)
                     [] values # <<>> /\ method = "SUM" -> SumOf(values)
                     [] values # <<>> /\ method = "P95" -> P95(values)
                     [] OTHER -> SumOf(values) \div Len(values),
         sources |-> {n \in NodeIds : S[n] # <<>>},
         count |-> Len(values)]

Sample(n, v) ==
    /\ Len(samples[n]) < MaxSamples
    /\ samples' = [samples EXCEPT ![n] = Append(@, v)]
    /\ UNCHANGED <<nodes, health, reported, steps>>

-----------------------------------------------------------------------------
NInit ==
    /\ nodes = <<>> /\ health = <<>> /\ steps = 0
    /\ reported = [n \in NodeIds |-> NotReported]
    /\ samples = [n \in NodeIds |-> <<>>]

NNext ==
    \/ \E n \in NodeIds :
           \/ \E report \in {{}} \cup {{s} : s \in Statuses} : AddNode(n, report)
           \/ \E s \in Statuses : UpdateHealth(n, s)
           \/ RemoveNode(n)
           \/ \E v \in Values : Sample(n, v)

-----------------------------------------------------------------------------
(* Properties *)

HasHealth(n) == \E i \in DOMAIN health : health[i].id = n

\* A report sent to a node that has reports decides whether it is online, also
\* when it was added twice with different ones; a node that was removed and came
\* back without a report is not online on the strength of an old one.
LatestReportCounts ==
    \A n \in {nodes[i] : i \in DOMAIN nodes} :
        /\ reported[n].by = "update" /\ HasHealth(n) =>
               (n \in OnlineNodes <=> reported[n].status = "ONLINE")
        /\ ~ HasHealth(n) => n \notin OnlineNodes
        /\ n \in OnlineNodes => reported[n].by # "none"

\* One more sample of a value no smaller than all others never lowers an
\* aggregate, and an aggregate lies between the least and the greatest sample.
AggregatesMonotone ==
    LET values == Pooled(samples)
    IN  values # <<>> =>
        \A method \in {"MIN", "MAX", "P95", "AVERAGE"} :
            /\ Aggregate(samples, method).value \in MinOf(values) .. MaxOf(values)
            /\ \A n \in NodeIds :
                   Aggregate([samples EXCEPT ![n] = Append(@, MaxOf(values))], method).value
                       >= Aggregate(samples, method).value

\* A node that reports itself online is online: refuted by a node added without a
\* report, for which update_health does nothing (remote_models.py:314-325).
ReportedIsOnline ==
    \A i \in DOMAIN nodes :
        reported[nodes[i]].by = "update" /\ reported[nodes[i]].status = "ONLINE"
            => nodes[i] \in OnlineNodes

\* The 95th percentile is not below half of the samples (AggregationMethod.P95):
\* refuted, of two samples it is the smaller one.
P95IsHigh ==
    LET values == Pooled(samples)
    IN  values # <<>> => 2 * Len(SelectSeq(values, LAMBDA v : v <= P95(values))) > Len(values)

=============================================================================

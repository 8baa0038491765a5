------------------------------ MODULE Embedding ------------------------------
(***************************************************************************)
(* EmbeddingProjection and EmbeddingBuilder (embedding/projection.py,      *)
(* builder.py): knowledge events give nodes with a canonical text, and a   *)
(* builder that lives as long as its process embeds the nodes whose hash   *)
(* it has not seen.  A vector stands for the text and the provider it was  *)
(* made by; the hash of a text is the text.                                *)
(***************************************************************************)
EXTENDS Integers, Sequences, FiniteSets

CONSTANTS Nodes, Texts, Empty, Providers, MaxEvents

VARIABLES
    nodes,      \* EmbeddingState.nodes: id -> canonical text, of the nodes there are
    provider,   \* provider, model and version of the state
    cache,      \* builder._cache: id -> [hash, provider]
    vectors,    \* builder._vectors: id -> [text, provider]
    lastProvider,
    built,      \* the node set, text and provider of the last build
    count

evars == <<nodes, provider, cache, vectors, lastProvider, built, count>>

NoNodes == [n \in {} |-> Empty]
Without(f, n) == [k \in DOMAIN f \ {n} |-> f[k]]
With(f, n, v) == [k \in DOMAIN f \cup {n} |-> IF k = n THEN v ELSE f[k]]

\* CanonicalKnowledgeRenderer: title, content and the other fields in a fixed
\* layout; the title is kept when an update does not give one, the content is not
Render(content) == content

AddNode(state, n, content) == With(state, n, Render(content))
UpdateNode(state, n, content) == IF n \in DOMAIN state THEN With(state, n, Render(content)) ELSE state
RemoveNode(state, n) == Without(state, n)

\* _apply_event
KnowledgeEvent(n, type, content) ==
    /\ count < MaxEvents
    /\ count' = count + 1
    /\ nodes' = CASE type \in {"KNOWLEDGE_CREATED", "KNOWLEDGE_SYNTHESIZED"} -> AddNode(nodes, n, content)
                  [] type = "KNOWLEDGE_UPDATED" -> UpdateNode(nodes, n, content)
                  [] type \in {"KNOWLEDGE_DELETED", "KNOWLEDGE_SUPERSEDED"} -> RemoveNode(nodes, n)
    /\ UNCHANGED <<provider, cache, vectors, lastProvider, built>>

\* another provider, model or version is configured
SwitchProvider(p) ==
    /\ count < MaxEvents
    /\ count' = count + 1
    /\ provider' = p
    /\ UNCHANGED <<nodes, cache, vectors, lastProvider, built>>

\* Mutant: a node that was embedded once is not looked at again
Stale_SeenOnce(kept, n) == n \notin DOMAIN kept

Stale(kept, n) == n \notin DOMAIN kept \/ kept[n] # [hash |-> nodes[n], provider |-> provider]

\* Mutant: the builder does not notice the change
ProviderChanged_Never == FALSE

ProviderChanged == provider # lastProvider

\* build: one embed call for the changed nodes, which may raise; the cache was
\* cleared by then
Build(fails) ==
    LET kept == IF ProviderChanged THEN NoNodes ELSE cache
        old == IF ProviderChanged THEN NoNodes ELSE vectors
        changed == {n \in DOMAIN nodes : Stale(kept, n)}
        made == IF fails THEN {} ELSE changed
    IN  /\ fails => changed # {}
        /\ lastProvider' = provider
        /\ cache' = [n \in DOMAIN kept \cup made |->
                        IF n \in made THEN [hash |-> nodes[n], provider |-> provider] ELSE kept[n]]
        /\ vectors' = [n \in DOMAIN old \cup made |->
                        IF n \in made THEN [text |-> nodes[n], provider |-> provider] ELSE old[n]]
        /\ built' = IF fails THEN built
                    ELSE [done |-> TRUE, nodes |-> nodes, provider |-> provider, vectors |-> vectors']
        /\ UNCHANGED <<nodes, provider, count>>

EInit ==
    /\ nodes = NoNodes /\ cache = NoNodes /\ vectors = NoNodes
    /\ provider \in Providers /\ lastProvider = Empty
    /\ built = [done |-> FALSE] /\ count = 0

ENext ==
    \/ \E n \in Nodes, t \in Texts :
          \E type \in {"KNOWLEDGE_CREATED", "KNOWLEDGE_UPDATED", "KNOWLEDGE_DELETED"} :
              KnowledgeEvent(n, type, t)
    \/ \E p \in Providers : SwitchProvider(p)
    \/ \E fails \in BOOLEAN : Build(fails)

ESpec == EInit /\ [][ENext]_evars

-----------------------------------------------------------------------------
(* Properties *)

\* After a build every node has the vector of its present text by the present
\* provider, through updates, deletions, re-creations, provider changes and
\* failed builds.
BuiltFresh ==
    built.done => \A n \in DOMAIN built.nodes :
        /\ n \in DOMAIN built.vectors
        /\ built.vectors[n] = [text |-> built.nodes[n], provider |-> built.provider]

\* All vectors the builder holds were made by one provider: distances compare.
OneProvider == \A m, n \in DOMAIN vectors : vectors[m].provider = vectors[n].provider

\* A vector is of the node's present text and of one provider, through changes
\* of text and of provider (embedding/).
VectorsFresh == BuiltFresh /\ OneProvider

\* A build returns vectors of existing nodes only: refuted, nothing removes the
\* vector of a deleted node.
NoGhosts == built.done => DOMAIN built.vectors \subseteq DOMAIN built.nodes
=============================================================================

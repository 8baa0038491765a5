------------------------------ MODULE McpTools ------------------------------
(***************************************************************************)
(* The tools of the MCP server v2 (mcp/v2_runtime.py): MCPToolRegistry and *)
(* MCPRuntime.  A tool is identified by a digest of its name and category, *)
(* a binding by a digest of tool and workspace, but a call goes by name,   *)
(* also when it comes through a binding.                                   *)
(*                                                                         *)
(* Dicts are sequences in insertion order: replacing a value keeps its     *)
(* place.  A handler is the version it was registered as and what it does. *)
(***************************************************************************)
EXTENDS Integers, Sequences, SequencesExt

CONSTANTS Names, Categories, Workspaces, Sessions,
          MaxTools,    \* bound on registrations
          MaxBindings, \* bound on bindings made
          MaxCalls     \* bound on calls

VARIABLES tools,    \* _tools with _handlers: [id, name, fails, version]
          bindings, \* _bindings: [id, tool, workspace, session]
          calls,    \* the calls made: what was asked and what came back
          made      \* registrations and bindings made so far

vars == <<tools, bindings, calls, made>>

ToolId(name, category) == <<name, category>>
BindingId(tool, workspace) == <<tool, workspace>>
Ids(d) == {d[i].id : i \in DOMAIN d}

\* Mutant: what is registered again goes to the end
Put_Last(d, v) == Append(SelectSeq(d, LAMBDA w : w.id # v.id), v)

\* dict[key] = value
Put(d, v) ==
    IF v.id \in Ids(d) THEN [i \in DOMAIN d |-> IF d[i].id = v.id THEN v ELSE d[i]]
    ELSE Append(d, v)

Get(d, id) == d[CHOOSE i \in DOMAIN d : d[i].id = id]

-----------------------------------------------------------------------------
(* MCPToolRegistry *)

\* the schemas, the session mode and required_capabilities are stored and never
\* consulted
RegisterTool(name, category, fails) ==
    /\ made.tools < MaxTools
    /\ made' = [made EXCEPT !.tools = @ + 1]
    /\ tools' = Put(tools, [id |-> ToolId(name, category), name |-> name, fails |-> fails,
                            version |-> made.tools + 1])
    /\ UNCHANGED <<bindings, calls>>

\* the tool need not be registered; a second binding of a tool in a workspace
\* replaces the first, whichever session it was for
CreateBinding(tool, workspace, session) ==
    /\ made.bindings < MaxBindings
    /\ made' = [made EXCEPT !.bindings = @ + 1]
    /\ bindings' = Put(bindings, [id |-> BindingId(tool, workspace), tool |-> tool,
                                  workspace |-> workspace, session |-> session])
    /\ UNCHANGED <<tools, calls>>

\* the first in the order of the dict
IsFirst(d, name, i) == i \in DOMAIN d /\ d[i].name = name /\ \A j \in 1 .. i - 1 : d[j].name # name
Named(d, name) == \E i \in DOMAIN d : d[i].name = name
GetToolByName(d, name) == d[CHOOSE i \in DOMAIN d : IsFirst(d, name, i)]

-----------------------------------------------------------------------------
(* MCPRuntime *)

Unknown == [tool |-> <<"UNKNOWN", "">>, success |-> FALSE, version |-> 0]

\* the first tool of that name runs; what it raises becomes the result
ExecuteTool(name) ==
    LET tool == GetToolByName(tools, name)
    IN  IF ~ Named(tools, name) THEN Unknown
        ELSE [tool |-> tool.id, success |-> ~ tool.fails, version |-> tool.version]

ExecuteToolWithBinding(binding) ==
    IF binding \notin Ids(bindings) THEN Unknown
    ELSE LET tool == Get(bindings, binding).tool
         IN  IF tool \notin Ids(tools) THEN [Unknown EXCEPT !.tool = tool]
             ELSE ExecuteTool(Get(tools, tool).name)

\* a call leaves the registry alone
Call(asked, result) ==
    /\ Len(calls) < MaxCalls
    /\ calls' = Append(calls, [asked |-> asked, result |-> result])
    /\ UNCHANGED <<tools, bindings, made>>

ToolIds == {ToolId(n, c) : n \in Names, c \in Categories}

MInit == tools = <<>> /\ bindings = <<>> /\ calls = <<>> /\ made = [tools |-> 0, bindings |-> 0]

MNext ==
    \/ \E n \in Names, c \in Categories, fails \in BOOLEAN : RegisterTool(n, c, fails)
    \/ \E t \in ToolIds, w \in Workspaces, s \in Sessions : CreateBinding(t, w, s)
    \/ \E n \in Names : Call([name |-> n, bound |-> FALSE], ExecuteTool(n))
    \/ \E t \in ToolIds, w \in Workspaces :
           Call([name |-> t[1], bound |-> TRUE, binding |-> BindingId(t, w)],
                ExecuteToolWithBinding(BindingId(t, w)))

MSpec == MInit /\ [][MNext]_vars

-----------------------------------------------------------------------------
(* Properties *)

\* A name keeps its meaning: once a call has run a tool, later calls of that
\* name, bound or not, run the same tool, whatever is registered in between, and
\* never an older version of it.
NameKeepsMeaning ==
    \A i, j \in DOMAIN calls :
        LET a == calls[i]
            b == calls[j]
        IN  i < j /\ a.asked.name = b.asked.name /\ a.result.version > 0 /\ b.result.version > 0
                => a.result.tool = b.result.tool /\ a.result.version <= b.result.version

\* Through a binding, a tool of the bound name runs, and only in a workspace the
\* tool was bound in.
BoundNameRuns ==
    \A i \in DOMAIN calls :
        LET c == calls[i]
        IN  c.asked.bound /\ c.result.version > 0 =>
                c.result.tool[1] = c.asked.name /\ c.asked.binding \in Ids(bindings)

\* "Execute a tool through a specific binding" (v2_runtime.py:177): the bound
\* tool runs.  Refuted: with two tools of one name the other may run.
BoundToolRuns ==
    \A i \in DOMAIN calls :
        LET c == calls[i] IN c.asked.bound /\ c.result.success => c.result.tool = c.asked.binding[1]

=============================================================================

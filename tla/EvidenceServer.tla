--------------------------- MODULE EvidenceServer ---------------------------
(* One built-in MCP server process per review group (evidence/mcp.py, serve  *)
(* and handle_request).  A process handles one request at a time; the        *)
(* processes share the files of ActionReceipt and DiagramCollector.  OCR     *)
(* counts every tool request in its result before it parses the arguments.   *)
EXTENDS Integers, FiniteSets, FiniteSetsExt

CONSTANTS
  Server,
  Action,    \* the evidence actions the model may ask for
  None       \* Python's None: no lock holder, no file, no snapshot

ASSUME ServerAssumption ==
  /\ IsFiniteSet(Server) /\ None \notin Server
  /\ "summary" \in Action
  /\ Action \subseteq {"summary", "list", "get", "search", "coverage"}

VARIABLES
  at,        \* where each process is in the request it handles
  byTool     \* tool_calls.by_tool of OCR's result

(* A request whose action is none of its tool's is "unattributed".           *)
Bucket == Action \cup {"unattributed"}
ToolOf(b) == IF b \in {"search", "coverage"} THEN b ELSE "evidence"
EvidenceTool == {ToolOf(b) : b \in Bucket}
Tool == EvidenceTool \cup {"diagram"}

Step == {"idle", "attempt", "attempting", "serve", "complete", "completing",
         "submit", "submitting", "dead"}

Moves(s, step) == at' = [at EXCEPT ![s] = step]
Counted(t) == byTool' = [byTool EXCEPT ![t] = @ + 1]

ServerTypes == at \in [Server -> Step] /\ byTool \in [Tool -> Nat]
ServerInit == at = [s \in Server |-> "idle"] /\ byTool = [t \in Tool |-> 0]
=============================================================================

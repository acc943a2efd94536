----------------------------- MODULE McpServer -----------------------------
(***************************************************************************)
(* `cifra mcp serve`: one line of standard input is one JSON-RPC message,  *)
(* one line of standard output one answer, and the tools are called one    *)
(* after another, in the process itself (internal/mcp/server.go and        *)
(* cmd/cifra/mcp.go). What the tools do to the working copy is in          *)
(* Clone.tla, Guard.tla and TeamVault.tla; here a tool ends well or with   *)
(* an error, and may print on the way.                                     *)
(*                                                                         *)
(* A line is what the server tells apart of it, and whether it has an id;  *)
(* its place among the lines sent stands for the id.                       *)
(***************************************************************************)
EXTENDS Sequences, Naturals, FiniteSets

CONSTANT MaxLines   \* how many lines the client sends

McpAssumption == MaxLines \in Nat

(* The tools; those that reuse a command print what the command prints.    *)
mcpTools == {"status", "list", "rotate", "run", "protect", "push", "pull"}
Printing == {"rotate", "protect", "push", "pull"}

(* Methods answered with a result or, like unknown ones, an error; calls   *)
(* of no tool, or with parameters that do not parse; calls of a tool.      *)
Methods == {"initialize", "initialized", "tools/list", "ping", "unknown",
            "unknown tool", "invalid params"} \cup mcpTools

(* Not a message: empty, not JSON, longer than maxMessageBytes.            *)
NoMessage == {"blank", "garbage", "long"}

Lines == [what : Methods, id : BOOLEAN] \cup [what : NoMessage, id : {FALSE}]

VARIABLES sent,     \* the lines the client has written
          read,     \* how many of them the server has read
          input,    \* whether the client may still write
          pc,       \* "serve", "call" inside a tool, "ended" or "failed"
          stdout,   \* answers: which line, and of which sort; or "noise"
          called,   \* the lines whose tool was run
          uiOut     \* where ui.Out goes

vars == <<sent, read, input, pc, stdout, called, uiOut>>

Kinds   == {"result", "toolError", "protocolError", "parseError"}
Answers == [to : 1 .. MaxLines, kind : Kinds]
Noise   == [to |-> 0, kind |-> "noise"]

TypeOK == /\ sent \in Seq(Lines) /\ Len(sent) <= MaxLines
          /\ read \in 0 .. Len(sent)
          /\ input \in {"open", "closed"}
          /\ pc \in {"serve", "call", "ended", "failed"}
          /\ \A i \in DOMAIN stdout : stdout[i] \in Answers \cup {Noise}
          /\ called \in Seq(1 .. MaxLines)
          /\ uiOut \in {"stdout", "discard"}

Init == /\ sent = <<>> /\ read = 0 /\ input = "open" /\ pc = "serve"
        /\ stdout = <<>> /\ called = <<>>
        /\ uiOut = "stdout"

-----------------------------------------------------------------------------
Send == /\ input = "open" /\ Len(sent) < MaxLines
        /\ \E l \in Lines : sent' = Append(sent, l)
        /\ UNCHANGED <<read, input, pc, stdout, called, uiOut>>

Close == /\ input = "open" /\ input' = "closed"
         /\ UNCHANGED <<sent, read, pc, stdout, called, uiOut>>

(* A mutant: notifications are answered too.                               *)
writeResponseAlways(n, kind) == Append(stdout, [to |-> n, kind |-> kind])

(* A message without an id is a notification, and gets no answer; a line   *)
(* that does not parse has no id, and gets one.                            *)
writeResponse(n, kind) ==
  IF sent[n].id \/ kind = "parseError" THEN Append(stdout, [to |-> n, kind |-> kind])
  ELSE stdout

next == read + 1
Ready(what) == /\ pc = "serve" /\ read < Len(sent)
               /\ sent[next].what \in what

(* A line longer than the scanner's buffer ends the server.                *)
ServeLong == /\ Ready({"long"})
             /\ pc' = "failed"
             /\ read' = next
             /\ UNCHANGED <<sent, input, stdout, called, uiOut>>

handle(kind) == /\ read' = next
                /\ stdout' = writeResponse(next, kind)
                /\ UNCHANGED <<sent, input, pc, called, uiOut>>

ServeBlank == /\ Ready({"blank"})
              /\ read' = next
              /\ UNCHANGED <<sent, input, pc, stdout, called, uiOut>>

ServeGarbage == Ready({"garbage"}) /\ handle("parseError")

dispatch == \/ /\ Ready({"initialize", "initialized", "tools/list", "ping"})
               /\ handle("result")
            \/ /\ Ready({"unknown", "unknown tool", "invalid params"})
               /\ handle("protocolError")

(* A mutant: cifra_pull is forgotten.                                      *)
withSilentUIButPull == {"rotate", "protect", "push"}

(* The tools whose command is run with its output discarded.               *)
withSilentUI == {"rotate", "protect", "push", "pull"}

callTool == /\ Ready(mcpTools)
            /\ pc' = "call"
            /\ uiOut' = IF sent[next].what \in withSilentUI THEN "discard" ELSE uiOut
            /\ read' = next
            /\ called' = Append(called, next)
            /\ UNCHANGED <<sent, input, stdout>>

(* While a tool runs; a command that mcpRun has started may run for ever.  *)
CommandPrints ==
  /\ pc = "call" /\ sent[read].what \in Printing
  /\ stdout' = IF uiOut = "stdout" THEN Append(stdout, Noise) ELSE stdout
  /\ UNCHANGED <<sent, read, input, pc, called, uiOut>>

(* The error of a tool is a result for JSON-RPC, marked isError.           *)
toolResult == /\ pc = "call"
              /\ pc' = "serve"
              /\ uiOut' = "stdout"
              /\ \E kind \in {"result", "toolError"} : stdout' = writeResponse(read, kind)
              /\ UNCHANGED <<sent, read, input, called>>

EndOfInput == /\ pc = "serve" /\ input = "closed" /\ read = Len(sent)
              /\ pc' = "ended"
              /\ UNCHANGED <<sent, read, input, stdout, called, uiOut>>

Kill == /\ pc \in {"serve", "call"}
        /\ pc' = "failed"
        /\ UNCHANGED <<sent, read, input, stdout, called, uiOut>>

Next == \/ Send \/ Close
        \/ ServeLong \/ ServeBlank \/ ServeGarbage \/ dispatch
        \/ callTool \/ CommandPrints \/ toolResult
        \/ EndOfInput \/ Kill

Spec == Init /\ [][Next]_vars

-----------------------------------------------------------------------------
Wants(n) == sent[n].id \/ sent[n].what = "garbage"

(* The answers come in the order of the requests: one for every request    *)
(* with an id, or line that is not JSON, that the server is done with, and *)
(* none for a notification ("Notifications never produce a response",      *)
(* server.go:57). A call of a tool without an id is one as well: the tool  *)
(* runs, and nobody hears how it ended.                                    *)
AnsweredInOrder ==
  LET answers == {i \in DOMAIN stdout : stdout[i].to > 0}
      over    == {n \in 1 .. read : Wants(n) /\ ~(n = read /\ pc \in {"call", "failed"})}
  IN /\ \A i, j \in answers : i < j => stdout[i].to < stdout[j].to
     /\ over \subseteq {stdout[i].to : i \in answers}
     /\ \A i \in answers : Wants(stdout[i].to)

(* Standard output carries answers and nothing else, whatever the commands *)
(* that the tools reuse say (mcp.go:74).                                   *)
StdoutIsFrames == \A i \in DOMAIN stdout : stdout[i] \in Answers
=============================================================================

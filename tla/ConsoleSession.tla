--------------------------- MODULE ConsoleSession ---------------------------
(***************************************************************************)
(* The web console: the tokens of core/console_token.operations.go and the *)
(* websocket handlers of console/server.go, with the ssh connections of    *)
(* ssh_toolkit/ssh.go, which are outside the pool. A session is served by  *)
(* five goroutines that share one context: three that copy bytes, the      *)
(* handler that waits for the context's end, and one that closes the ssh   *)
(* connection at that end. The browser, the host and the websocket library *)
(* are modelled from what the code meets of them.                          *)
(***************************************************************************)
EXTENDS Naturals

CONSTANTS
  Tokens,      (* rows of console_tokens                                   *)
  Requests,    (* requests to /console/ws, each made once                  *)
  NoToken

ASSUME NoTokenAssumption == NoToken \notin Tokens

VARIABLES
  token,       (* per token "none", "valid", "expired" or "deleted"        *)
  target,      (* per token, what it was made for                          *)
  pc,          (* per request, where its handler is                        *)
  holds,       (* per request, the token it came with                      *)
  canceled,    (* ctxCancel was called                                     *)
  client,      (* the ssh connection: "none", "open", "closed"             *)
  closer,      (* the goroutine of DirectSSH that closes it                *)
  ws,          (* the websocket: "none", "open", "closed"                  *)
  thread,      (* the three goroutines that copy                           *)
  browser,     (* "here" or "gone"                                         *)
  shell,       (* "running" or "exited", or its host is lost               *)
  used         (* observation: tokens that let a request in and were       *)
               (* deleted for it                                           *)

consoleVars == <<token, target, pc, holds, canceled, client, closer, ws, thread, browser, shell,
                 used>>

rows     == <<token, target, used>>
peers    == <<browser, shell>>
session  == <<canceled, client, closer, ws, thread>>

Threads  == {"stdout", "stderr", "stdin"}
Points   == {"none", "select", "read", "write", "done"}
Handlers == {"idle", "admitted", "expired", "connect", "dialled", "shell", "upgrade",
             "serving", "returned", "notUpgraded"}

ConsoleInit ==
  /\ token = [t \in Tokens |-> "none"]
  /\ target = [t \in Tokens |-> "none"]
  /\ pc = [r \in Requests |-> "idle"]
  /\ holds = [r \in Requests |-> NoToken]
  /\ canceled = [r \in Requests |-> FALSE]
  /\ client = [r \in Requests |-> "none"]
  /\ closer = [r \in Requests |-> "none"]
  /\ ws = [r \in Requests |-> "none"]
  /\ thread = [r \in Requests |-> [g \in Threads |-> "none"]]
  /\ browser = [r \in Requests |-> "here"]
  /\ shell = [r \in Requests |-> "running"]
  /\ used = {}

-----------------------------------------------------------------------------
(* Tokens *)

GenerateToken(t, kind) ==
  /\ token[t] = "none"
  /\ token' = [token EXCEPT ![t] = "valid"]
  /\ target' = [target EXCEPT ![t] = kind]
  /\ UNCHANGED <<pc, holds, session, peers, used>>

GenerateConsoleTokenForServer(t)      == GenerateToken(t, "server")
GenerateConsoleTokenForApplication(t) == GenerateToken(t, "application")

(* A minute passes. *)
Expire(t) ==
  /\ token[t] = "valid"
  /\ token' = [token EXCEPT ![t] = "expired"]
  /\ UNCHANGED <<target, pc, holds, session, peers, used>>

(* FindConsoleToken reads the row and looks at its expiry ...                *)
FindConsoleToken(r, t) ==
  /\ pc[r] = "idle"
  /\ token[t] \in {"valid", "expired"}
  /\ pc' = [pc EXCEPT ![r] = IF token[t] = "valid" THEN "admitted" ELSE "expired"]
  /\ holds' = [holds EXCEPT ![r] = t]
  /\ UNCHANGED <<rows, session, peers>>

(* Defect: the deferred deletion comes after the return for a valid token.   *)
DeleteOnlyExpired(r) ==
  /\ pc[r] \in {"admitted", "expired"}
  /\ token' = IF pc[r] = "expired" THEN [token EXCEPT ![holds[r]] = "deleted"] ELSE token
  /\ used' = IF pc[r] = "admitted" THEN used \cup {holds[r]} ELSE used
  /\ pc' = [pc EXCEPT ![r] = IF @ = "admitted" THEN "connect" ELSE "returned"]
  /\ UNCHANGED <<target, holds, session, peers>>

(* ... and deletes it in a second statement, whose error is ignored.         *)
DeleteToken(r) ==
  /\ pc[r] \in {"admitted", "expired"}
  /\ \/ /\ token' = [token EXCEPT ![holds[r]] = "deleted"]
        /\ used' = IF pc[r] = "admitted" THEN used \cup {holds[r]} ELSE used
     \/ UNCHANGED <<token, used>>
  /\ pc' = [pc EXCEPT ![r] = IF @ = "admitted" THEN "connect" ELSE "returned"]
  /\ UNCHANGED <<target, holds, session, peers>>

-----------------------------------------------------------------------------
(* The ssh connection *)

(* The server is gone, or the application, its docker or its container, or   *)
(* the dial fails: nothing is open yet.                                      *)
ConnectFails(r) ==
  /\ pc[r] = "connect"
  /\ pc' = [pc EXCEPT ![r] = "returned"]
  /\ canceled' = [canceled EXCEPT ![r] = TRUE]
  /\ UNCHANGED <<rows, holds, client, closer, ws, thread, peers>>

Dial(r) ==
  /\ pc[r] = "connect"
  /\ pc' = [pc EXCEPT ![r] = "dialled"]
  /\ client' = [client EXCEPT ![r] = "open"]
  /\ UNCHANGED <<rows, holds, canceled, closer, ws, thread, peers>>

NewSessionFails(r) ==
  /\ pc[r] = "dialled"
  /\ pc' = [pc EXCEPT ![r] = "returned"]
  /\ client' = [client EXCEPT ![r] = "closed"]
  /\ canceled' = [canceled EXCEPT ![r] = TRUE]
  /\ UNCHANGED <<rows, holds, closer, ws, thread, peers>>

(* From here on the goroutine that waits for the context is the only one     *)
(* that closes the connection.                                               *)
NewSession(r) ==
  /\ pc[r] = "dialled"
  /\ pc' = [pc EXCEPT ![r] = "shell"]
  /\ closer' = [closer EXCEPT ![r] = "waits"]
  /\ UNCHANGED <<rows, holds, canceled, client, ws, thread, peers>>

(* The terminal, a pipe or the start is refused; the callers cancel.         *)
ShellFails(r) ==
  /\ pc[r] = "shell"
  /\ pc' = [pc EXCEPT ![r] = "returned"]
  /\ canceled' = [canceled EXCEPT ![r] = TRUE]
  /\ UNCHANGED <<rows, holds, client, closer, ws, thread, peers>>

(* session.Shell on a server, docker exec for an application.                *)
ShellStarts(r, kind) ==
  /\ pc[r] = "shell"
  /\ target[holds[r]] = kind
  /\ pc' = [pc EXCEPT ![r] = "upgrade"]
  /\ UNCHANGED <<rows, holds, session, peers>>

ServerShell(r)    == ShellStarts(r, "server")
ContainerShell(r) == ShellStarts(r, "application")

(* Defect: the session is closed, and its connection stays.                  *)
CloseSessionOnly(r) ==
  /\ closer[r] = "waits"
  /\ canceled[r]
  /\ closer' = [closer EXCEPT ![r] = "done"]
  /\ UNCHANGED <<rows, pc, holds, canceled, client, ws, thread, peers>>

(* The close at the context's end. *)
CloseClient(r) ==
  /\ closer[r] = "waits"
  /\ canceled[r]
  /\ closer' = [closer EXCEPT ![r] = "done"]
  /\ client' = [client EXCEPT ![r] = "closed"]
  /\ UNCHANGED <<rows, pc, holds, canceled, ws, thread, peers>>

-----------------------------------------------------------------------------
(* The websocket *)

(* The request is no websocket handshake: the library answers it and never   *)
(* calls the handler, and nothing cancels the context.                       *)
UpgradeFails(r) ==
  /\ pc[r] = "upgrade"
  /\ pc' = [pc EXCEPT ![r] = "notUpgraded"]
  /\ UNCHANGED <<rows, holds, session, peers>>

Upgrade(r) ==
  /\ pc[r] = "upgrade"
  /\ pc' = [pc EXCEPT ![r] = "serving"]
  /\ ws' = [ws EXCEPT ![r] = "open"]
  /\ thread' = [thread EXCEPT ![r] = [g \in Threads |-> "select"]]
  /\ UNCHANGED <<rows, holds, canceled, client, closer, peers>>

(* The handler returns at the context's end, and its deferred close runs.    *)
HandlerReturns(r) ==
  /\ pc[r] = "serving"
  /\ canceled[r]
  /\ pc' = [pc EXCEPT ![r] = "returned"]
  /\ ws' = [ws EXCEPT ![r] = "closed"]
  /\ UNCHANGED <<rows, holds, canceled, client, closer, thread, peers>>

ShellIsOver(r)   == client[r] = "closed" \/ shell[r] = "exited"
BrowserIsGone(r) == ws[r] = "closed" \/ browser[r] = "gone"

Moves(r, g, to) == /\ thread' = [thread EXCEPT ![r][g] = to]
                   /\ UNCHANGED <<rows, pc, holds, client, closer, ws, peers>>
Goes(r, g, to)  == Moves(r, g, to) /\ UNCHANGED canceled
(* ctxCancel, which may be called any number of times. *)
Ends(r, g, to)  == Moves(r, g, to) /\ canceled' = [canceled EXCEPT ![r] = TRUE]

Select(r, g) ==
  /\ thread[r][g] = "select"
  /\ Goes(r, g, IF canceled[r] THEN "done" ELSE "read")

(* The shell writes. *)
ShellOutput(r, g) ==
  /\ g \in {"stdout", "stderr"}
  /\ thread[r][g] = "read"
  /\ ~ShellIsOver(r)
  /\ Goes(r, g, "write")

(* The end of the stream: the goroutine of stdout cancels and sends the      *)
(* empty rest all the same, the one of stderr returns.                       *)
StdoutEnds(r) ==
  /\ thread[r]["stdout"] = "read"
  /\ ShellIsOver(r)
  /\ Ends(r, "stdout", "write")

StderrEnds(r) ==
  /\ thread[r]["stderr"] = "read"
  /\ ShellIsOver(r)
  /\ Ends(r, "stderr", "done")

(* A frame to the browser; it may be lost unnoticed when the browser left.   *)
Send(r, g) ==
  /\ g \in {"stdout", "stderr"}
  /\ thread[r][g] = "write"
  /\ \/ ws[r] = "open" /\ Goes(r, g, "select")
     \/ BrowserIsGone(r) /\ Ends(r, g, "select")

(* A message: a new size of the terminal, or input for the shell.            *)
BrowserInput(r) ==
  /\ thread[r]["stdin"] = "read"
  /\ ~BrowserIsGone(r)
  /\ \E to \in {"select", "write"} : Goes(r, "stdin", to)

(* Defect: the end of the websocket ends the goroutine and nothing else.     *)
BrowserEndsSilently(r) ==
  /\ thread[r]["stdin"] = "read"
  /\ BrowserIsGone(r)
  /\ Goes(r, "stdin", "done")

BrowserEnds(r) ==
  /\ thread[r]["stdin"] = "read"
  /\ BrowserIsGone(r)
  /\ Ends(r, "stdin", "done")

WriteToShell(r) ==
  /\ thread[r]["stdin"] = "write"
  /\ IF ShellIsOver(r) THEN Ends(r, "stdin", "done") ELSE Goes(r, "stdin", "select")

(* The user closes the page, or its network is cut.                          *)
BrowserLeaves(r) ==
  /\ browser[r] = "here"
  /\ ws[r] = "open"
  /\ browser' = [browser EXCEPT ![r] = "gone"]
  /\ UNCHANGED <<rows, pc, holds, session, shell>>

(* The shell exits, or its host is lost.                                     *)
ShellExits(r) ==
  /\ shell[r] = "running"
  /\ client[r] = "open" /\ pc[r] \in {"upgrade", "serving", "notUpgraded"}
  /\ shell' = [shell EXCEPT ![r] = "exited"]
  /\ UNCHANGED <<rows, pc, holds, session, browser>>

-----------------------------------------------------------------------------

(* What the code does by itself. *)
Proceeds(r) ==
  \/ DeleteToken(r) \/ ConnectFails(r) \/ Dial(r) \/ NewSessionFails(r) \/ NewSession(r)
  \/ ShellFails(r) \/ ServerShell(r) \/ ContainerShell(r) \/ UpgradeFails(r) \/ Upgrade(r)
  \/ HandlerReturns(r)
Copies(r, g) == \/ Select(r, g) \/ Send(r, g)
                \/ g = "stdout" /\ StdoutEnds(r)
                \/ g = "stderr" /\ StderrEnds(r)
                \/ g = "stdin" /\ (BrowserEnds(r) \/ WriteToShell(r))

(* What users and hosts do. *)
Environment(r) ==
  \/ BrowserLeaves(r) \/ ShellExits(r) \/ BrowserInput(r)
  \/ \E g \in Threads : ShellOutput(r, g)
  \/ \E t \in Tokens : FindConsoleToken(r, t)

ConsoleNext ==
  \/ \E t \in Tokens : \/ GenerateConsoleTokenForServer(t) \/ Expire(t)
                       \/ GenerateConsoleTokenForApplication(t)
  \/ \E r \in Requests : \/ Proceeds(r) \/ CloseClient(r) \/ Environment(r)
                         \/ \E g \in Threads : Copies(r, g)

ConsoleSpec == ConsoleInit /\ [][ConsoleNext]_consoleVars

(* Goroutines that can run do run: the shell takes its input, and statements *)
(* and commands of ssh end. Nobody has to type, or to write output.          *)
ConsoleFairness ==
  \A r \in Requests : /\ WF_consoleVars(Proceeds(r)) /\ WF_consoleVars(CloseClient(r))
                      /\ \A g \in Threads : WF_consoleVars(Copies(r, g))

ConsoleFairSpec == ConsoleSpec /\ ConsoleFairness

-----------------------------------------------------------------------------

(* Every variable has its shape; the goroutine of DirectSSH closes the       *)
(* connection and not only its session.                                      *)
ConsoleTypeOK ==
  /\ token \in [Tokens -> {"none", "valid", "expired", "deleted"}]
  /\ target \in [Tokens -> {"none", "server", "application"}]
  /\ pc \in [Requests -> Handlers]
  /\ holds \in [Requests -> Tokens \cup {NoToken}]
  /\ canceled \in [Requests -> BOOLEAN]
  /\ client \in [Requests -> {"none", "open", "closed"}]
  /\ closer \in [Requests -> {"none", "waits", "done"}]
  /\ ws \in [Requests -> {"none", "open", "closed"}]
  /\ thread \in [Requests -> [Threads -> Points]]
  /\ browser \in [Requests -> {"here", "gone"}]
  /\ shell \in [Requests -> {"running", "exited"}]
  /\ used \subseteq Tokens
  /\ \A r \in Requests : closer[r] = "done" => client[r] = "closed"

(* A token whose deletion took effect for a request it let in lets in no     *)
(* request that comes later. (Two that come together may both have read it.) *)
UsedTokenIsDead ==
  [][\A r \in Requests : pc[r] = "idle" /\ pc'[r] = "admitted" => holds'[r] \notin used]_consoleVars

(* When the browser or the shell goes, the other end is closed and all the   *)
(* goroutines of the session end. And no ssh connection outlives its         *)
(* request, however far that came, unless the request was never upgraded to  *)
(* a websocket: that connection stays open for ever.                         *)
ConsoleEnds ==
  \A r \in Requests :
    /\ pc[r] = "serving" /\ (browser[r] = "gone" \/ shell[r] = "exited")
         ~> /\ pc[r] = "returned" /\ ws[r] = "closed" /\ client[r] = "closed"
            /\ \A g \in Threads : thread[r][g] = "done"
    /\ pc[r] = "returned" ~> client[r] # "open"
=============================================================================

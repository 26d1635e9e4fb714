----------------------------- MODULE TokenStub -----------------------------
(***************************************************************************)
(* The token stub (cmd/gcp-token-stub/main.go): main with its select, the  *)
(* goroutine that serves, the connections it serves, and the shutdown.     *)
(* net/http is external: a connection is new until its headers are read,   *)
(* active while its handler runs, and idle afterwards.                     *)
(***************************************************************************)
EXTENDS Integers, Sequences

CONSTANTS
    Clients,    \* connections; a healthcheck (--ping) is one of them
    Requests,   \* what clients ask: records with a method and a path
    Settings    \* the values TOKEN_STUB_EXPIRES_IN may have, see expiresIn

shutdownGrace == 5
defaultExpiresIn == 3600

\* The variable is unset ({}), or set to a number or to another text.
Setting == [set : BOOLEAN, number : BOOLEAN, value : Int]

ASSUME TokenStubAssumption ==
    /\ Settings \subseteq Setting
    /\ \A r \in Requests : DOMAIN r = {"method", "path"}

VARIABLES
    setting,   \* TOKEN_STUB_EXPIRES_IN
    main,      \* "start", "select", "shutdown", or how the process ended
    server,    \* the goroutine: "starting", "listening", "returned"
    errs,      \* the channel, of capacity 1
    closing,   \* srv.Shutdown has been called
    signalled, \* SIGINT or SIGTERM has arrived
    conn,      \* the state of each connection
    reply,     \* the last reply on it
    waited     \* how many seconds Shutdown has waited

vars == <<setting, main, server, errs, closing, signalled, conn, reply, waited>>

Exited == main \in {"exit 0", "exit 1"}

expiresIn == IF setting.set THEN setting.value ELSE defaultExpiresIn

Init ==
    /\ setting \in Settings
    /\ main = "start" /\ server = "starting" /\ errs = <<>>
    /\ closing = FALSE /\ signalled = FALSE
    /\ conn = [c \in Clients |-> "none"]
    /\ reply = [c \in Clients |-> [status |-> 0, expires_in |-> 0]]
    /\ waited = 0

-----------------------------------------------------------------------------
(* main and run. *)

\* Mutant: zero is let through.
Parse_AcceptsZero ==
    /\ main = "start"
    /\ main' = IF setting.set /\ (~setting.number \/ setting.value < 0)
               THEN "exit 1" ELSE "select"
    /\ UNCHANGED <<setting, server, errs, closing, signalled, conn, reply, waited>>

Parse ==
    /\ main = "start"
    /\ main' = IF setting.set /\ (~setting.number \/ setting.value <= 0)
               THEN "exit 1" ELSE "select"
    /\ UNCHANGED <<setting, server, errs, closing, signalled, conn, reply, waited>>

\* The server returned before any signal was seen.
SelectErrs ==
    /\ main = "select" /\ errs # <<>>
    /\ main' = IF Head(errs) = "error" THEN "exit 1" ELSE "exit 0"
    /\ errs' = Tail(errs)
    /\ UNCHANGED <<setting, server, closing, signalled, conn, reply, waited>>

\* The listener and the idle connections are closed.  One that is new is
\* closed if it is older than the grace period, and else waited for.
SelectDone ==
    /\ main = "select" /\ signalled
    /\ main' = "shutdown" /\ closing' = TRUE
    /\ conn' \in [Clients -> {"none", "new", "active", "closed"}]
    /\ \A c \in Clients :
          \/ conn'[c] = conn[c]
          \/ conn'[c] = "closed" /\ conn[c] \in {"new", "idle"}
    /\ UNCHANGED <<setting, server, errs, signalled, reply, waited>>

graceLeft == waited < shutdownGrace

Busy == \E c \in Clients : conn[c] \in {"new", "active"}

\* Mutant: the server is closed, not shut down.
ShutdownReturns_AtOnce ==
    /\ main = "shutdown"
    /\ main' = "exit 0"
    /\ UNCHANGED <<setting, server, errs, closing, signalled, conn, reply, waited>>

ShutdownReturns ==
    /\ main = "shutdown" /\ (~Busy \/ ~graceLeft)
    /\ main' = IF ~Busy THEN "exit 0" ELSE "exit 1"
    /\ UNCHANGED <<setting, server, errs, closing, signalled, conn, reply, waited>>

\* A second passes while Shutdown waits for a connection.
ShutdownWaits ==
    /\ main = "shutdown" /\ Busy /\ graceLeft
    /\ waited' = waited + 1
    /\ UNCHANGED <<setting, main, server, errs, closing, signalled, conn, reply>>

Main == Parse \/ SelectErrs \/ SelectDone \/ ShutdownReturns

-----------------------------------------------------------------------------
(* The goroutine: ListenAndServe and the send of what it returned. *)

\* Mutant: the error is logged and not sent.
Listen_Logs ==
    /\ server = "starting" /\ main \in {"select", "shutdown"}
    /\ \/ ~closing /\ server' = "listening" /\ UNCHANGED errs
       \/ ~closing /\ server' = "returned" /\ UNCHANGED errs
       \/ closing /\ server' = "returned" /\ errs' = Append(errs, "nil")
    /\ UNCHANGED <<setting, main, closing, signalled, conn, reply, waited>>

\* Without a shutdown before it, the address is listened on or it is not.
Listen ==
    /\ server = "starting" /\ main \in {"select", "shutdown"}
    /\ \/ ~closing /\ server' = "listening" /\ UNCHANGED errs
       \/ ~closing /\ server' = "returned" /\ errs' = Append(errs, "error")
       \/ closing /\ server' = "returned" /\ errs' = Append(errs, "nil")
    /\ UNCHANGED <<setting, main, closing, signalled, conn, reply, waited>>

ServerClosed ==
    /\ server = "listening" /\ closing /\ ~Exited
    /\ server' = "returned" /\ errs' = Append(errs, "nil")
    /\ UNCHANGED <<setting, main, closing, signalled, conn, reply, waited>>

\* Accepting connections fails, for good, after it has begun.
AcceptFails ==
    /\ server = "listening" /\ ~closing /\ ~Exited
    /\ server' = "returned" /\ errs' = Append(errs, "error")
    /\ UNCHANGED <<setting, main, closing, signalled, conn, reply, waited>>

-----------------------------------------------------------------------------
(* Connections. *)

Serving == server = "listening" /\ ~closing /\ ~Exited

Connect(c) ==
    /\ Serving /\ conn[c] \in {"none", "closed"}
    /\ conn' = [conn EXCEPT ![c] = "new"]
    /\ UNCHANGED <<setting, main, server, errs, closing, signalled, reply, waited>>

\* The headers of a request have arrived.
SendsHeaders(c) ==
    /\ ~Exited /\ conn[c] \in {"new", "idle"}
    /\ conn' = [conn EXCEPT ![c] = "active"]
    /\ UNCHANGED <<setting, main, server, errs, closing, signalled, reply, waited>>

\* readHeaderTimeout has passed, or the client has closed the connection.
Closes(c) ==
    /\ ~Exited /\ conn[c] \in {"new", "idle"}
    /\ conn' = [conn EXCEPT ![c] = "closed"]
    /\ UNCHANGED <<setting, main, server, errs, closing, signalled, reply, waited>>

\* The mux and the two handlers.  The mux redirects a path that is not clean.
Status(r) ==
    IF r.path = "//token" THEN 301
    ELSE IF r.path # "/token" THEN 404
    ELSE IF r.method \in {"GET", "POST"} THEN 200 ELSE 405

Handle(c) ==
    /\ ~Exited /\ conn[c] = "active"
    /\ \E r \in Requests :
          reply' = [reply EXCEPT ![c] =
            [status |-> Status(r),
             expires_in |-> IF Status(r) = 200 THEN expiresIn ELSE 0]]
    /\ conn' = [conn EXCEPT ![c] = IF closing THEN "closed" ELSE "idle"]
    /\ UNCHANGED <<setting, main, server, errs, closing, signalled, waited>>

Signal ==
    /\ main = "select" /\ ~signalled
    /\ signalled' = TRUE
    /\ UNCHANGED <<setting, main, server, errs, closing, conn, reply, waited>>

Next ==
    \/ Main \/ ShutdownWaits \/ Listen \/ ServerClosed \/ AcceptFails \/ Signal
    \/ \E c \in Clients : Connect(c) \/ SendsHeaders(c) \/ Closes(c) \/ Handle(c)

Spec == Init /\ [][Next]_vars

\* The process is scheduled and time passes; clients may do nothing for ever.
FairSpec ==
    Spec /\ WF_vars(Main) /\ WF_vars(ShutdownWaits) /\ WF_vars(Listen \/ ServerClosed)

-----------------------------------------------------------------------------
(* Properties. *)

\* Every variable has its type; what the goroutine sends never has to wait
\* for main to receive it, so the goroutine cannot outlive the channel.
TypeOK ==
    /\ setting \in Settings
    /\ main \in {"start", "select", "shutdown", "exit 0", "exit 1"}
    /\ server \in {"starting", "listening", "returned"}
    /\ errs \in Seq({"nil", "error"}) /\ Len(errs) <= 1
    /\ closing \in BOOLEAN /\ signalled \in BOOLEAN
    /\ conn \in [Clients -> {"none", "new", "active", "idle", "closed"}]
    /\ reply \in [Clients -> [status : Nat, expires_in : Int]]
    /\ waited \in Nat

\* The process ends with success only on a signal, and when it does no
\* request whose headers had been read is left without a reply.
GracefulExit ==
    main = "exit 0" => signalled /\ \A c \in Clients : conn[c] # "active"

\* A token that is handed out is valid for some time: a reply with an
\* expires_in that is not positive would make clients ask again and again.
TokensLast ==
    \A c \in Clients : reply[c].status = 200 => reply[c].expires_in > 0

\* How main, the goroutine and the connections follow each other: nothing is
\* served before the setting is read, the goroutine sends one value and that
\* last, and it is told of a closed server only by a shutdown.
InOrder ==
    /\ server # "returned" => errs = <<>>
    /\ main = "start" =>
          server = "starting" /\ ~closing /\ \A c \in Clients : conn[c] = "none"
    /\ main = "select" => ~closing /\ (errs # <<>> => Head(errs) = "error")
    /\ main = "shutdown" => signalled
    /\ main \in {"select", "shutdown"} => expiresIn > 0

\* The goroutine never blocks on its channel, and a setting that would give
\* tokens without a lifetime is refused before anything is served.
StubInv == TypeOK /\ InOrder /\ TokensLast

\* After a signal the process ends, whatever its clients do: one that never
\* finishes its request holds it up for the grace period and no longer
\* ("docker compose down is not held up by a wedged connection").  What the
\* goroutine sends ends it too: a stub that cannot listen does not go on
\* without a server.
EndsWhenItMust == signalled \/ server = "returned" ~> Exited
=============================================================================

----------------------------- MODULE Processes -----------------------------
(***************************************************************************)
(* A process of cmd/server, cmd/server-rest or cmd/server-dual, from its    *)
(* flags to its exit: the main goroutine, the goroutine that serves gRPC,   *)
(* the one that starts the gateway and the one that serves HTTP, with the   *)
(* Start and Stop of internal/gateway.                                     *)
(*                                                                         *)
(* Of grpc and net/http the model has what main relies on: calls to a bound *)
(* port wait until somebody serves it; Shutdown and GracefulStop wait for   *)
(* the calls they find; Serve after GracefulStop returns an error, Serve    *)
(* after Shutdown closes its listener; a signal kills a process that has    *)
(* not asked to be notified.                                               *)
(***************************************************************************)
EXTENDS Integers, FiniteSets

CONSTANTS
    Binaries,    \* the programs of this instance
    Settings,    \* environments and flags they are started with
    DefaultPort, \* 9085, of server and server-dual
    RestPort,    \* 9086, of server-rest
    PortLimit,   \* 65535
    Calls,       \* calls of clients
    Via,         \* whether a call is gRPC, REST or a health probe
    MaxSignals,  \* bound: signals sent to the process
    None

\* EVENTARC_EMULATOR_HOST: the number its text begins with, if it does, and
\* the number behind its colon, if there is one.
Host == [head : Nat \cup {None}, port : Nat \cup {None}]

\* The environment and the flags; httpPort is that of the flag, the
\* environment or the default.
Setting == [host : Host \cup {None}, grpcPort : Int \cup {None}, port : Int \cup {None},
            httpPort : Int, validLevel : BOOLEAN]

ASSUME ProcessesAssumption ==
    /\ Binaries \subseteq {"server", "server-rest", "server-dual"}
    /\ Settings \subseteq Setting
    /\ None \notin Int /\ None \notin Host
    /\ PortLimit \in Nat /\ DefaultPort \in 1..PortLimit /\ RestPort \in 1..PortLimit
    /\ IsFiniteSet(Calls)
    /\ Via \in [Calls -> {"grpc", "http", "health"}]
    /\ MaxSignals \in Nat

VARIABLES
    binary, setting,
    main,      \* where the main goroutine is
    server,    \* where the goroutine that serves gRPC is
    starter,   \* where the goroutine that calls Gateway.Start is
    web,       \* where the goroutine that serves HTTP is
    grpc,      \* of the grpc.Server: new, serving, stopping or stopped
    down,      \* Shutdown was called on the http.Server
    conn,      \* of the gateway to the gRPC server: none, open or closed
    grpcPort,  \* the port bound for gRPC, or None
    httpPort,  \* the port bound for HTTP, or None
    ready,     \* history: "Ready to accept ..." was logged
    quit,      \* signals in the channel, which holds one
    signals,   \* signals sent
    exit,      \* none, 0, 1 or killed
    calls,     \* where every call is
    early      \* history: calls taken up before main received a signal

others == <<server, starter, web>>
net == <<grpc, down, conn, grpcPort, httpPort>>
fate == <<ready, quit, exit, calls>>
vars == <<binary, setting, main, others, net, fate, signals, early>>

Pending == {"queued", "accepted", "backend"}

TypeOK ==
    /\ binary \in Binaries /\ setting \in Settings
    /\ main \in {"flags", "listen", "new", "spawn", "gateway", "goStart", "wait", "notify",
                 "arm", "quit", "stop", "draining", "close", "graceful", "graceful2", "return"}
    /\ server \in {"none", "spawned", "ready", "serving", "returned"}
    /\ starter \in {"none", "spawned", "bound", "set"}
    /\ web \in {"none", "spawned", "serving", "closed"}
    /\ grpc \in {"new", "serving", "stopping", "stopped"}
    /\ down \in BOOLEAN /\ ready \in BOOLEAN
    /\ conn \in {"none", "open", "closed"}
    /\ grpcPort \in Int \cup {None} /\ httpPort \in Int \cup {None}
    /\ quit \in 0..1 /\ signals \in 0..MaxSignals
    /\ exit \in {"none", "0", "1", "killed"}
    /\ calls \in [Calls -> Pending \cup {"unsent", "answered", "failed", "cut"}]
    /\ early \subseteq Calls
    /\ binary = "server" => conn = "none" /\ starter = "none" /\ httpPort = None

Init ==
    /\ binary \in Binaries /\ setting \in Settings
    /\ main = "flags" /\ server = "none" /\ starter = "none" /\ web = "none"
    /\ grpc = "new" /\ down = FALSE /\ conn = "none"
    /\ grpcPort = None /\ httpPort = None
    /\ ready = FALSE /\ quit = 0 /\ signals = 0 /\ exit = "none"
    /\ calls = [c \in Calls |-> "unsent"] /\ early = {}

-----------------------------------------------------------------------------
(* What the flags and the environment say.                                 *)

\* getEnvPort: "%s:%d" never matches, as %s takes the colon, so what counts is
\* the number the text begins with.
GetEnvPort ==
    IF setting.host = None THEN DefaultPort
    ELSE IF setting.host.head # None THEN setting.host.head ELSE DefaultPort

\* The value of --grpc-port.
GrpcFlag ==
    IF setting.grpcPort # None THEN setting.grpcPort
    ELSE IF binary = "server-rest" THEN RestPort ELSE GetEnvPort

\* The value of the deprecated --port.
PortFlag == IF setting.port # None THEN setting.port ELSE GetEnvPort

\* Mutant: the deprecated flag comes first.
ListenPortOld == IF binary = "server" THEN PortFlag ELSE GrpcFlag

\* The port to listen on: that of --grpc-port, unless it is the default one.
ListenPort ==
    IF binary = "server" /\ GrpcFlag = DefaultPort THEN PortFlag ELSE GrpcFlag

InRange(p) == p \in 1..PortLimit

Accepted ==
    /\ setting.validLevel
    /\ InRange(GrpcFlag)
    /\ binary # "server" => InRange(setting.httpPort)

-----------------------------------------------------------------------------
(* The main goroutine.                                                     *)

Goto(place) == main' = place /\ UNCHANGED others

\* The process ends, and takes with it the calls that are not answered.
Exit(code) ==
    /\ exit' = code
    /\ calls' = [c \in Calls |-> IF calls[c] \in Pending THEN "cut" ELSE calls[c]]

\* log.Fatalf and os.Exit: what is deferred and what is running is abandoned.
Fatal == Exit("1") /\ UNCHANGED <<main, others, net, ready, quit>>

ParseFlags ==
    /\ main = "flags"
    /\ \/ Accepted /\ Goto("listen") /\ UNCHANGED <<net, fate>>
       \/ ~Accepted /\ Fatal

\* The ports net.Listen may bind: for port 0, which only --port and the
\* environment can name, one the system chooses.
Bindable(port) == IF port = 0 THEN 1..PortLimit ELSE {p \in {port} : InRange(p)}

\* The listener; a port that is out of range or taken ends the process.
Listen ==
    /\ main = "listen"
    /\ \/ /\ \E p \in Bindable(ListenPort) : grpcPort' = p
          /\ Goto("new")
          /\ UNCHANGED <<grpc, down, conn, httpPort, fate>>
       \/ Fatal

\* server.NewServer, which may fail to reach the IAM emulator, and the wiring.
NewServer ==
    /\ main = "new"
    /\ \/ Goto("spawn") /\ UNCHANGED <<net, fate>>
       \/ Fatal

AfterSpawn == IF binary = "server" THEN "wait" ELSE "gateway"

GoServe ==
    /\ main = "spawn"
    /\ server' = "spawned"
    /\ main' = AfterSpawn
    /\ UNCHANGED <<starter, web, net, fate>>

\* gateway.New, whose connection is made when it is first used.
NewGateway ==
    /\ main = "gateway"
    /\ \/ conn' = "open" /\ Goto("goStart") /\ UNCHANGED <<grpc, down, grpcPort, httpPort, fate>>
       \/ Fatal

GoStart ==
    /\ main = "goStart"
    /\ starter' = "spawned"
    /\ main' = "wait"
    /\ UNCHANGED <<server, web, net, fate>>

\* Mutant: readyCh is closed when Serve returns.
ClosedAfterServe == {"returned"}

\* Where the goroutine has closed readyCh: before it calls Serve.
Closed == {"ready", "serving", "returned"}

\* The receive from readyCh; "Ready to accept ..." is logged.
AwaitReady ==
    /\ main = "wait"
    /\ server \in Closed
    /\ ready' = TRUE
    /\ Goto("notify")
    /\ UNCHANGED <<net, quit, exit, calls>>

Notify == main = "notify" /\ Goto("arm") /\ UNCHANGED <<net, fate>>

\* main comes to the receive from the channel.
Arm == main = "arm" /\ Goto("quit") /\ UNCHANGED <<net, fate>>

AfterQuit == IF binary = "server" THEN "graceful" ELSE "stop"

ReceiveSignal ==
    /\ main = "quit"
    /\ quit > 0
    /\ quit' = quit - 1
    /\ Goto(AfterQuit)
    /\ UNCHANGED <<net, ready, exit, calls>>

\* Gateway.Stop: Shutdown, if httpSrv is set already, closes the listener that
\* is served.
Stop ==
    /\ main = "stop"
    /\ IF starter = "set"
       THEN /\ down' = TRUE
            /\ httpPort' = IF web = "serving" THEN None ELSE httpPort
            /\ Goto("draining")
            /\ UNCHANGED <<grpc, conn, grpcPort, fate>>
       ELSE Goto("close") /\ UNCHANGED <<net, fate>>

\* Calls the gateway has taken up and not answered.
Active == {c \in Calls : Via[c] # "grpc" /\ calls[c] \in {"accepted", "backend"}}

\* Mutant: Close, which does not wait.
DrainedAtOnce == TRUE

\* Shutdown waits until every connection is idle.
Drained == Active = {}

Drain ==
    /\ main = "draining"
    /\ Drained
    /\ Goto("close")
    /\ UNCHANGED <<net, fate>>

\* The connection to the gRPC server is closed, and the calls on it fail.
CloseConn ==
    /\ main = "close"
    /\ conn' = "closed"
    /\ calls' = [c \in Calls |->
                    IF c \in Active /\ calls[c] = "backend" THEN "failed" ELSE calls[c]]
    /\ Goto("graceful")
    /\ UNCHANGED <<grpc, down, grpcPort, httpPort, ready, quit, exit>>

\* GracefulStop: no new calls, the listener that is served is closed.
GracefulStop ==
    /\ main = "graceful"
    /\ grpc' = "stopping"
    /\ grpcPort' = IF server = "serving" THEN None ELSE grpcPort
    /\ Goto("graceful2")
    /\ UNCHANGED <<down, conn, httpPort, fate>>

\* It returns when no call is running.
Stopped ==
    /\ main = "graceful2"
    /\ \A c \in Calls : calls[c] # "backend"
    /\ grpc' = "stopped"
    /\ Goto("return")
    /\ UNCHANGED <<down, conn, grpcPort, httpPort, fate>>

Return == main = "return" /\ Exit("0") /\ UNCHANGED <<main, others, net, ready, quit>>

Steps ==
    \/ ParseFlags \/ Listen \/ NewServer \/ GoServe
    \/ AwaitReady \/ Notify \/ Arm \/ ReceiveSignal
    \/ GracefulStop \/ Stopped \/ Return

GatewaySteps == NewGateway \/ GoStart \/ Stop \/ Drain \/ CloseConn

\* The main functions.
ServerMain == binary = "server" /\ Steps
RestMain == binary = "server-rest" /\ (Steps \/ GatewaySteps)
DualMain == binary = "server-dual" /\ (Steps \/ GatewaySteps)

Main == ServerMain \/ RestMain \/ DualMain

-----------------------------------------------------------------------------
(* The other goroutines.                                                   *)

CloseReady ==
    /\ server = "spawned"
    /\ server' = "ready"
    /\ UNCHANGED <<main, starter, web, net, fate>>

\* grpc.Server.Serve: after GracefulStop it fails, and so does the process.
Serve ==
    /\ server = "ready"
    /\ \/ /\ grpc = "new"
          /\ server' = "serving" /\ grpc' = "serving"
          /\ UNCHANGED <<main, starter, web, down, conn, grpcPort, httpPort, fate>>
       \/ grpc # "new" /\ Fatal

\* After a GracefulStop that is done it returns nil.
ServeReturns ==
    /\ server = "serving" /\ grpc = "stopped"
    /\ server' = "returned"
    /\ UNCHANGED <<main, starter, web, net, fate>>

\* Gateway.Start.
StartListen ==
    /\ starter = "spawned"
    /\ \/ /\ starter' = "bound"
          /\ httpPort' = setting.httpPort
          /\ UNCHANGED <<main, server, web, grpc, down, conn, grpcPort, fate>>
       \/ Fatal

SetServer ==
    /\ starter = "bound"
    /\ starter' = "set" /\ web' = "spawned"
    /\ UNCHANGED <<main, server, net, fate>>

\* http.Server.Serve, whose error nobody reads.
ServeHTTP ==
    /\ web = "spawned"
    /\ web' = IF down THEN "closed" ELSE "serving"
    /\ httpPort' = IF down THEN None ELSE httpPort
    /\ UNCHANGED <<main, server, starter, grpc, down, conn, grpcPort, fate>>

Goroutines == CloseReady \/ Serve \/ ServeReturns \/ StartListen \/ SetServer \/ ServeHTTP

-----------------------------------------------------------------------------
(* Clients, and signals.                                                   *)

Fate(c, state) ==
    /\ calls' = [calls EXCEPT ![c] = state]
    /\ UNCHANGED <<main, others, net, ready, quit, exit>>

\* What a call taken up now is promised: main has not received a signal yet.
TakenUp(c) ==
    early' = IF main \in {"stop", "draining", "close", "graceful", "graceful2", "return"}
             THEN early ELSE early \cup {c}

\* A call to a bound port; the gRPC port of server-rest is not for clients.
Send(c) ==
    /\ calls[c] = "unsent"
    /\ IF Via[c] = "grpc" THEN binary # "server-rest" /\ grpcPort # None ELSE httpPort # None
    /\ Fate(c, "queued")
    /\ UNCHANGED early

AcceptHTTP(c) ==
    /\ Via[c] # "grpc" /\ calls[c] = "queued"
    /\ web = "serving" /\ ~down
    /\ Fate(c, "accepted") /\ TakenUp(c)

\* /healthz and /readyz ask nobody.
Probe(c) ==
    /\ Via[c] = "health" /\ calls[c] = "accepted"
    /\ Fate(c, "answered") /\ UNCHANGED early

\* A handler of the gateway calls the gRPC server: it waits for the server to
\* serve, and fails if the connection is closed or the server stops.
Forward(c) ==
    /\ Via[c] = "http" /\ calls[c] = "accepted"
    /\ \/ conn = "open" /\ grpc = "serving" /\ Fate(c, "backend")
       \/ (conn = "closed" \/ grpc \in {"stopping", "stopped"}) /\ Fate(c, "failed")
    /\ UNCHANGED early

AcceptGRPC(c) ==
    /\ Via[c] = "grpc" /\ calls[c] = "queued"
    /\ grpc = "serving"
    /\ Fate(c, "backend") /\ TakenUp(c)

Reply(c) ==
    /\ calls[c] = "backend"
    /\ Fate(c, "answered") /\ UNCHANGED early

Client(c) ==
    Send(c) \/ AcceptHTTP(c) \/ Probe(c) \/ Forward(c) \/ AcceptGRPC(c) \/ Reply(c)

\* Mutant: a channel without a buffer, whose signal is lost when nobody waits.
KeptUnbuffered == IF main = "quit" THEN 1 ELSE quit

\* Mutant: a channel that holds every signal.
KeptAll == quit + 1

\* The channel holds one signal; the next one is dropped.
Kept == 1

\* SIGINT or SIGTERM.
Signal ==
    /\ signals < MaxSignals
    /\ signals' = signals + 1
    /\ IF main \in {"flags", "listen", "new", "spawn", "gateway", "goStart", "wait", "notify"}
       THEN Exit("killed") /\ UNCHANGED quit
       ELSE quit' = Kept /\ UNCHANGED <<exit, calls>>
    /\ UNCHANGED <<main, others, net, ready>>

-----------------------------------------------------------------------------
\* The last disjunct: the process has ended, or main waits for a channel.
Next ==
    \/ /\ exit = "none"
       /\ \/ (Main \/ Goroutines) /\ UNCHANGED <<signals, early>>
          \/ (\E c \in Calls : Client(c)) /\ UNCHANGED signals
          \/ Signal /\ UNCHANGED early
       /\ UNCHANGED <<binary, setting>>
    \/ (exit # "none" \/ main \in {"wait", "quit"}) /\ UNCHANGED vars

Running(A) == exit = "none" /\ A /\ UNCHANGED <<binary, setting, signals>>

\* The scheduler runs every goroutine of the process.  Of the calls nothing is
\* assumed: a client may be slow with the body of its request for as long as it
\* likes, and keep a stream of the reflection service open.
Fairness ==
    /\ WF_vars(Running(Main /\ UNCHANGED early))
    /\ WF_vars(Running((CloseReady \/ Serve \/ ServeReturns) /\ UNCHANGED early))
    /\ WF_vars(Running((StartListen \/ SetServer \/ ServeHTTP) /\ UNCHANGED early))

Spec == Init /\ [][Next]_vars /\ Fairness

-----------------------------------------------------------------------------
(* Properties.                                                             *)

\* "Shutdown REST gateway first, then gRPC server": a call that was taken up
\* before main received the signal is answered, however the goroutines of the
\* start and the steps of the shutdown interleave.  It is lost only with a
\* process killed before it asked for signals, or whose gateway fails to start.
GracefulShutdown ==
    \A c \in early :
        calls[c] \in {"failed", "cut"} =>
            exit = "killed" \/ (exit = "1" /\ (main = "gateway" \/ starter = "spawned"))

\* A port named by --grpc-port is the one that is bound, unless it is the
\* default one.
FlagIsHonoured ==
    setting.grpcPort \notin {None, DefaultPort} => grpcPort \in {None, setting.grpcPort}

\* The start comes to an end: main logs Ready, or the process exits.
StartEnds == <>(ready \/ exit # "none")

\* No client holds a call that was taken up: what the process can do for it next,
\* to forward it or to answer it, happens.
ClientsKeepUp == \A c \in Calls : WF_vars(Running(Probe(c) \/ Forward(c) \/ Reply(c)))

\* A signal ends the process, also one that comes before main waits for it, if no
\* client holds a call: GracefulStop and Shutdown have no deadline.  Main, the
\* server, the gateway and the calls between them never wait for each other.
SignalEnds == ClientsKeepUp => (signals > 0 ~> exit # "none")

\* "Ready" only appears after the listener is confirmed up: from then on, until
\* a signal, the ports of the binary are bound.
ReadyMeansListening ==
    ready /\ exit = "none" /\ main \in {"notify", "arm", "quit"} =>
        /\ grpcPort # None
        /\ binary # "server" => httpPort # None
=============================================================================

--------------------------- MODULE Processes_proofs ---------------------------
(***************************************************************************)
(* Theorems about Processes, for any of the three binaries, any settings,  *)
(* ports, calls and number of signals.                                     *)
(***************************************************************************)
EXTENDS Processes, TLAPS

\* Gateway.Stop is past its Shutdown.
Shut == {"close", "graceful", "graceful2", "return"}

-----------------------------------------------------------------------------
(* The inductive invariant.                                                *)

\* How far one goroutine can be when another has come to a place.
Order ==
    /\ main \in {"flags", "listen", "new", "spawn"} => server = "none"
    /\ main \in {"flags", "listen", "new", "spawn", "gateway", "goStart"} => starter = "none"
    /\ starter # "set" => web = "none"
    /\ server \in {"none", "spawned", "ready"} => grpc # "serving"
    /\ main = "graceful2" <=> grpc = "stopping"
    /\ main = "return" <=> grpc = "stopped"
    /\ conn = "closed" => main \in {"graceful", "graceful2", "return"}
    /\ main = "draining" => down

\* Calls that were taken up before the signal are running or answered, and
\* answered where the shutdown has waited for them.
Safe(c) ==
    /\ calls[c] \in {"accepted", "backend", "answered"}
    /\ Via[c] = "grpc" => server \in {"serving", "returned"}
    /\ Via[c] # "grpc" => starter = "set" /\ (main \in Shut => calls[c] = "answered")

Taken ==
    exit = "none" =>
        /\ \A c \in Calls : calls[c] = "accepted" => Via[c] # "grpc"
        /\ main = "return" => \A c \in Calls : calls[c] # "backend"
        /\ \A c \in early : Safe(c)

\* The flags decide the port, after main has looked at --grpc-port, and nothing
\* else does.
Bound ==
    /\ main = "listen" => InRange(GrpcFlag)
    /\ grpcPort # None => InRange(GrpcFlag) /\ grpcPort \in Bindable(ListenPort)

ProcessInv == TypeOK /\ Order /\ Taken /\ Bound /\ GracefulShutdown

LEMMA InvInit == Init => ProcessInv
  <1> SUFFICES ASSUME Init PROVE ProcessInv
    OBVIOUS
  <1>1. TypeOK
    <2>1. 0 \in 0..MaxSignals /\ 0 \in 0..1
      BY ProcessesAssumption
    <2>2. calls \in [Calls -> Pending \cup {"unsent", "answered", "failed", "cut"}]
      BY DEF Init
    <2> QED
      BY <2>1, <2>2 DEF Init, TypeOK
  <1>2. Order /\ Taken /\ Bound /\ GracefulShutdown
    BY DEF Init, Order, Taken, Bound, GracefulShutdown
  <1> QED
    BY <1>1, <1>2 DEF ProcessInv

\* An exit cuts the calls that are pending, and no others.
LEMMA ExitCuts ==
    ASSUME TypeOK, NEW code, Exit(code)
    PROVE  /\ calls' \in [Calls -> Pending \cup {"unsent", "answered", "failed", "cut"}]
           /\ exit' = code
           /\ \A c \in Calls : calls[c] = "answered" => calls'[c] = "answered"
  BY DEF Exit, TypeOK, Pending

LEMMA TypeStep ==
    ASSUME TypeOK, [Next]_vars
    PROVE  TypeOK'
  <1>1. ASSUME Main, UNCHANGED <<signals, early, binary, setting>> PROVE TypeOK'
    <2>1. CASE ParseFlags
      BY <1>1, <2>1, ExitCuts
         DEF ParseFlags, Fatal, Goto, others, net, fate, TypeOK
    <2>2. CASE Listen
      <3>1. Bindable(ListenPort) \subseteq Int
        BY ProcessesAssumption DEF Bindable, InRange
      <3> QED
        BY <1>1, <2>2, <3>1, ExitCuts DEF Listen, Fatal, Goto, others, net, fate, TypeOK
    <2>3. CASE NewServer
      BY <1>1, <2>3, ExitCuts DEF NewServer, Fatal, Goto, others, net, fate, TypeOK
    <2>4. CASE GoServe
      BY <1>1, <2>4 DEF GoServe, AfterSpawn, net, fate, TypeOK
    <2>5. CASE AwaitReady \/ Notify \/ Arm
      BY <1>1, <2>5 DEF AwaitReady, Notify, Arm, Goto, others, net, fate, TypeOK
    <2>6. CASE ReceiveSignal
      BY <1>1, <2>6 DEF ReceiveSignal, AfterQuit, Goto, others, net, TypeOK
    <2>7. CASE GracefulStop \/ Stopped
      BY <1>1, <2>7 DEF GracefulStop, Stopped, Goto, others, fate, TypeOK
    <2>8. CASE Return
      BY <1>1, <2>8, ExitCuts DEF Return, others, net, TypeOK
    <2>9. CASE binary # "server" /\ NewGateway
      BY <1>1, <2>9, ExitCuts DEF NewGateway, Fatal, Goto, others, net, fate, TypeOK
    <2>10. CASE binary # "server" /\ (GoStart \/ Stop \/ Drain)
      BY <1>1, <2>10 DEF GoStart, Stop, Drain, Goto, others, net, fate, TypeOK
    <2>11. CASE binary # "server" /\ CloseConn
      <3>1. calls' \in [Calls -> Pending \cup {"unsent", "answered", "failed", "cut"}]
        BY <2>11 DEF CloseConn, TypeOK
      <3> QED
        BY <1>1, <2>11, <3>1 DEF CloseConn, Goto, others, TypeOK
    <2> QED
      BY <1>1, <2>1, <2>2, <2>3, <2>4, <2>5, <2>6, <2>7, <2>8, <2>9, <2>10, <2>11
         DEF Main, ServerMain, RestMain, DualMain, Steps, GatewaySteps
  <1>2. ASSUME Goroutines, UNCHANGED <<signals, early, binary, setting>> PROVE TypeOK'
    <2>1. setting.httpPort \in Int
      BY ProcessesAssumption DEF TypeOK, Setting
    <2>2. CASE Serve \/ StartListen
      BY <1>2, <2>1, <2>2, ExitCuts
         DEF Serve, StartListen, Fatal, others, net, fate, TypeOK
    <2>3. CASE CloseReady \/ ServeReturns \/ SetServer \/ ServeHTTP
      BY <1>2, <2>3 DEF CloseReady, ServeReturns, SetServer, ServeHTTP, net, fate, TypeOK
    <2> QED
      BY <1>2, <2>2, <2>3 DEF Goroutines
  <1>3. ASSUME NEW c \in Calls, Client(c), UNCHANGED <<signals, binary, setting>>
        PROVE  TypeOK'
    <2>1. PICK s \in {"queued", "accepted", "backend", "answered", "failed"} : Fate(c, s)
      BY <1>3 DEF Client, Send, AcceptHTTP, Probe, Forward, AcceptGRPC, Reply
    <2>2. calls' \in [Calls -> Pending \cup {"unsent", "answered", "failed", "cut"}]
      BY <2>1 DEF Fate, TypeOK, Pending
    <2>3. early' \subseteq Calls
      BY <1>3 DEF Client, Send, AcceptHTTP, Probe, Forward, AcceptGRPC, Reply, TakenUp, TypeOK
    <2> QED
      BY <1>3, <2>1, <2>2, <2>3 DEF Fate, others, net, TypeOK
  <1>4. ASSUME Signal, UNCHANGED <<early, binary, setting>> PROVE TypeOK'
    <2>1. signals' \in 0..MaxSignals
      BY <1>4, ProcessesAssumption DEF Signal, TypeOK
    <2> QED
      BY <1>4, <2>1, ExitCuts DEF Signal, Kept, others, net, TypeOK
  <1>5. CASE UNCHANGED vars
    BY <1>5 DEF vars, others, net, fate, TypeOK
  <1> QED
    BY <1>1, <1>2, <1>3, <1>4, <1>5 DEF Next

LEMMA OrderStep ==
    ASSUME TypeOK, Order, [Next]_vars
    PROVE  Order'
  <1> USE DEF TypeOK, Order
  <1>1. ASSUME Main PROVE Order'
    <2>1. CASE ParseFlags \/ Listen \/ NewServer
      BY <2>1 DEF ParseFlags, Listen, NewServer, Fatal, Goto, others, net, fate
    <2>2. CASE GoServe
      BY <2>2 DEF GoServe, AfterSpawn, net, fate
    <2>3. CASE AwaitReady \/ Notify \/ Arm
      BY <2>3 DEF AwaitReady, Closed, Notify, Arm, Goto, others, net, fate
    <2>4. CASE ReceiveSignal
      BY <2>4 DEF ReceiveSignal, AfterQuit, Goto, others, net
    <2>5. CASE GracefulStop \/ Stopped
      BY <2>5 DEF GracefulStop, Stopped, Goto, others, fate
    <2>6. CASE Return
      BY <2>6 DEF Return, Exit, others, net
    <2>7. CASE NewGateway \/ GoStart
      BY <2>7 DEF NewGateway, GoStart, Fatal, Goto, others, net, fate
    <2>8. CASE Stop \/ Drain \/ CloseConn
      BY <2>8 DEF Stop, Drain, CloseConn, Goto, others, net, fate
    <2> QED
      BY <1>1, <2>1, <2>2, <2>3, <2>4, <2>5, <2>6, <2>7, <2>8
         DEF Main, ServerMain, RestMain, DualMain, Steps, GatewaySteps
  <1>2. ASSUME Goroutines PROVE Order'
    BY <1>2 DEF Goroutines, CloseReady, Serve, ServeReturns, StartListen, SetServer, ServeHTTP,
                Fatal, others, net, fate
  <1>3. ASSUME NEW c \in Calls, Client(c) PROVE Order'
    BY <1>3 DEF Client, Send, AcceptHTTP, Probe, Forward, AcceptGRPC, Reply, Fate, others, net
  <1>4. ASSUME Signal PROVE Order'
    BY <1>4 DEF Signal, others, net
  <1>5. CASE UNCHANGED vars
    BY <1>5 DEF vars, others, net
  <1> QED
    BY <1>1, <1>2, <1>3, <1>4, <1>5 DEF Next

\* The listener is bound once, to a port the flags ask for.
LEMMA BoundStep ==
    ASSUME Bound, [Next]_vars
    PROVE  Bound'
  <1> DEFINE kept == grpcPort' \in {grpcPort, None} /\ (main' = "listen" => main = "listen")
  <1>1. /\ InRange(GrpcFlag)' <=> InRange(GrpcFlag)
        /\ Bindable(ListenPort)' = Bindable(ListenPort)
    BY DEF Next, vars, InRange, Bindable, ListenPort, PortFlag, GrpcFlag, GetEnvPort
  <1>2. CASE ParseFlags
    BY <1>1, <1>2 DEF ParseFlags, Accepted, Goto, Fatal, others, net, Bound
  <1>3. CASE Listen
    BY <1>1, <1>3 DEF Listen, Goto, Fatal, others, net, Bound
  <1>4. ASSUME Main, ~ParseFlags, ~Listen PROVE kept
    BY <1>4 DEF Main, ServerMain, RestMain, DualMain, Steps, GatewaySteps,
                NewServer, GoServe, AfterSpawn, NewGateway, GoStart, AwaitReady, Notify, Arm,
                ReceiveSignal, AfterQuit, Stop, Drain, CloseConn, GracefulStop, Stopped,
                Return, Goto, Fatal, others, net
  <1>5. ASSUME Goroutines PROVE kept
    BY <1>5 DEF Goroutines, CloseReady, Serve, ServeReturns, StartListen, SetServer,
                ServeHTTP, Fatal, others, net
  <1>6. ASSUME NEW c \in Calls, Client(c) PROVE kept
    BY <1>6 DEF Client, Send, AcceptHTTP, Probe, Forward, AcceptGRPC, Reply, Fate, others, net
  <1>7. ASSUME Signal \/ UNCHANGED vars PROVE kept
    BY <1>7 DEF Signal, vars, others, net
  <1>8. kept => Bound'
    BY <1>1 DEF Bound
  <1> QED
    BY <1>2, <1>3, <1>4, <1>5, <1>6, <1>7, <1>8 DEF Next

\* When the process exits by itself, no call that main owes an answer is running.
\* Without an exit, calls stay safe.
LEMMA MainStep ==
    ASSUME TypeOK, Order, Order', Taken, exit = "none", Main, UNCHANGED early
    PROVE  Taken' /\ GracefulShutdown'
  <1> USE DEF TypeOK
  \* Steps that leave the calls alone.
  <1>1. ASSUME UNCHANGED <<calls, exit, starter>>, server' = server \/ server = "none",
               main' \in Shut =>
                   main \in Shut \/ \A c \in early : Via[c] # "grpc" => calls[c] = "answered",
               main' = "return" => \A c \in Calls : calls[c] # "backend"
        PROVE  Taken' /\ GracefulShutdown'
    BY <1>1 DEF Taken, Safe, GracefulShutdown
  <1>2. CASE ParseFlags \/ Listen \/ NewServer
    <2>1. early = {}
      <3>1. server = "none" /\ starter = "none"
        BY <1>2 DEF ParseFlags, Listen, NewServer, Order
      <3> QED
        BY <3>1 DEF Taken, Safe
    <2>2. CASE Fatal
      BY <2>1, <2>2 DEF Fatal, Exit, Taken, GracefulShutdown
    <2>3. CASE ~Fatal
      BY <1>1, <1>2, <2>1, <2>3
         DEF ParseFlags, Listen, NewServer, Goto, others, net, fate, Shut
    <2> QED
      BY <2>2, <2>3
  <1>3. CASE GoServe
    BY <1>1, <1>3 DEF GoServe, AfterSpawn, Order, net, fate, Shut
  <1>4. CASE GoStart
    <2>1. starter # "set"
      BY <1>4 DEF GoStart, Order
    <2> QED
      BY <1>4, <2>1 DEF GoStart, Taken, Safe, GracefulShutdown, net, fate, Shut
  <1>5. CASE AwaitReady \/ Notify \/ Arm
    BY <1>1, <1>5 DEF AwaitReady, Notify, Arm, Goto, others, net, fate, Shut
  <1>6. CASE ReceiveSignal /\ binary # "server"
    BY <1>1, <1>6 DEF ReceiveSignal, AfterQuit, Goto, others, net, Shut
  <1>7. CASE ReceiveSignal /\ binary = "server"
    <2>1. \A c \in early : Via[c] = "grpc"
      BY <1>7 DEF Taken, Safe
    <2> QED
      BY <1>1, <1>7, <2>1 DEF ReceiveSignal, AfterQuit, Goto, others, net, Shut
  <1>8. CASE GracefulStop
    BY <1>1, <1>8 DEF GracefulStop, Goto, others, fate, Shut
  <1>9. CASE Stopped
    BY <1>1, <1>9 DEF Stopped, Goto, others, fate, Shut
  <1>10. CASE Return
    <2>1. \A c \in early : calls[c] = "answered"
      BY <1>10 DEF Return, Taken, Safe, Shut
    <2>2. \A c \in early : calls'[c] = "answered"
      BY <1>10, <2>1, ExitCuts DEF Return
    <2>3. exit' = "0"
      BY <1>10 DEF Return, Exit
    <2> QED
      BY <2>2, <2>3 DEF Taken, GracefulShutdown
  <1>11. CASE NewGateway
    <2>1. CASE Fatal
      BY <1>11, <2>1 DEF NewGateway, Fatal, Exit, Taken, GracefulShutdown
    <2>2. CASE ~Fatal
      BY <1>1, <1>11, <2>2 DEF NewGateway, Goto, others, fate, Shut
    <2> QED
      BY <2>1, <2>2
  <1>12. CASE Stop
    <2>1. starter # "set" => \A c \in early : Via[c] = "grpc"
      BY DEF Taken, Safe
    <2> QED
      BY <1>1, <1>12, <2>1 DEF Stop, Goto, others, net, fate, Shut
  <1>13. CASE Drain
    <2>1. \A c \in early : Via[c] # "grpc" => calls[c] = "answered"
      BY <1>13 DEF Drain, Drained, Active, Taken, Safe
    <2> QED
      BY <1>1, <1>13, <2>1 DEF Drain, Goto, others, net, fate, Shut
  <1>14. CASE CloseConn
    <2>1. main = "close" /\ main' = "graceful" /\ UNCHANGED <<exit, others>>
      BY <1>14 DEF CloseConn, Goto
    <2>2. \A c \in Calls :
             calls'[c] = IF c \in Active /\ calls[c] = "backend" THEN "failed" ELSE calls[c]
      BY <1>14 DEF CloseConn
    <2>3. ASSUME NEW c \in early PROVE calls'[c] = calls[c]
      BY <2>1, <2>2 DEF Taken, Safe, Active, Shut
    <2> QED
      BY <2>1, <2>2, <2>3 DEF Taken, Safe, GracefulShutdown, Shut, others
  <1> QED
    BY <1>2, <1>3, <1>4, <1>5, <1>6, <1>7, <1>8, <1>9, <1>10, <1>11, <1>12, <1>13, <1>14
       DEF Main, ServerMain, RestMain, DualMain, Steps, GatewaySteps

\* Serve fails only after GracefulStop, when the calls of the gateway are answered
\* and no gRPC call was ever taken up.
LEMMA GoroutineStep ==
    ASSUME TypeOK, Order, Taken, exit = "none", Goroutines, UNCHANGED early
    PROVE  Taken' /\ GracefulShutdown'
  <1> USE DEF TypeOK
  <1>1. CASE CloseReady \/ ServeReturns
    BY <1>1 DEF CloseReady, ServeReturns, Taken, Safe, GracefulShutdown, net, fate, Shut
  <1>2. CASE Serve
    <2>1. CASE Fatal
      <3>1. \A c \in early : calls[c] = "answered"
        <4>1. server = "ready" /\ main \in Shut
          BY <1>2, <2>1 DEF Serve, Fatal, others, Order, Shut
        <4> QED
          BY <4>1 DEF Taken, Safe
      <3>2. exit' = "1" /\ \A c \in early : calls'[c] = "answered"
        BY <2>1, <3>1, ExitCuts DEF Fatal
      <3> QED
        BY <3>2 DEF Taken, GracefulShutdown
    <2>2. CASE ~Fatal
      BY <1>2, <2>2 DEF Serve, Taken, Safe, GracefulShutdown, fate, Shut
    <2> QED
      BY <2>1, <2>2
  <1>3. CASE StartListen
    <2>1. CASE Fatal
      BY <1>3, <2>1 DEF StartListen, Fatal, Exit, Taken, GracefulShutdown, others
    <2>2. CASE ~Fatal
      BY <1>3, <2>2 DEF StartListen, Taken, Safe, GracefulShutdown, fate, Shut
    <2> QED
      BY <2>1, <2>2
  <1>4. CASE SetServer \/ ServeHTTP
    BY <1>4 DEF SetServer, ServeHTTP, Taken, Safe, GracefulShutdown, net, fate, Shut
  <1> QED
    BY <1>1, <1>2, <1>3, <1>4 DEF Goroutines

\* What a client or a handler does to a call.
LEMMA ClientStep ==
    ASSUME TypeOK, Order, Taken, exit = "none", NEW c \in Calls, Client(c)
    PROVE  Taken' /\ GracefulShutdown'
  <1> USE DEF TypeOK
  <1>1. PICK s \in {"queued", "accepted", "backend", "answered", "failed"} : Fate(c, s)
    BY DEF Client, Send, AcceptHTTP, Probe, Forward, AcceptGRPC, Reply
  <1>2. /\ calls'[c] = s /\ \A d \in Calls : d # c => calls'[d] = calls[d]
        /\ UNCHANGED <<main, server, starter, exit>>
    BY <1>1 DEF Fate, others
  <1>3. early' \subseteq early \cup {c}
    BY DEF Client, Send, AcceptHTTP, Probe, Forward, AcceptGRPC, Reply, TakenUp
  <1>4. s = "accepted" => Via[c] # "grpc"
    BY <1>2 DEF Client, Send, AcceptHTTP, Probe, Forward, AcceptGRPC, Reply, Fate
  <1>5. s = "backend" => main # "return"
    BY <1>2 DEF Client, Send, AcceptHTTP, Probe, Forward, AcceptGRPC, Reply, Fate, Order
  <1>6. ASSUME c \in early' PROVE Safe(c)'
    <2>1. CASE Send(c)
      BY <1>6, <2>1 DEF Send, Taken, Safe
    <2>2. CASE AcceptHTTP(c)
      <3>1. /\ Via[c] # "grpc" /\ s = "accepted" /\ starter = "set"
            /\ calls[c] = "queued"
        BY <1>2, <2>2 DEF AcceptHTTP, Order, Fate
      <3>2. c \notin early
        BY <3>1 DEF Taken, Safe
      <3>3. main \notin Shut
        BY <1>6, <2>2, <3>2 DEF AcceptHTTP, TakenUp, Shut
      <3> QED
        BY <1>2, <3>1, <3>3 DEF Safe
    <2>3. CASE AcceptGRPC(c)
      <3>1. Via[c] = "grpc" /\ s = "backend" /\ server \in {"serving", "returned"}
        BY <1>2, <2>3 DEF AcceptGRPC, Order, Fate
      <3> QED
        BY <1>2, <3>1 DEF Safe
    <2>4. CASE Probe(c) \/ Reply(c)
      <3>1. s = "answered" /\ c \in early
        BY <1>2, <1>6, <2>4 DEF Probe, Reply, Fate
      <3> QED
        BY <1>2, <3>1 DEF Taken, Safe
    <2>5. CASE Forward(c)
      <3>1. Via[c] # "grpc" /\ calls[c] = "accepted" /\ c \in early
        BY <1>6, <2>5 DEF Forward
      <3>2. main \notin Shut
        BY <3>1 DEF Taken, Safe
      <3>3. s = "backend"
        BY <1>2, <2>5, <3>2 DEF Forward, Fate, Order, Shut
      <3> QED
        BY <1>2, <3>1, <3>2, <3>3 DEF Taken, Safe
    <2> QED
      BY <2>1, <2>2, <2>3, <2>4, <2>5 DEF Client
  <1>7. ASSUME NEW d \in early', d # c PROVE Safe(d)'
    BY <1>2, <1>3, <1>7 DEF Taken, Safe
  <1>8. Taken'
    <2>1. \A d \in Calls : calls'[d] = "accepted" => Via[d] # "grpc"
      BY <1>2, <1>4 DEF Taken
    <2>2. main' = "return" => \A d \in Calls : calls'[d] # "backend"
      BY <1>2, <1>5 DEF Taken
    <2> QED
      BY <1>6, <1>7, <2>1, <2>2 DEF Taken
  <1>9. GracefulShutdown'
    BY <1>6, <1>7 DEF GracefulShutdown, Safe
  <1> QED
    BY <1>8, <1>9

LEMMA SignalStep ==
    ASSUME TypeOK, Order, Taken, exit = "none", Signal, UNCHANGED early
    PROVE  Taken' /\ GracefulShutdown'
  <1>1. CASE Exit("killed")
    BY <1>1 DEF Exit, Taken, GracefulShutdown
  <1>2. CASE ~Exit("killed")
    BY <1>2 DEF TypeOK, Signal, Taken, Safe, GracefulShutdown, others
  <1> QED
    BY <1>1, <1>2

LEMMA InvStep == ProcessInv /\ [Next]_vars => ProcessInv'
  <1> SUFFICES ASSUME ProcessInv, [Next]_vars PROVE ProcessInv'
    OBVIOUS
  <1> USE DEF ProcessInv
  <1>1. TypeOK' /\ Order' /\ Bound'
    BY TypeStep, OrderStep, BoundStep
  <1>2. Taken' /\ GracefulShutdown'
    <2>1. CASE UNCHANGED vars
      BY <2>1 DEF vars, others, fate, Taken, Safe, GracefulShutdown
    <2>2. CASE exit = "none" /\ (Main \/ Goroutines) /\ UNCHANGED early
      BY <1>1, <2>2, MainStep, GoroutineStep
    <2>3. CASE exit = "none" /\ \E c \in Calls : Client(c)
      BY <2>3, ClientStep
    <2>4. CASE exit = "none" /\ Signal /\ UNCHANGED early
      BY <2>4, SignalStep
    <2> QED
      BY <2>1, <2>2, <2>3, <2>4 DEF Next
  <1> QED
    BY <1>1, <1>2

LEMMA InvCorrect == Spec => []ProcessInv
  <1> QED
    BY InvInit, InvStep, PTL DEF Spec

\* TypeOK: the goroutines stay at the places of the code, the channel of signals
\* holds one, and the gRPC-only server starts no gateway.
THEOREM TypeCorrect == Spec => []TypeOK
  <1>1. ProcessInv => TypeOK
    BY DEF ProcessInv
  <1> QED
    BY <1>1, InvCorrect, PTL

\* GracefulShutdown: the order of main's shutdown, gateway first, loses no call
\* that was taken up before the signal, wherever the other goroutines are; only a
\* kill before Notify, or a gateway that cannot start, does.
THEOREM ShutdownIsGraceful == Spec => []GracefulShutdown
  <1>1. ProcessInv => GracefulShutdown
    BY DEF ProcessInv
  <1> QED
    BY <1>1, InvCorrect, PTL

\* FlagIsHonoured: a --grpc-port that is not the default one is the port bound,
\* whatever --port and the environment say.
THEOREM FlagHonoured == Spec => []FlagIsHonoured
  <1>1. ASSUME ProcessInv, setting.grpcPort \notin {None, DefaultPort}, grpcPort # None
        PROVE  grpcPort = setting.grpcPort
    <2>1. GrpcFlag = setting.grpcPort /\ ListenPort = setting.grpcPort
      BY <1>1 DEF GrpcFlag, ListenPort
    <2>2. ListenPort # 0 /\ grpcPort \in Bindable(ListenPort)
      BY <1>1, <2>1, ProcessesAssumption DEF ProcessInv, Bound, InRange
    <2> QED
      BY <2>1, <2>2 DEF Bindable
  <1>2. ProcessInv => FlagIsHonoured
    BY <1>1 DEF FlagIsHonoured
  <1> QED
    BY <1>2, InvCorrect, PTL

-----------------------------------------------------------------------------
(* When Ready means listening.                                             *)

\* main has bound the gRPC port, and no signal has reached it.
Up == {"new", "spawn", "gateway", "goStart", "wait", "notify", "arm", "quit"}

\* The goroutine that starts the gateway, if the binary has one, has bound the
\* HTTP port.
GatewayBound == binary # "server" => starter \in {"bound", "set"}

\* A port that is bound stays so until the shutdown.
PortsStay ==
    /\ down => main \in {"draining"} \cup Shut
    /\ main \in Up => grpcPort # None
    /\ main \in Up /\ starter \in {"bound", "set"} => httpPort # None

LEMMA PortsStayStep ==
    ASSUME TypeOK, Order, PortsStay, [Next]_vars
    PROVE  PortsStay'
  <1>1. CASE Main
    <2>1. CASE ParseFlags
      BY <2>1 DEF ParseFlags, Fatal, Goto, others, net, fate, PortsStay, Up, Shut
    <2>2. CASE Listen
      <3>1. None \notin Bindable(ListenPort)
        BY ProcessesAssumption DEF Bindable, InRange
      <3>2. main = "listen" /\ starter = "none" /\ UNCHANGED <<starter, down>>
        BY <2>2 DEF Listen, Fatal, Goto, others, net, Order
      <3> QED
        BY <2>2, <3>1, <3>2 DEF Listen, Fatal, Goto, others, net, PortsStay, Up, Shut
    <2>3. CASE NewServer \/ NewGateway
      BY <2>3 DEF NewServer, NewGateway, Fatal, Goto, others, net, fate, PortsStay, Up, Shut
    <2>4. CASE GoServe \/ GoStart
      BY <2>4 DEF GoServe, GoStart, AfterSpawn, net, fate, PortsStay, Up, Shut
    <2>5. CASE AwaitReady \/ Notify \/ Arm \/ ReceiveSignal
      BY <2>5 DEF AwaitReady, Notify, Arm, ReceiveSignal, AfterQuit, Goto, others, net, fate,
                  PortsStay, Up, Shut
    <2>6. CASE Stop \/ Drain \/ CloseConn
      BY <2>6 DEF Stop, Drain, CloseConn, Goto, others, net, PortsStay, Up, Shut
    <2>7. CASE GracefulStop \/ Stopped \/ Return
      BY <2>7 DEF GracefulStop, Stopped, Return, Goto, others, net, PortsStay, Up, Shut
    <2> QED
      BY <1>1, <2>1, <2>2, <2>3, <2>4, <2>5, <2>6, <2>7
         DEF Main, ServerMain, RestMain, DualMain, Steps, GatewaySteps
  <1>2. CASE Goroutines
    <2>1. CASE CloseReady \/ Serve \/ ServeReturns \/ SetServer
      BY <2>1 DEF CloseReady, Serve, ServeReturns, SetServer, Fatal, others, net, PortsStay
    <2>2. CASE StartListen
      <3>1. setting.httpPort # None
        BY ProcessesAssumption DEF TypeOK, Setting
      <3> QED
        BY <2>2, <3>1 DEF StartListen, Fatal, others, net, PortsStay
    <2>3. CASE ServeHTTP
      BY <2>3 DEF ServeHTTP, PortsStay, Up, Shut
    <2> QED
      BY <1>2, <2>1, <2>2, <2>3 DEF Goroutines
  <1>3. ASSUME NEW c \in Calls, Client(c) PROVE PortsStay'
    BY <1>3 DEF Client, Send, AcceptHTTP, Probe, Forward, AcceptGRPC, Reply, Fate, others, net,
                PortsStay
  <1>4. CASE Signal
    BY <1>4 DEF Signal, others, net, PortsStay
  <1>5. CASE UNCHANGED vars
    BY <1>5 DEF vars, others, net, PortsStay
  <1> QED
    BY <1>1, <1>2, <1>3, <1>4, <1>5 DEF Next

\* ReadyMeansListening: the gRPC port is bound when Ready is logged, and from then
\* on until a signal all ports are, in every state in which the goroutine of the
\* gateway has got as far as its Listen.  The binary without gateway is always
\* as ready as it says.
THEOREM ReadyOnceGatewayBound ==
    Spec => [](/\ GatewayBound => ReadyMeansListening
               /\ ready /\ exit = "none" /\ main \in {"notify", "arm", "quit"}
                    => grpcPort # None)
  <1>1. Init => PortsStay
    BY DEF Init, PortsStay, Up
  <1>2. ProcessInv /\ PortsStay /\ [Next]_vars => PortsStay'
    BY PortsStayStep DEF ProcessInv
  <1>3. PortsStay => /\ GatewayBound => ReadyMeansListening
                     /\ ready /\ exit = "none" /\ main \in {"notify", "arm", "quit"}
                          => grpcPort # None
    BY DEF PortsStay, GatewayBound, ReadyMeansListening, Up
  <1> QED
    BY <1>1, <1>2, <1>3, InvCorrect, PTL DEF Spec
=============================================================================

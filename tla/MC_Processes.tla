---------------------------- MODULE MC_Processes ----------------------------
(***************************************************************************)
(* A small instance of Processes for TLC: every binary, a few ways to start *)
(* it, a gRPC call, two REST calls and a health probe, and two signals.    *)
(***************************************************************************)
EXTENDS Processes

SomeVia == [c \in Calls |-> CASE c = "g" -> "grpc" [] c = "h" -> "health" [] OTHER -> "http"]

Plain == [host |-> None, grpcPort |-> None, port |-> None, httpPort |-> 2, validLevel |-> TRUE]

\* No flags; EVENTARC_EMULATOR_HOST as a name, an address and a bare number;
\* --grpc-port with --port; --port out of range, and 0; and what main refuses.
SomeSettings ==
    {Plain,
     [Plain EXCEPT !.host = [head |-> None, port |-> 5]],
     [Plain EXCEPT !.host = [head |-> 7, port |-> 5]],
     [Plain EXCEPT !.host = [head |-> 5, port |-> None], !.grpcPort = 4],
     [Plain EXCEPT !.grpcPort = 4, !.port = 5],
     [Plain EXCEPT !.port = 9],
     [Plain EXCEPT !.port = 0],
     [Plain EXCEPT !.grpcPort = 0],
     [Plain EXCEPT !.httpPort = 9],
     [Plain EXCEPT !.validLevel = FALSE]}
=============================================================================

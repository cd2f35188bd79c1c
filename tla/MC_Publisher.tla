---------------------------- MODULE MC_Publisher ----------------------------
(***************************************************************************)
(* Two triggers in location "p" and one in "q"; a channel and a connection *)
(* in "p".                                                                 *)
(***************************************************************************)
EXTENDS Publisher

Names == {<<"p", "triggers", "s">>, <<"p", "triggers", "t">>, <<"q", "triggers", "t">>}
Channel == <<"p", "channels", "c">>
Channels == {Channel}

Exact(attr, value) == [attribute |-> attr, operator |-> "", value |-> value]
Path(attr, value) ==
    [attribute |-> attr, operator |-> "match-path-pattern", value |-> value]

\* By type; by type, with a destination the dispatcher does not support; by type
\* and condition; by a path pattern.
Everything == [filters |-> {Exact("type", <<"made">>)}, condition |-> {},
               destination |-> "cloud_run"]
Nowhere == [filters |-> {Exact("type", <<"made">>)}, condition |-> {},
            destination |-> "unsupported"]
Elsewhere == [filters |-> {Exact("type", <<"made">>)},
              condition |-> {[attribute |-> "origin", operator |-> "!=", value |-> <<"x">>]},
              destination |-> "http_endpoint"]
Objects == [filters |-> {Path("source", <<"b", "**", "o">>)}, condition |-> {},
            destination |-> "cloud_run"]
SomeSpecs == {Everything, Nowhere, Elsewhere, Objects}

\* Direct has the attribute "origin" of the condition; Other does not.
Direct == [type |-> <<"made">>, source |-> <<"b", "o">>, origin |-> <<"y">>]
Other == [type |-> <<"made">>, source |-> <<"b", "x">>]

SomePublishes ==
    {[rpc |-> "PublishEvents", source |-> Channel, events |-> <<None, Direct, None>>],
     [rpc |-> "PublishEvents", source |-> EmptyValue, events |-> <<Direct>>],
     [rpc |-> "PublishChannelConnectionEvents",
      source |-> <<"p", "channelConnections", "x">>, events |-> <<Direct, Other>>]}

\* The algorithm of path patterns agrees with their meaning, for every pattern
\* and every value of up to three segments.
UpToThree(S) == UNION {[1..n -> S] : n \in 1..3}
ASSUME PatternsAssumption ==
    \A pattern \in UpToThree({"a", "b", "*", "**"}), value \in UpToThree({"a", "b", ""}) :
        MatchSegs(pattern, value) <=> PatternCovers(pattern, value)
=============================================================================

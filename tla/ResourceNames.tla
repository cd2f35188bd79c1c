--------------------------- MODULE ResourceNames ---------------------------
(***************************************************************************)
(* Resource names of the emulator, as internal/server takes them apart.    *)
(*                                                                         *)
(* A name such as "projects/p/locations/l/triggers/t" is the sequence of   *)
(* its "/"-separated segments; the prefix "projects/p/locations/l" that    *)
(* every name shares may be one segment.  strings.LastIndex on "/" and on  *)
(* "/triggers/" then become positions in the sequence.  A string has at    *)
(* least one segment, so a name is never the empty sequence.               *)
(***************************************************************************)
EXTENDS Integers, Sequences

IsName(name) == Len(name) > 0

\* fmt.Sprintf("%s/<collection>/%s", parent, id), the key every Create uses.
JoinName(parent, collection, id) == parent \o <<collection, id>>

\* lastSegment: everything after the last slash.
LastSegment(name) == name[Len(name)]

\* parentFromResource: drop two segments; a name with a single slash, or with
\* none, gives its first segment.
ParentFromResource(name) ==
    IF Len(name) > 2 THEN SubSeq(name, 1, Len(name) - 2) ELSE SubSeq(name, 1, 1)

\* What precedes the last "/<collection>/" of a name, or the whole name; a cut
\* is a segment with a slash on both sides.
Before(name, collection) ==
    LET cuts == {i \in 2..(Len(name) - 1) : name[i] = collection}
    IN  IF cuts = {}
        THEN name
        ELSE SubSeq(name, 1, (CHOOSE i \in cuts : \A j \in cuts : j <= i) - 1)

\* parentFromName, of a trigger.
ParentFromName(name) == Before(name, "triggers")

\* parentFromChannel and parentFromChannelConnection of the publisher.
ParentFromChannel(name) == Before(name, "channels")
ParentFromChannelConnection(name) == Before(name, "channelConnections")

\* strings.HasPrefix(name, parent + "/<collection>/"), the test of every List.
Under(name, parent, collection) ==
    /\ Len(name) > Len(parent) + 1
    /\ SubSeq(name, 1, Len(parent) + 1) = Append(parent, collection)
=============================================================================

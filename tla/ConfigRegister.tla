--------------------------- MODULE ConfigRegister ---------------------------
(***************************************************************************)
(* What the GoogleChannelConfig of a location promises to those who write  *)
(* it, without locks, pointers or words: a register that starts empty,     *)
(* takes its default once, and to which every edit is applied at one       *)
(* instant.  An edit answers with the value it made, replaces the words it *)
(* names and no others, and moves the timestamp on.                        *)
(***************************************************************************)
EXTENDS Naturals

CONSTANTS
    Handlers,   \* who edits
    Words,      \* what a value consists of, "update_time" among it
    Edits,      \* functions from some of the words to what they become
    None        \* no value, no edit, no answer yet

VARIABLES
    value,      \* the value, or None
    asked,      \* the edit of each handler, or None
    answer      \* what the edit was answered, or None

vars == <<value, asked, answer>>

Init ==
    /\ value = None
    /\ asked = [h \in Handlers |-> None]
    /\ answer = [h \in Handlers |-> None]

\* A handler takes up an edit, or a read (None).
Ask(h) ==
    /\ \E e \in Edits \cup {None} : asked' = [asked EXCEPT ![h] = e]
    /\ answer' = [answer EXCEPT ![h] = None]
    /\ UNCHANGED value

\* The new value, word by word; without one the edit starts from blanks.
Becomes(edit) ==
    /\ value' # None
    /\ DOMAIN value' = Words
    /\ \A w \in Words \ {"update_time"} :
          value'[w] = IF w \in DOMAIN edit THEN edit[w]
                      ELSE IF value = None THEN "" ELSE value[w]
    /\ value # None => value'["update_time"] > value["update_time"]

\* The first read of an empty register.
TakeDefault ==
    /\ value = None
    /\ Becomes(<<>>)
    /\ UNCHANGED <<asked, answer>>

\* An edit is applied once, and not again after its answer.
Apply(h) ==
    /\ asked[h] # None
    /\ answer[h] = None
    /\ Becomes(asked[h])
    /\ answer' = [answer EXCEPT ![h] = value']
    /\ UNCHANGED asked

Next == TakeDefault \/ \E h \in Handlers : Ask(h) \/ Apply(h)

Spec == Init /\ [][Next]_vars
=============================================================================

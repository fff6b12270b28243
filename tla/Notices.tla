------------------------------- MODULE Notices -------------------------------
(***************************************************************************)
(* What the retaliation board promises of its messages, whatever jobs,     *)
(* failures and lost answers there are: a subject is announced once and    *)
(* while it is open, its message changes until it is closed, it is closed  *)
(* only when it tells an ending, and then it stays as it is unless         *)
(* somebody deletes it.  Retaliations implements this specification.       *)
(***************************************************************************)
CONSTANTS Subjects,    \* what there may be a message about
          Endings,     \* texts that tell how it ended
          Texts,       \* all texts, endings among them
          None,        \* not announced
          Gone         \* the message is deleted
VARIABLES text,        \* what each message says
          closed       \* the subjects whose message is final

notices == <<text, closed>>

Type == text \in [Subjects -> Texts \cup {None, Gone}] /\ closed \subseteq Subjects

Live == {s \in Subjects : text[s] \in Texts} \ closed

Announce(s, t) ==
    /\ text[s] = None /\ t \notin Endings
    /\ text' = [text EXCEPT ![s] = t]
    /\ UNCHANGED closed

Retell(s, t) ==
    /\ s \in Live
    /\ text' = [text EXCEPT ![s] = t]
    /\ UNCHANGED closed

Close(s) ==
    /\ s \in Live /\ text[s] \in Endings
    /\ closed' = closed \cup {s}
    /\ UNCHANGED text

Delete(s) ==
    /\ text[s] \in Texts
    /\ text' = [text EXCEPT ![s] = Gone]
    /\ closed' = closed \ {s}

Init == text = [s \in Subjects |-> None] /\ closed = {}

Next == \E s \in Subjects : Close(s) \/ Delete(s) \/ \E t \in Texts : Announce(s, t) \/ Retell(s, t)

Spec == Init /\ [][Next]_notices
=============================================================================

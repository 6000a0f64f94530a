---------------------------- MODULE DurableInbox ----------------------------
(***************************************************************************)
(* What the client's message path promises, whatever connections, failures *)
(* of the store and crashes come between: the server holds a message back, *)
(* and the application hears of it, only after the client has stored it    *)
(* for good.  MessageIngest implements this specification.                 *)
(***************************************************************************)
CONSTANT Messages

VARIABLES
  published,   \* messages the server has for this client
  stored,      \* messages in the client's store, with their cursor
  suppressed,  \* messages the server will not send on the current connection
  told         \* messages announced to the application or returned to it

vars == <<published, stored, suppressed, told>>

Init == published = {} /\ stored = {} /\ suppressed = {} /\ told = {}

Publish == \E m \in Messages : /\ published' = published \cup {m}
                               /\ UNCHANGED <<stored, suppressed, told>>

Store == \E m \in published : /\ stored' = stored \cup {m}
                              /\ UNCHANGED <<published, suppressed, told>>

\* A report of the client, or a lost connection, changes what is held back.
Report == /\ suppressed' \in SUBSET stored
          /\ UNCHANGED <<published, stored, told>>

Tell == \E m \in stored : /\ told' = told \cup {m}
                          /\ UNCHANGED <<published, stored, suppressed>>

Next == Publish \/ Store \/ Report \/ Tell

Spec == Init /\ [][Next]_vars
=============================================================================

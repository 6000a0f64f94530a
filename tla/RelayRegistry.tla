--------------------------- MODULE RelayRegistry ---------------------------
(***************************************************************************)
(* What the table of relay connections promises, whoever opens and closes: *)
(* a connection is entered once, as it begins and only under a free        *)
(* relay_id, and an entry goes only when a connection of its relay_id has  *)
(* ended.  RelayConnections implements this specification.                 *)
(***************************************************************************)
CONSTANTS Conns, Ids, None

VARIABLES
  name,    \* the relay_id of each connection that began
  table,   \* the connection listed under each relay_id
  begun,   \* connections that began
  ended    \* connections that ended

vars == <<name, table, begun, ended>>

Init == /\ name \in [Conns -> Ids \cup {None}]
        /\ table = [i \in Ids |-> None]
        /\ begun = {} /\ ended = {}

Delist(i) == table' = [table EXCEPT ![i] = None]

\* A connection that finds its relay_id in use lives on unlisted.
Begin(c, i) ==
  /\ c \notin begun /\ begun' = begun \cup {c}
  /\ name' = [name EXCEPT ![c] = i]
  /\ table' = [table EXCEPT ![i] = IF @ = None THEN c ELSE @]
  /\ UNCHANGED ended

End(c) ==
  /\ c \in begun \ ended /\ ended' = ended \cup {c}
  /\ UNCHANGED table \/ Delist(name[c])
  /\ UNCHANGED <<name, begun>>

Forget(c) ==
  /\ c \in ended /\ Delist(name[c])
  /\ UNCHANGED <<name, begun, ended>>

Next == \E c \in Conns : (\E i \in Ids : Begin(c, i)) \/ End(c) \/ Forget(c)

Spec == Init /\ [][Next]_vars
=============================================================================

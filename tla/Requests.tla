------------------------------ MODULE Requests ------------------------------
(***************************************************************************)
(* The requests of the WebSocket client (src/src/client.rs:645-1566) with   *)
(* the checks of src/src/validation.rs: which arguments a method accepts,   *)
(* what it then sends, and which answer it takes.  Arguments are drawn from *)
(* small sets with the values on which a check turns; an optional argument  *)
(* is a set of at most one value.                                          *)
(***************************************************************************)
EXTENDS Integers, FiniteSets

CONSTANTS
  Numbers,   \* ids of nodes and users
  Limits,    \* limits of a list
  Texts      \* names, bodies and passwords, which a check asks only not to be empty

ASSUME NumbersAssumption == Numbers \subseteq Int /\ Limits \subseteq Int

Optional(S) == {{}} \cup {{x} : x \in S}

-----------------------------------------------------------------------------
(* Arguments and their checks.                                             *)

UserRefs == [node_id : Numbers, user_id : Numbers]
Sessions == [serving_node_id : Numbers, session_id : {"", " ", "s"}]
Modes == {"Unspecified", "BestEffort", "RouteRetry"}
Roles == {"", "user", " channel"}
Visible == "system.visible_to_others"
Keys == {"", "k", "k!", "overlong", ".", "..", Visible}
Values == {"", " true", "x"}
TypedValues == {"bool", "string"}

Trimmed(s) == CASE s = " " -> "" [] s = " channel" -> "channel" [] s = " true" -> "true"
                [] OTHER -> s

Positive(n) == n > 0
ValidUser(u) == Positive(u.node_id) /\ Positive(u.user_id)
Unset(u) == u.node_id = 0 /\ u.user_id = 0
ValidSession(s) == Positive(s.serving_node_id) /\ Trimmed(s.session_id) # ""
ValidKey(k) == k \notin {"", "k!", "overlong"}
ValidFragment(k) == k = "" \/ ValidKey(k)
ValidLimit(n) == n >= 0 /\ n <= 1000

\* validate_upsert_user_metadata_request()
ValidUpsert(r) ==
  /\ r.typed = {} \/ r.value = ""
  /\ r.key = Visible =>
       /\ r.expires = {}
       /\ IF r.typed # {} THEN r.typed = {"bool"} ELSE Trimmed(r.value) = "true"

\* A login name that is blank counts as none; a channel has none.
Named(login) == {Trimmed(l) : l \in login} \ {""}
ValidLogin(roles, login) == Named(login) = {} \/ \A role \in roles : Trimmed(role) # "channel"

-----------------------------------------------------------------------------
(* The methods: their arguments, and when they get past their checks.  An   *)
(* alias is the method it calls.                                           *)

MessageArgs == [method : {"send_message"}, target : UserRefs, body : Texts]
PacketArgs == [method : {"send_packet"}, target : UserRefs, body : Texts, mode : Modes,
               session : Optional(Sessions)]
AcceptsMessage(r) ==
  /\ ValidUser(r.target) /\ r.body # ""
  /\ r.method = "send_packet" =>
       r.mode # "Unspecified" /\ \A s \in r.session : ValidSession(s)

CreateArgs == [method : {"create_user", "create_channel"}, username : Texts, role : Roles,
               login : Optional({" ", "l"}), password : Optional(Texts)]
UpdateArgs == [method : {"update_user"}, target : UserRefs, username : Optional(Texts),
               role : Optional(Roles), login : Optional({" ", "l"}), password : Optional(Texts)]
RoleOf(r) == IF r.method = "create_channel" /\ r.role = "" THEN "channel" ELSE r.role

\* Fault: the role is compared as it is.
AcceptsCreateUntrimmed(r) ==
  /\ r.username # "" /\ RoleOf(r) # "" /\ "" \notin r.password
  /\ Named(r.login) = {} \/ RoleOf(r) # "channel"
AcceptsCreate(r) ==
  /\ r.username # "" /\ RoleOf(r) # "" /\ "" \notin r.password
  /\ ValidLogin({RoleOf(r)}, r.login)
AcceptsUpdate(r) ==
  ValidUser(r.target) /\ ValidLogin(r.role, r.login) /\ "" \notin r.password

UserArgs == [method : {"get_user", "delete_user", "list_messages", "resolve_user_sessions"},
             target : UserRefs]
ListUsersArgs == [method : {"list_users"}, name : {" ", "n"}, uid : UserRefs]
AcceptsListUsers(r) == Unset(r.uid) \/ ValidUser(r.uid)

MetadataArgs == [method : {"get_user_metadata", "delete_user_metadata"}, owner : UserRefs,
                 key : Keys]
UpsertArgs == [method : {"upsert_user_metadata"}, owner : UserRefs, key : Keys,
               value : Values, typed : Optional(TypedValues), expires : Optional({"t"})]
ScanArgs == [method : {"scan_user_metadata"}, owner : UserRefs, prefix : {"", "k", "k!"},
             after : {"", "k!"}, limit : Limits]
AcceptsMetadata(r) ==
  /\ ValidUser(r.owner) /\ ValidKey(r.key)
  /\ r.method = "upsert_user_metadata" => ValidUpsert(r)
AcceptsScan(r) ==
  /\ ValidUser(r.owner)
  /\ ValidFragment(r.prefix) /\ ValidFragment(r.after) /\ ValidLimit(r.limit)

AttachmentArgs ==
  [method : {"upsert_attachment", "delete_attachment", "subscribe_channel",
             "unsubscribe_channel", "block_user", "unblock_user"},
   owner : UserRefs, subject : UserRefs]
AttachmentListArgs ==
  [method : {"list_attachments", "list_subscriptions", "list_blocked_users"}, owner : UserRefs]
AcceptsAttachment(r) == ValidUser(r.owner) /\ ValidUser(r.subject)

NodeArgs == [method : {"list_node_logged_in_users"}, node_id : Numbers]
PlainArgs == [method : {"ping", "list_events", "list_cluster_nodes", "operations_status",
                        "metrics"}]

Requests ==
  UNION {MessageArgs, PacketArgs, CreateArgs, UpdateArgs, UserArgs, ListUsersArgs,
         MetadataArgs, UpsertArgs, ScanArgs, AttachmentArgs, AttachmentListArgs, NodeArgs,
         PlainArgs}

Accepts(r) ==
  CASE r.method \in {"send_message", "send_packet"} -> AcceptsMessage(r)
    [] r.method \in {"create_user", "create_channel"} -> AcceptsCreate(r)
    [] r.method = "update_user" -> AcceptsUpdate(r)
    [] r.method = "list_users" -> AcceptsListUsers(r)
    [] r.method \in {"get_user_metadata", "delete_user_metadata", "upsert_user_metadata"} ->
         AcceptsMetadata(r)
    [] r.method = "scan_user_metadata" -> AcceptsScan(r)
    [] "subject" \in DOMAIN r -> AcceptsAttachment(r)
    [] r.method = "list_node_logged_in_users" -> Positive(r.node_id)
    [] r.method \in {"get_user", "delete_user", "list_messages", "resolve_user_sessions"} ->
         ValidUser(r.target)
    [] r.method \in {"list_attachments", "list_subscriptions", "list_blocked_users"} ->
         ValidUser(r.owner)
    [] OTHER -> TRUE

-----------------------------------------------------------------------------
(* What is sent: the arguments after normalisation, and the kind of request. *)

Raw(r) == CASE r.typed = {} -> r.value [] r.typed = {"bool"} -> "true" [] OTHER -> "x"

Normal(r) ==
  CASE r.method \in {"create_user", "create_channel"} ->
         [r EXCEPT !.role = RoleOf(r), !.login = Named(r.login)]
    [] r.method = "update_user" -> [r EXCEPT !.login = {Trimmed(l) : l \in r.login}]
    [] r.method = "list_users" -> [r EXCEPT !.name = Trimmed(r.name)]
    [] r.method = "upsert_user_metadata" -> [r EXCEPT !.value = Raw(r), !.typed = {}]
    [] OTHER -> r

Kind(m) ==
  CASE m \in {"send_message", "send_packet"} -> "send"
    [] m = "create_channel" -> "create_user"
    [] m \in {"subscribe_channel", "block_user"} -> "upsert_attachment"
    [] m \in {"unsubscribe_channel", "unblock_user"} -> "delete_attachment"
    [] m \in {"list_subscriptions", "list_blocked_users"} -> "list_attachments"
    [] OTHER -> m

-----------------------------------------------------------------------------
(* What the documents ask of a request that reaches the server.            *)

InFull(u) == u.node_id >= 1 /\ u.user_id >= 1

\* Users, sessions and nodes are named in full, a filter by user is whole or absent
\* (src/docs/websocket-protocol.md:223), a channel has no login name, and
\* system.visible_to_others is a boolean that does not expire
\* (src/src/validation.rs:165-169).
Sound(a) ==
  /\ \A f \in {"target", "owner", "subject"} \cap DOMAIN a : InFull(a[f])
  /\ "node_id" \in DOMAIN a => a.node_id >= 1
  /\ "uid" \in DOMAIN a => a.uid = [node_id |-> 0, user_id |-> 0] \/ InFull(a.uid)
  /\ "session" \in DOMAIN a =>
       \A s \in a.session : s.serving_node_id >= 1 /\ Trimmed(s.session_id) # ""
  /\ "body" \in DOMAIN a => a.body # ""
  /\ "mode" \in DOMAIN a => a.mode # "Unspecified"
  /\ a.method \in {"create_user", "create_channel"} =>
       a.username # "" /\ (Trimmed(a.role) = "channel" => a.login = {})
  /\ a.method = "update_user" =>
       \A role \in a.role : Trimmed(role) = "channel" => a.login \subseteq {""}
  /\ "password" \in DOMAIN a => "" \notin a.password
  /\ "key" \in DOMAIN a => a.key \in {"k", ".", "..", Visible}
  /\ a.method = "upsert_user_metadata" /\ a.key = Visible =>
       Trimmed(a.value) = "true" /\ a.expires = {}
  /\ "limit" \in DOMAIN a => a.limit \in 0..1000

-----------------------------------------------------------------------------
(* Answers.  A response is named by the kind of its request; that to a send  *)
(* holds a message, an acceptance or nothing.                              *)

Answers(kind) == IF kind = "send" THEN {"message", "accepted", "empty"} ELSE {kind}

Bodies == {"message", "accepted", "empty", "error", "ping", "create_user", "get_user",
           "update_user", "delete_user", "list_users", "get_user_metadata",
           "upsert_user_metadata", "delete_user_metadata", "scan_user_metadata",
           "upsert_attachment", "delete_attachment", "list_attachments", "list_messages",
           "list_events", "list_cluster_nodes", "list_node_logged_in_users",
           "resolve_user_sessions", "operations_status", "metrics"}

\* Responses in which the handler may miss something it needs: the object itself, a
\* session, or a known type.
Fallible == {"accepted", "create_user", "get_user", "update_user", "get_user_metadata",
             "upsert_user_metadata", "delete_user_metadata", "upsert_attachment",
             "delete_attachment", "list_attachments", "resolve_user_sessions",
             "operations_status"}

\* The RpcValue that handle_server_envelope() makes of a response.
ValueOf(body) ==
  CASE body \in {"create_user", "get_user", "update_user"} -> "User"
    [] body \in {"get_user_metadata", "upsert_user_metadata", "delete_user_metadata"} ->
         "UserMetadata"
    [] body \in {"upsert_attachment", "delete_attachment"} -> "Attachment"
    [] OTHER -> body

\* The RpcValue a method takes for its answer.
Takes(m) ==
  CASE m = "send_message" -> "message"
    [] m = "send_packet" -> "accepted"
    [] m \in {"create_user", "create_channel", "get_user", "update_user"} -> "User"
    [] m \in {"get_user_metadata", "upsert_user_metadata", "delete_user_metadata"} ->
         "UserMetadata"
    [] m \in {"upsert_attachment", "subscribe_channel", "block_user", "delete_attachment",
              "unsubscribe_channel", "unblock_user"} -> "Attachment"
    [] m \in {"list_attachments", "list_subscriptions", "list_blocked_users"} ->
         "list_attachments"
    [] OTHER -> m
=============================================================================

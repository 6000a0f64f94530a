------------------------- MODULE HttpMeaning_proofs -------------------------
(***************************************************************************)
(* What the routes of the server read in a request of the REST client is    *)
(* what the WebSocket client would ask for with the same arguments: for all *)
(* numbers and texts, kind of request by kind of request.                  *)
(***************************************************************************)
EXTENDS HttpApi, TLAPS

-----------------------------------------------------------------------------
(* Fields, numbers and paths.                                              *)

\* The value of a field that is there, and the default of one that is not.
LEMMA OrElseValue ==
  /\ \A x, d : OrElse({x}, d) = x
  /\ \A d : OrElse({}, d) = d
BY DEF OrElse

\* A number is read as it was written.
LEMMA NumberOfDecimal == \A n \in DOMAIN Decimal : Number(Decimal[n]) = n
BY DecimalAssumption DEF Number

LEMMA NumbersAreWritten ==
  /\ \A n \in Numbers : n \in DOMAIN Decimal /\ n \in Int
  /\ \A n \in Limits : n \in DOMAIN Decimal /\ n \in Int
BY DecimalAssumption, NumbersAssumption

\* A limit of 0 is left out and read as such; a negative one is left out as well.
LEMMA LimitIsRead ==
  ASSUME NEW n \in Limits, NEW w, Given(w.query, "limit") = IfPositive(n)
  PROVE  LimitIn(w) = IF n > 0 THEN n ELSE 0
<1>1. n \in Int /\ Number(Decimal[n]) = n BY NumberOfDecimal, NumbersAreWritten
<1>2. CASE n > 0
  <2>1. IfPositive(n) = {Decimal[n]} BY <1>2 DEF IfPositive
  <2>2. NumbersIn(Given(w.query, "limit")) = {n} BY <1>1, <2>1 DEF NumbersIn
  <2> QED BY <1>2, <2>2, OrElseValue DEF LimitIn
<1>3. CASE ~(n > 0)
  <2>1. IfPositive(n) = {} BY <1>3 DEF IfPositive
  <2>2. NumbersIn(Given(w.query, "limit")) = {} BY <2>1 DEF NumbersIn
  <2> QED BY <1>3, <2>2, OrElseValue DEF LimitIn
<1> QED BY <1>2, <1>3

\* Types and modes are read back from their names.
LEMMA NamesAreKnown ==
  /\ \A t \in Types : Known(TypeName, TypeName[t]) = t
  /\ \A m \in Modes \ {"Unspecified"} : Known(ModeName, ModeName[m]) = m
<1>1. /\ DOMAIN TypeName = Types
      /\ \A t, u \in Types : TypeName[t] = TypeName[u] => t = u
  BY DEF TypeName, Types
<1>2. /\ DOMAIN ModeName = Modes \ {"Unspecified"}
      /\ \A m, n \in Modes \ {"Unspecified"} : ModeName[m] = ModeName[n] => m = n
  BY DEF ModeName, Modes
<1> QED BY <1>1, <1>2, Zenon DEF Known

\* A user is written as its two numbers.
LEMMA UserIsRead ==
  ASSUME NEW u \in UserRefs, NEW p, NEW i, NEW j,
         p[i] = Decimal[u.node_id], p[j] = Decimal[u.user_id]
  PROVE  UserAt(p, i, j) = u
<1>1. u.node_id \in Numbers /\ u.user_id \in Numbers
      /\ u = [node_id |-> u.node_id, user_id |-> u.user_id]
  BY DEF UserRefs
<1>2. Number(p[i]) = u.node_id /\ Number(p[j]) = u.user_id
  BY <1>1, NumberOfDecimal, NumbersAreWritten
<1> QED BY <1>1, <1>2 DEF UserAt

\* A written number is neither empty nor a dot segment.
LEMMA DecimalIsPlain ==
  \A n \in Numbers : Decimal[n] # "" /\ Decimal[n] # "." /\ Decimal[n] # ".."
BY DecimalAssumption, NumbersAreWritten

\* The routes under /nodes.
LEMMA NodesAreRouted ==
  ASSUME NEW w, w.path[1] = "nodes", w.path[Len(w.path)] # ""
  PROVE  Route(w) = NodeRoute(w, UserAt(w.path, 2, 4))
BY Zenon DEF Route

\* The URL of a path without a dot segment at its end is that path, and the routes read
\* the user in it.
LEMMA UserPathKept ==
  ASSUME NEW u \in UserRefs
  PROVE  Resolved(UserPath(u)) = UserPath(u)
<1> DEFINE p == UserPath(u)
<1>1. u.user_id \in Numbers BY DEF UserRefs
<1>2. Len(p) = 4 /\ p[4] = Decimal[u.user_id] BY DEF UserPath
<1>3. p[4] # "." /\ p[4] # ".." BY <1>1, <1>2, DecimalIsPlain, Zenon
<1> QED BY <1>2, <1>3, Zenon DEF Resolved

LEMMA UserPathRouted ==
  ASSUME NEW u \in UserRefs, NEW w, w.path = UserPath(u)
  PROVE  Route(w) = UserRoute(w, u)
<1> DEFINE p == w.path
<1>1. u.user_id \in Numbers BY DEF UserRefs
<1>2. /\ Len(p) = 4 /\ p[1] = "nodes"
      /\ p[2] = Decimal[u.node_id] /\ p[4] = Decimal[u.user_id]
  BY DEF UserPath
<1>3. p[Len(p)] # "" BY <1>1, <1>2, DecimalIsPlain, Zenon
<1>4. UserAt(p, 2, 4) = u BY <1>2, UserIsRead
<1> QED BY <1>2, <1>3, <1>4 DEF Route, NodeRoute

LEMMA PartPathKept ==
  ASSUME NEW u \in UserRefs, NEW part \in {"metadata", "attachments", "messages"}
  PROVE  Resolved(PartPath(u, part)) = PartPath(u, part)
BY DEF PartPath, Resolved

LEMMA PartPathRouted ==
  ASSUME NEW u \in UserRefs, NEW part \in {"metadata", "attachments", "messages"},
         NEW w, w.path = PartPath(u, part)
  PROVE  /\ Len(w.path) = 5
         /\ Route(w) = CASE part = "metadata" -> MetadataRoute(w, u)
                         [] part = "attachments" -> AttachmentRoute(w, u)
                         [] OTHER -> MessageRoute(w, u)
<1> DEFINE p == w.path
<1>1. /\ Len(p) = 5 /\ p[1] = "nodes"
      /\ p[2] = Decimal[u.node_id] /\ p[4] = Decimal[u.user_id] /\ p[5] = part
  BY DEF PartPath
<1>2. UserAt(p, 2, 4) = u BY <1>1, UserIsRead
<1>3. part # "" OBVIOUS
<1>4. p[Len(p)] # "" BY <1>1, <1>3, Zenon
<1>5. Route(w) = NodeRoute(w, u)
  BY <1>1, <1>2, <1>4, NodesAreRouted
<1> QED BY <1>1, <1>5 DEF NodeRoute

LEMMA MetadataPathKept ==
  ASSUME NEW r, r.key # ".", r.key # ".."
  PROVE  Resolved(MetadataPath(r)) = MetadataPath(r)
<1> DEFINE p == MetadataPath(r)
<1>1. Len(p) = 6 /\ p[6] = r.key BY DEF MetadataPath
<1>2. p[Len(p)] # "." /\ p[Len(p)] # ".." BY <1>1, Zenon
<1> QED BY <1>2, Zenon DEF Resolved

LEMMA MetadataPathRouted ==
  ASSUME NEW r, r.owner \in UserRefs, NEW w, w.path = MetadataPath(r)
  PROVE  /\ Len(w.path) # 5 /\ w.path[6] = r.key
         /\ r.key # "" => Route(w) = MetadataRoute(w, r.owner)
<1> DEFINE p == w.path
<1>1. /\ Len(p) = 6 /\ Len(p) \notin {4, 5}
      /\ p[1] = "nodes" /\ p[5] = "metadata" /\ p[6] = r.key
      /\ p[2] = Decimal[r.owner.node_id] /\ p[4] = Decimal[r.owner.user_id]
  BY DEF MetadataPath
<1>2. UserAt(p, 2, 4) = r.owner BY <1>1, UserIsRead
<1>3. NodeRoute(w, r.owner) = MetadataRoute(w, r.owner) BY <1>1, Zenon DEF NodeRoute
<1>4. r.key # "" => p[Len(p)] # "" BY <1>1, Zenon
<1>5. r.key # "" => Route(w) = NodeRoute(w, r.owner)
  BY <1>1, <1>2, <1>4, NodesAreRouted, Zenon
<1> QED BY <1>1, <1>3, <1>5, Zenon

LEMMA AttachmentPathKept ==
  ASSUME NEW r, r.subject \in UserRefs
  PROVE  Resolved(AttachmentPath(r)) = AttachmentPath(r)
<1> DEFINE p == AttachmentPath(r)
<1>1. r.subject.user_id \in Numbers BY DEF UserRefs
<1>2. Len(p) = 8 /\ p[8] = Decimal[r.subject.user_id] BY DEF AttachmentPath
<1>3. p[Len(p)] # "." /\ p[Len(p)] # ".." BY <1>1, <1>2, DecimalIsPlain, Zenon
<1> QED BY <1>3, Zenon DEF Resolved

LEMMA AttachmentPathRouted ==
  ASSUME NEW r, r.owner \in UserRefs, r.subject \in UserRefs,
         NEW t, WrittenTypes(r) = {t}, NEW w, w.path = AttachmentPath(r)
  PROVE  /\ Len(w.path) # 5 /\ w.path[6] = t /\ UserAt(w.path, 7, 8) = r.subject
         /\ Route(w) = AttachmentRoute(w, r.owner)
<1> DEFINE p == w.path
<1>1. /\ Len(p) = 8 /\ p[1] = "nodes" /\ p[5] = "attachments"
      /\ p[6] = CHOOSE x \in WrittenTypes(r) : TRUE
      /\ p[2] = Decimal[r.owner.node_id] /\ p[4] = Decimal[r.owner.user_id]
      /\ p[7] = Decimal[r.subject.node_id] /\ p[8] = Decimal[r.subject.user_id]
  BY DEF AttachmentPath
<1>2. p[6] = t BY <1>1
<1>3. UserAt(p, 2, 4) = r.owner /\ UserAt(p, 7, 8) = r.subject BY <1>1, UserIsRead
<1>4. r.subject.user_id \in Numbers BY DEF UserRefs
<1>5. p[Len(p)] # "" BY <1>1, <1>4, DecimalIsPlain, Zenon
<1>6. Route(w) = NodeRoute(w, r.owner) BY <1>1, <1>3, <1>5, NodesAreRouted
<1> QED BY <1>1, <1>2, <1>3, <1>6 DEF NodeRoute

-----------------------------------------------------------------------------
(* The requests.                                                           *)

\* Logging in, by number and by name.
LEMMA LoginMeaning ==
  ASSUME NEW r \in LoginArgs
  PROVE  Route(Wire(r)) = Meaning(r)
<1>1. r.method \in {"login", "login_by_login_name"} BY DEF LoginArgs
<1>2. Kind(r.method) = r.method /\ Takes(r.method) = r.method /\ Normal(r) = r
  BY <1>1 DEF Kind, Takes, Normal
<1>3. Wire(r) = [verb |-> "POST", path |-> <<"auth", "login">>, query |-> Nothing,
                 body |-> LoginBody(r)]
  BY <1>1, <1>2 DEF Wire, LoginWire, Http, Resolved
<1>4. Route(Wire(r)) = LoginRoute(Wire(r)) BY <1>3 DEF Route
<1>5. CASE r.method = "login"
  <2>1. r = [method |-> "login", user |-> r.user, password |-> r.password]
        /\ r.user = [node_id |-> r.user.node_id, user_id |-> r.user.user_id]
    BY <1>5 DEF LoginArgs, UserRefs
  <2>2. Meaning(r) = [method |-> "login", user |-> r.user, password |-> Bcrypt(r.password)]
    BY <1>5, <1>2, <2>1 DEF Meaning
  <2>3. Wire(r).body = [node_id |-> {r.user.node_id}, user_id |-> {r.user.user_id},
                        password |-> {Bcrypt(r.password)}]
    BY <1>5, <1>3 DEF LoginBody
  <2>4. /\ Given(Wire(r).body, "login_name") = {}
        /\ Given(Wire(r).body, "password") = {Bcrypt(r.password)}
        /\ Given(Wire(r).body, "node_id") = {r.user.node_id}
        /\ Given(Wire(r).body, "user_id") = {r.user.user_id}
    BY <2>3 DEF Given
  <2> QED BY <1>4, <2>1, <2>2, <2>4, OrElseValue DEF LoginRoute
<1>6. CASE r.method = "login_by_login_name"
  <2>1. r = [method |-> "login_by_login_name", login |-> r.login, password |-> r.password]
    BY <1>6 DEF LoginArgs
  <2>2. Meaning(r) = [method |-> "login_by_login_name", login |-> Trimmed(r.login),
                      password |-> Bcrypt(r.password)]
    BY <1>6, <1>2, <2>1 DEF Meaning
  <2>3. Wire(r).body = [login_name |-> {Trimmed(r.login)}, password |-> {Bcrypt(r.password)}]
    BY <1>6, <1>3 DEF LoginBody
  <2>4. /\ Given(Wire(r).body, "login_name") = {Trimmed(r.login)}
        /\ Given(Wire(r).body, "password") = {Bcrypt(r.password)}
    BY <2>3 DEF Given
  <2> QED BY <1>4, <2>2, <2>4, OrElseValue DEF LoginRoute
<1> QED BY <1>1, <1>5, <1>6

\* Reading a user and deleting one.
LEMMA UserMeaning ==
  ASSUME NEW r \in Of(UserArgs, {"get_user", "delete_user"})
  PROVE  Route(Wire(r)) = Meaning(r)
<1> DEFINE verb == IF r.method = "get_user" THEN "GET" ELSE "DELETE"
<1>1. /\ r.target \in UserRefs /\ r.method \in {"get_user", "delete_user"}
      /\ r = [method |-> r.method, target |-> r.target]
  BY DEF Of, UserArgs
<1>2. Meaning(r) = r
  BY <1>1 DEF Meaning, Normal, Kind
<1>3. Wire(r) = UserWire(r)
  <2>1. Kind(r.method) = r.method BY <1>1 DEF Kind
  <2>2. Takes(r.method) \in {"User", "delete_user"} BY <1>1 DEF Takes
  <2> QED BY <1>1, <2>1, <2>2 DEF Wire
<1>4. Wire(r) = [verb |-> verb, path |-> UserPath(r.target), query |-> Nothing,
                 body |-> Nothing]
  <2>1. Resolved(UserPath(r.target)) = UserPath(r.target) BY <1>1, UserPathKept
  <2> QED BY <1>1, <1>3, <2>1 DEF UserWire, Get, Http
<1>5. Wire(r).path = UserPath(r.target) /\ Wire(r).verb = verb
  BY <1>4
<1>6. Route(Wire(r)) = UserRoute(Wire(r), r.target)
  BY <1>1, <1>5, UserPathRouted
<1> QED BY <1>1, <1>2, <1>5, <1>6 DEF UserRoute

\* Creating a user or a channel.
LEMMA CreateMeaning ==
  ASSUME NEW r \in HttpCreateArgs
  PROVE  Route(Wire(r)) = Meaning(r)
<1>1. r.method \in {"create_user", "create_channel"} BY DEF HttpCreateArgs
<1>2. Kind(r.method) = "create_user" /\ Takes(r.method) = "User"
  BY <1>1 DEF Kind, Takes
<1>3. r = [method |-> r.method, username |-> r.username, role |-> r.role, login |-> r.login,
           password |-> r.password, profile |-> r.profile]
  BY DEF HttpCreateArgs
<1>4. Normal(r) = [method |-> r.method, username |-> r.username, role |-> RoleOf(r),
                   login |-> Named(r.login), password |-> r.password, profile |-> r.profile]
  BY <1>1, <1>3 DEF Normal
<1>5. Meaning(r) = [method |-> "create_user", username |-> r.username, role |-> RoleOf(r),
                    login |-> Named(r.login), password |-> r.password, profile |-> r.profile]
  <2>1. Meaning(r) = [Normal(r) EXCEPT !.method = "create_user"]
    BY <1>1, <1>2 DEF Meaning
  <2> QED BY <1>4, <2>1
<1>6. Wire(r) = UserWire(r) BY <1>1, <1>2 DEF Wire
<1>7. Wire(r) = [verb |-> "POST", path |-> <<"users">>, query |-> Nothing,
                 body |-> CreateBody(r)]
  BY <1>1, <1>6 DEF UserWire, Http, Resolved
<1>8. Route(Wire(r)) = UsersRoute(Wire(r)) BY <1>7 DEF Route
<1>9. /\ Given(Wire(r).body, "username") = {r.username}
      /\ Given(Wire(r).body, "role") = {WrittenRole(r)}
      /\ Given(Wire(r).body, "login_name") = Named(r.login)
      /\ Given(Wire(r).body, "password") = r.password
      /\ Given(Wire(r).body, "profile") = NonEmpty(r.profile)
  BY <1>7 DEF CreateBody, Given
<1>10. Wire(r).verb = "POST" BY <1>7
<1>11. WrittenRole(r) = RoleOf(r) /\ OrElse(NonEmpty(r.profile), "") = r.profile
  BY Zenon DEF WrittenRole, RoleOf, OrElse, NonEmpty
<1> QED BY <1>5, <1>8, <1>9, <1>10, <1>11, OrElseValue DEF UsersRoute

\* Changing a user.
LEMMA UpdateMeaning ==
  ASSUME NEW r \in HttpUpdateArgs
  PROVE  Route(Wire(r)) = Meaning(r)
<1>1. r.method = "update_user" /\ r.target \in UserRefs BY DEF HttpUpdateArgs
<1>2. Kind(r.method) = "update_user" /\ Takes(r.method) = "User"
  BY <1>1 DEF Kind, Takes
<1>3. r = [method |-> "update_user", target |-> r.target, username |-> r.username,
           role |-> r.role, login |-> r.login, password |-> r.password, profile |-> r.profile]
  BY DEF HttpUpdateArgs
<1> DEFINE login == {Trimmed(l) : l \in r.login}
<1>4. Normal(r) = [method |-> "update_user", target |-> r.target, username |-> r.username,
                   role |-> r.role, login |-> login, password |-> r.password,
                   profile |-> r.profile]
  <2>1. Normal(r) = [r EXCEPT !.login = login] BY <1>1 DEF Normal
  <2> HIDE DEF login
  <2> QED BY <1>3, <2>1
<1>5. Meaning(r) = Normal(r)
  <2>1. Meaning(r) = [Normal(r) EXCEPT !.method = "update_user"]
    BY <1>1, <1>2 DEF Meaning
  <2> HIDE DEF login
  <2> QED BY <1>4, <2>1
<1>6. Wire(r) = UserWire(r) BY <1>1, <1>2 DEF Wire
<1>7. Wire(r) = [verb |-> "PATCH", path |-> UserPath(r.target), query |-> Nothing,
                 body |-> UpdateBody(r)]
  <2>1. Resolved(UserPath(r.target)) = UserPath(r.target) BY <1>1, UserPathKept
  <2> QED BY <1>1, <1>6, <2>1 DEF UserWire, Http
<1>8. Route(Wire(r)) = UserRoute(Wire(r), r.target)
  BY <1>1, <1>7, UserPathRouted
<1>9. /\ Given(Wire(r).body, "username") = r.username
      /\ Given(Wire(r).body, "role") = r.role
      /\ Given(Wire(r).body, "login_name") = login
      /\ Given(Wire(r).body, "password") = r.password
      /\ Given(Wire(r).body, "profile") = r.profile
  <2>1. UpdateBody(r) = [username |-> r.username, role |-> r.role, login_name |-> login,
                         password |-> r.password, profile |-> r.profile]
    BY DEF UpdateBody
  <2> HIDE DEF login
  <2> QED BY <1>7, <2>1 DEF Given
<1>10. Wire(r).verb = "PATCH" BY <1>7
<1> HIDE DEF login
<1> QED BY <1>4, <1>5, <1>8, <1>9, <1>10 DEF UserRoute

\* Listing users by name and user.
LEMMA ListUsersMeaning ==
  ASSUME NEW r \in ListUsersArgs
  PROVE  Route(Wire(r)) = Meaning(r)
<1>1. r.method = "list_users" /\ r.uid \in UserRefs BY DEF ListUsersArgs
<1>2. Kind(r.method) = "list_users" /\ Takes(r.method) = "list_users"
  BY <1>1 DEF Kind, Takes
<1>3. r = [method |-> "list_users", name |-> r.name, uid |-> r.uid]
  BY DEF ListUsersArgs
<1>4. Normal(r) = [method |-> "list_users", name |-> Trimmed(r.name), uid |-> r.uid]
  BY <1>1, <1>3 DEF Normal
<1>5. Meaning(r) = Normal(r)
  <2>1. Meaning(r) = [Normal(r) EXCEPT !.method = "list_users"]
    BY <1>1, <1>2 DEF Meaning
  <2> QED BY <1>4, <2>1
<1>6. Wire(r) = UserWire(r) BY <1>1, <1>2 DEF Wire
<1>7. Wire(r) = [verb |-> "GET", path |-> <<"users">>, query |-> ListUsersQuery(r),
                 body |-> Nothing]
  BY <1>1, <1>6 DEF UserWire, Get, Http, Resolved
<1>8. Route(Wire(r)) = UsersRoute(Wire(r)) BY <1>7 DEF Route
<1> DEFINE uid == {<<Decimal[u.node_id], Decimal[u.user_id]>> : u \in {v \in {r.uid} : ~Unset(v)}}
<1>9. /\ Given(Wire(r).query, "name") = NonEmpty(Trimmed(r.name))
      /\ Given(Wire(r).query, "uid") = uid
  <2>1. ListUsersQuery(r) = [name |-> NonEmpty(Trimmed(r.name)), uid |-> uid]
    BY DEF ListUsersQuery
  <2> HIDE DEF uid
  <2> QED BY <1>7, <2>1 DEF Given
<1>10. OrElse(NonEmpty(Trimmed(r.name)), "") = Trimmed(r.name)
  BY Zenon DEF OrElse, NonEmpty
<1>11. OrElse({UserAt(u, 1, 2) : u \in uid}, [node_id |-> 0, user_id |-> 0]) = r.uid
  <2>1. r.uid = [node_id |-> r.uid.node_id, user_id |-> r.uid.user_id]
    BY <1>1 DEF UserRefs
  <2>2. CASE Unset(r.uid)
    <3>1. {UserAt(u, 1, 2) : u \in uid} = {} BY <2>2
    <3> QED BY <2>1, <2>2, <3>1, OrElseValue DEF Unset
  <2>3. CASE ~Unset(r.uid)
    <3>1. uid = {<<Decimal[r.uid.node_id], Decimal[r.uid.user_id]>>} BY <2>3
    <3>2. UserAt(<<Decimal[r.uid.node_id], Decimal[r.uid.user_id]>>, 1, 2) = r.uid
      BY <1>1, UserIsRead
    <3>3. {UserAt(u, 1, 2) : u \in uid} = {r.uid} BY <3>1, <3>2
    <3> QED BY <3>3, OrElseValue
  <2> QED BY <2>2, <2>3
<1>12. Wire(r).verb = "GET" BY <1>7
<1> HIDE DEF uid
<1> QED BY <1>4, <1>5, <1>8, <1>9, <1>10, <1>11, <1>12 DEF UsersRoute

\* Reading an entry of the metadata and deleting one.
LEMMA MetadataMeaning ==
  ASSUME NEW r \in MetadataArgs, HttpAccepts(r), r.key # ".", r.key # ".."
  PROVE  Route(Wire(r)) = Meaning(r)
<1> DEFINE verb == IF r.method = "get_user_metadata" THEN "GET" ELSE "DELETE"
<1>1. /\ r.method \in {"get_user_metadata", "delete_user_metadata"}
      /\ r.owner \in UserRefs
  BY DEF MetadataArgs
<1>2. r.key # "" BY Zenon DEF MetadataArgs, HttpAccepts, Accepts, AcceptsMetadata, ValidKey
<1>3. r = [method |-> r.method, owner |-> r.owner, key |-> r.key] BY DEF MetadataArgs
<1>4. Kind(r.method) = r.method /\ Takes(r.method) = "UserMetadata" /\ Normal(r) = r
  BY <1>1 DEF Kind, Takes, Normal
<1>5. Meaning(r) = r BY <1>1, <1>3, <1>4 DEF Meaning
<1>6. Wire(r) = MetadataWire(r) BY <1>1, <1>4 DEF Wire
<1>7. Wire(r) = [verb |-> verb, path |-> MetadataPath(r), query |-> Nothing, body |-> Nothing]
  <2>1. Resolved(MetadataPath(r)) = MetadataPath(r) BY MetadataPathKept, Zenon
  <2> QED BY <1>1, <1>6, <2>1 DEF MetadataWire, Get, Http
<1>8. Wire(r).path = MetadataPath(r) /\ Wire(r).verb = verb BY <1>7
<1>9. /\ Len(Wire(r).path) # 5 /\ Wire(r).path[6] = r.key
      /\ Route(Wire(r)) = MetadataRoute(Wire(r), r.owner)
  BY <1>1, <1>2, <1>8, MetadataPathRouted, Zenon
<1>10. CASE r.method = "get_user_metadata"
  <2>1. MetadataRoute(Wire(r), r.owner) =
          [method |-> "get_user_metadata", owner |-> r.owner, key |-> r.key]
    BY <1>8, <1>9, <1>10, Zenon DEF MetadataRoute
  <2> QED BY <1>3, <1>5, <1>9, <1>10, <2>1
<1>11. CASE r.method = "delete_user_metadata"
  <2>1. Wire(r).verb = "DELETE" BY <1>8, <1>11
  <2>2. MetadataRoute(Wire(r), r.owner) =
          [method |-> "delete_user_metadata", owner |-> r.owner, key |-> r.key]
    BY <1>9, <2>1, Zenon DEF MetadataRoute
  <2> QED BY <1>3, <1>5, <1>9, <1>11, <2>2
<1> QED BY <1>1, <1>10, <1>11

\* A key that is a dot segment leaves a path that names no entry.
LEMMA DotKeyIsLost ==
  ASSUME NEW r \in MetadataArgs \cup UpsertArgs, r.key \in {".", ".."}
  PROVE  Route(Wire(r)) # Meaning(r)
<1> DEFINE p == MetadataPath(r)
<1>1. /\ r.method \in {"get_user_metadata", "delete_user_metadata", "upsert_user_metadata"}
      /\ Kind(r.method) = r.method /\ Takes(r.method) = "UserMetadata"
  BY DEF MetadataArgs, UpsertArgs, Kind, Takes
<1>2. Wire(r) = MetadataWire(r) BY <1>1 DEF Wire
<1>3. Wire(r).path = Resolved(p) BY <1>1, <1>2 DEF MetadataWire, Get, Http
<1>4. /\ Len(p) = 6 /\ p[6] = r.key
      /\ p \in Seq({p[1], p[2], p[3], p[4], p[5], p[6]})
  BY DEF MetadataPath
<1> DEFINE q == IF r.key = "." THEN SubSeq(p, 1, 5) ELSE SubSeq(p, 1, 4)
<1>5. Resolved(p) = Append(q, "")
  <2>1. p[Len(p)] = r.key BY <1>4, Zenon
  <2>2. CASE r.key = "."
    <3>1. Len(p) - 1 = 5 BY <1>4
    <3> QED BY <2>1, <2>2, <3>1, Zenon DEF Resolved
  <2>3. CASE r.key = ".."
    <3>1. Len(p) - 2 = 4 BY <1>4
    <3>2. r.key # "." BY <2>3
    <3> QED BY <2>1, <2>3, <3>1, <3>2, Zenon DEF Resolved
  <2> QED BY <2>2, <2>3
<1>6. q \in Seq({p[1], p[2], p[3], p[4], p[5], p[6]}) BY <1>4
<1> HIDE DEF q
<1>7. \A x : LET a == Append(q, x) IN Len(a) = Len(q) + 1 /\ a[Len(q) + 1] = x
  BY <1>6
<1>8. Wire(r).path[Len(Wire(r).path)] = "" BY <1>3, <1>5, <1>7, Zenon
<1>9. Route(Wire(r)).method = "none" BY <1>8, Zenon DEF Route, Nowhere
<1>10. Meaning(r).method = r.method
  <2>1. CASE r \in MetadataArgs
    <3>1. Normal(r) = r BY <1>1, <2>1 DEF MetadataArgs, Normal
    <3>2. Meaning(r) = [r EXCEPT !.method = r.method] BY <1>1, <3>1 DEF Meaning
    <3> QED BY <2>1, <3>2 DEF MetadataArgs
  <2>2. CASE r \in UpsertArgs
    <3>1. r.method = "upsert_user_metadata" BY <2>2 DEF UpsertArgs
    <3>2. Normal(r) = [r EXCEPT !.value = Raw(r), !.typed = {}] BY <3>1 DEF Normal
    <3>3. Meaning(r) = [Normal(r) EXCEPT !.method = r.method] BY <1>1, <3>1 DEF Meaning
    <3> QED BY <2>2, <3>2, <3>3 DEF UpsertArgs
  <2> QED BY <2>1, <2>2
<1> QED BY <1>1, <1>9, <1>10

\* Scanning the metadata.
LEMMA ScanMeaning ==
  ASSUME NEW r \in ScanArgs, HttpAccepts(r)
  PROVE  Route(Wire(r)) = Meaning(r)
<1>1. r.method = "scan_user_metadata" /\ r.owner \in UserRefs BY DEF ScanArgs
<1>2. r.prefix # "k!" /\ r.after # "k!"
  BY Zenon DEF ScanArgs, HttpAccepts, Accepts, AcceptsScan, ValidFragment, ValidKey
<1>3. r = [method |-> "scan_user_metadata", owner |-> r.owner, prefix |-> r.prefix,
           after |-> r.after, limit |-> r.limit]
  BY DEF ScanArgs
<1>4. /\ Kind(r.method) = "scan_user_metadata" /\ Takes(r.method) = "scan_user_metadata"
      /\ Normal(r) = r
  BY <1>1 DEF Kind, Takes, Normal
<1>5. Meaning(r) = r BY <1>1, <1>3, <1>4 DEF Meaning
<1>6. Wire(r) = MetadataWire(r) BY <1>1, <1>4 DEF Wire
<1>7. Wire(r) = [verb |-> "GET", path |-> PartPath(r.owner, "metadata"),
                 query |-> ScanQuery(r), body |-> Nothing]
  <2>1. Resolved(PartPath(r.owner, "metadata")) = PartPath(r.owner, "metadata")
    BY <1>1, PartPathKept
  <2> QED BY <1>1, <1>6, <2>1 DEF MetadataWire, Get, Http
<1>8. Wire(r).path = PartPath(r.owner, "metadata") BY <1>7
<1>9. Len(Wire(r).path) = 5 /\ Route(Wire(r)) = MetadataRoute(Wire(r), r.owner)
  BY <1>1, <1>8, PartPathRouted
<1>10. /\ Given(Wire(r).query, "prefix") = Unescaped(r.prefix)
       /\ Given(Wire(r).query, "after") = Unescaped(r.after)
       /\ Given(Wire(r).query, "limit") = IfPositive(r.limit)
  BY <1>7 DEF ScanQuery, Given
<1>11. OrElse(Unescaped(r.prefix), "") = r.prefix /\ OrElse(Unescaped(r.after), "") = r.after
  BY <1>2, Zenon DEF Unescaped, NonEmpty, OrElse
<1>12. LimitIn(Wire(r)) = r.limit
  <2>1. r.limit \in Limits /\ r.limit >= 0
    BY NumbersAreWritten DEF ScanArgs, HttpAccepts, Accepts, AcceptsScan, ValidLimit
  <2> QED BY <1>10, <2>1, LimitIsRead, NumbersAreWritten
<1> QED BY <1>3, <1>5, <1>9, <1>10, <1>11, <1>12 DEF MetadataRoute

\* Writing an entry of the metadata: the value as bytes, or as a typed value.
LEMMA UpsertMeaning ==
  ASSUME NEW r \in UpsertArgs, HttpAccepts(r), r.key # ".", r.key # ".."
  PROVE  Route(Wire(r)) = Meaning(r)
<1>1. r.method = "upsert_user_metadata" /\ r.owner \in UserRefs BY DEF UpsertArgs
<1>2. r.key # "" /\ (r.typed = {} \/ r.value = "")
  BY Zenon DEF UpsertArgs, HttpAccepts, Accepts, AcceptsMetadata, ValidKey, ValidUpsert
<1>3. r = [method |-> "upsert_user_metadata", owner |-> r.owner, key |-> r.key,
           value |-> r.value, typed |-> r.typed, expires |-> r.expires]
  BY DEF UpsertArgs
<1>4. Kind(r.method) = "upsert_user_metadata" /\ Takes(r.method) = "UserMetadata"
  BY <1>1 DEF Kind, Takes
<1> DEFINE meant == [method |-> "upsert_user_metadata", owner |-> r.owner, key |-> r.key,
                       value |-> Raw(r), typed |-> {}, expires |-> r.expires]
<1>5. Meaning(r) = meant
  <2>1. Normal(r) = meant BY <1>1, <1>3 DEF Normal
  <2>2. Meaning(r) = [Normal(r) EXCEPT !.method = "upsert_user_metadata"]
    BY <1>1, <1>4 DEF Meaning
  <2> QED BY <2>1, <2>2
<1>6. Wire(r) = MetadataWire(r) BY <1>1, <1>4 DEF Wire
<1>7. Wire(r) = [verb |-> "PUT", path |-> MetadataPath(r), query |-> Nothing,
                 body |-> UpsertBody(r)]
  <2>1. Resolved(MetadataPath(r)) = MetadataPath(r) BY MetadataPathKept, Zenon
  <2> QED BY <1>1, <1>6, <2>1 DEF MetadataWire, Http
<1>8. Wire(r).path = MetadataPath(r) /\ Wire(r).verb = "PUT" /\ Wire(r).body = UpsertBody(r)
  BY <1>7
<1>9. /\ Len(Wire(r).path) # 5 /\ Wire(r).path[6] = r.key
      /\ Route(Wire(r)) = MetadataRoute(Wire(r), r.owner)
  BY <1>1, <1>2, <1>8, MetadataPathRouted, Zenon
<1> DEFINE value == {Base64(v) : v \in {u \in {r.value} : r.typed = {}}}
<1>10. /\ Given(Wire(r).body, "typed_value") = r.typed
       /\ Given(Wire(r).body, "value") = value
       /\ Given(Wire(r).body, "expires_at") = r.expires
  <2>1. UpsertBody(r) = [typed_value |-> r.typed, value |-> value, expires_at |-> r.expires]
    BY DEF UpsertBody
  <2> HIDE DEF value
  <2> QED BY <1>8, <2>1 DEF Given
<1> DEFINE read == OrElse(value, <<"", "">>)[2]
<1>11. read = r.value
  <2>1. CASE r.typed = {}
    <3>1. value = {Base64(r.value)} BY <2>1
    <3>2. OrElse(value, <<"", "">>) = Base64(r.value) BY <3>1, OrElseValue
    <3>3. Base64(r.value)[2] = r.value BY DEF Base64
    <3> QED BY <3>2, <3>3, Zenon
  <2>2. CASE r.typed # {}
    <3>1. value = {} BY <2>2
    <3>2. OrElse(value, <<"", "">>) = <<"", "">> BY <3>1, OrElseValue
    <3>3. r.value = "" BY <1>2, <2>2, Zenon
    <3>4. <<"", "">>[2] = "" OBVIOUS
    <3> QED BY <3>2, <3>3, <3>4, Zenon
  <2> QED BY <2>1, <2>2
<1> HIDE DEF value, read
<1>12. Raw([typed |-> r.typed, value |-> read]) = Raw(r) BY <1>11 DEF Raw
<1>13. MetadataRoute(Wire(r), r.owner) =
         [method |-> "upsert_user_metadata", owner |-> r.owner, key |-> r.key, typed |-> {},
          expires |-> r.expires, value |-> Raw([typed |-> r.typed, value |-> read])]
  BY <1>8, <1>9, <1>10, Zenon DEF MetadataRoute, read
<1> QED BY <1>5, <1>9, <1>12, <1>13

\* Attaching a user: by type, or by the method that stands for a type.
LEMMA AttachMeaning ==
  ASSUME NEW r, r \in HttpAttachmentArgs \cup AttachmentArgs,
         Kind(r.method) = "upsert_attachment", Takes(r.method) = "Attachment",
         Normal(r) = r,
         r.method \in {"upsert_attachment", "subscribe_channel", "block_user"},
         r.owner \in UserRefs, r.subject \in UserRefs,
         NEW t \in Types, TypesOf(r) = {t}, WrittenTypes(r) = {TypeName[t]}
  PROVE  /\ Route(Wire(r)) = [method |-> "upsert_attachment", owner |-> r.owner,
                             subject |-> r.subject, types |-> {t},
                             config |-> WrittenConfig(r)]
         /\ Meaning(r) = [method |-> "upsert_attachment", owner |-> r.owner,
                          subject |-> r.subject, types |-> {t}, config |-> ConfigOf(r)]
<1>1. Meaning(r) = [method |-> "upsert_attachment", owner |-> r.owner, subject |-> r.subject,
                    types |-> {t}, config |-> ConfigOf(r)]
  <2> DEFINE n == [r EXCEPT !.method = "upsert_attachment"]
  <2>1. n.method = "upsert_attachment" /\ n.owner = r.owner /\ n.subject = r.subject
    BY DEF HttpAttachmentArgs, AttachmentArgs
  <2>2. Meaning(r) = [method |-> n.method, owner |-> n.owner, subject |-> n.subject,
                      types |-> TypesOf(r), config |-> ConfigOf(r)]
    BY DEF Meaning
  <2> HIDE DEF n
  <2> QED BY <2>1, <2>2
<1>2. Wire(r) = AttachmentWire(r) BY DEF Wire
<1>3. Wire(r) = [verb |-> "PUT", path |-> AttachmentPath(r), query |-> Nothing,
                 body |-> [config_json |-> {WrittenConfig(r)}]]
  BY <1>2, AttachmentPathKept DEF AttachmentWire, Http
<1>4. /\ Wire(r).path = AttachmentPath(r) /\ Wire(r).verb = "PUT"
      /\ Given(Wire(r).body, "config_json") = {WrittenConfig(r)}
  BY <1>3 DEF Given
<1>5. /\ Len(Wire(r).path) # 5 /\ Wire(r).path[6] = TypeName[t]
      /\ UserAt(Wire(r).path, 7, 8) = r.subject
      /\ Route(Wire(r)) = AttachmentRoute(Wire(r), r.owner)
  BY <1>4, AttachmentPathRouted
<1>6. OrElse(Given(Wire(r).body, "config_json"), "") = WrittenConfig(r)
  BY <1>4, OrElseValue, Zenon
<1>7. Wire(r).verb # "DELETE" BY <1>4
<1>8. Known(TypeName, Wire(r).path[6]) = t BY <1>5, NamesAreKnown
<1>9. AttachmentRoute(Wire(r), r.owner) =
        [method |-> "upsert_attachment", owner |-> r.owner, subject |-> r.subject,
         types |-> {t}, config |-> WrittenConfig(r)]
  BY <1>5, <1>6, <1>7, <1>8, Zenon DEF AttachmentRoute
<1> QED BY <1>1, <1>5, <1>9

\* Detaching a user.
LEMMA DetachMeaning ==
  ASSUME NEW r, r \in HttpAttachmentArgs \cup AttachmentArgs,
         Kind(r.method) = "delete_attachment", Takes(r.method) = "Attachment",
         Normal(r) = r,
         r.method \in {"delete_attachment", "unsubscribe_channel", "unblock_user"},
         r.owner \in UserRefs, r.subject \in UserRefs,
         NEW t \in Types, TypesOf(r) = {t}, WrittenTypes(r) = {TypeName[t]}
  PROVE  Route(Wire(r)) = Meaning(r)
<1>1. Meaning(r) = [method |-> "delete_attachment", owner |-> r.owner, subject |-> r.subject,
                    types |-> {t}]
  <2> DEFINE n == [r EXCEPT !.method = "delete_attachment"]
  <2>1. n.method = "delete_attachment" /\ n.owner = r.owner /\ n.subject = r.subject
    BY DEF HttpAttachmentArgs, AttachmentArgs
  <2>2. Meaning(r) = [method |-> n.method, owner |-> n.owner, subject |-> n.subject,
                      types |-> TypesOf(r)]
    BY DEF Meaning
  <2> HIDE DEF n
  <2> QED BY <2>1, <2>2
<1>2. Wire(r) = AttachmentWire(r) BY DEF Wire
<1>3. Wire(r) = [verb |-> "DELETE", path |-> AttachmentPath(r), query |-> Nothing,
                 body |-> Nothing]
  BY <1>2, AttachmentPathKept DEF AttachmentWire, Http
<1>4. Wire(r).path = AttachmentPath(r) /\ Wire(r).verb = "DELETE" BY <1>3
<1>5. /\ Len(Wire(r).path) # 5 /\ Wire(r).path[6] = TypeName[t]
      /\ UserAt(Wire(r).path, 7, 8) = r.subject
      /\ Route(Wire(r)) = AttachmentRoute(Wire(r), r.owner)
  BY <1>4, AttachmentPathRouted
<1> QED BY <1>1, <1>4, <1>5, NamesAreKnown DEF AttachmentRoute

\* Listing the attachments of a user, of all types or of one.
LEMMA AttachmentListMeaning ==
  ASSUME NEW r, r \in HttpAttachmentListArgs \cup AttachmentListArgs,
         Kind(r.method) = "list_attachments", Takes(r.method) = "list_attachments",
         Normal(r) = r,
         r.method \in {"list_attachments", "list_subscriptions", "list_blocked_users"},
         r.owner \in UserRefs, TypesOf(r) \subseteq Types,
         WrittenTypes(r) = {TypeName[t] : t \in TypesOf(r)}
  PROVE  Route(Wire(r)) = Meaning(r)
<1>1. Meaning(r) = [method |-> "list_attachments", owner |-> r.owner, types |-> TypesOf(r)]
  <2> DEFINE n == [r EXCEPT !.method = "list_attachments"]
  <2>1. n.method = "list_attachments" /\ n.owner = r.owner
    BY DEF HttpAttachmentListArgs, AttachmentListArgs
  <2>2. Meaning(r) = [method |-> n.method, owner |-> n.owner, types |-> TypesOf(r)]
    BY DEF Meaning
  <2> HIDE DEF n
  <2> QED BY <2>1, <2>2
<1>2. Wire(r) = AttachmentWire(r) BY DEF Wire
<1>3. Wire(r) = [verb |-> "GET", path |-> PartPath(r.owner, "attachments"),
                 query |-> [attachment_type |-> WrittenTypes(r)], body |-> Nothing]
  <2>1. Resolved(PartPath(r.owner, "attachments")) = PartPath(r.owner, "attachments")
    BY PartPathKept
  <2> QED BY <1>2, <2>1 DEF AttachmentWire, Get, Http
<1>4. /\ Wire(r).path = PartPath(r.owner, "attachments")
      /\ Given(Wire(r).query, "attachment_type") = WrittenTypes(r)
  BY <1>3 DEF Given
<1>5. Len(Wire(r).path) = 5 /\ Route(Wire(r)) = AttachmentRoute(Wire(r), r.owner)
  BY <1>4, PartPathRouted
<1>6. {Known(TypeName, s) : s \in WrittenTypes(r)} = TypesOf(r)
  BY NamesAreKnown
<1> QED BY <1>1, <1>4, <1>5, <1>6 DEF AttachmentRoute

\* Sending a message.
LEMMA MessageMeaning ==
  ASSUME NEW r \in MessageArgs
  PROVE  Route(Wire(r)) = Meaning(r)
<1>1. r.method = "send_message" /\ r.target \in UserRefs BY DEF MessageArgs
<1>2. Kind(r.method) = "send" /\ Takes(r.method) = "message" /\ Normal(r) = r
  BY <1>1 DEF Kind, Takes, Normal
<1>3. Meaning(r) = [method |-> "send", target |-> r.target, body |-> r.body]
  <2>1. Meaning(r) = [r EXCEPT !.method = "send"] BY <1>1, <1>2 DEF Meaning
  <2> QED BY <2>1 DEF MessageArgs
<1>4. Wire(r) = MessageWire(r) BY <1>1, <1>2 DEF Wire
<1>5. Wire(r) = [verb |-> "POST", path |-> PartPath(r.target, "messages"), query |-> Nothing,
                 body |-> SendBody(r)]
  <2>1. Resolved(PartPath(r.target, "messages")) = PartPath(r.target, "messages")
    BY <1>1, PartPathKept
  <2> QED BY <1>1, <1>4, <2>1 DEF MessageWire, Http
<1>6. Wire(r).verb = "POST" /\ Wire(r).path = PartPath(r.target, "messages") BY <1>5
<1>7. Route(Wire(r)) = MessageRoute(Wire(r), r.target)
  BY <1>1, <1>6, PartPathRouted
<1>8. /\ Given(Wire(r).body, "body") = {Base64(r.body)}
      /\ Given(Wire(r).body, "delivery_kind") = {}
  BY <1>1, <1>5 DEF SendBody, Given
<1>9. OrElse(Given(Wire(r).body, "body"), <<"", "">>)[2] = r.body
  <2>1. OrElse(Given(Wire(r).body, "body"), <<"", "">>) = Base64(r.body)
    BY <1>8, OrElseValue, Zenon
  <2>2. Base64(r.body)[2] = r.body BY DEF Base64
  <2> QED BY <2>1, <2>2, Zenon
<1>10. Wire(r).verb # "GET" BY <1>6
<1>11. MessageRoute(Wire(r), r.target) =
         [method |-> "send", target |-> r.target, body |-> r.body]
  BY <1>8, <1>9, <1>10, Zenon DEF MessageRoute, SendRoute
<1> QED BY <1>3, <1>7, <1>11

\* Sending a packet: the node of its target is that of its route.
LEMMA PacketMeaning ==
  ASSUME NEW r \in HttpPacketArgs, HttpAccepts(r)
  PROVE  Route(Wire(r)) = Meaning(r)
<1>1. r.method = "send_packet" /\ r.target \in UserRefs BY DEF HttpPacketArgs
<1>2. Kind(r.method) = "send" /\ Takes(r.method) = "accepted" /\ Normal(r) = r
  BY <1>1 DEF Kind, Takes, Normal
<1>3. Meaning(r) = [method |-> "send", target |-> r.target, body |-> r.body, mode |-> r.mode]
  <2> DEFINE n == [r EXCEPT !.method = "send"]
  <2>1. n.method = "send" /\ n.target = r.target /\ n.body = r.body /\ n.mode = r.mode
    BY DEF HttpPacketArgs
  <2>2. Meaning(r) = [method |-> n.method, target |-> n.target, body |-> n.body,
                      mode |-> n.mode]
    BY <1>1, <1>2 DEF Meaning
  <2> HIDE DEF n
  <2> QED BY <2>1, <2>2
<1>4. Wire(r) = MessageWire(r) BY <1>1, <1>2 DEF Wire
<1>5. Wire(r) = [verb |-> "POST", path |-> PartPath(r.target, "messages"), query |-> Nothing,
                 body |-> SendBody(r)]
  <2>1. Resolved(PartPath(r.target, "messages")) = PartPath(r.target, "messages")
    BY <1>1, PartPathKept
  <2> QED BY <1>1, <1>4, <2>1 DEF MessageWire, Http
<1>6. Wire(r).verb = "POST" /\ Wire(r).path = PartPath(r.target, "messages") BY <1>5
<1>7. Route(Wire(r)) = MessageRoute(Wire(r), r.target)
  BY <1>1, <1>6, PartPathRouted
<1>8. /\ Given(Wire(r).body, "body") = {Base64(r.body)}
      /\ Given(Wire(r).body, "delivery_kind") = {"transient"}
      /\ Given(Wire(r).body, "delivery_mode") = {ModeName[r.mode]}
  BY <1>1, <1>5 DEF SendBody, Given
<1>9. /\ OrElse(Given(Wire(r).body, "body"), <<"", "">>)[2] = r.body
      /\ Known(ModeName, OrElse(Given(Wire(r).body, "delivery_mode"), "")) = r.mode
  <2>1. /\ OrElse(Given(Wire(r).body, "body"), <<"", "">>) = Base64(r.body)
        /\ OrElse(Given(Wire(r).body, "delivery_mode"), "") = ModeName[r.mode]
    BY <1>8, OrElseValue, Zenon
  <2>2. Base64(r.body)[2] = r.body BY DEF Base64
  <2>3. r.mode \in Modes \ {"Unspecified"}
    BY <1>1, Zenon DEF HttpPacketArgs, HttpAccepts, Accepts, AcceptsMessage
  <2> QED BY <2>1, <2>2, <2>3, NamesAreKnown, Zenon
<1>10. Given(Wire(r).body, "delivery_kind") # {} BY <1>8
<1>11. Wire(r).verb # "GET" BY <1>6
<1>12. MessageRoute(Wire(r), r.target) =
         [method |-> "send", target |-> r.target, body |-> r.body, mode |-> r.mode]
  BY <1>9, <1>10, <1>11, Zenon DEF MessageRoute, SendRoute
<1> QED BY <1>3, <1>7, <1>12

\* Listing messages, those of a peer among them: a negative limit and one half of a peer
\* are what changes.
LEMMA ListMessagesMeaning ==
  ASSUME NEW r \in HttpListMessagesArgs
  PROVE  (Route(Wire(r)) = Meaning(r))
           <=> ~(r.limit < 0 \/ (r.peer_node = {}) # (r.peer_user = {}))
<1>1. r.method = "list_messages" /\ r.target \in UserRefs
      /\ r.peer_node \subseteq Numbers /\ r.peer_user \subseteq Numbers
  BY DEF HttpListMessagesArgs, Optional
<1>2. Kind(r.method) = "list_messages" /\ Takes(r.method) = "list_messages" /\ Normal(r) = r
  BY <1>1 DEF Kind, Takes, Normal
<1>3. Meaning(r) = [method |-> "list_messages", target |-> r.target, limit |-> r.limit,
                    peer_node |-> r.peer_node, peer_user |-> r.peer_user]
  <2>1. Meaning(r) = [r EXCEPT !.method = "list_messages"] BY <1>1, <1>2 DEF Meaning
  <2> QED BY <2>1 DEF HttpListMessagesArgs
<1>4. Wire(r) = MessageWire(r) BY <1>1, <1>2 DEF Wire
<1>5. Wire(r) = [verb |-> "GET", path |-> PartPath(r.target, "messages"),
                 query |-> ListMessagesQuery(r), body |-> Nothing]
  <2>1. Resolved(PartPath(r.target, "messages")) = PartPath(r.target, "messages")
    BY <1>1, PartPathKept
  <2> QED BY <1>1, <1>4, <2>1 DEF MessageWire, Get, Http
<1>6. /\ Wire(r).verb = "GET" /\ Wire(r).path = PartPath(r.target, "messages")
      /\ Wire(r).query = ListMessagesQuery(r)
  BY <1>5
<1>7. Route(Wire(r)) = MessageRoute(Wire(r), r.target)
  BY <1>1, <1>6, PartPathRouted
<1> DEFINE nodes == Given(Wire(r).query, "peer_node_id")
           users == Given(Wire(r).query, "peer_user_id")
           whole == r.peer_node # {} /\ r.peer_user # {}
<1>8. /\ Given(Wire(r).query, "limit") = IfPositive(r.limit)
      /\ IF r.peer_node # {} /\ r.peer_user # {}
           THEN /\ nodes = {Decimal[n] : n \in r.peer_node}
                /\ users = {Decimal[n] : n \in r.peer_user}
           ELSE nodes = {} /\ users = {}
  <2>1. CASE r.peer_node # {} /\ r.peer_user # {}
    <3> DEFINE a == {Decimal[n] : n \in r.peer_node}
               b == {Decimal[n] : n \in r.peer_user}
    <3>1. ListMessagesQuery(r) = [limit |-> IfPositive(r.limit), peer_node_id |-> a,
                                  peer_user_id |-> b]
      BY <2>1 DEF ListMessagesQuery
    <3> HIDE DEF a, b
    <3>2. nodes = a /\ users = b /\ Given(Wire(r).query, "limit") = IfPositive(r.limit)
      BY <1>6, <3>1 DEF Given
    <3> QED BY <2>1, <3>2 DEF a, b
  <2>2. CASE ~(r.peer_node # {} /\ r.peer_user # {})
    <3>1. ListMessagesQuery(r) = [limit |-> IfPositive(r.limit)]
      BY <2>2, Zenon DEF ListMessagesQuery
    <3>2. nodes = {} /\ users = {} /\ Given(Wire(r).query, "limit") = IfPositive(r.limit)
      BY <1>6, <3>1 DEF Given
    <3> QED BY <2>2, <3>2
  <2> QED BY <2>1, <2>2
<1>9. \A n \in Numbers : Number(Decimal[n]) = n BY NumberOfDecimal, NumbersAreWritten
<1> HIDE DEF nodes, users
<1>10. /\ whole => NumbersIn(nodes) = r.peer_node /\ NumbersIn(users) = r.peer_user
       /\ ~whole => NumbersIn(nodes) = {} /\ NumbersIn(users) = {}
  <2>1. CASE whole
    <3>1. nodes = {Decimal[n] : n \in r.peer_node} /\ users = {Decimal[n] : n \in r.peer_user}
      BY <1>8, <2>1
    <3>2. NumbersIn(nodes) = r.peer_node BY <1>1, <1>9, <3>1 DEF NumbersIn
    <3>3. NumbersIn(users) = r.peer_user BY <1>1, <1>9, <3>1 DEF NumbersIn
    <3> QED BY <2>1, <3>2, <3>3
  <2>2. CASE ~whole
    BY <1>8, <2>2 DEF NumbersIn
  <2> QED BY <2>1, <2>2
<1>11. MessageRoute(Wire(r), r.target) =
         [method |-> "list_messages", target |-> r.target, limit |-> LimitIn(Wire(r)),
          peer_node |-> NumbersIn(nodes), peer_user |-> NumbersIn(users)]
  BY <1>6, Zenon DEF MessageRoute, nodes, users
<1>12. r.limit \in Limits /\ r.limit \in Int
  BY NumbersAreWritten DEF HttpListMessagesArgs
<1>13. LimitIn(Wire(r)) = IF r.limit > 0 THEN r.limit ELSE 0
  BY <1>8, <1>12, LimitIsRead
<1>14. (LimitIn(Wire(r)) = r.limit) <=> ~(r.limit < 0) BY <1>12, <1>13
<1>15. (NumbersIn(nodes) = r.peer_node /\ NumbersIn(users) = r.peer_user)
         <=> ~((r.peer_node = {}) # (r.peer_user = {}))
  BY <1>10
<1>16. (Route(Wire(r)) = Meaning(r))
         <=> /\ LimitIn(Wire(r)) = r.limit
             /\ NumbersIn(nodes) = r.peer_node /\ NumbersIn(users) = r.peer_user
  BY <1>3, <1>7, <1>11
<1> QED BY <1>14, <1>15, <1>16, Zenon

\* Listing events: a negative limit is what changes.
LEMMA ListEventsMeaning ==
  ASSUME NEW r \in HttpListEventsArgs
  PROVE  (Route(Wire(r)) = Meaning(r)) <=> ~(r.limit < 0)
<1>1. r.method = "list_events" /\ r.after \in Numbers BY DEF HttpListEventsArgs
<1>2. Kind(r.method) = "list_events" /\ Takes(r.method) = "list_events" /\ Normal(r) = r
  BY <1>1 DEF Kind, Takes, Normal
<1>3. r = [method |-> "list_events", after |-> r.after, limit |-> r.limit]
  BY DEF HttpListEventsArgs
<1>4. Meaning(r) = r BY <1>1, <1>2, <1>3 DEF Meaning
<1>5. Wire(r) = NodeWire(r) BY <1>1, <1>2 DEF Wire
<1>6. Wire(r) = [verb |-> "GET", path |-> <<"events">>, query |-> ListEventsQuery(r),
                 body |-> Nothing]
  BY <1>1, <1>5 DEF NodeWire, Get, Http, Resolved
<1> DEFINE after == {Decimal[n] : n \in {r.after} \ {0}}
<1>7. /\ Given(Wire(r).query, "after") = after
      /\ Given(Wire(r).query, "limit") = IfPositive(r.limit)
  <2>1. ListEventsQuery(r) = [after |-> after, limit |-> IfPositive(r.limit)]
    BY DEF ListEventsQuery
  <2> HIDE DEF after
  <2> QED BY <1>6, <2>1 DEF Given
<1>8. Route(Wire(r)) = [method |-> "list_events", limit |-> LimitIn(Wire(r)),
                        after |-> OrElse(NumbersIn(Given(Wire(r).query, "after")), 0)]
  BY <1>6 DEF Route
<1>9. OrElse(NumbersIn(after), 0) = r.after
  <2>1. Number(Decimal[r.after]) = r.after BY <1>1, NumberOfDecimal, NumbersAreWritten
  <2>2. NumbersIn(after) = {r.after} \ {0} BY <2>1 DEF NumbersIn
  <2>3. CASE r.after = 0 BY <2>2, <2>3, OrElseValue
  <2>4. CASE r.after # 0
    <3>1. NumbersIn(after) = {r.after} BY <2>2, <2>4
    <3> QED BY <3>1, OrElseValue
  <2> QED BY <2>3, <2>4
<1> HIDE DEF after
<1>10. r.limit \in Limits /\ r.limit \in Int
  BY NumbersAreWritten DEF HttpListEventsArgs
<1>11. LimitIn(Wire(r)) = IF r.limit > 0 THEN r.limit ELSE 0
  BY <1>7, <1>10, LimitIsRead
<1>12. (LimitIn(Wire(r)) = r.limit) <=> ~(r.limit < 0) BY <1>10, <1>11
<1>13. Route(Wire(r)) = [method |-> "list_events", limit |-> LimitIn(Wire(r)),
                         after |-> r.after]
  BY <1>7, <1>8, <1>9
<1>14. (Route(Wire(r)) = Meaning(r)) <=> (LimitIn(Wire(r)) = r.limit)
  BY <1>3, <1>4, <1>13
<1> QED BY <1>12, <1>14, Zenon

\* Who is logged in at a node.
LEMMA NodeMeaning ==
  ASSUME NEW r \in NodeArgs
  PROVE  Route(Wire(r)) = Meaning(r)
<1>1. /\ r.method = "list_node_logged_in_users" /\ r.node_id \in Numbers
      /\ r = [method |-> r.method, node_id |-> r.node_id]
  BY DEF NodeArgs
<1>2. Kind(r.method) = r.method /\ Takes(r.method) = r.method /\ Normal(r) = r
  BY <1>1 DEF Kind, Takes, Normal
<1>3. Meaning(r) = r BY <1>1, <1>2 DEF Meaning
<1>4. Wire(r) = NodeWire(r) BY <1>1, <1>2 DEF Wire
<1>5. Wire(r) = [verb |-> "GET", query |-> Nothing, body |-> Nothing,
                 path |-> <<"cluster", "nodes", Decimal[r.node_id], "logged-in-users">>]
  BY <1>1, <1>4 DEF NodeWire, Get, Http, Resolved
<1>6. Route(Wire(r)) = [method |-> "list_node_logged_in_users",
                        node_id |-> Number(Decimal[r.node_id])]
  BY <1>5 DEF Route
<1> QED BY <1>1, <1>3, <1>6, NumberOfDecimal, NumbersAreWritten

\* The calls without arguments.
LEMMA PlainMeaning ==
  ASSUME NEW r \in PlainArgs, r.method \in {"list_cluster_nodes", "operations_status", "metrics"}
  PROVE  Route(Wire(r)) = Meaning(r)
<1>1. r = [method |-> r.method] BY DEF PlainArgs
<1>2. Kind(r.method) = r.method /\ Takes(r.method) = r.method /\ Normal(r) = r
  BY DEF Kind, Takes, Normal
<1>3. Meaning(r) = r BY <1>1, <1>2 DEF Meaning
<1>4. Wire(r) = NodeWire(r) BY <1>2 DEF Wire
<1>5. CASE r.method = "list_cluster_nodes"
  <2>1. Wire(r).path = <<"cluster", "nodes">>
    BY <1>4, <1>5 DEF NodeWire, Get, Http, Resolved
  <2>2. Route(Wire(r)) = [method |-> "list_cluster_nodes"] BY <2>1 DEF Route
  <2> QED BY <1>1, <1>3, <1>5, <2>2
<1>6. CASE r.method = "operations_status"
  <2>1. Wire(r).path = <<"ops", "status">>
    BY <1>4, <1>6 DEF NodeWire, Get, Http, Resolved
  <2>2. Route(Wire(r)) = [method |-> "operations_status"] BY <2>1 DEF Route
  <2> QED BY <1>1, <1>3, <1>6, <2>2
<1>7. CASE r.method = "metrics"
  <2>1. Wire(r).path = <<"metrics">>
    BY <1>4, <1>7 DEF NodeWire, Get, Http, Resolved
  <2>2. Route(Wire(r)) = [method |-> "metrics"] BY <2>1 DEF Route
  <2> QED BY <1>1, <1>3, <1>7, <2>2
<1> QED BY <1>5, <1>6, <1>7

\* The attachment methods of this client, and their aliases on both: an empty configuration
\* is the only thing that changes.
LEMMA AttachmentMeaning ==
  ASSUME NEW r \in HttpAttachmentArgs \cup
                     Of(AttachmentArgs, {"subscribe_channel", "unsubscribe_channel",
                                         "block_user", "unblock_user"})
  PROVE  (Route(Wire(r)) = Meaning(r)) <=> ~(r.method = "upsert_attachment" /\ r.config = "")
<1>1. r.owner \in UserRefs /\ r.subject \in UserRefs
  BY DEF HttpAttachmentArgs, AttachmentArgs, Of
<1>2. \/ r.method \in {"upsert_attachment", "subscribe_channel", "block_user"}
      \/ r.method \in {"delete_attachment", "unsubscribe_channel", "unblock_user"}
  BY DEF HttpAttachmentArgs, AttachmentArgs, Of
<1>3. r \in HttpAttachmentArgs \cup AttachmentArgs BY DEF Of
<1>4. Normal(r) = r /\ Takes(r.method) = "Attachment" BY <1>2 DEF Normal, Takes
<1>5. r.method \in {"upsert_attachment", "delete_attachment"} => r.type \in Types
  BY DEF HttpAttachmentArgs, AttachmentArgs, Of
<1>6. PICK t \in Types : TypesOf(r) = {t} /\ WrittenTypes(r) = {TypeName[t]}
  <2>1. CASE r.method \in {"upsert_attachment", "delete_attachment"}
    BY <1>5, <2>1 DEF TypesOf, WrittenTypes
  <2>2. CASE r.method \in {"subscribe_channel", "unsubscribe_channel"}
    BY <2>2 DEF TypesOf, WrittenTypes, TypeName, Types
  <2>3. CASE r.method \in {"block_user", "unblock_user"}
    BY <2>3 DEF TypesOf, WrittenTypes, TypeName, Types
  <2> QED BY <1>2, <2>1, <2>2, <2>3
<1>7. CASE r.method \in {"upsert_attachment", "subscribe_channel", "block_user"}
  <2>1. Kind(r.method) = "upsert_attachment" BY <1>7 DEF Kind
  <2>2. /\ Route(Wire(r)) = [method |-> "upsert_attachment", owner |-> r.owner,
                             subject |-> r.subject, types |-> {t},
                             config |-> WrittenConfig(r)]
        /\ Meaning(r) = [method |-> "upsert_attachment", owner |-> r.owner,
                         subject |-> r.subject, types |-> {t}, config |-> ConfigOf(r)]
    BY <1>1, <1>3, <1>4, <1>6, <1>7, <2>1, AttachMeaning
  <2>3. (Route(Wire(r)) = Meaning(r)) <=> (WrittenConfig(r) = ConfigOf(r)) BY <2>2
  <2>4. (WrittenConfig(r) = ConfigOf(r)) <=> ~(r.method = "upsert_attachment" /\ r.config = "")
    BY Zenon DEF WrittenConfig, ConfigOf
  <2> QED BY <2>3, <2>4, Zenon
<1>8. CASE r.method \in {"delete_attachment", "unsubscribe_channel", "unblock_user"}
  <2>1. Kind(r.method) = "delete_attachment" BY <1>8 DEF Kind
  <2>2. Route(Wire(r)) = Meaning(r)
    BY <1>1, <1>3, <1>4, <1>6, <1>8, <2>1, DetachMeaning
  <2> QED BY <1>8, <2>2
<1> QED BY <1>2, <1>7, <1>8

LEMMA AttachmentsMeaning ==
  ASSUME NEW r \in HttpAttachmentListArgs \cup
                     Of(AttachmentListArgs, {"list_subscriptions", "list_blocked_users"})
  PROVE  Route(Wire(r)) = Meaning(r)
<1>1. r.owner \in UserRefs
  BY DEF HttpAttachmentListArgs, AttachmentListArgs, Of
<1>2. r.method \in {"list_attachments", "list_subscriptions", "list_blocked_users"}
  BY DEF HttpAttachmentListArgs, AttachmentListArgs, Of
<1>3. r \in HttpAttachmentListArgs \cup AttachmentListArgs BY DEF Of
<1>4. /\ Normal(r) = r /\ Takes(r.method) = "list_attachments"
      /\ Kind(r.method) = "list_attachments"
  BY <1>2 DEF Normal, Takes, Kind
<1>5. r.method = "list_attachments" => r.types \subseteq Types
  BY DEF HttpAttachmentListArgs, AttachmentListArgs, Of, Optional
<1>6. TypesOf(r) \subseteq Types /\ WrittenTypes(r) = {TypeName[t] : t \in TypesOf(r)}
  <2>1. CASE r.method = "list_attachments"
    BY <1>5, <2>1 DEF TypesOf, WrittenTypes
  <2>2. CASE r.method = "list_subscriptions"
    BY <2>2 DEF TypesOf, WrittenTypes, TypeName, Types
  <2>3. CASE r.method = "list_blocked_users"
    BY <2>3 DEF TypesOf, WrittenTypes, TypeName, Types
  <2> QED BY <1>2, <2>1, <2>2, <2>3
<1> QED BY <1>1, <1>2, <1>3, <1>4, <1>6, AttachmentListMeaning

-----------------------------------------------------------------------------
(* All of them.                                                            *)

\* A call is of one of these kinds.
LEMMA Kinds ==
  ASSUME NEW r \in HttpRequests
  PROVE  \/ r \in MessageArgs \/ r \in Of(UserArgs, {"get_user", "delete_user"})
         \/ r \in ListUsersArgs \/ r \in MetadataArgs \/ r \in UpsertArgs
         \/ r \in ScanArgs \/ r \in NodeArgs
         \/ r \in Of(PlainArgs, {"list_cluster_nodes", "operations_status", "metrics"})
         \/ r \in LoginArgs \/ r \in HttpCreateArgs \/ r \in HttpUpdateArgs
         \/ r \in HttpPacketArgs
         \/ r \in HttpAttachmentArgs \cup
                    Of(AttachmentArgs, {"subscribe_channel", "unsubscribe_channel",
                                        "block_user", "unblock_user"})
         \/ r \in HttpAttachmentListArgs \cup
                    Of(AttachmentListArgs, {"list_subscriptions", "list_blocked_users"})
         \/ r \in HttpListMessagesArgs \/ r \in HttpListEventsArgs
BY DEF HttpRequests, CommonArgs

\* Whatever a method of the REST client is called with, what the routes read in its request
\* is what the same call of the WebSocket client asks for, but for the calls of Differs().
THEOREM MeaningKept ==
  ASSUME NEW r \in HttpRequests, HttpAccepts(r), ~Differs(r)
  PROVE  Route(Wire(r)) = Meaning(r)
<1>1. CASE r \in MessageArgs BY <1>1, MessageMeaning
<1>2. CASE r \in Of(UserArgs, {"get_user", "delete_user"}) BY <1>2, UserMeaning
<1>3. CASE r \in ListUsersArgs BY <1>3, ListUsersMeaning
<1>4. CASE r \in MetadataArgs
  <2>1. Takes(r.method) = "UserMetadata" BY <1>4 DEF MetadataArgs, Takes
  <2> QED BY <1>4, <2>1, MetadataMeaning DEF Differs
<1>5. CASE r \in UpsertArgs
  <2>1. Takes(r.method) = "UserMetadata" BY <1>5 DEF UpsertArgs, Takes
  <2> QED BY <1>5, <2>1, UpsertMeaning DEF Differs
<1>6. CASE r \in ScanArgs BY <1>6, ScanMeaning
<1>7. CASE r \in NodeArgs BY <1>7, NodeMeaning
<1>8. CASE r \in Of(PlainArgs, {"list_cluster_nodes", "operations_status", "metrics"})
  BY <1>8, PlainMeaning DEF Of
<1>9. CASE r \in LoginArgs BY <1>9, LoginMeaning
<1>10. CASE r \in HttpCreateArgs BY <1>10, CreateMeaning
<1>11. CASE r \in HttpUpdateArgs BY <1>11, UpdateMeaning
<1>12. CASE r \in HttpPacketArgs BY <1>12, PacketMeaning
<1>13. CASE r \in HttpAttachmentArgs \cup
                    Of(AttachmentArgs, {"subscribe_channel", "unsubscribe_channel",
                                        "block_user", "unblock_user"})
  <2>1. ~(r.method = "upsert_attachment" /\ r.config = "") BY Zenon DEF Differs
  <2> QED BY <1>13, <2>1, AttachmentMeaning, Zenon
<1>14. CASE r \in HttpAttachmentListArgs \cup
                    Of(AttachmentListArgs, {"list_subscriptions", "list_blocked_users"})
  BY <1>14, AttachmentsMeaning
<1>15. CASE r \in HttpListMessagesArgs
  <2>1. r.method = "list_messages" BY <1>15 DEF HttpListMessagesArgs
  <2> QED BY <1>15, <2>1, ListMessagesMeaning DEF Differs
<1>16. CASE r \in HttpListEventsArgs
  <2>1. r.method = "list_events" BY <1>16 DEF HttpListEventsArgs
  <2> QED BY <1>16, <2>1, ListEventsMeaning DEF Differs
<1> QED
  BY Kinds, <1>1, <1>2, <1>3, <1>4, <1>5, <1>6, <1>7, <1>8, <1>9, <1>10, <1>11, <1>12, <1>13,
     <1>14, <1>15, <1>16

\* Each of the calls of Differs() is an exception: what the routes read is something else.
THEOREM MeaningLost ==
  ASSUME NEW r \in HttpRequests, Differs(r)
  PROVE  Route(Wire(r)) # Meaning(r)
<1>1. CASE Takes(r.method) = "UserMetadata" /\ r.key \in {".", ".."}
  <2>1. r.method \in {"get_user_metadata", "delete_user_metadata", "upsert_user_metadata"}
    BY <1>1, Kinds
    DEF Takes, MessageArgs, UserArgs, ListUsersArgs, MetadataArgs, UpsertArgs, ScanArgs,
        NodeArgs, PlainArgs, LoginArgs, HttpCreateArgs, HttpUpdateArgs, HttpPacketArgs,
        HttpAttachmentArgs, AttachmentArgs, HttpAttachmentListArgs, AttachmentListArgs,
        HttpListMessagesArgs, HttpListEventsArgs, Of
  <2>2. r \in MetadataArgs \cup UpsertArgs
    BY <2>1, Kinds
    DEF MessageArgs, ListUsersArgs, ScanArgs, NodeArgs, LoginArgs, HttpCreateArgs,
        HttpUpdateArgs, HttpPacketArgs, HttpAttachmentArgs, HttpAttachmentListArgs,
        HttpListMessagesArgs, HttpListEventsArgs, Of
  <2> QED BY <1>1, <2>2, DotKeyIsLost
<1>2. r.method = "list_messages" => r \in HttpListMessagesArgs
  BY Kinds
  DEF MessageArgs, ListUsersArgs, MetadataArgs, UpsertArgs, ScanArgs, NodeArgs, LoginArgs,
      HttpCreateArgs, HttpUpdateArgs, HttpPacketArgs, HttpAttachmentArgs,
      HttpAttachmentListArgs, HttpListEventsArgs, Of
<1>3. r.method = "list_events" => r \in HttpListEventsArgs
  BY Kinds
  DEF MessageArgs, ListUsersArgs, MetadataArgs, UpsertArgs, ScanArgs, NodeArgs, LoginArgs,
      HttpCreateArgs, HttpUpdateArgs, HttpPacketArgs, HttpAttachmentArgs,
      HttpAttachmentListArgs, HttpListMessagesArgs, Of
<1>4. r.method = "upsert_attachment" => r \in HttpAttachmentArgs
  BY Kinds
  DEF MessageArgs, ListUsersArgs, MetadataArgs, UpsertArgs, ScanArgs, NodeArgs, LoginArgs,
      HttpCreateArgs, HttpUpdateArgs, HttpPacketArgs,
      HttpAttachmentListArgs, HttpListMessagesArgs, HttpListEventsArgs, Of
<1>5. CASE \/ r.method = "list_messages"
              /\ (r.limit < 0 \/ (r.peer_node = {}) # (r.peer_user = {}))
           \/ r.method = "list_events" /\ r.limit < 0
           \/ r.method = "upsert_attachment" /\ r.config = ""
  BY <1>2, <1>3, <1>4, <1>5, ListMessagesMeaning, ListEventsMeaning, AttachmentMeaning, Zenon
<1> QED BY <1>1, <1>5 DEF Differs
=============================================================================

--------------------------- MODULE Requests_proofs ---------------------------
(* That the checks of the methods let through only what the documents ask of a  *)
(* request, kind of request by kind of request.                                *)
EXTENDS Requests, TLAPS

\* Numbers are integers.
LEMMA NumbersAreInts ==
  (\A n \in Numbers : n \in Int) /\ (\A n \in Limits : n \in Int)
  BY NumbersAssumption

\* A user that passes the check is named in full.
LEMMA ValidIsInFull == ASSUME NEW u \in UserRefs, ValidUser(u) PROVE InFull(u)
  BY NumbersAreInts DEF UserRefs, ValidUser, Positive, InFull

\* A user that is not set has two zeros.
LEMMA UnsetIsZero ==
  ASSUME NEW u \in UserRefs, Unset(u) PROVE u = [node_id |-> 0, user_id |-> 0]
  BY DEF UserRefs, Unset

\* So is a session that passes its check.
LEMMA SessionIsWhole ==
  ASSUME NEW s \in Sessions, ValidSession(s)
  PROVE  s.serving_node_id >= 1 /\ Trimmed(s.session_id) # ""
  <1>1. s.serving_node_id \in Numbers
    BY Zenon DEF Sessions
  <1>2. Positive(s.serving_node_id) /\ Trimmed(s.session_id) # ""
    BY Zenon DEF ValidSession
  <1>3. Positive(s.serving_node_id)
    BY <1>2, Zenon
  <1>4. s.serving_node_id >= 1
    BY <1>1, <1>3, NumbersAreInts, SMT DEF Positive
  <1> QED
    BY <1>2, <1>4, Zenon

\* A message: its target is named in full, and it has a body.
LEMMA MessageSound == ASSUME NEW r \in MessageArgs, Accepts(r) PROVE Sound(Normal(r))
  <1>1. Normal(r) = r
    BY Zenon DEF MessageArgs, Normal
  <1>2. DOMAIN Normal(r) = {"method", "target", "body"}
    BY <1>1, Zenon DEF MessageArgs
  <1>3. ValidUser(r.target) /\ r.body # ""
    BY Zenon DEF MessageArgs, Accepts, AcceptsMessage
  <1>4. r.target \in UserRefs /\ Normal(r).target = r.target
    BY <1>1, Zenon DEF MessageArgs
  <1>5. InFull(Normal(r).target)
    BY <1>4, <1>3, ValidIsInFull
  <1>6. Normal(r).body # ""
    BY <1>1, <1>3, Zenon DEF MessageArgs
  <1>7. Normal(r).method = r.method
    BY <1>1, Zenon DEF MessageArgs
  <1>8. /\ Normal(r).method \notin {"create_user", "create_channel"}
        /\ Normal(r).method # "update_user"
        /\ Normal(r).method # "upsert_user_metadata"
    BY <1>7, Zenon DEF MessageArgs
  <1> QED
    BY <1>2, <1>5, <1>6, <1>8, Zenon DEF Sound

\* A packet: the session, if there is one, is named in full, and the mode is set.
LEMMA PacketSound == ASSUME NEW r \in PacketArgs, Accepts(r) PROVE Sound(Normal(r))
  <1>1. Normal(r) = r
    BY Zenon DEF PacketArgs, Normal
  <1>2. DOMAIN Normal(r) = {"method", "target", "body", "mode", "session"}
    BY <1>1, Zenon DEF PacketArgs
  <1>3. /\ ValidUser(r.target) /\ r.body # "" /\ r.mode # "Unspecified"
        /\ \A s \in r.session : ValidSession(s)
    BY Zenon DEF PacketArgs, Accepts, AcceptsMessage
  <1>4. r.target \in UserRefs /\ Normal(r).target = r.target
    BY <1>1, Zenon DEF PacketArgs
  <1>5. InFull(Normal(r).target)
    BY <1>4, <1>3, ValidIsInFull
  <1>6. r.session \subseteq Sessions /\ Normal(r).session = r.session
    BY <1>1, Zenon DEF PacketArgs, Optional
  <1>7. \A s \in Normal(r).session : s.serving_node_id >= 1 /\ Trimmed(s.session_id) # ""
    BY <1>6, <1>3, SessionIsWhole, Zenon
  <1>8. Normal(r).body # ""
    BY <1>1, <1>3, Zenon DEF PacketArgs
  <1>9. Normal(r).mode # "Unspecified"
    BY <1>1, <1>3, Zenon DEF PacketArgs
  <1>10. Normal(r).method = r.method
    BY <1>1, Zenon DEF PacketArgs
  <1>11. /\ Normal(r).method \notin {"create_user", "create_channel"}
        /\ Normal(r).method # "update_user"
        /\ Normal(r).method # "upsert_user_metadata"
    BY <1>10, Zenon DEF PacketArgs
  <1> QED
    BY <1>2, <1>5, <1>7, <1>8, <1>9, <1>11, Zenon DEF Sound

\* A new user or channel: a role of channel, however it is written, has no login.
LEMMA CreateSound == ASSUME NEW r \in CreateArgs, Accepts(r) PROVE Sound(Normal(r))
  <1>1. Normal(r) = [r EXCEPT !.role = RoleOf(r), !.login = Named(r.login)]
    BY Zenon DEF CreateArgs, Normal
  <1>2. DOMAIN Normal(r) = {"method", "username", "role", "login", "password"}
    BY <1>1, Zenon DEF CreateArgs
  <1>3. AcceptsCreate(r)
    BY Zenon DEF CreateArgs, Accepts
  <1>4. "" \notin Normal(r).password
    BY <1>1, <1>3, Zenon DEF CreateArgs, AcceptsCreate
  <1>5. Normal(r).method = r.method
    BY <1>1, Zenon DEF CreateArgs
  <1>6. /\ Normal(r).method # "update_user"
        /\ Normal(r).method # "upsert_user_metadata"
    BY <1>5, Zenon DEF CreateArgs
  <1>7. /\ Normal(r).username = r.username /\ Normal(r).role = RoleOf(r)
        /\ Normal(r).login = Named(r.login)
    BY <1>1, Zenon DEF CreateArgs
  <1>8. /\ Normal(r).username # ""
        /\ Trimmed(Normal(r).role) = "channel" => Normal(r).login = {}
    BY <1>7, <1>3, Zenon DEF AcceptsCreate, ValidLogin
  <1> QED
    BY <1>2, <1>4, <1>6, <1>8, Zenon DEF Sound

\* An update: neither does one that makes a user a channel set a login.
LEMMA UpdateSound == ASSUME NEW r \in UpdateArgs, Accepts(r) PROVE Sound(Normal(r))
  <1>1. Normal(r) = [r EXCEPT !.login = {Trimmed(l) : l \in r.login}]
    BY Zenon DEF UpdateArgs, Normal
  <1>2. DOMAIN Normal(r) = {"method", "target", "username", "role", "login", "password"}
    BY <1>1, Zenon DEF UpdateArgs
  <1>3. ValidUser(r.target) /\ "" \notin r.password /\ ValidLogin(r.role, r.login)
    BY Zenon DEF UpdateArgs, Accepts, AcceptsUpdate
  <1>4. r.target \in UserRefs /\ Normal(r).target = r.target
    BY <1>1, Zenon DEF UpdateArgs
  <1>5. InFull(Normal(r).target)
    BY <1>4, <1>3, ValidIsInFull
  <1>6. "" \notin Normal(r).password
    BY <1>1, <1>3, Zenon DEF UpdateArgs
  <1>7. Normal(r).method = r.method
    BY <1>1, Zenon DEF UpdateArgs
  <1>8. /\ Normal(r).method \notin {"create_user", "create_channel"}
        /\ Normal(r).method # "upsert_user_metadata"
    BY <1>7, Zenon DEF UpdateArgs
  <1>9. Normal(r).role = r.role /\ Normal(r).login = {Trimmed(l) : l \in r.login}
    BY <1>1, Zenon DEF UpdateArgs
  <1>10. \A role \in Normal(r).role :
          Trimmed(role) = "channel" => Normal(r).login \subseteq {""}
    BY <1>9, <1>3, Zenon DEF ValidLogin, Named
  <1> QED
    BY <1>2, <1>5, <1>6, <1>8, <1>10, Zenon DEF Sound

\* Requests that name a user.
LEMMA UserSound == ASSUME NEW r \in UserArgs, Accepts(r) PROVE Sound(Normal(r))
  <1>1. Normal(r) = r
    BY Zenon DEF UserArgs, Normal
  <1>2. DOMAIN Normal(r) = {"method", "target"}
    BY <1>1, Zenon DEF UserArgs
  <1>3. ValidUser(r.target)
    BY Zenon DEF UserArgs, Accepts
  <1>4. r.target \in UserRefs /\ Normal(r).target = r.target
    BY <1>1, Zenon DEF UserArgs
  <1>5. InFull(Normal(r).target)
    BY <1>4, <1>3, ValidIsInFull
  <1>6. Normal(r).method = r.method
    BY <1>1, Zenon DEF UserArgs
  <1>7. /\ Normal(r).method \notin {"create_user", "create_channel"}
        /\ Normal(r).method # "update_user"
        /\ Normal(r).method # "upsert_user_metadata"
    BY <1>6, Zenon DEF UserArgs
  <1> QED
    BY <1>2, <1>5, <1>7, Zenon DEF Sound

\* A filter by user is whole or absent.
LEMMA ListUsersSound == ASSUME NEW r \in ListUsersArgs, Accepts(r) PROVE Sound(Normal(r))
  <1>1. Normal(r) = [r EXCEPT !.name = Trimmed(r.name)]
    BY Zenon DEF ListUsersArgs, Normal
  <1>2. DOMAIN Normal(r) = {"method", "name", "uid"}
    BY <1>1, Zenon DEF ListUsersArgs
  <1>3. Unset(r.uid) \/ ValidUser(r.uid)
    BY Zenon DEF ListUsersArgs, Accepts, AcceptsListUsers
  <1>4. r.uid \in UserRefs /\ Normal(r).uid = r.uid
    BY <1>1, Zenon DEF ListUsersArgs
  <1>5. Normal(r).uid = [node_id |-> 0, user_id |-> 0] \/ InFull(Normal(r).uid)
    BY <1>4, <1>3, ValidIsInFull, UnsetIsZero
  <1>6. Normal(r).method = r.method
    BY <1>1, Zenon DEF ListUsersArgs
  <1>7. /\ Normal(r).method \notin {"create_user", "create_channel"}
        /\ Normal(r).method # "update_user"
        /\ Normal(r).method # "upsert_user_metadata"
    BY <1>6, Zenon DEF ListUsersArgs
  <1> QED
    BY <1>2, <1>5, <1>7, Zenon DEF Sound

\* Metadata of a user under a key that is valid.
LEMMA MetadataSound == ASSUME NEW r \in MetadataArgs, Accepts(r) PROVE Sound(Normal(r))
  <1>1. Normal(r) = r
    BY Zenon DEF MetadataArgs, Normal
  <1>2. DOMAIN Normal(r) = {"method", "owner", "key"}
    BY <1>1, Zenon DEF MetadataArgs
  <1>3. ValidUser(r.owner) /\ ValidKey(r.key)
    BY Zenon DEF MetadataArgs, Accepts, AcceptsMetadata
  <1>4. r.owner \in UserRefs /\ Normal(r).owner = r.owner
    BY <1>1, Zenon DEF MetadataArgs
  <1>5. InFull(Normal(r).owner)
    BY <1>4, <1>3, ValidIsInFull
  <1>6. r.key \in Keys /\ Normal(r).key = r.key
    BY <1>1, Zenon DEF MetadataArgs
  <1>7. Normal(r).key \in {"k", ".", "..", Visible}
    BY <1>6, <1>3, Zenon DEF ValidKey, Keys
  <1>8. Normal(r).method = r.method
    BY <1>1, Zenon DEF MetadataArgs
  <1>9. /\ Normal(r).method \notin {"create_user", "create_channel"}
        /\ Normal(r).method # "update_user"
        /\ Normal(r).method # "upsert_user_metadata"
    BY <1>8, Zenon DEF MetadataArgs
  <1> QED
    BY <1>2, <1>5, <1>7, <1>9, Zenon DEF Sound

\* system.visible_to_others becomes a boolean that does not expire.
LEMMA UpsertSound == ASSUME NEW r \in UpsertArgs, Accepts(r) PROVE Sound(Normal(r))
  <1>1. Normal(r) = [r EXCEPT !.value = Raw(r), !.typed = {}]
    BY Zenon DEF UpsertArgs, Normal
  <1>2. DOMAIN Normal(r) = {"method", "owner", "key", "value", "typed", "expires"}
    BY <1>1, Zenon DEF UpsertArgs
  <1>3. ValidUser(r.owner) /\ ValidKey(r.key) /\ ValidUpsert(r)
    BY Zenon DEF UpsertArgs, Accepts, AcceptsMetadata
  <1>4. r.owner \in UserRefs /\ Normal(r).owner = r.owner
    BY <1>1, Zenon DEF UpsertArgs
  <1>5. InFull(Normal(r).owner)
    BY <1>4, <1>3, ValidIsInFull
  <1>6. r.key \in Keys /\ Normal(r).key = r.key
    BY <1>1, Zenon DEF UpsertArgs
  <1>7. Normal(r).key \in {"k", ".", "..", Visible}
    BY <1>6, <1>3, Zenon DEF ValidKey, Keys
  <1>8. Normal(r).method = r.method
    BY <1>1, Zenon DEF UpsertArgs
  <1>9. /\ Normal(r).method \notin {"create_user", "create_channel"}
        /\ Normal(r).method # "update_user"
    BY <1>8, Zenon DEF UpsertArgs
  <1>10. /\ Normal(r).value = Raw(r) /\ Normal(r).expires = r.expires
        /\ Normal(r).key = r.key
    BY <1>1, Zenon DEF UpsertArgs
  <1>11. r.key = Visible => Trimmed(Raw(r)) = "true" /\ r.expires = {}
    BY <1>3, Zenon DEF ValidUpsert, Raw, Trimmed
  <1>12. Normal(r).key = Visible =>
          Trimmed(Normal(r).value) = "true" /\ Normal(r).expires = {}
    BY <1>10, <1>11
  <1> QED
    BY <1>2, <1>5, <1>7, <1>9, <1>12, Zenon DEF Sound

\* A scan has a limit from 0 to 1000.
LEMMA ScanSound == ASSUME NEW r \in ScanArgs, Accepts(r) PROVE Sound(Normal(r))
  <1>1. Normal(r) = r
    BY Zenon DEF ScanArgs, Normal
  <1>2. DOMAIN Normal(r) = {"method", "owner", "prefix", "after", "limit"}
    BY <1>1, Zenon DEF ScanArgs
  <1>3. ValidUser(r.owner) /\ ValidLimit(r.limit)
    BY Zenon DEF ScanArgs, Accepts, AcceptsScan
  <1>4. r.owner \in UserRefs /\ Normal(r).owner = r.owner
    BY <1>1, Zenon DEF ScanArgs
  <1>5. InFull(Normal(r).owner)
    BY <1>4, <1>3, ValidIsInFull
  <1>6. r.limit \in Limits /\ Normal(r).limit = r.limit
    BY <1>1, Zenon DEF ScanArgs
  <1>7. Normal(r).limit \in 0..1000
    BY <1>6, <1>3, NumbersAreInts, SMT DEF ValidLimit
  <1>8. Normal(r).method = r.method
    BY <1>1, Zenon DEF ScanArgs
  <1>9. /\ Normal(r).method \notin {"create_user", "create_channel"}
        /\ Normal(r).method # "update_user"
        /\ Normal(r).method # "upsert_user_metadata"
    BY <1>8, Zenon DEF ScanArgs
  <1> QED
    BY <1>2, <1>5, <1>7, <1>9, Zenon DEF Sound

\* An attachment names both users in full.
LEMMA AttachmentSound == ASSUME NEW r \in AttachmentArgs, Accepts(r) PROVE Sound(Normal(r))
  <1>1. Normal(r) = r
    BY Zenon DEF AttachmentArgs, Normal
  <1>2. DOMAIN Normal(r) = {"method", "owner", "subject"}
    BY <1>1, Zenon DEF AttachmentArgs
  <1>3. ValidUser(r.owner) /\ ValidUser(r.subject)
    BY Zenon DEF AttachmentArgs, Accepts, AcceptsAttachment
  <1>4. r.owner \in UserRefs /\ Normal(r).owner = r.owner
    BY <1>1, Zenon DEF AttachmentArgs
  <1>5. InFull(Normal(r).owner)
    BY <1>4, <1>3, ValidIsInFull
  <1>6. r.subject \in UserRefs /\ Normal(r).subject = r.subject
    BY <1>1, Zenon DEF AttachmentArgs
  <1>7. InFull(Normal(r).subject)
    BY <1>6, <1>3, ValidIsInFull
  <1>8. Normal(r).method = r.method
    BY <1>1, Zenon DEF AttachmentArgs
  <1>9. /\ Normal(r).method \notin {"create_user", "create_channel"}
        /\ Normal(r).method # "update_user"
        /\ Normal(r).method # "upsert_user_metadata"
    BY <1>8, Zenon DEF AttachmentArgs
  <1> QED
    BY <1>2, <1>5, <1>7, <1>9, Zenon DEF Sound

\* So do the lists name their user.
LEMMA AttachmentListSound == ASSUME NEW r \in AttachmentListArgs, Accepts(r) PROVE Sound(Normal(r))
  <1>1. Normal(r) = r
    BY Zenon DEF AttachmentListArgs, Normal
  <1>2. DOMAIN Normal(r) = {"method", "owner"}
    BY <1>1, Zenon DEF AttachmentListArgs
  <1>3. ValidUser(r.owner)
    BY Zenon DEF AttachmentListArgs, Accepts
  <1>4. r.owner \in UserRefs /\ Normal(r).owner = r.owner
    BY <1>1, Zenon DEF AttachmentListArgs
  <1>5. InFull(Normal(r).owner)
    BY <1>4, <1>3, ValidIsInFull
  <1>6. Normal(r).method = r.method
    BY <1>1, Zenon DEF AttachmentListArgs
  <1>7. /\ Normal(r).method \notin {"create_user", "create_channel"}
        /\ Normal(r).method # "update_user"
        /\ Normal(r).method # "upsert_user_metadata"
    BY <1>6, Zenon DEF AttachmentListArgs
  <1> QED
    BY <1>2, <1>5, <1>7, Zenon DEF Sound

\* A request about a node names it.
LEMMA NodeSound == ASSUME NEW r \in NodeArgs, Accepts(r) PROVE Sound(Normal(r))
  <1>1. Normal(r) = r
    BY Zenon DEF NodeArgs, Normal
  <1>2. DOMAIN Normal(r) = {"method", "node_id"}
    BY <1>1, Zenon DEF NodeArgs
  <1>3. Normal(r).method = r.method
    BY <1>1, Zenon DEF NodeArgs
  <1>4. /\ Normal(r).method \notin {"create_user", "create_channel"}
        /\ Normal(r).method # "update_user"
        /\ Normal(r).method # "upsert_user_metadata"
    BY <1>3, Zenon DEF NodeArgs
  <1>5. r.node_id \in Numbers /\ Positive(r.node_id) /\ Normal(r).node_id = r.node_id
    BY <1>1, Zenon DEF NodeArgs, Accepts
  <1>6. Normal(r).node_id >= 1
    BY <1>5, NumbersAreInts, SMT DEF Positive
  <1> QED
    BY <1>2, <1>4, <1>6, Zenon DEF Sound

\* A request without arguments has nothing to ask anything of.
LEMMA PlainSound == ASSUME NEW r \in PlainArgs, Accepts(r) PROVE Sound(Normal(r))
  <1>1. Normal(r) = r
    BY Zenon DEF PlainArgs, Normal
  <1>2. DOMAIN Normal(r) = {"method"}
    BY <1>1, Zenon DEF PlainArgs
  <1>3. Normal(r).method = r.method
    BY <1>1, Zenon DEF PlainArgs
  <1>4. /\ Normal(r).method \notin {"create_user", "create_channel"}
        /\ Normal(r).method # "update_user"
        /\ Normal(r).method # "upsert_user_metadata"
    BY <1>3, Zenon DEF PlainArgs
  <1> QED
    BY <1>2, <1>4, Zenon DEF Sound

\* Whatever a method accepts, what it sends keeps to what the documents ask.
THEOREM NormalIsSound == ASSUME NEW r \in Requests, Accepts(r) PROVE Sound(Normal(r))
  BY MessageSound, PacketSound, CreateSound, UpdateSound, UserSound, ListUsersSound,
     MetadataSound, UpsertSound, ScanSound, AttachmentSound, AttachmentListSound, NodeSound,
     PlainSound, Zenon DEF Requests
=============================================================================

------------------------------- MODULE PubSub -------------------------------
(***************************************************************************)
(* The topic registry of src/pubsub.rs.                                    *)
(*                                                                         *)
(* PubSubData lives behind one RwLock: every critical section is one       *)
(* action.  What happens outside the lock is a step of its own: the        *)
(* fetch_add of create_subscriber (before the lock is taken) and each      *)
(* channel send of a publish (after the recipient snapshot released it).   *)
(*                                                                         *)
(* A subscriber's channel is identified by the subscriber's id, so a       *)
(* cloned sender is the id itself.  Message contents play no role.         *)
(***************************************************************************)
EXTENDS Integers, Sequences, FiniteSets, Filtering

CONSTANTS Thread,        \* callers of the registry
          Topic,         \* topic names
          Socket,        \* Pusher-style socket ids
          NoSocket,      \* Subscriber::socket_id = None
          MaxId,         \* bound: subscriber ids handed out
          MaxPublished   \* bound: publishes that reach an existing topic

ASSUME PubSubAssumption ==
    /\ NoSocket \notin Socket
    /\ MaxId \in Nat
    /\ MaxPublished \in Nat

VARIABLES
    topics,              \* PubSubData::topics: topic -> members, insertion order
    subTopics,           \* Subscriber::topics of each subscriber: topic -> position
    subSocket,           \* Subscriber::socket_id of each subscriber
    socket_id_map,       \* PubSubData::socket_id_map
    next_subscriber_id,  \* PubSub::next_subscriber_id
    messages_published,  \* PubSub::messages_published
    creating,            \* the id a thread holds between fetch_add and insertion
    flight,              \* the publish a thread is delivering outside the lock
    receivers            \* ids whose receiving end the application still holds

data == <<topics, subTopics, subSocket, socket_id_map>>
vars == <<topics, subTopics, subSocket, socket_id_map, next_subscriber_id,
          messages_published, creating, flight, receivers>>

-----------------------------------------------------------------------------

NoId == 0                    \* None: ids start at 1
Id == Nat \ {0}
Live == DOMAIN subTopics     \* the keys of PubSubData::subscribers

Idle == [active |-> FALSE, todo |-> <<>>, sent |-> 0]
Flight == [active : BOOLEAN, todo : Seq(Id), sent : Nat]

Init ==
    /\ topics = [t \in {} |-> <<>>]
    /\ subTopics = [i \in {} |-> 0]
    /\ subSocket = [i \in {} |-> NoSocket]
    /\ socket_id_map = [s \in {} |-> NoId]
    /\ next_subscriber_id = 1
    /\ messages_published = 0
    /\ creating = [th \in Thread |-> NoId]
    /\ flight = [th \in Thread |-> Idle]
    /\ receivers = {}

Free(th) == creating[th] = NoId /\ ~flight[th].active

-----------------------------------------------------------------------------
(* Subscribers *)

With(f, k, v) == [x \in DOMAIN f \cup {k} |-> IF x = k THEN v ELSE f[x]]
Without(f, K) == [x \in DOMAIN f \ K |-> f[x]]

insert_subscriber_skips_map(id, socket) ==
    /\ subTopics' = With(subTopics, id, [t \in {} |-> 0])
    /\ subSocket' = With(subSocket, id, socket)
    /\ UNCHANGED <<socket_id_map, topics>>

insert_subscriber(id, socket) ==
    /\ subTopics' = With(subTopics, id, [t \in {} |-> 0])
    /\ subSocket' = With(subSocket, id, socket)
    /\ socket_id_map' = IF socket = NoSocket THEN socket_id_map
                        ELSE With(socket_id_map, socket, id)
    /\ UNCHANGED topics

\* Vec::swap_remove: the last member takes the place of the removed one.
SwapRemove(s, pos) ==
    [i \in 1 .. Len(s) - 1 |-> IF i = pos + 1 THEN s[Len(s)] ELSE s[i]]

\* The members of `topic` once the memberships `gone` (topic -> position) are removed.
MembersAfter(gone, topic) ==
    IF topic \in DOMAIN gone THEN SwapRemove(topics[topic], gone[topic])
    ELSE topics[topic]

\* A plausible slip of remove_topic_member, used to test the properties.
RemoveWithoutReindex(gone, index) ==
    /\ topics' = [t \in {u \in DOMAIN topics : Len(MembersAfter(gone, u)) > 0} |->
                    MembersAfter(gone, t)]
    /\ subTopics' = index

\* remove_topic_member for every (topic, position) of `gone`: swap_remove, give the
\* member that moved its new position, drop the topic when it became empty.  `index`
\* is the reverse index after the caller took its own entries out.
remove_topic_member(gone, index) ==
    /\ topics' = [t \in {u \in DOMAIN topics : Len(MembersAfter(gone, u)) > 0} |->
                    MembersAfter(gone, t)]
    /\ subTopics' =
         [i \in DOMAIN index |->
            [t \in DOMAIN index[i] |->
               IF /\ t \in DOMAIN gone
                  /\ gone[t] < Len(MembersAfter(gone, t))
                  /\ MembersAfter(gone, t)[gone[t] + 1] = i
               THEN gone[t] ELSE index[i][t]]]

remove_subscriber_from(id) ==
    /\ id \in Live
    /\ remove_topic_member(subTopics[id], Without(subTopics, {id}))
    /\ subSocket' = Without(subSocket, {id})
    /\ socket_id_map' = Without(socket_id_map, {subSocket[id]})

subscribe_in(id, topic) ==
    /\ id \in Live
    /\ topic \notin DOMAIN subTopics[id]
    /\ LET members == IF topic \in DOMAIN topics THEN topics[topic] ELSE <<>>
       IN /\ subTopics' = [subTopics EXCEPT ![id] = With(@, topic, Len(members))]
          /\ topics' = With(topics, topic, Append(members, id))
    /\ UNCHANGED <<subSocket, socket_id_map>>

unsubscribe_in(id, topic) ==
    /\ id \in Live
    /\ topic \in DOMAIN subTopics[id]
    /\ remove_topic_member([t \in {topic} |-> subTopics[id][t]],
                           [subTopics EXCEPT ![id] = Without(@, {topic})])
    /\ UNCHANGED <<subSocket, socket_id_map>>

-----------------------------------------------------------------------------
(* The public operations.  A call that returns early (unknown id or socket, *)
(* already subscribed, socket id in use) changes nothing.                   *)

allocate_reads_then_writes(th) ==
    /\ Free(th) /\ next_subscriber_id <= MaxId
    /\ creating' = [creating EXCEPT ![th] = next_subscriber_id]
    /\ UNCHANGED <<data, next_subscriber_id, messages_published, flight, receivers>>

\* create_subscriber: the fetch_add, before the write lock is requested ...
create_subscriber_allocate(th) ==
    /\ Free(th) /\ next_subscriber_id <= MaxId
    /\ creating' = [creating EXCEPT ![th] = next_subscriber_id]
    /\ next_subscriber_id' = next_subscriber_id + 1
    /\ UNCHANGED <<data, messages_published, flight, receivers>>

\* ... and the insertion under it.
create_subscriber_insert(th) ==
    /\ creating[th] # NoId
    /\ insert_subscriber(creating[th], NoSocket)
    /\ receivers' = receivers \cup {creating[th]}
    /\ creating' = [creating EXCEPT ![th] = NoId]
    /\ UNCHANGED <<next_subscriber_id, messages_published, flight>>

\* The two forms differ only in what they do when the id is in use: the first panics
\* (under a lock that does not poison), the second returns the registered subscriber.
create_subscriber_with_id(th, socket) ==
    /\ Free(th) /\ next_subscriber_id <= MaxId
    /\ socket \notin DOMAIN socket_id_map
    /\ insert_subscriber(next_subscriber_id, socket)
    /\ next_subscriber_id' = next_subscriber_id + 1
    /\ receivers' = receivers \cup {next_subscriber_id}
    /\ UNCHANGED <<messages_published, creating, flight>>

remove_subscriber(th, id) ==
    /\ Free(th)
    /\ remove_subscriber_from(id)
    /\ UNCHANGED <<next_subscriber_id, messages_published, creating, flight, receivers>>

subscribe(th, id, topic) ==
    /\ Free(th)
    /\ subscribe_in(id, topic)
    /\ UNCHANGED <<next_subscriber_id, messages_published, creating, flight, receivers>>

unsubscribe(th, id, topic) ==
    /\ Free(th)
    /\ unsubscribe_in(id, topic)
    /\ UNCHANGED <<next_subscriber_id, messages_published, creating, flight, receivers>>

\* The *_by_socket_id forms look the id up under the same lock.
remove_subscriber_by_socket_id(th, socket) ==
    /\ socket \in DOMAIN socket_id_map
    /\ remove_subscriber(th, socket_id_map[socket])

subscribe_by_socket_id(th, socket, topic) ==
    /\ socket \in DOMAIN socket_id_map
    /\ subscribe(th, socket_id_map[socket], topic)

unsubscribe_by_socket_id(th, socket, topic) ==
    /\ socket \in DOMAIN socket_id_map
    /\ unsubscribe(th, socket_id_map[socket], topic)

-----------------------------------------------------------------------------
(* Publishing *)

snapshot_excludes_unfiltered(topic, exclude) ==
    LET m == topics[topic]
        count == Len(m) - (IF exclude # NoId THEN 1 ELSE 0)
    IN IF count = 1 THEN <<IF m[1] = exclude THEN m[2] ELSE m[1]>>
       ELSE Filter(m, Id \ {exclude})

\* The exclusion counts only when the excluded id is a member; a single remaining
\* recipient is picked by position, several are filtered.
recipient_snapshot(topic, exclude) ==
    LET m == topics[topic]
        member == IF Len(m) = 1 THEN m[1] = exclude
                  ELSE exclude \in Live /\ topic \in DOMAIN subTopics[exclude]
        excluded == IF exclude # NoId /\ member THEN exclude ELSE NoId
        count == Len(m) - (IF excluded # NoId THEN 1 ELSE 0)
    IN IF count = 1 THEN <<IF m[1] = excluded THEN m[2] ELSE m[1]>>
       ELSE Filter(m, Id \ {excluded})

InFlight == {th \in Thread : flight[th].active}

\* publish (exclude = None) and publish_excluding: the snapshot under the read lock.
publish_excluding(th, topic, exclude) ==
    /\ Free(th)
    /\ messages_published + Cardinality(InFlight) < MaxPublished
    /\ topic \in DOMAIN topics
    /\ flight' = [flight EXCEPT ![th] =
                    [active |-> TRUE, todo |-> recipient_snapshot(topic, exclude), sent |-> 0]]
    /\ UNCHANGED <<data, next_subscriber_id, messages_published, creating, receivers>>

\* An unknown socket id excludes nobody.
publish_excluding_socket_id(th, topic, socket) ==
    publish_excluding(th, topic,
        IF socket \in DOMAIN socket_id_map THEN socket_id_map[socket] ELSE NoId)

\* send_to_recipients: one send, which fails when the receiver is gone ...
send_to_recipient(th) ==
    /\ flight[th].active /\ flight[th].todo # <<>>
    /\ LET f == flight[th]
       IN flight' = [flight EXCEPT ![th] =
                       [active |-> TRUE, todo |-> Tail(f.todo),
                        sent |-> f.sent + (IF Head(f.todo) \in receivers THEN 1 ELSE 0)]]
    /\ UNCHANGED <<data, next_subscriber_id, messages_published, creating, receivers>>

\* ... and the count and the return once every recipient had its send.
send_to_recipients_done(th) ==
    /\ flight[th].active /\ flight[th].todo = <<>>
    /\ messages_published' = messages_published + 1
    /\ flight' = [flight EXCEPT ![th] = Idle]
    /\ UNCHANGED <<data, next_subscriber_id, creating, receivers>>

\* The application drops a receiving end without telling the registry.
DropReceiver(id) ==
    /\ id \in receivers
    /\ receivers' = receivers \ {id}
    /\ UNCHANGED <<data, next_subscriber_id, messages_published, creating, flight>>

-----------------------------------------------------------------------------

Next ==
    \/ \E th \in Thread :
         \/ create_subscriber_allocate(th)
         \/ create_subscriber_insert(th)
         \/ \E s \in Socket : create_subscriber_with_id(th, s)
         \/ \E id \in Live : remove_subscriber(th, id)
         \/ \E id \in Live, t \in Topic : subscribe(th, id, t)
         \/ \E id \in Live, t \in Topic : unsubscribe(th, id, t)
         \/ \E s \in Socket : remove_subscriber_by_socket_id(th, s)
         \/ \E s \in Socket, t \in Topic : subscribe_by_socket_id(th, s, t)
         \/ \E s \in Socket, t \in Topic : unsubscribe_by_socket_id(th, s, t)
         \/ \E t \in Topic, x \in 0 .. MaxId : publish_excluding(th, t, x)
         \/ \E t \in Topic, s \in Socket : publish_excluding_socket_id(th, t, s)
         \/ send_to_recipient(th)
         \/ send_to_recipients_done(th)
    \/ \E id \in receivers : DropReceiver(id)

Spec == Init /\ [][Next]_vars

-----------------------------------------------------------------------------
(* Properties *)

\* The shapes of the registry itself; no topic is kept without members.
RegistryTypeOK ==
    /\ DOMAIN topics \subseteq Topic
    /\ \A t \in DOMAIN topics : topics[t] \in Seq(Id) /\ Len(topics[t]) > 0
    /\ DOMAIN subTopics \subseteq Id
    /\ \A id \in Live : /\ DOMAIN subTopics[id] \subseteq Topic
                        /\ subTopics[id] \in [DOMAIN subTopics[id] -> Nat]
    /\ subSocket \in [Live -> Socket \cup {NoSocket}]
    /\ DOMAIN socket_id_map \subseteq Socket
    /\ socket_id_map \in [DOMAIN socket_id_map -> Id]
    /\ next_subscriber_id \in Id
    /\ creating \in [Thread -> Nat]

\* Type invariant, with remove_topic_member's promise to remove empty topics.
TypeOK ==
    /\ RegistryTypeOK
    /\ messages_published \in Nat
    /\ flight \in [Thread -> Flight]
    /\ receivers \subseteq Id

\* The two expect()s of remove_topic_member cannot fire and swap_remove hits the right
\* member: a topic's member vector and the members' position index are exact inverses.
IndexConsistent ==
    /\ \A t \in DOMAIN topics : \A i \in 1 .. Len(topics[t]) :
         /\ topics[t][i] \in Live
         /\ t \in DOMAIN subTopics[topics[t][i]]
         /\ subTopics[topics[t][i]][t] = i - 1
    /\ \A id \in Live : \A t \in DOMAIN subTopics[id] :
         /\ t \in DOMAIN topics
         /\ subTopics[id][t] < Len(topics[t])
         /\ topics[t][subTopics[id][t] + 1] = id

\* The debug_asserts on socket_id_map: it holds exactly the sockets of the registered
\* subscribers, each under its own id.
SocketMapConsistent ==
    /\ \A s \in DOMAIN socket_id_map :
         socket_id_map[s] \in Live /\ subSocket[socket_id_map[s]] = s
    /\ \A id \in Live : subSocket[id] # NoSocket =>
         subSocket[id] \in DOMAIN socket_id_map /\ socket_id_map[subSocket[id]] = id

\* debug_assert "subscriber IDs must be unique": an id handed out by the fetch_add is
\* held by one thread only and is in no registry until that thread inserts it, whatever
\* runs between the fetch_add and the write lock.
PendingIdsFresh ==
    /\ \A id \in Live : id < next_subscriber_id
    /\ \A th \in Thread : creating[th] # NoId =>
         /\ creating[th] < next_subscriber_id
         /\ creating[th] \notin Live
         /\ \A other \in Thread \ {th} : creating[other] # creating[th]

\* publish_excluding: in every reachable registry, and for every id (stale ones too), the
\* snapshot holds each member of the topic other than the excluded one exactly once.
SnapshotExact ==
    \A t \in DOMAIN topics, x \in 0 .. MaxId :
        LET snap == recipient_snapshot(t, x)
            expected == {topics[t][i] : i \in 1 .. Len(topics[t])} \ {x}
        IN /\ {snap[i] : i \in 1 .. Len(snap)} = expected
           /\ Len(snap) = Cardinality(expected)
=============================================================================

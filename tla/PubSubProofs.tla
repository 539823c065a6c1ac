---------------------------- MODULE PubSubProofs ----------------------------
(***************************************************************************)
(* The registry invariants of PubSub, for any threads, topics, sockets and *)
(* bounds.  IndexConsistent is inductive only together with the types, the *)
(* freshness of pending ids (an insertion must not overwrite a live        *)
(* subscriber) and the socket map (remove_subscriber_by_socket_id).        *)
(***************************************************************************)
EXTENDS PubSub, Lemmas, SequenceTheorems, FiniteSetTheorems

IInv ==
    /\ RegistryTypeOK
    /\ IndexConsistent
    /\ SocketMapConsistent
    /\ PendingIdsFresh

-----------------------------------------------------------------------------

\* Vec::swap_remove: one member fewer, the last one in the freed place.
LEMMA SwapRemoveProperties ==
    ASSUME NEW s \in Seq(Id), NEW pos \in Nat, pos < Len(s)
    PROVE  /\ SwapRemove(s, pos) \in Seq(Id)
           /\ Len(SwapRemove(s, pos)) = Len(s) - 1
           /\ \A i \in 1 .. Len(s) - 1 :
                SwapRemove(s, pos)[i] = IF i = pos + 1 THEN s[Len(s)] ELSE s[i]
<1>1. Len(s) \in Nat /\ \A i \in 1 .. Len(s) : s[i] \in Id
  BY LenProperties
<1> QED
  BY <1>1 DEF SwapRemove

-----------------------------------------------------------------------------
(* remove_topic_member, for the memberships `gone` of one subscriber *)

\* What the two callers guarantee: `gone` holds positions of `id`, and `index` is the
\* reverse index without exactly those entries.
RemovalCall(id, gone, index) ==
    /\ id \in Live
    /\ DOMAIN gone \subseteq DOMAIN subTopics[id]
    /\ \A t \in DOMAIN gone : gone[t] = subTopics[id][t]
    /\ DOMAIN index \subseteq Live
    /\ \A i \in DOMAIN index :
         /\ DOMAIN index[i] \subseteq DOMAIN subTopics[i]
         /\ \A t \in DOMAIN index[i] : /\ index[i][t] = subTopics[i][t]
                                       /\ ~(i = id /\ t \in DOMAIN gone)
    /\ \A i \in Live : \A t \in DOMAIN subTopics[i] :
         ~(i = id /\ t \in DOMAIN gone) => i \in DOMAIN index /\ t \in DOMAIN index[i]

\* The member vectors after the removal.
LEMMA MembersAfterProperties ==
    ASSUME RegistryTypeOK, IndexConsistent, NEW id, NEW gone, NEW index,
           RemovalCall(id, gone, index), NEW t \in DOMAIN topics
    PROVE  /\ MembersAfter(gone, t) \in Seq(Id)
           /\ t \notin DOMAIN gone => MembersAfter(gone, t) = topics[t]
           /\ t \in DOMAIN gone =>
                /\ gone[t] \in Nat /\ gone[t] < Len(topics[t])
                /\ topics[t][gone[t] + 1] = id
                /\ Len(MembersAfter(gone, t)) = Len(topics[t]) - 1
                /\ \A i \in 1 .. Len(topics[t]) - 1 :
                     MembersAfter(gone, t)[i] =
                        IF i = gone[t] + 1 THEN topics[t][Len(topics[t])] ELSE topics[t][i]
<1>1. CASE t \notin DOMAIN gone
  BY <1>1 DEF MembersAfter, RegistryTypeOK
<1>2. CASE t \in DOMAIN gone
  <2>1. gone[t] \in Nat /\ gone[t] < Len(topics[t]) /\ topics[t][gone[t] + 1] = id
    BY <1>2 DEF RemovalCall, RegistryTypeOK, IndexConsistent
  <2>2. topics[t] \in Seq(Id)
    BY DEF RegistryTypeOK
  <2>3. MembersAfter(gone, t) = SwapRemove(topics[t], gone[t])
    BY <1>2 DEF MembersAfter
  <2> QED
    BY <1>2, <2>1, <2>2, <2>3, SwapRemoveProperties
<1> QED
  BY <1>1, <1>2

\* The removal keeps both directions of the index exact and the registry typed.
LEMMA RemoveTopicMember ==
    ASSUME RegistryTypeOK, IndexConsistent, NEW id, NEW gone, NEW index,
           RemovalCall(id, gone, index), remove_topic_member(gone, index)
    PROVE  /\ IndexConsistent'
           /\ DOMAIN subTopics' = DOMAIN index
           /\ DOMAIN topics' \subseteq Topic
           /\ \A t \in DOMAIN topics' : topics'[t] \in Seq(Id) /\ Len(topics'[t]) > 0
           /\ \A i \in DOMAIN subTopics' :
                /\ DOMAIN subTopics'[i] \subseteq Topic
                /\ subTopics'[i] \in [DOMAIN subTopics'[i] -> Nat]
<1> DEFINE M(t) == MembersAfter(gone, t)
           Moved(i, t) == /\ t \in DOMAIN gone
                          /\ gone[t] < Len(M(t))
                          /\ M(t)[gone[t] + 1] = i
<1>1. /\ DOMAIN topics' = {u \in DOMAIN topics : Len(M(u)) > 0}
      /\ \A t \in DOMAIN topics' : topics'[t] = M(t)
  BY DEF remove_topic_member
<1>2. /\ DOMAIN subTopics' = DOMAIN index
      /\ \A i \in DOMAIN index :
           /\ DOMAIN subTopics'[i] = DOMAIN index[i]
           /\ subTopics'[i] = [t \in DOMAIN index[i] |->
                                 IF Moved(i, t) THEN gone[t] ELSE index[i][t]]
           /\ \A t \in DOMAIN index[i] :
                subTopics'[i][t] = IF Moved(i, t) THEN gone[t] ELSE index[i][t]
  BY DEF remove_topic_member
<1>3. \A t \in DOMAIN topics :
        /\ M(t) \in Seq(Id)
        /\ t \notin DOMAIN gone => M(t) = topics[t]
        /\ t \in DOMAIN gone =>
             /\ gone[t] \in Nat /\ gone[t] < Len(topics[t])
             /\ topics[t][gone[t] + 1] = id
             /\ Len(M(t)) = Len(topics[t]) - 1
             /\ \A i \in 1 .. Len(topics[t]) - 1 :
                  M(t)[i] = IF i = gone[t] + 1 THEN topics[t][Len(topics[t])] ELSE topics[t][i]
  BY MembersAfterProperties
<1>4. \A t \in DOMAIN topics : topics[t] \in Seq(Id) /\ Len(topics[t]) \in Nat /\ Len(topics[t]) > 0
  BY LenProperties DEF RegistryTypeOK
<1> HIDE DEF M
<1>5. ASSUME NEW t \in DOMAIN topics', NEW i \in 1 .. Len(topics'[t])
      PROVE  /\ topics'[t][i] \in DOMAIN subTopics'
             /\ t \in DOMAIN subTopics'[topics'[t][i]]
             /\ subTopics'[topics'[t][i]][t] = i - 1
  <2> DEFINE x == topics'[t][i]
             n == Len(topics[t])
  <2>1. t \in DOMAIN topics /\ x = M(t)[i] /\ topics'[t] = M(t)
    BY <1>1
  <2>2. CASE t \notin DOMAIN gone
    <3>1. x = topics[t][i] /\ i \in 1 .. n
      BY <2>1, <2>2, <1>3
    <3>2. x \in Live /\ t \in DOMAIN subTopics[x] /\ subTopics[x][t] = i - 1
      BY <3>1, <2>1, ZenonT(60) DEF IndexConsistent
    <3>3. x \in DOMAIN index /\ t \in DOMAIN index[x] /\ index[x][t] = i - 1
      BY <3>2, <2>2 DEF RemovalCall
    <3> QED
      BY <3>3, <2>2, <1>2
  <2>3. CASE t \in DOMAIN gone /\ i = gone[t] + 1
    <3>1. i \in 1 .. n - 1 /\ x = topics[t][n] /\ n \in 1 .. n /\ n \in Nat
      BY <2>1, <2>3, <1>3, <1>4
    <3>2. x \in Live /\ t \in DOMAIN subTopics[x] /\ subTopics[x][t] = n - 1
      BY <3>1, <2>1, ZenonT(60) DEF IndexConsistent
    <3>3. x # id
      BY <3>1, <3>2, <2>3 DEF RemovalCall
    <3>4. x \in DOMAIN index /\ t \in DOMAIN index[x]
      BY <3>2, <3>3 DEF RemovalCall
    <3>5. Moved(x, t)
      BY <2>1, <2>3, <3>1, <1>3
    <3> QED
      BY <3>1, <3>4, <3>5, <1>2, <2>3, <1>3, <2>1
  <2>4. CASE t \in DOMAIN gone /\ i # gone[t] + 1
    <3>1. i \in 1 .. n - 1 /\ x = topics[t][i] /\ i \in 1 .. n /\ n \in 1 .. n /\ n \in Nat
      BY <2>1, <2>4, <1>3, <1>4
    <3>2. /\ x \in Live /\ t \in DOMAIN subTopics[x] /\ subTopics[x][t] = i - 1
          /\ subTopics[topics[t][n]][t] = n - 1
      BY <3>1, <2>1, ZenonT(60) DEF IndexConsistent
    <3>3. x # id
      <4>1. gone[t] \in Nat /\ gone[t] = subTopics[id][t]
        BY <2>4, <2>1, <1>3 DEF RemovalCall
      <4> QED
        BY <4>1, <3>1, <3>2, <2>4
    <3>4. x \in DOMAIN index /\ t \in DOMAIN index[x] /\ index[x][t] = i - 1
      BY <3>2, <3>3 DEF RemovalCall
    <3>5. ~Moved(x, t)
      <4>1. gone[t] < n - 1 => M(t)[gone[t] + 1] = topics[t][n]
        BY <2>1, <2>4, <1>3, <3>1, SMTT(60)
      <4>2. x # topics[t][n]
        BY <3>1, <3>2
      <4> QED
        BY <4>1, <4>2, <2>1, <2>4, <1>3
    <3> QED
      BY <3>4, <3>5, <1>2
  <2> QED
    BY <2>2, <2>3, <2>4
<1>6. ASSUME NEW x \in DOMAIN subTopics', NEW t \in DOMAIN subTopics'[x]
      PROVE  /\ t \in DOMAIN topics'
             /\ subTopics'[x][t] \in Nat
             /\ subTopics'[x][t] < Len(topics'[t])
             /\ topics'[t][subTopics'[x][t] + 1] = x
  <2> DEFINE q == subTopics[x][t]
             n == Len(topics[t])
  <2>1. /\ x \in DOMAIN index /\ t \in DOMAIN index[x] /\ index[x][t] = q
        /\ x \in Live /\ t \in DOMAIN subTopics[x]
        /\ ~(x = id /\ t \in DOMAIN gone)
    BY <1>2 DEF RemovalCall
  <2>2. t \in DOMAIN topics /\ q \in Nat /\ q < n /\ topics[t][q + 1] = x
    BY <2>1 DEF IndexConsistent, RegistryTypeOK
  <2>3. n \in Nat
    BY <2>2, <1>4
  <2>4. CASE t \notin DOMAIN gone
    <3>1. subTopics'[x][t] = q
      BY <2>1, <2>4, <1>2
    <3>2. t \in DOMAIN topics' /\ topics'[t] = topics[t]
      BY <2>2, <2>4, <1>1, <1>3, <1>4
    <3> QED
      BY <3>1, <3>2, <2>2
  <2>5. CASE t \in DOMAIN gone
    <3>1. x # id /\ gone[t] \in Nat /\ gone[t] < n /\ topics[t][gone[t] + 1] = id
      BY <2>1, <2>2, <2>5, <1>3
    <3>2. q # gone[t]
      BY <3>1, <2>2
    <3>3. t \in DOMAIN topics' /\ topics'[t] = M(t) /\ Len(M(t)) = n - 1
      BY <2>2, <2>3, <2>5, <3>1, <3>2, <1>1, <1>3
    <3>4. CASE q = n - 1
      <4>1. gone[t] < n - 1 /\ gone[t] + 1 \in 1 .. n - 1 /\ q + 1 = n
        BY <3>1, <3>2, <3>4, <2>3
      <4>2. M(t)[gone[t] + 1] = x
        BY <4>1, <2>2, <2>5, <1>3
      <4>3. Moved(x, t)
        BY <4>1, <4>2, <3>3, <2>5
      <4> QED
        BY <4>1, <4>2, <4>3, <3>1, <3>3, <2>1, <1>2
    <3>5. CASE q # n - 1
      <4>1. q < n - 1 /\ q + 1 \in 1 .. n - 1 /\ q + 1 # gone[t] + 1
        BY <3>1, <3>2, <3>5, <2>2, <2>3
      <4>2. M(t)[q + 1] = x
        BY <4>1, <2>2, <2>5, <1>3
      <4>3. ~Moved(x, t)
        <5>1. SUFFICES ASSUME Moved(x, t) PROVE FALSE
          OBVIOUS
        <5>2. gone[t] + 1 \in 1 .. n - 1 /\ n \in 1 .. n
          BY <5>1, <3>1, <3>3, <2>3
        <5>3. topics[t][n] = x
          BY <5>1, <5>2, <2>2, <2>5, <1>3
        <5>4. subTopics[x][t] = n - 1
          BY <5>2, <5>3, <2>2 DEF IndexConsistent
        <5> QED
          BY <5>4, <3>5
      <4> QED
        BY <4>1, <4>2, <4>3, <3>3, <2>1, <2>2, <1>2
    <3> QED
      BY <3>4, <3>5
  <2> QED
    BY <2>4, <2>5
<1>7. IndexConsistent'
  BY <1>5, <1>6 DEF IndexConsistent, Live
<1>8. \A i \in DOMAIN subTopics' : /\ DOMAIN subTopics'[i] \subseteq Topic
                                   /\ subTopics'[i] \in [DOMAIN subTopics'[i] -> Nat]
  BY <1>2, <1>6 DEF RemovalCall, RegistryTypeOK
<1>9. /\ DOMAIN topics' \subseteq Topic
      /\ \A t \in DOMAIN topics' : topics'[t] \in Seq(Id) /\ Len(topics'[t]) > 0
  BY <1>1, <1>3 DEF RegistryTypeOK
<1> QED
  BY <1>2, <1>7, <1>8, <1>9

-----------------------------------------------------------------------------
(* One lemma per critical section *)

\* insert_subscriber, called with an id no subscriber has and a socket not in the map.
LEMMA InsertSubscriber ==
    ASSUME RegistryTypeOK, IndexConsistent, SocketMapConsistent,
           NEW id \in Id, id \notin Live,
           NEW socket \in Socket \cup {NoSocket}, socket \notin DOMAIN socket_id_map,
           insert_subscriber(id, socket),
           next_subscriber_id' \in Id, creating' \in [Thread -> Nat]
    PROVE  /\ RegistryTypeOK' /\ IndexConsistent' /\ SocketMapConsistent'
           /\ Live' = Live \cup {id}
<1>1. /\ DOMAIN subTopics' = Live \cup {id}
      /\ DOMAIN subTopics'[id] = {}
      /\ subTopics'[id] = [t \in {} |-> 0]
      /\ \A i \in Live : subTopics'[i] = subTopics[i]
      /\ topics' = topics
  BY DEF insert_subscriber, With, Live
<1>2. /\ subSocket' \in [Live \cup {id} -> Socket \cup {NoSocket}]
      /\ subSocket'[id] = socket
      /\ \A i \in Live : subSocket'[i] = subSocket[i]
  BY DEF insert_subscriber, With, RegistryTypeOK
<1>3. RegistryTypeOK'
  <2>1. \A i \in DOMAIN subTopics' : /\ DOMAIN subTopics'[i] \subseteq Topic
                                    /\ subTopics'[i] \in [DOMAIN subTopics'[i] -> Nat]
    BY <1>1 DEF RegistryTypeOK
  <2>2. /\ DOMAIN socket_id_map' \subseteq Socket
        /\ socket_id_map' \in [DOMAIN socket_id_map' -> Id]
    BY DEF RegistryTypeOK, insert_subscriber, With
  <2> QED
    BY <1>1, <1>2, <2>1, <2>2 DEF RegistryTypeOK, Live
<1>4. IndexConsistent'
  BY <1>1 DEF IndexConsistent, Live
<1>5. SocketMapConsistent'
  <2>1. CASE socket = NoSocket
    BY <2>1, <1>1, <1>2 DEF SocketMapConsistent, insert_subscriber, Live
  <2>2. CASE socket # NoSocket
    <3>1. /\ DOMAIN socket_id_map' = DOMAIN socket_id_map \cup {socket}
          /\ socket_id_map'[socket] = id
          /\ \A s \in DOMAIN socket_id_map : socket_id_map'[s] = socket_id_map[s]
      BY <2>2 DEF insert_subscriber, With
    <3> QED
      BY <1>1, <1>2, <2>2, <3>1 DEF SocketMapConsistent, Live
  <2> QED
    BY <2>1, <2>2
<1> QED
  BY <1>1, <1>3, <1>4, <1>5 DEF Live

\* remove_subscriber_from takes every membership of the subscriber out.
LEMMA RemoveSubscriberFrom ==
    ASSUME RegistryTypeOK, IndexConsistent, SocketMapConsistent, NEW id,
           remove_subscriber_from(id),
           UNCHANGED <<next_subscriber_id, creating>>
    PROVE  /\ RegistryTypeOK' /\ IndexConsistent' /\ SocketMapConsistent'
           /\ Live' = Live \ {id}
<1> DEFINE index == Without(subTopics, {id})
<1>1. RemovalCall(id, subTopics[id], index) /\ DOMAIN index = Live \ {id}
  BY DEF remove_subscriber_from, RemovalCall, Without, Live
<1>2. remove_topic_member(subTopics[id], index)
  BY DEF remove_subscriber_from
<1> HIDE DEF index
<1>3. /\ IndexConsistent'
      /\ DOMAIN subTopics' = Live \ {id}
      /\ DOMAIN topics' \subseteq Topic
      /\ \A t \in DOMAIN topics' : topics'[t] \in Seq(Id) /\ Len(topics'[t]) > 0
      /\ \A i \in DOMAIN subTopics' :
           /\ DOMAIN subTopics'[i] \subseteq Topic
           /\ subTopics'[i] \in [DOMAIN subTopics'[i] -> Nat]
  BY <1>1, <1>2, RemoveTopicMember
<1>4. /\ id \in Live
      /\ subSocket' \in [Live \ {id} -> Socket \cup {NoSocket}]
      /\ \A i \in Live \ {id} : subSocket'[i] = subSocket[i]
      /\ DOMAIN socket_id_map' = DOMAIN socket_id_map \ {subSocket[id]}
      /\ socket_id_map' \in [DOMAIN socket_id_map' -> Id]
      /\ \A s \in DOMAIN socket_id_map' : socket_id_map'[s] = socket_id_map[s]
  BY DEF remove_subscriber_from, Without, RegistryTypeOK
<1>5. RegistryTypeOK'
  BY <1>3, <1>4 DEF RegistryTypeOK, Live
<1>6. SocketMapConsistent'
  <2>1. \A s \in DOMAIN socket_id_map' : socket_id_map'[s] # id
    BY <1>4 DEF SocketMapConsistent
  <2>2. \A i \in Live \ {id} : subSocket[i] # NoSocket => subSocket[i] # subSocket[id]
    BY <1>4 DEF SocketMapConsistent
  <2> QED
    BY <1>3, <1>4, <2>1, <2>2 DEF SocketMapConsistent, Live
<1> QED
  BY <1>3, <1>5, <1>6 DEF Live

\* unsubscribe_in takes one membership out.
LEMMA UnsubscribeIn ==
    ASSUME RegistryTypeOK, IndexConsistent, SocketMapConsistent, NEW id, NEW topic,
           unsubscribe_in(id, topic),
           UNCHANGED <<next_subscriber_id, creating>>
    PROVE  /\ RegistryTypeOK' /\ IndexConsistent' /\ SocketMapConsistent'
           /\ Live' = Live
<1> DEFINE index == [subTopics EXCEPT ![id] = Without(@, {topic})]
           gone == [t \in {topic} |-> subTopics[id][t]]
<1>1. RemovalCall(id, gone, index) /\ DOMAIN index = Live
  BY DEF unsubscribe_in, RemovalCall, Without, Live
<1>2. remove_topic_member(gone, index)
  BY DEF unsubscribe_in
<1> HIDE DEF index, gone
<1>3. /\ IndexConsistent'
      /\ DOMAIN subTopics' = Live
      /\ DOMAIN topics' \subseteq Topic
      /\ \A t \in DOMAIN topics' : topics'[t] \in Seq(Id) /\ Len(topics'[t]) > 0
      /\ \A i \in DOMAIN subTopics' :
           /\ DOMAIN subTopics'[i] \subseteq Topic
           /\ subTopics'[i] \in [DOMAIN subTopics'[i] -> Nat]
  BY <1>1, <1>2, RemoveTopicMember
<1>4. subSocket' = subSocket /\ socket_id_map' = socket_id_map
  BY DEF unsubscribe_in
<1> QED
  BY <1>3, <1>4 DEF RegistryTypeOK, SocketMapConsistent, Live

\* subscribe_in appends the subscriber at the position it records.
LEMMA SubscribeIn ==
    ASSUME RegistryTypeOK, IndexConsistent, SocketMapConsistent, NEW id, NEW topic \in Topic,
           subscribe_in(id, topic),
           UNCHANGED <<next_subscriber_id, creating>>
    PROVE  /\ RegistryTypeOK' /\ IndexConsistent' /\ SocketMapConsistent'
           /\ Live' = Live
<1> DEFINE members == IF topic \in DOMAIN topics THEN topics[topic] ELSE <<>>
<1>1. id \in Live /\ id \in Id /\ topic \notin DOMAIN subTopics[id]
  BY DEF subscribe_in, RegistryTypeOK, Live
<1>2. members \in Seq(Id) /\ Len(members) \in Nat
  BY LenProperties, EmptySeq DEF RegistryTypeOK
<1>3. /\ Append(members, id) \in Seq(Id)
      /\ Len(Append(members, id)) = Len(members) + 1
      /\ \A i \in 1 .. Len(members) : Append(members, id)[i] = members[i]
      /\ Append(members, id)[Len(members) + 1] = id
  BY <1>1, <1>2
<1>4. /\ DOMAIN subTopics' = Live
      /\ subTopics'[id] = With(subTopics[id], topic, Len(members))
      /\ \A i \in Live \ {id} : subTopics'[i] = subTopics[i]
      /\ DOMAIN topics' = DOMAIN topics \cup {topic}
      /\ topics'[topic] = Append(members, id)
      /\ \A t \in DOMAIN topics \ {topic} : topics'[t] = topics[t]
      /\ subSocket' = subSocket /\ socket_id_map' = socket_id_map
  BY DEF subscribe_in, With, Live
<1> HIDE DEF members
<1>5. /\ DOMAIN subTopics'[id] = DOMAIN subTopics[id] \cup {topic}
      /\ subTopics'[id][topic] = Len(members)
      /\ \A t \in DOMAIN subTopics[id] : subTopics'[id][t] = subTopics[id][t]
      /\ subTopics'[id] \in [DOMAIN subTopics'[id] -> Nat]
  BY <1>1, <1>2, <1>4 DEF With, RegistryTypeOK
<1>6. RegistryTypeOK'
  <2>1. /\ DOMAIN topics' \subseteq Topic
        /\ \A t \in DOMAIN topics' : topics'[t] \in Seq(Id) /\ Len(topics'[t]) > 0
    <3>1. topics'[topic] \in Seq(Id) /\ Len(topics'[topic]) > 0
      BY <1>2, <1>3, <1>4
    <3>2. ASSUME NEW t \in DOMAIN topics \ {topic}
          PROVE  topics'[t] \in Seq(Id) /\ Len(topics'[t]) > 0
      BY <1>4 DEF RegistryTypeOK
    <3>3. DOMAIN topics' \subseteq Topic
      BY <1>4 DEF RegistryTypeOK
    <3> QED
      BY <1>4, <3>1, <3>2, <3>3
  <2>2. \A i \in Live : /\ DOMAIN subTopics'[i] \subseteq Topic
                        /\ subTopics'[i] \in [DOMAIN subTopics'[i] -> Nat]
    BY <1>1, <1>4, <1>5 DEF RegistryTypeOK
  <2> QED
    BY <1>4, <2>1, <2>2 DEF RegistryTypeOK, Live
<1>7. ASSUME NEW t \in DOMAIN topics', NEW i \in 1 .. Len(topics'[t])
      PROVE  /\ topics'[t][i] \in Live
             /\ t \in DOMAIN subTopics'[topics'[t][i]]
             /\ subTopics'[topics'[t][i]][t] = i - 1
  <2>1. CASE t # topic
    BY <2>1, <1>4, <1>5 DEF IndexConsistent
  <2>2. CASE t = topic /\ i = Len(members) + 1
    BY <2>2, <1>1, <1>2, <1>3, <1>4, <1>5
  <2>3. CASE t = topic /\ i # Len(members) + 1
    <3>1. i \in 1 .. Len(members) /\ topics'[t][i] = members[i]
      BY <2>3, <1>2, <1>3, <1>4
    <3>2. topic \in DOMAIN topics /\ members = topics[topic]
      BY <3>1 DEF members
    <3>3. /\ members[i] \in Live
          /\ topic \in DOMAIN subTopics[members[i]]
          /\ subTopics[members[i]][topic] = i - 1
      BY <3>1, <3>2 DEF IndexConsistent
    <3>4. members[i] # id
      BY <3>3, <1>1
    <3> QED
      BY <2>3, <3>1, <3>3, <3>4, <1>4
  <2> QED
    BY <2>1, <2>2, <2>3
<1>8. ASSUME NEW x \in Live, NEW t \in DOMAIN subTopics'[x]
      PROVE  /\ t \in DOMAIN topics'
             /\ subTopics'[x][t] < Len(topics'[t])
             /\ topics'[t][subTopics'[x][t] + 1] = x
  <2>1. CASE x = id /\ t = topic
    BY <2>1, <1>2, <1>3, <1>4, <1>5
  <2>2. CASE ~(x = id /\ t = topic)
    <3>1. t \in DOMAIN subTopics[x] /\ subTopics'[x][t] = subTopics[x][t]
      BY <2>2, <1>4, <1>5
    <3>2. /\ t \in DOMAIN topics /\ subTopics[x][t] \in Nat
          /\ subTopics[x][t] < Len(topics[t]) /\ topics[t][subTopics[x][t] + 1] = x
      BY <3>1 DEF IndexConsistent, RegistryTypeOK
    <3>3. CASE t = topic
      <4>1. members = topics[t]
        BY <3>2, <3>3 DEF members
      <4> QED
        BY <3>1, <3>2, <3>3, <4>1, <1>2, <1>3, <1>4
    <3>4. CASE t # topic
      BY <3>1, <3>2, <3>4, <1>4
    <3> QED
      BY <3>3, <3>4
  <2> QED
    BY <2>1, <2>2
<1>9. IndexConsistent' /\ SocketMapConsistent'
  BY <1>4, <1>7, <1>8 DEF IndexConsistent, SocketMapConsistent, Live
<1> QED
  BY <1>4, <1>6, <1>9 DEF Live

-----------------------------------------------------------------------------
(* The theorems *)

\* The registry part of a step that changes neither the registry nor the id counter.
LEMMA RegistryUnchanged ==
    IInv /\ UNCHANGED <<topics, subTopics, subSocket, socket_id_map, next_subscriber_id, creating>>
        => IInv'
BY DEF IInv, RegistryTypeOK, IndexConsistent, SocketMapConsistent, PendingIdsFresh, Live

\* Every call of the public interface keeps the registry consistent.
LEMMA StepKeepsIInv == IInv /\ [Next]_vars => IInv'
<1> SUFFICES ASSUME IInv, [Next]_vars PROVE IInv'
  OBVIOUS
<1> USE DEF IInv
<1>1. ASSUME NEW th \in Thread, create_subscriber_allocate(th) PROVE IInv'
  <2>1. /\ UNCHANGED <<topics, subTopics, subSocket, socket_id_map>>
        /\ next_subscriber_id' = next_subscriber_id + 1
        /\ creating' = [creating EXCEPT ![th] = next_subscriber_id]
        /\ creating[th] = NoId
    BY <1>1 DEF create_subscriber_allocate, data, Free
  <2>2. next_subscriber_id \in Nat /\ next_subscriber_id # 0 /\ creating \in [Thread -> Nat]
    BY DEF RegistryTypeOK, Id
  <2>3. RegistryTypeOK' /\ IndexConsistent' /\ SocketMapConsistent'
    BY <2>1, <2>2 DEF RegistryTypeOK, IndexConsistent, SocketMapConsistent, Live, Id
  <2>4. PendingIdsFresh'
    <3>1. \A id \in Live : id \in Nat
      BY DEF RegistryTypeOK, Live, Id
    <3> QED
      BY <2>1, <2>2, <3>1 DEF PendingIdsFresh, Live
  <2> QED
    BY <2>3, <2>4
<1>2. ASSUME NEW th \in Thread, create_subscriber_insert(th) PROVE IInv'
  <2>1. /\ creating[th] # NoId
        /\ insert_subscriber(creating[th], NoSocket)
        /\ creating' = [creating EXCEPT ![th] = NoId]
        /\ next_subscriber_id' = next_subscriber_id
    BY <1>2 DEF create_subscriber_insert
  <2>2. /\ creating[th] \in Id /\ creating[th] \notin Live
        /\ NoSocket \notin DOMAIN socket_id_map
        /\ next_subscriber_id' \in Id /\ creating' \in [Thread -> Nat]
    BY <2>1, PubSubAssumption DEF PendingIdsFresh, RegistryTypeOK, Id, NoId
  <2>3. RegistryTypeOK' /\ IndexConsistent' /\ SocketMapConsistent' /\ Live' = Live \cup {creating[th]}
    BY <2>1, <2>2, InsertSubscriber
  <2>4. PendingIdsFresh'
    <3>1. creating \in [Thread -> Nat]
      BY DEF RegistryTypeOK
    <3> QED
      BY <2>1, <2>3, <3>1 DEF PendingIdsFresh, NoId
  <2> QED
    BY <2>3, <2>4
<1>3. ASSUME NEW th \in Thread, NEW s \in Socket, create_subscriber_with_id(th, s) PROVE IInv'
  <2>1. /\ s \notin DOMAIN socket_id_map
        /\ insert_subscriber(next_subscriber_id, s)
        /\ creating' = creating
        /\ next_subscriber_id' = next_subscriber_id + 1
    BY <1>3 DEF create_subscriber_with_id
  <2>2. /\ next_subscriber_id \in Id /\ next_subscriber_id \notin Live
        /\ next_subscriber_id' \in Id /\ creating' \in [Thread -> Nat]
    BY <2>1 DEF PendingIdsFresh, RegistryTypeOK, Id
  <2>3. /\ RegistryTypeOK' /\ IndexConsistent' /\ SocketMapConsistent'
        /\ Live' = Live \cup {next_subscriber_id}
    BY <2>1, <2>2, InsertSubscriber
  <2>4. PendingIdsFresh'
    <3>1. creating \in [Thread -> Nat] /\ \A id \in Live : id \in Nat
      BY DEF RegistryTypeOK, Id, Live
    <3> QED
      BY <2>1, <2>2, <2>3, <3>1 DEF PendingIdsFresh, NoId, Id
  <2> QED
    BY <2>3, <2>4
<1>4. ASSUME NEW th, NEW id, remove_subscriber(th, id) PROVE IInv'
  <2>1. remove_subscriber_from(id) /\ UNCHANGED <<next_subscriber_id, creating>>
    BY <1>4 DEF remove_subscriber
  <2>2. /\ RegistryTypeOK' /\ IndexConsistent' /\ SocketMapConsistent'
        /\ Live' = Live \ {id}
    BY <2>1, RemoveSubscriberFrom
  <2> QED
    BY <2>1, <2>2 DEF PendingIdsFresh
<1>5. ASSUME NEW th, NEW id, NEW t \in Topic, subscribe(th, id, t) PROVE IInv'
  <2>1. subscribe_in(id, t) /\ UNCHANGED <<next_subscriber_id, creating>>
    BY <1>5 DEF subscribe
  <2>2. /\ RegistryTypeOK' /\ IndexConsistent' /\ SocketMapConsistent'
        /\ Live' = Live
    BY <2>1, SubscribeIn
  <2> QED
    BY <2>1, <2>2 DEF PendingIdsFresh
<1>6. ASSUME NEW th, NEW id, NEW t \in Topic, unsubscribe(th, id, t) PROVE IInv'
  <2>1. unsubscribe_in(id, t) /\ UNCHANGED <<next_subscriber_id, creating>>
    BY <1>6 DEF unsubscribe
  <2>2. /\ RegistryTypeOK' /\ IndexConsistent' /\ SocketMapConsistent'
        /\ Live' = Live
    BY <2>1, UnsubscribeIn
  <2> QED
    BY <2>1, <2>2 DEF PendingIdsFresh
<1>7. ASSUME NEW th, NEW t, NEW x, publish_excluding(th, t, x) PROVE IInv'
  BY <1>7, RegistryUnchanged DEF publish_excluding, data
<1>8. ASSUME NEW th, send_to_recipient(th) \/ send_to_recipients_done(th) PROVE IInv'
  BY <1>8, RegistryUnchanged DEF send_to_recipient, send_to_recipients_done, data
<1>9. ASSUME NEW id, DropReceiver(id) PROVE IInv'
  BY <1>9, RegistryUnchanged DEF DropReceiver, data
<1>10. CASE UNCHANGED vars
  BY <1>10, RegistryUnchanged DEF vars
<1>11. CASE \E th \in Thread, s \in Socket : remove_subscriber_by_socket_id(th, s)
  BY <1>11, <1>4 DEF remove_subscriber_by_socket_id
<1>12. CASE \E th \in Thread, s \in Socket, t \in Topic : subscribe_by_socket_id(th, s, t)
  BY <1>12, <1>5 DEF subscribe_by_socket_id
<1>13. CASE \E th \in Thread, s \in Socket, t \in Topic : unsubscribe_by_socket_id(th, s, t)
  BY <1>13, <1>6 DEF unsubscribe_by_socket_id
<1>14. CASE \E th \in Thread, s \in Socket, t \in Topic : publish_excluding_socket_id(th, t, s)
  BY <1>14, <1>7 DEF publish_excluding_socket_id
<1> HIDE DEF IInv
<1> QED
  BY <1>1, <1>2, <1>3, <1>4, <1>5, <1>6, <1>7, <1>8, <1>9, <1>10, <1>11, <1>12, <1>13, <1>14
  DEF Next

\* Every reachable registry satisfies the inductive invariant.
THEOREM RegistryInvariant == Spec => []IInv
<1>1. Init => IInv
  BY DEF Init, IInv, RegistryTypeOK, IndexConsistent, SocketMapConsistent, PendingIdsFresh, Live, Id, NoId
<1>2. QED
  BY <1>1, StepKeepsIInv, PTL DEF Spec

\* Member vectors and position index are exact inverses, however many subscribers, topics
\* and concurrent callers there are: neither expect() of remove_topic_member fires.
THEOREM IndexAlwaysConsistent == Spec => []IndexConsistent
<1>1. IInv => IndexConsistent
  BY DEF IInv
<1>2. QED
  BY <1>1, RegistryInvariant, PTL

\* The socket map always names exactly the registered sockets: its debug_asserts hold.
THEOREM SocketMapAlwaysConsistent == Spec => []SocketMapConsistent
<1>1. IInv => SocketMapConsistent
  BY DEF IInv
<1>2. QED
  BY <1>1, RegistryInvariant, PTL

\* An id between its fetch_add and its insertion is nobody else's: the debug_assert
\* "subscriber IDs must be unique" holds although the id is taken outside the lock.
THEOREM PendingIdsAlwaysFresh == Spec => []PendingIdsFresh
<1>1. IInv => PendingIdsFresh
  BY DEF IInv
<1>2. QED
  BY <1>1, RegistryInvariant, PTL

-----------------------------------------------------------------------------
(* The snapshot *)

Members(m) == {m[i] : i \in 1 .. Len(m)}
Distinct(m) == \A i, j \in 1 .. Len(m) : m[i] = m[j] => i = j

\* Filtering a vector without repetitions leaves out the one member, if it is there.
LEMMA ExcludingExact ==
    ASSUME NEW m \in Seq(Id), Distinct(m), NEW x
    PROVE  /\ Filter(m, Id \ {x}) \in Seq(Id)
           /\ x \in Members(m) => Len(Filter(m, Id \ {x})) = Len(m) - 1
           /\ x \notin Members(m) => Len(Filter(m, Id \ {x})) = Len(m)
           /\ Members(Filter(m, Id \ {x})) = Members(m) \ {x}
<1> DEFINE n == Len(m)
           S == Id
           T == Id \ {x}
<1>1. n \in Nat /\ \A i \in 1 .. n : m[i] \in S
  OBVIOUS
<1>2. PICK g : FilterRun(S, m, T, g) /\ Filter(m, T) = g[n]
  BY FilterUnfolds
<1>3. /\ g[0] = <<>>
      /\ \A i \in 1 .. n : g[i] = IF m[i] = x THEN g[i - 1] ELSE Append(g[i - 1], m[i])
  BY <1>1, <1>2 DEF FilterRun
<1> HIDE DEF n, S, T
<1> DEFINE Among(k) == \E j \in 1 .. k : m[j] = x
           Holds(k) == /\ g[k] \in Seq(S) /\ (Among(k) => Len(g[k]) = k - 1) /\ (~Among(k) => Len(g[k]) = k)
                       /\ \A j \in 1 .. Len(g[k]) : \E i \in 1 .. k : g[k][j] = m[i] /\ m[i] # x
                       /\ \A i \in 1 .. k : m[i] # x => \E j \in 1 .. Len(g[k]) : g[k][j] = m[i]
           K == {k \in Nat : k <= n => Holds(k)}
<1>4. 0 \in K
  <2>1. g[0] \in Seq(S) /\ Len(g[0]) = 0
    BY <1>3
  <2>2. 1 .. 0 = {} /\ ~Among(0)
    OBVIOUS
  <2> HIDE DEF Among
  <2>3. Holds(0)
    BY <2>1, <2>2
  <2> HIDE DEF Holds
  <2> QED
    BY <2>3
<1>5. ASSUME NEW k \in K PROVE k + 1 \in K
  <2> SUFFICES ASSUME k + 1 <= n PROVE Holds(k + 1)
    <3> HIDE DEF Holds
    <3> QED OBVIOUS
  <2>1. Holds(k) /\ k \in Nat /\ k + 1 \in 1 .. n /\ (k + 1) - 1 = k
    <3> HIDE DEF Holds
    <3>1. k \in Nat /\ (k <= n => Holds(k))
      BY <1>5
    <3>2. k <= n /\ k + 1 \in 1 .. n /\ (k + 1) - 1 = k
      BY <1>1, <3>1
    <3> QED BY <3>1, <3>2
  <2>2. g[k] \in Seq(S) /\ m[k + 1] \in S
    BY <1>1, <2>1
  <2>3. CASE m[k + 1] = x
    <3>1. g[k + 1] = g[k]
      BY <1>3, <2>1, <2>3
    <3>2. Among(k + 1) /\ ~Among(k)
      <4>1. Among(k + 1)
        BY <2>1, <2>3
      <4>2. ASSUME NEW j \in 1 .. k, m[j] = x PROVE FALSE
        <5>1. j \in 1 .. n /\ j # k + 1
          <6>1. k \in Nat /\ k + 1 \in 1 .. n
            BY <2>1
          <6> QED BY <1>1, <6>1
        <5> QED
          BY <2>1, <2>3, <4>2, <5>1 DEF n, Distinct
      <4> QED
        BY <4>1, <4>2
    <3>3. ASSUME NEW i \in 1 .. k + 1, m[i] # x PROVE i \in 1 .. k
      <4>1. k \in Nat /\ i # k + 1
        BY <2>1, <2>3, <3>3
      <4> QED
        BY <4>1
    <3>4. (Among(k + 1) => Len(g[k + 1]) = (k + 1) - 1) /\ (~Among(k + 1) => Len(g[k + 1]) = k + 1)
      BY <2>1, <3>1, <3>2
    <3>5. \A i \in 1 .. k : i \in 1 .. k + 1
      BY <2>1
    <3> HIDE DEF Among
    <3>6. ASSUME NEW j \in 1 .. Len(g[k + 1])
          PROVE \E i \in 1 .. k + 1 : g[k + 1][j] = m[i] /\ m[i] # x
      <4>1. PICK i \in 1 .. k : g[k][j] = m[i] /\ m[i] # x
        BY <2>1, <3>1
      <4> QED
        BY <3>1, <3>5, <4>1
    <3>7. ASSUME NEW i \in 1 .. k + 1, m[i] # x
          PROVE \E j \in 1 .. Len(g[k + 1]) : g[k + 1][j] = m[i]
      <4>1. i \in 1 .. k
        BY <3>3, <3>7
      <4> QED
        BY <2>1, <3>1, <3>7, <4>1
    <3> QED
      BY <2>2, <3>1, <3>4, <3>6, <3>7
  <2>4. CASE m[k + 1] # x
    <3>1. g[k + 1] = Append(g[k], m[k + 1])
      BY <1>3, <2>1, <2>4
    <3> DEFINE l == Len(g[k])
    <3>2. l \in Nat /\ (Among(k) => l = k - 1) /\ (~Among(k) => l = k)
      BY <2>1, <2>2
    <3>3. /\ g[k + 1] \in Seq(S) /\ Len(g[k + 1]) = l + 1
          /\ \A j \in 1 .. l : g[k + 1][j] = g[k][j]
          /\ g[k + 1][l + 1] = m[k + 1]
      BY <2>2, <3>1, AppendProperties
    <3>4. Among(k + 1) = Among(k)
      BY <2>1, <2>4
    <3>5. /\ \A j \in 1 .. l : \E i \in 1 .. k : g[k][j] = m[i] /\ m[i] # x
          /\ \A i \in 1 .. k : m[i] # x => \E j \in 1 .. l : g[k][j] = m[i]
      BY <2>1
    <3> HIDE DEF l, Among
    <3>6. ASSUME NEW j \in 1 .. l + 1 PROVE \E i \in 1 .. k + 1 : g[k + 1][j] = m[i] /\ m[i] # x
      <4>1. CASE j = l + 1
        BY <2>1, <2>4, <3>3, <4>1
      <4>2. CASE j # l + 1
        <5>1. j \in 1 .. l
          BY <3>2, <4>2
        <5>2. PICK i \in 1 .. k : g[k][j] = m[i] /\ m[i] # x
          BY <3>5, <5>1
        <5>3. i \in 1 .. k + 1
          BY <2>1
        <5> QED
          BY <3>3, <5>1, <5>2, <5>3
      <4> QED
        BY <4>1, <4>2
    <3>7. ASSUME NEW i \in 1 .. k + 1, m[i] # x PROVE \E j \in 1 .. l + 1 : g[k + 1][j] = m[i]
      <4>1. CASE i = k + 1
        BY <3>2, <3>3, <4>1
      <4>2. CASE i # k + 1
        <5>1. i \in 1 .. k
          BY <2>1, <4>2
        <5>2. PICK j \in 1 .. l : g[k][j] = m[i]
          BY <3>5, <3>7, <5>1
        <5>3. j \in 1 .. l + 1
          BY <3>2
        <5> QED
          BY <3>3, <5>2, <5>3
      <4> QED
        BY <4>1, <4>2
    <3>8. (Among(k + 1) => Len(g[k + 1]) = (k + 1) - 1) /\ (~Among(k + 1) => Len(g[k + 1]) = k + 1)
      BY <2>1, <3>2, <3>3, <3>4
    <3> QED
      BY <3>3, <3>6, <3>7, <3>8
  <2> QED
    BY <2>3, <2>4
<1>6. K \in SUBSET Nat
  OBVIOUS
<1>7. Holds(n)
  <2> HIDE DEF K
  <2>1. K = Nat
    BY <1>4, <1>5, <1>6, SetInduction
  <2> HIDE DEF Holds
  <2> QED
    BY <1>1, <2>1 DEF K
<1> DEFINE h == g[n]
<1>8. /\ h \in Seq(S) /\ (Among(n) => Len(h) = n - 1) /\ (~Among(n) => Len(h) = n)
      /\ \A j \in 1 .. Len(h) : \E i \in 1 .. n : h[j] = m[i] /\ m[i] # x
      /\ \A i \in 1 .. n : m[i] # x => \E j \in 1 .. Len(h) : h[j] = m[i]
  BY <1>7
<1> HIDE DEF h
<1>9. {h[i] : i \in 1 .. Len(h)} = {m[i] : i \in 1 .. n} \ {x}
  <2>1. ASSUME NEW j \in 1 .. Len(h) PROVE h[j] \in {m[i] : i \in 1 .. n} \ {x}
    BY <1>8
  <2>2. ASSUME NEW i \in 1 .. n, m[i] # x PROVE m[i] \in {h[j] : j \in 1 .. Len(h)}
    BY <1>8, <2>2
  <2> QED
    BY <2>1, <2>2
<1>10. h = Filter(m, Id \ {x})
  BY <1>2 DEF h, T
<1> HIDE DEF Among
<1>11. Among(n) <=> \E j \in 1 .. n : m[j] = x
  BY DEF Among
<1>12. /\ h \in Seq(S)
       /\ (\E j \in 1 .. n : m[j] = x) => Len(h) = n - 1
       /\ ~(\E j \in 1 .. n : m[j] = x) => Len(h) = n
  BY <1>8, <1>11
<1>13. x \in Members(m) <=> \E j \in 1 .. n : m[j] = x
  BY DEF n, Members
<1> HIDE DEF K, Holds
<1> QED
  BY <1>9, <1>10, <1>12, <1>13 DEF n, Members, S

\* A vector without repetitions has as many members as positions.
LEMMA DistinctCount ==
    ASSUME NEW S, NEW m \in Seq(S), Distinct(m)
    PROVE  IsFiniteSet(Members(m)) /\ Cardinality(Members(m)) = Len(m)
<1> DEFINE D == 1 .. Len(m)
           T == {m[i] : i \in D}
<1>1. Len(m) \in Nat /\ m \in [D -> T]
  OBVIOUS
<1>2. IsFiniteSet(D) /\ Cardinality(D) = Len(m)
  <2> DEFINE n == Len(m)
  <2>1. 1 \in Int /\ n \in Int /\ n \in Nat
    BY <1>1
  <2> HIDE DEF n
  <2>2. IsFiniteSet(1 .. n) /\ Cardinality(1 .. n) = IF 1 > n THEN 0 ELSE n - 1 + 1
    BY <2>1, FS_Interval
  <2>3. (IF 1 > n THEN 0 ELSE n - 1 + 1) = n
    BY <2>1
  <2> QED
    BY <2>2, <2>3 DEF n
<1>3. m \in Bijection(D, T)
  BY <1>1 DEF Bijection, Injection, Surjection, IsInjective, Distinct
<1>4. ExistsBijection(D, T)
  BY <1>3 DEF ExistsBijection
<1> HIDE DEF D, T
<1>5. IsFiniteSet(T) /\ Cardinality(T) = Cardinality(D)
  BY <1>2, <1>4, FS_Bijection
<1> QED
  BY <1>2, <1>5 DEF D, T, Members

\* The snapshot that publish_excluding takes of a consistent registry.
LEMMA SnapshotOfConsistent ==
    ASSUME RegistryTypeOK, IndexConsistent, NEW t \in DOMAIN topics, NEW x \in 0 .. MaxId
    PROVE  /\ Members(recipient_snapshot(t, x)) = Members(topics[t]) \ {x}
           /\ Len(recipient_snapshot(t, x)) = Cardinality(Members(topics[t]) \ {x})
<1> DEFINE m == topics[t]
           T == Members(m)
           snap == recipient_snapshot(t, x)
           member == IF Len(m) = 1 THEN m[1] = x
                     ELSE x \in Live /\ t \in DOMAIN subTopics[x]
           excluded == IF x # NoId /\ member THEN x ELSE NoId
<1>1. m \in Seq(Id) /\ Len(m) \in Nat /\ Len(m) > 0 /\ \A i \in 1 .. Len(m) : m[i] \in Nat \ {0}
  BY DEF RegistryTypeOK, Id
<1>2. Distinct(m)
  BY <1>1 DEF IndexConsistent, Distinct
<1>3. IsFiniteSet(T) /\ Cardinality(T) = Len(m)
  BY <1>1, <1>2, DistinctCount
<1>4. x # NoId /\ member <=> x \in T
  <2>1. CASE Len(m) = 1
    BY <1>1, <2>1 DEF NoId, Members
  <2>2. CASE Len(m) # 1
    <3>1. ASSUME x \in Live, t \in DOMAIN subTopics[x]
          PROVE  x \in T
      <4>1. subTopics[x][t] \in Nat
        BY <3>1 DEF RegistryTypeOK
      <4>2. subTopics[x][t] < Len(m) /\ m[subTopics[x][t] + 1] = x
        BY <3>1 DEF IndexConsistent
      <4> QED
        BY <1>1, <4>1, <4>2 DEF Members
    <3>2. ASSUME NEW i \in 1 .. Len(m), m[i] = x
          PROVE  x # NoId /\ x \in Live /\ t \in DOMAIN subTopics[x]
      BY <1>1, <3>2 DEF IndexConsistent, NoId
    <3> QED
      BY <2>2, <3>1, <3>2 DEF Members
  <2> QED
    BY <2>1, <2>2
<1>5. CASE x \in T
  <2>1. excluded = x /\ x # NoId
    BY <1>4, <1>5
  <2>2. IsFiniteSet(T \ {x}) /\ Cardinality(T \ {x}) = Len(m) - 1
    <3> HIDE DEF T
    <3> QED BY <1>1, <1>3, <1>5, FS_RemoveElement
  <2>3. CASE Len(m) - 1 = 1
    <3>1. snap = <<IF m[1] = x THEN m[2] ELSE m[1]>>
      BY <2>1, <2>3 DEF recipient_snapshot
    <3>2. Len(m) = 2 /\ T = {m[1], m[2]} /\ m[1] # m[2]
      <4>1. Len(m) = 2
        BY <1>1, <2>3
      <4>2. 1 .. 2 = {1, 2}
        OBVIOUS
      <4> HIDE DEF m
      <4> QED
        BY <1>2, <4>1, <4>2 DEF Members, Distinct
    <3>3. x \in {m[1], m[2]}
      BY <1>5, <3>2
    <3>4. Len(snap) = 1 /\ Members(snap) = T \ {x}
      BY <3>1, <3>2, <3>3 DEF Members
    <3> QED
      BY <2>2, <2>3, <3>4
  <2>4. CASE Len(m) - 1 # 1
    <3>1. snap = Filter(m, Id \ {x})
      BY <2>1, <2>4 DEF recipient_snapshot
    <3>2. Members(snap) = T \ {x} /\ Len(snap) = Len(m) - 1
      BY <1>1, <1>2, <1>5, <3>1, ExcludingExact
    <3> QED
      BY <2>2, <3>2
  <2> QED
    BY <2>3, <2>4
<1>6. CASE x \notin T
  <2>1. excluded = NoId
    BY <1>4, <1>6
  <2>2. T \ {x} = T
    BY <1>6
  <2>3. CASE Len(m) = 1
    <3>1. snap = <<IF m[1] = NoId THEN m[2] ELSE m[1]>>
      BY <2>1, <2>3 DEF recipient_snapshot
    <3>2. m[1] # NoId /\ T = {m[1]}
      BY <1>1, <2>3 DEF NoId, Members
    <3>3. Len(snap) = 1 /\ Members(snap) = T
      BY <3>1, <3>2 DEF Members
    <3> QED
      BY <1>3, <2>2, <2>3, <3>3
  <2>4. CASE Len(m) # 1
    <3>1. snap = Filter(m, Id \ {NoId})
      BY <2>1, <2>4 DEF recipient_snapshot
    <3>2. NoId \notin T
      BY <1>1 DEF NoId, Members
    <3>3. Members(snap) = T \ {NoId} /\ Len(snap) = Len(m)
      BY <1>1, <1>2, <3>1, <3>2, ExcludingExact
    <3>4. T \ {NoId} = T
      BY <3>2
    <3> QED
      BY <1>3, <2>2, <3>3, <3>4
  <2> QED
    BY <2>3, <2>4
<1> QED
  BY <1>5, <1>6

\* publish_excluding: whatever registry the calls of any threads have built, and whichever
\* id is excluded, the snapshot holds every other member of the topic exactly once.
THEOREM SnapshotsAlwaysExact == Spec => []SnapshotExact
<1>1. IInv => SnapshotExact
  BY SnapshotOfConsistent DEF IInv, SnapshotExact, Members
<1>2. QED
  BY <1>1, RegistryInvariant, PTL

=============================================================================

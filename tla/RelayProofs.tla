----------------------------- MODULE RelayProofs -----------------------------
(***************************************************************************)
(* Proofs about module Relay, for any number of clients, subscriptions and *)
(* events and any limits: the tables stay within their limits, no reply is *)
(* lost, and each publisher's replies arrive in order, but for a live one  *)
(* that overtakes a replay.                                                *)
(***************************************************************************)
EXTENDS Relay, FiniteSetTheorems, TLAPS

\* The client table, without its bound.
TableInv == clients = {c \in Conns : phase[c] \in Live}

CountInv == /\ Cardinality(clients) <= MaxClients
            /\ SubsBounded

\* A REQ is served under an id of its own.
CurInv == \A c \in Conns : phase[c] \in {"replay", "replaying"} => cur[c] \in SubIds

\* A publisher has clients left only while it is sending; what is due matches
\* the subscription it is due under; and nothing is due to a new connection.
DueInv ==
  /\ \A c \in Conns : phase[c] # "sending" => targets[c] = {} /\ writing[c] = {}
  /\ \A t \in Conns : \A d \in due[t] : Match(subs[t][d[1]], d[2])
  /\ \A t \in Conns : phase[t] \in {"new", "accepted"} => due[t] = {}

\* Replies that are anywhere in the relay were made, and their requesters told.
AckInv ==
  /\ \A c \in Conns : phase[c] = "ok" => made[c] > 0
  /\ \A c \in Conns : phase[c] \in {"publish", "sending"} => Reply(c) \in acked
  /\ \A i \in 1..Len(recent) : recent[i] \in acked
  /\ \A c \in Conns : \A i \in 1..Len(queue[c]) : queue[c][i] \in acked
  /\ \A t \in Conns : \A d \in delivered[t] : d[2] \in acked
  /\ \A e \in acked : e.n <= made[e.by]

IInv == TypeOK /\ TableInv /\ CountInv /\ CurInv /\ DueInv /\ NoLostReply /\ AckInv

\* The actions of one connection, and those that change more than its own
\* handler's variables.
Step(c) == \/ Connect(c) \/ Break(c) \/ Event(c) \/ Handle(c)
           \/ \E id \in SubIds, f \in Filters : Req(c, id, f)
           \/ \E id \in SubIds : CloseSub(c, id)

LEMMA StepKinds ==
  ASSUME [Next]_vars
  PROVE  (\E c \in Conns : Step(c)) \/ UNCHANGED vars
BY DEF Next, Step

LEMMA InitIInv == Init => IInv
<1> SUFFICES ASSUME Init PROVE IInv
  OBVIOUS
<1> USE DEF Init
<1>1. TypeOK
  BY RelayAssumption DEF TypeOK, HandlerTypes, SubTypes, RingTypes, SendTypes, HistoryTypes, Phases
<1>2. TableInv /\ CurInv /\ DueInv /\ NoLostReply /\ AckInv
  BY DEF TableInv, CurInv, DueInv, NoLostReply, AckInv, Live
<1>3. CountInv
  <2>1. \A c \in Conns : Open(c) = {}
    BY DEF Open
  <2>2. Cardinality(clients) = 0 /\ \A c \in Conns : Cardinality(Open(c)) = 0
    BY <2>1, FS_EmptySet
  <2>3. MaxClients >= 0 /\ MaxSubs >= 0
    BY RelayAssumption
  <2> QED
    BY <2>2, <2>3 DEF CountInv, SubsBounded
<1> QED
  BY <1>1, <1>2, <1>3 DEF IInv

-----------------------------------------------------------------------------
(* Types.                                                                   *)

LEMMA ReplyType ==
  ASSUME IInv, NEW c \in Conns, phase[c] \in {"ok", "publish", "sending"}
  PROVE  Reply(c) \in Events
<1>1. CASE phase[c] = "ok"
  BY <1>1, RelayAssumption DEF IInv, TypeOK, HandlerTypes, AckInv, Reply, Events
<1>2. CASE phase[c] \in {"publish", "sending"}
  BY <1>2 DEF IInv, TypeOK, HistoryTypes, AckInv
<1> QED
  BY <1>1, <1>2

LEMMA TypeStep ==
  ASSUME IInv, [Next]_vars
  PROVE  TypeOK'
<1> USE RelayAssumption DEF IInv, TypeOK
<1>1. ASSUME NEW c \in Conns, Step(c) PROVE HandlerTypes'
  <2> USE DEF HandlerTypes, Move, Phases
  <2>1. CASE Connect(c) \/ Admit(c) \/ Break(c) \/ ReadFails(c) \/ Leave(c)
    BY <2>1 DEF Connect, AdmitIf, Admit, Break, ReadFails, LeaveWith, Leave, handlerVars
  <2>2. ASSUME NEW id \in SubIds, NEW f \in Filters, Req(c, id, f) PROVE HandlerTypes'
    BY <2>2 DEF Req, ReqIf
  <2>3. ASSUME NEW id \in SubIds, CloseSub(c, id) PROVE HandlerTypes'
    BY <2>3 DEF CloseSub, handlerVars
  <2>4. CASE WriteClosed(c) \/ Replay(c) \/ WriteReplay(c) \/ Eose(c)
    BY <2>4 DEF WriteClosed, ReplayOf, Replay, WriteReplay, Eose
  <2>5. CASE Event(c) \/ WriteReject(c) \/ WriteOk(c)
    BY <2>5 DEF Event, WriteReject, WriteOk, Following
  <2>6. CASE Publish(c) \/ WriteEvent(c) \/ Sent(c)
    BY <2>6 DEF PublishTo, Publish, WriteEvent, Sent, Following
  <2>7. ASSUME NEW t \in Conns, Send(c, t) PROVE HandlerTypes'
    BY <2>7 DEF SendLeaving, Send
  <2> QED
    BY <1>1, <2>1, <2>2, <2>3, <2>4, <2>5, <2>6, <2>7 DEF Step, Handle
<1>2. ASSUME NEW c \in Conns, Step(c) PROVE SubTypes'
  BY <1>2 DEF SubTypes, Step, Handle, Connect, AdmitIf, Admit, Break, ReadFails, LeaveWith,
     Leave, ReqIf, Req, WriteClosed, ReplayOf, Replay, WriteReplay, Eose, CloseSub, Event,
     WriteReject,
     WriteOk, PublishTo, Publish, SendLeaving, Send, WriteEvent, Sent
<1>3. ASSUME NEW c \in Conns, Step(c) PROVE RingTypes'
  <2> USE DEF RingTypes
  <2>1. CASE Publish(c)
    <3>1. Reply(c) \in Events
      BY <2>1, ReplyType DEF Publish, PublishTo
    <3> DEFINE s == Append(recent, Reply(c))
    <3>2. s \in Seq(Events) /\ Len(s) = Len(recent) + 1
      BY <3>1
    <3>3. Last(MaxRecent, s) \in Seq(Events) /\ Len(Last(MaxRecent, s)) <= MaxRecent
      BY <3>2 DEF Last
    <3> QED
      BY <2>1, <3>3 DEF Publish, PublishTo
  <2>2. CASE Replay(c)
    BY <2>2 DEF ReplayOf, Replay
  <2>3. CASE WriteReplay(c)
    BY <2>3 DEF WriteReplay
  <2>4. CASE ~(Publish(c) \/ Replay(c) \/ WriteReplay(c))
    <3>1. UNCHANGED <<recent, queue>>
      BY <1>3, <2>4 DEF Step, Handle, Connect, AdmitIf, Admit, Break, ReadFails, LeaveWith,
         Leave, ReqIf, Req, WriteClosed, Eose, CloseSub, Event, WriteReject,
         WriteOk, SendLeaving, Send, WriteEvent, Sent, handlerVars
    <3> QED
      BY <3>1
  <2> QED
    BY <2>1, <2>2, <2>3, <2>4
<1>4. ASSUME NEW c \in Conns, Step(c) PROVE SendTypes'
  <2> USE DEF SendTypes, HandlerTypes
  <2>1. CASE Publish(c)
    BY <2>1 DEF PublishTo, Publish
  <2>2. ASSUME NEW t \in Conns, Send(c, t) PROVE SendTypes'
    BY <2>2 DEF SendLeaving, Send, Matching
  <2>3. CASE WriteEvent(c)
    BY <2>3 DEF WriteEvent
  <2>4. CASE UNCHANGED <<targets, writing>>
    BY <2>4
  <2> QED
    BY <1>4, <2>1, <2>2, <2>3, <2>4
       DEF Step, Handle, Connect, AdmitIf, Admit, Break, ReadFails, LeaveWith, Leave, ReqIf, Req,
           WriteClosed, ReplayOf, Replay, WriteReplay, Eose, CloseSub, Event, WriteReject,
           WriteOk, Sent,
           handlerVars
<1>5. ASSUME NEW c \in Conns, Step(c) PROVE HistoryTypes'
  <2> USE DEF HistoryTypes, Deliver
  <2>1. CASE WriteOk(c)
    BY <2>1, ReplyType DEF WriteOk
  <2>2. CASE Publish(c)
    BY <2>2, ReplyType DEF Publish, PublishTo, Matching
  <2>3. CASE WriteEvent(c)
    BY <2>3, ReplyType DEF WriteEvent, SendTypes
  <2>4. CASE WriteReplay(c)
    <3>1. Head(queue[c]) \in Events
      BY <2>4 DEF WriteReplay, RingTypes
    <3>2. cur[c] \in SubIds
      BY <2>4 DEF WriteReplay, CurInv
    <3> QED
      BY <2>4, <3>1, <3>2 DEF WriteReplay
  <2>5. ASSUME NEW id \in SubIds, NEW f \in Filters, Req(c, id, f) PROVE HistoryTypes'
    BY <2>5 DEF Req, ReqIf
  <2>6. ASSUME NEW id \in SubIds, CloseSub(c, id) PROVE HistoryTypes'
    BY <2>6 DEF CloseSub
  <2>7. CASE UNCHANGED historyVars
    BY <2>7 DEF historyVars
  <2> QED
    BY <1>5, <2>1, <2>2, <2>3, <2>4, <2>5, <2>6, <2>7
       DEF Step, Handle, Connect, AdmitIf, Admit, Break, ReadFails, LeaveWith, Leave, WriteClosed,
           ReplayOf, Replay, Eose, Event, WriteReject, SendLeaving, Send, Sent, historyVars
<1>6. CASE UNCHANGED vars
  BY <1>6 DEF vars, HandlerTypes, SubTypes, RingTypes, SendTypes, HistoryTypes
<1> QED
  BY <1>1, <1>2, <1>3, <1>4, <1>5, <1>6, StepKinds

-----------------------------------------------------------------------------
(* The limits.                                                              *)

LEMMA TableStep ==
  ASSUME IInv, [Next]_vars
  PROVE  TableInv'
<1> USE DEF IInv, TypeOK, HandlerTypes, TableInv
<1>1. ASSUME NEW c \in Conns, Step(c) PROVE TableInv'
  BY <1>1 DEF Step, Handle, Connect, AdmitIf, Admit, Break, ReadFails, LeaveWith,
     Leave, ReqIf, Req, WriteClosed, ReplayOf, Replay, WriteReplay, Eose, CloseSub, Event,
     WriteReject,
     WriteOk, PublishTo, Publish, SendLeaving, Send, WriteEvent, Sent, Move, Following, Live,
     Phases, handlerVars
<1>2. CASE UNCHANGED vars
  BY <1>2 DEF vars
<1> QED
  BY <1>1, <1>2, StepKinds

\* Cardinalities, one element at a time.
LEMMA OneMore ==
  ASSUME NEW S, NEW x, IsFiniteSet(S)
  PROVE  /\ Cardinality(S \cup {x}) \in Nat
         /\ Cardinality(S \cup {x}) <= Cardinality(S) + 1
<1>1. Cardinality(S) \in Nat
  BY FS_CardinalityType
<1> QED
  BY <1>1, FS_AddElement

LEMMA Fewer ==
  ASSUME NEW S, NEW T \in SUBSET S, IsFiniteSet(S)
  PROVE  /\ Cardinality(T) \in Nat
         /\ Cardinality(T) <= Cardinality(S)
BY FS_Subset, FS_CardinalityType

LEMMA FiltersNotEmpty == \A f \in Filters : f # NoSub
BY RelayAssumption DEF NoSub

LEMMA LimitTypes == MaxClients \in Nat /\ MaxSubs \in Nat
BY RelayAssumption

LEMMA ClientsFinite ==
  ASSUME IInv
  PROVE  IsFiniteSet(clients) /\ Cardinality(clients) \in Nat
<1>1. clients \in SUBSET Conns /\ IsFiniteSet(Conns)
  BY RelayAssumption DEF IInv, TypeOK, HandlerTypes
<1> QED
  BY <1>1, FS_Subset, FS_CardinalityType

LEMMA SubsFinite ==
  ASSUME NEW c \in Conns
  PROVE  IsFiniteSet(Open(c)) /\ Cardinality(Open(c)) \in Nat
<1>1. Open(c) \in SUBSET SubIds /\ IsFiniteSet(SubIds)
  BY RelayAssumption DEF Open
<1> QED
  BY <1>1, FS_Subset, FS_CardinalityType

LEMMA CountStep ==
  ASSUME IInv, [Next]_vars
  PROVE  CountInv'
<1> USE DEF IInv, TypeOK, HandlerTypes, CountInv
<1>1. ASSUME NEW c \in Conns, Step(c) PROVE (Cardinality(clients) <= MaxClients)'
  <2>1. IsFiniteSet(clients) /\ Cardinality(clients) \in Nat
    BY ClientsFinite
  <2>2. CASE Admit(c)
    <3>1. \/ Cardinality(clients) < MaxClients /\ clients' = clients \cup {c}
          \/ clients' = clients
      BY <2>2 DEF Admit, AdmitIf
    <3>2. /\ Cardinality(clients \cup {c}) \in Nat
          /\ Cardinality(clients \cup {c}) <= Cardinality(clients) + 1
      BY <2>1, OneMore
    <3>3. MaxClients \in Nat
      BY LimitTypes
    <3>4. CASE Cardinality(clients) < MaxClients /\ clients' = clients \cup {c}
      <4> HIDE DEF IInv
      <4> QED
        BY <2>1, <3>2, <3>3, <3>4
    <3>5. CASE clients' = clients
      BY <3>5
    <3> QED
      BY <3>1, <3>4, <3>5
  <2>3. CASE Leave(c)
    <3>1. clients' = clients \ {c}
      BY <2>3 DEF Leave, LeaveWith
    <3>2. Cardinality(clients \ {c}) \in Nat /\ Cardinality(clients \ {c}) <= Cardinality(clients)
      BY <2>1, Fewer
    <3> QED
      BY <2>1, <3>1, <3>2, LimitTypes
  <2>4. CASE UNCHANGED clients
    BY <2>4
  <2> QED
    BY <1>1, <2>2, <2>3, <2>4
       DEF Step, Handle, Connect, Break, ReadFails, ReqIf, Req, WriteClosed, ReplayOf, Replay,
           WriteReplay,
           Eose, CloseSub, Event, WriteReject, WriteOk, PublishTo, Publish, SendLeaving, Send,
           WriteEvent, Sent
<1>2. ASSUME NEW c \in Conns, Step(c), NEW t \in Conns
      PROVE  Cardinality(Open(t))' <= MaxSubs
  <2> USE DEF SubTypes
  <2>1. IsFiniteSet(Open(t)) /\ Cardinality(Open(t)) \in Nat /\ Cardinality(Open(t)) <= MaxSubs
    BY SubsFinite DEF SubsBounded
  <2>2. ASSUME NEW id \in SubIds, NEW f \in Filters, Req(c, id, f)
        PROVE  Cardinality(Open(t))' <= MaxSubs
    <3>1. CASE subs' = subs
      BY <2>1, <3>1 DEF Open
    <3>2. CASE t = c /\ subs' = [subs EXCEPT ![c][id] = f] /\ Cardinality(Open(c)) < MaxSubs
      <4>1. Open(t)' = Open(t) \cup {id}
        BY <3>2, FiltersNotEmpty DEF Open
      <4>2. /\ Cardinality(Open(t) \cup {id}) \in Nat
            /\ Cardinality(Open(t) \cup {id}) <= Cardinality(Open(t)) + 1
        BY <2>1, OneMore
      <4> QED
        BY <2>1, <3>2, <4>1, <4>2, LimitTypes
    <3>3. CASE t # c /\ subs' = [subs EXCEPT ![c][id] = f]
      <4>1. Open(t)' = Open(t)
        BY <3>3 DEF Open
      <4> QED
        BY <2>1, <4>1
    <3> QED
      BY <2>2, <3>1, <3>2, <3>3 DEF Req, ReqIf
  <2>3. ASSUME NEW id \in SubIds, CloseSub(c, id) PROVE Cardinality(Open(t))' <= MaxSubs
    <3>1. Open(t)' \in SUBSET Open(t)
      BY <2>3 DEF CloseSub, Open, NoSub
    <3>2. Cardinality(Open(t)') \in Nat /\ Cardinality(Open(t)') <= Cardinality(Open(t))
      BY <2>1, <3>1, Fewer
    <3> QED
      BY <2>1, <3>2, LimitTypes
  <2>4. CASE UNCHANGED subs
    BY <2>1, <2>4 DEF Open
  <2> QED
    BY <1>2, <2>2, <2>3, <2>4
       DEF Step, Handle, Connect, AdmitIf, Admit, Break, ReadFails, LeaveWith, Leave, WriteClosed,
           ReplayOf, Replay, WriteReplay, Eose, Event, WriteReject, WriteOk, PublishTo, Publish,
           SendLeaving,
           Send, WriteEvent, Sent
<1>3. CASE UNCHANGED vars
  BY <1>3 DEF vars, SubsBounded, Open
<1> QED
  BY <1>1, <1>2, <1>3, StepKinds DEF SubsBounded

-----------------------------------------------------------------------------
(* Delivery.                                                                *)

LEMMA CurStep ==
  ASSUME IInv, [Next]_vars
  PROVE  CurInv'
<1> USE DEF IInv, TypeOK, HandlerTypes, CurInv
<1>1. ASSUME NEW c \in Conns, Step(c) PROVE CurInv'
  BY <1>1 DEF Step, Handle, Connect, AdmitIf, Admit, Break, ReadFails, LeaveWith,
     Leave, ReqIf, Req, WriteClosed, ReplayOf, Replay, WriteReplay, Eose, CloseSub, Event,
     WriteReject,
     WriteOk, PublishTo, Publish, SendLeaving, Send, WriteEvent, Sent, Move, Following,
     handlerVars
<1>2. CASE UNCHANGED vars
  BY <1>2 DEF vars
<1> QED
  BY <1>1, <1>2, StepKinds

\* Who is left to be told, and what is due, and the replies already due.
LEMMA DueStep ==
  ASSUME IInv, [Next]_vars
  PROVE  DueInv'
<1> USE DEF IInv, TypeOK, HandlerTypes, SubTypes, HistoryTypes, SendTypes, DueInv, Move, Following
<1>1. ASSUME NEW c \in Conns, Connect(c) \/ Admit(c) \/ Break(c) \/ ReadFails(c) \/ Leave(c)
      PROVE  DueInv'
  BY <1>1 DEF Connect, AdmitIf, Admit, Break, ReadFails, LeaveWith, Leave, handlerVars, historyVars
<1>2. ASSUME NEW c \in Conns, WriteClosed(c) \/ Replay(c) \/ WriteReplay(c) \/ Eose(c)
      PROVE  DueInv'
  BY <1>2 DEF WriteClosed, ReplayOf, Replay, WriteReplay, Eose, historyVars
<1>3. ASSUME NEW c \in Conns, NEW id \in SubIds, NEW f \in Filters, Req(c, id, f)
      PROVE  DueInv'
  <2>1. due[c]' \subseteq due[c] /\ \A t \in Conns : t # c => due'[t] = due[t]
    BY <1>3 DEF Req, ReqIf
  <2>2. \A t \in Conns : \A d \in due'[t] : Match(subs[t][d[1]], d[2])'
    <3> SUFFICES ASSUME NEW t \in Conns, NEW d \in due'[t] PROVE Match(subs'[t][d[1]], d[2])
      BY DEF Match
    <3>1. d \in due[t] /\ d[1] \in SubIds
      BY <2>1
    <3>2. CASE UNCHANGED <<subs, due>>
      BY <3>2
    <3>3. CASE t = c /\ d[1] = id
      BY <1>3, <3>1, <3>2, <3>3 DEF Req, ReqIf
    <3>4. CASE ~(t = c /\ d[1] = id)
      BY <1>3, <3>1, <3>4 DEF Req, ReqIf
    <3> QED
      BY <3>3, <3>4
  <2>3. UNCHANGED <<targets, writing>> /\ phase[c] = "read" /\ phase'[c] # "new" /\ phase'[c] # "accepted"
        /\ \A t \in Conns : t # c => phase'[t] = phase[t]
    BY <1>3 DEF Req, ReqIf
  <2> QED
    BY <2>1, <2>2, <2>3
<1>4. ASSUME NEW c \in Conns, NEW id \in SubIds, CloseSub(c, id)
      PROVE  DueInv'
  BY <1>4 DEF CloseSub, handlerVars
<1>5. ASSUME NEW c \in Conns, Event(c) \/ WriteReject(c) \/ WriteOk(c)
      PROVE  DueInv'
  BY <1>5 DEF Event, WriteReject, WriteOk, historyVars
<1>6. ASSUME NEW c \in Conns, Publish(c) PROVE DueInv'
  BY <1>6 DEF Publish, PublishTo, Matching, TableInv, Live
<1>7. ASSUME NEW c \in Conns, NEW t \in Conns, Send(c, t) PROVE DueInv'
  BY <1>7 DEF Send, SendLeaving, historyVars
<1>8. ASSUME NEW c \in Conns, WriteEvent(c) \/ Sent(c) PROVE DueInv'
  BY <1>8 DEF WriteEvent, Sent, historyVars
<1>9. CASE UNCHANGED vars
  BY <1>9 DEF vars
<1> QED
  BY <1>1, <1>2, <1>3, <1>4, <1>5, <1>6, <1>7, <1>8, <1>9, StepKinds DEF Step, Handle

\* c is on its way to write d to t.
Pending(c, t, d) == /\ phase[c] = "sending"
                    /\ Reply(c) = d[2]
                    /\ t \in targets[c] \/ <<t, d[1]>> \in writing[c]

\* A step that makes nothing due, loses no delivery, revives no connection to
\* which something is due, and lets publishers be, loses nothing.
LEMMA NothingLost ==
  ASSUME IInv,
         \A t \in Conns : /\ due'[t] \subseteq due[t]
                          /\ delivered[t] \subseteq delivered'[t]
                          /\ up'[t] => up[t] \/ due[t] = {},
         \A c \in Conns : phase[c] = "sending" =>
           /\ phase'[c] = "sending" /\ made'[c] = made[c]
           /\ targets'[c] = targets[c] /\ writing'[c] = writing[c]
  PROVE  NoLostReply'
<1> SUFFICES ASSUME NEW t \in Conns, up'[t], NEW d \in due'[t], d \notin delivered'[t]
             PROVE  \E c \in Conns : Pending(c, t, d)'
  BY DEF NoLostReply, Pending
<1>1. up[t] /\ d \in due[t] /\ d \notin delivered[t]
  OBVIOUS
<1>2. PICK c \in Conns : Pending(c, t, d)
  BY <1>1 DEF IInv, NoLostReply, Pending
<1>3. Pending(c, t, d)'
  BY <1>2 DEF Pending, Reply
<1> QED
  BY <1>3

LEMMA PublishLoses ==
  ASSUME IInv, NEW c \in Conns, Publish(c)
  PROVE  NoLostReply'
<1> USE DEF IInv, TypeOK, HandlerTypes, SendTypes, HistoryTypes, Publish, PublishTo, Move
<1> SUFFICES ASSUME NEW t \in Conns, up'[t], NEW d \in due'[t], d \notin delivered'[t]
             PROVE  \E b \in Conns : Pending(b, t, d)'
  BY DEF NoLostReply, Pending
<1>1. CASE d \in due[t]
  <2>1. PICK b \in Conns : Pending(b, t, d)
    BY <1>1 DEF NoLostReply, Pending
  <2>2. b # c
    BY <2>1 DEF Pending
  <2>3. Pending(b, t, d)'
    BY <2>1, <2>2 DEF Pending, Reply
  <2> QED
    BY <2>3
<1>2. CASE d \notin due[t]
  <2>1. t \in clients /\ d[2] = Reply(c)
    BY <1>2
  <2>2. Pending(c, t, d)'
    BY <2>1 DEF Pending, Reply
  <2> QED
    BY <2>2
<1> QED
  BY <1>1, <1>2

LEMMA SendLoses ==
  ASSUME IInv, NEW c \in Conns, NEW s \in Conns, Send(c, s)
  PROVE  NoLostReply'
<1> USE DEF IInv, TypeOK, HandlerTypes, SendTypes, HistoryTypes, Send, SendLeaving, historyVars
<1> SUFFICES ASSUME NEW t \in Conns, up'[t], NEW d \in due'[t], d \notin delivered'[t]
             PROVE  \E b \in Conns : Pending(b, t, d)'
  BY DEF NoLostReply, Pending
<1>1. PICK b \in Conns : Pending(b, t, d)
  BY DEF NoLostReply, Pending
<1>2. CASE b = c /\ t = s
  <2>1. d[1] \in Matching(t, Reply(c))
    BY <1>1, <1>2 DEF Pending, DueInv, Matching
  <2>2. <<t, d[1]>> \in writing'[c]
    BY <1>2, <2>1
  <2>3. Pending(c, t, d)'
    BY <1>1, <1>2, <2>2 DEF Pending, Reply
  <2> QED
    BY <2>3
<1>3. CASE ~(b = c /\ t = s)
  <2>1. Pending(b, t, d)'
    BY <1>1, <1>3 DEF Pending, Reply
  <2> QED
    BY <2>1
<1> QED
  BY <1>2, <1>3

LEMMA WriteLoses ==
  ASSUME IInv, NEW c \in Conns, WriteEvent(c)
  PROVE  NoLostReply'
<1> USE DEF IInv, TypeOK, HandlerTypes, SendTypes, HistoryTypes, WriteEvent, Deliver
<1> SUFFICES ASSUME NEW t \in Conns, up'[t], NEW d \in due'[t], d \notin delivered'[t]
             PROVE  \E b \in Conns : Pending(b, t, d)'
  BY DEF NoLostReply, Pending
<1>1. PICK w \in writing[c] : /\ Deliver(w[1], w[2], Reply(c))
                              /\ writing' = [writing EXCEPT ![c] = @ \ {w}]
  OBVIOUS
<1>2. d \notin delivered[t]
  BY <1>1
<1>3. PICK b \in Conns : Pending(b, t, d)
  BY <1>2 DEF NoLostReply, Pending
<1>4. ~(b = c /\ w = <<t, d[1]>>)
  <2> SUFFICES ASSUME b = c, w = <<t, d[1]>> PROVE FALSE
    OBVIOUS
  <2>1. d[2] = Reply(c) /\ d = <<d[1], d[2]>>
    BY <1>3 DEF Pending
  <2>2. d \in delivered'[t]
    BY <1>1, <2>1
  <2> QED
    BY <2>2
<1>5. Pending(b, t, d)'
  BY <1>1, <1>3, <1>4 DEF Pending, Reply
<1> QED
  BY <1>5

LEMMA LossStep ==
  ASSUME IInv, [Next]_vars
  PROVE  NoLostReply'
<1> USE DEF IInv, TypeOK, HandlerTypes, HistoryTypes, SendTypes, Move
<1>1. ASSUME NEW c \in Conns, Connect(c) \/ Admit(c) \/ Break(c) \/ ReadFails(c) \/ Leave(c)
      PROVE  NoLostReply'
  BY <1>1, NothingLost
     DEF DueInv, Connect, AdmitIf, Admit, Break, ReadFails, LeaveWith, Leave, handlerVars, historyVars
<1>2. ASSUME NEW c \in Conns, WriteClosed(c) \/ Replay(c) \/ Eose(c)
      PROVE  NoLostReply'
  BY <1>2, NothingLost DEF WriteClosed, ReplayOf, Replay, Eose, historyVars
<1>8. ASSUME NEW c \in Conns, WriteReplay(c) PROVE NoLostReply'
  <2>1. \A t \in Conns : delivered[t] \subseteq delivered'[t]
    BY <1>8 DEF WriteReplay, Deliver
  <2>2. UNCHANGED <<phase, up, made, targets, writing, due>>
    BY <1>8 DEF WriteReplay
  <2> QED
    BY <2>1, <2>2, NothingLost
<1>3. ASSUME NEW c \in Conns, NEW id \in SubIds, NEW f \in Filters, Req(c, id, f)
      PROVE  NoLostReply'
  BY <1>3, NothingLost DEF Req, ReqIf
<1>4. ASSUME NEW c \in Conns, NEW id \in SubIds, CloseSub(c, id)
      PROVE  NoLostReply'
  BY <1>4, NothingLost DEF CloseSub, handlerVars
<1>5. ASSUME NEW c \in Conns, Event(c) \/ WriteReject(c) \/ WriteOk(c)
      PROVE  NoLostReply'
  BY <1>5, NothingLost DEF Event, WriteReject, WriteOk, historyVars
<1>6. ASSUME NEW c \in Conns, Sent(c) PROVE NoLostReply'
  <2>1. \A b, t \in Conns : \A d \in due[t] : Pending(b, t, d) => Pending(b, t, d)'
    BY <1>6 DEF Pending, Sent, Reply
  <2> QED
    BY <1>6, <2>1 DEF Sent, NoLostReply, Pending, historyVars
<1>7. CASE UNCHANGED vars
  BY <1>7, NothingLost DEF vars
<1> QED
  BY <1>1, <1>2, <1>3, <1>4, <1>5, <1>6, <1>7, <1>8, PublishLoses, SendLoses, WriteLoses, StepKinds
     DEF Step, Handle

-----------------------------------------------------------------------------
(* Acknowledgements.                                                        *)

\* The last n elements of a sequence are elements of it.
LEMMA LastElements ==
  ASSUME NEW S, NEW s \in Seq(S), NEW n \in Nat
  PROVE  /\ Last(n, s) \in Seq(S)
         /\ \A i \in 1..Len(Last(n, s)) : \E j \in 1..Len(s) : Last(n, s)[i] = s[j]
<1>1. CASE Len(s) <= n
  BY <1>1 DEF Last
<1>2. CASE Len(s) > n
  <2>1. Last(n, s) = SubSeq(s, Len(s) - n + 1, Len(s))
    BY <1>2 DEF Last
  <2>2. /\ SubSeq(s, Len(s) - n + 1, Len(s)) \in Seq(S)
        /\ Len(SubSeq(s, Len(s) - n + 1, Len(s))) = n
        /\ \A i \in 1..n : SubSeq(s, Len(s) - n + 1, Len(s))[i] = s[Len(s) - n + i]
    BY <1>2
  <2>3. \A i \in 1..n : Len(s) - n + i \in 1..Len(s)
    BY <1>2
  <2> QED
    BY <2>1, <2>2, <2>3
<1> QED
  BY <1>1, <1>2

LEMMA AckStep ==
  ASSUME IInv, [Next]_vars
  PROVE  AckInv'
<1> USE DEF IInv, TypeOK, HandlerTypes, RingTypes, HistoryTypes, Move, Following, AckInv, Reply
<1>1. ASSUME NEW c \in Conns, Connect(c) \/ Admit(c) \/ Break(c) \/ ReadFails(c) \/ Leave(c)
      PROVE  AckInv'
  BY <1>1 DEF Connect, AdmitIf, Admit, Break, ReadFails, LeaveWith, Leave, handlerVars, historyVars
<1>2. ASSUME NEW c \in Conns, WriteClosed(c) \/ Eose(c) \/ WriteReject(c) \/ Sent(c)
      PROVE  AckInv'
  BY <1>2 DEF WriteClosed, Eose, WriteReject, Sent, historyVars
<1>3. ASSUME NEW c \in Conns, Replay(c) PROVE AckInv'
  BY <1>3 DEF ReplayOf, Replay, historyVars
<1>4. ASSUME NEW c \in Conns, WriteReplay(c) PROVE AckInv'
  <2>1. queue[c] \in Seq(Events) /\ queue[c] # <<>>
    BY <1>4 DEF WriteReplay
  <2>2. /\ Head(queue[c]) = queue[c][1] /\ 1 \in 1..Len(queue[c])
        /\ \A i \in 1..Len(Tail(queue[c])) :
             /\ Tail(queue[c])[i] = queue[c][i + 1]
             /\ i + 1 \in 1..Len(queue[c])
    BY <2>1
  <2>3. Head(queue[c]) \in acked /\ \A i \in 1..Len(Tail(queue[c])) : Tail(queue[c])[i] \in acked
    BY <2>2
  <2>4. \A b \in Conns : \A i \in 1..Len(queue'[b]) : queue'[b][i] \in acked
    BY <1>4, <2>3 DEF WriteReplay
  <2>5. \A t \in Conns : \A d \in delivered'[t] : d[2] \in acked
    <3>1. \A t \in Conns : \A d \in delivered'[t] :
            d \in delivered[t] \/ d = <<cur[c], Head(queue[c])>>
      <4>1. DOMAIN delivered = Conns
        OBVIOUS
      <4>2. \/ delivered' = delivered
            \/ delivered' = [delivered EXCEPT ![c] = delivered[c] \cup {<<cur[c], Head(queue[c])>>}]
        BY <1>4 DEF WriteReplay, Deliver
      <4> HIDE DEF IInv
      <4> QED
        BY <4>1, <4>2
    <3>2. \A t \in Conns : \A d \in delivered[t] : d[2] \in acked
      OBVIOUS
    <3>3. <<cur[c], Head(queue[c])>>[2] \in acked
      BY <2>3
    <3> QED
      BY <3>1, <3>2, <3>3
  <2>6. UNCHANGED <<phase, made, recent, acked>>
    BY <1>4 DEF WriteReplay
  <2> QED
    BY <2>4, <2>5, <2>6
<1>5. ASSUME NEW c \in Conns, NEW id \in SubIds, NEW f \in Filters, Req(c, id, f)
      PROVE  AckInv'
  BY <1>5 DEF Req, ReqIf
<1>6. ASSUME NEW c \in Conns, NEW id \in SubIds, CloseSub(c, id)
      PROVE  AckInv'
  BY <1>6 DEF CloseSub, handlerVars
<1>7. ASSUME NEW c \in Conns, Event(c) PROVE AckInv'
  <2>0. \A b \in Conns : made[b] \in Nat
    BY RelayAssumption
  <2>1. \A b \in Conns : made[b] <= made'[b] /\ made'[b] \in Nat
    <3>1. made' = made \/ made' = [made EXCEPT ![c] = made[c] + 1]
      BY <1>7 DEF Event
    <3> HIDE DEF IInv
    <3>2. DOMAIN made = Conns
      BY DEF IInv
    <3> QED
      BY <2>0, <3>1, <3>2
  <2>2. phase'[c] = "ok" => made'[c] > 0
    BY <1>7, <2>0 DEF Event
  <2>3. \A b \in Conns : b # c => phase'[b] = phase[b] /\ made'[b] = made[b]
    BY <1>7 DEF Event
  <2>4. phase'[c] \notin {"publish", "sending"} /\ UNCHANGED <<recent, queue, acked, delivered>>
    BY <1>7 DEF Event, historyVars
  <2>5. \A e \in acked : e.by \in Conns /\ e.n \in Nat /\ made[e.by] \in Nat
    BY RelayAssumption DEF Events
  <2>6. \A e \in acked : e.n <= made'[e.by]
    <3> SUFFICES ASSUME NEW e \in acked PROVE e.n <= made'[e.by]
      OBVIOUS
    <3>1. e.n <= made[e.by] /\ made[e.by] <= made'[e.by] /\ made'[e.by] \in Nat
      BY <2>1, <2>5
    <3>2. e.n \in Nat /\ made[e.by] \in Nat
      BY <2>5
    <3> HIDE DEF IInv
    <3> QED
      BY <3>1, <3>2
  <2> QED
    BY <2>2, <2>3, <2>4, <2>6
<1>8. ASSUME NEW c \in Conns, WriteOk(c) PROVE AckInv'
  BY <1>8, RelayAssumption DEF WriteOk
<1>9. ASSUME NEW c \in Conns, Publish(c) PROVE AckInv'
  <2> DEFINE s == Append(recent, Reply(c))
  <2>1. Reply(c) \in Events /\ Reply(c) \in acked
    BY <1>9, ReplyType DEF Publish, PublishTo
  <2>2. s \in Seq(Events) /\ \A i \in 1..Len(s) : s[i] \in acked
    BY <2>1
  <2>3. recent' = Last(MaxRecent, s)
    BY <1>9 DEF Publish, PublishTo
  <2>4. \A i \in 1..Len(recent') : recent'[i] \in acked
    <3>1. MaxRecent \in Nat
      BY RelayAssumption
    <3> HIDE DEF s, IInv
    <3>2. \A i \in 1..Len(Last(MaxRecent, s)) : \E j \in 1..Len(s) : Last(MaxRecent, s)[i] = s[j]
      BY <2>2, <3>1, LastElements
    <3> QED
      BY <2>2, <2>3, <3>2
  <2>5. UNCHANGED <<made, queue, acked, delivered>> /\ phase[c] = "publish"
        /\ phase' = [phase EXCEPT ![c] = "sending"]
    BY <1>9 DEF Publish, PublishTo
  <2> QED
    BY <2>4, <2>5
<1>10. ASSUME NEW c \in Conns, NEW t \in Conns, Send(c, t) PROVE AckInv'
  BY <1>10 DEF Send, SendLeaving, historyVars
<1>11. ASSUME NEW c \in Conns, WriteEvent(c) PROVE AckInv'
  BY <1>11 DEF WriteEvent, Deliver
<1>12. CASE UNCHANGED vars
  BY <1>12 DEF vars
<1> QED
  BY <1>1, <1>2, <1>3, <1>4, <1>5, <1>6, <1>7, <1>8, <1>9, <1>10, <1>11, <1>12, StepKinds
     DEF Step, Handle

-----------------------------------------------------------------------------
(* Order.                                                                   *)

Elems(s) == {s[i] : i \in 1..Len(s)}

Older(d, e) == d.by = e.by /\ d.n < e.n

\* Each publisher's replies are in their order in s, and s has all of those in A
\* that come after one that it has.
Ordered(s) == \A i, j \in 1..Len(s) : i < j /\ s[i].by = s[j].by => s[i].n < s[j].n
Whole(s, A) == \A d \in Elems(s), e \in A : Older(d, e) => e \in Elems(s)

\* The replies that have been appended to the ring, also those that dropped out.
Appended == {e \in Events : /\ e.n <= made[e.by]
                            /\ phase[e.by] \in {"ok", "publish"} => e.n # made[e.by]}

RingOrder == Elems(recent) \subseteq Appended /\ Ordered(recent) /\ Whole(recent, Appended)

\* What a replay has left is in order, and what is younger than a part of it was
\* appended while the subscription matched, or is left as well.
ReplayOrder(t) ==
  /\ phase[t] # "replaying" => queue[t] = <<>>
  /\ Left(t) \subseteq Appended /\ Ordered(queue[t])
  /\ \A d \in delivered[t] : d[2] \in Appended
  /\ \A d \in ToReplay(t), e \in Appended :
       Older(d[2], e) => <<cur[t], e>> \in due[t] \cup ToReplay(t)

OrderInv == RingOrder /\ \A t \in Conns : ReplayOrder(t)

LEMMA EventNumbers == \A e \in Events : e.by \in Conns /\ e.n \in Int
BY RelayAssumption DEF Events

\* The first element of an ordered sequence is older than none after it.
LEMMA TailOrder ==
  ASSUME NEW s \in Seq(Events), s # <<>>, Ordered(s)
  PROVE  /\ Head(s) \in Events
         /\ Elems(s) = {Head(s)} \cup Elems(Tail(s))
         /\ Ordered(Tail(s))
         /\ \A d \in Elems(Tail(s)) : ~Older(d, Head(s))
<1>1. PICK n \in Nat : Len(s) = n + 1 /\ Len(Tail(s)) = n
  <2>1. Len(s) \in Nat /\ Len(s) # 0 /\ Len(Tail(s)) = Len(s) - 1
    OBVIOUS
  <2>2. Len(s) - 1 \in Nat /\ Len(s) = (Len(s) - 1) + 1
    BY ONLY <2>1
  <2> QED
    BY <2>1, <2>2
<1>2. /\ Head(s) = s[1]
      /\ \A i \in 1..(n + 1) : s[i] \in Events
      /\ \A i \in 1..n : Tail(s)[i] = s[i + 1]
  BY <1>1
<1>3. Elems(s) = {Head(s)} \cup Elems(Tail(s))
  <2>1. ASSUME NEW i \in 1..(n + 1) PROVE s[i] \in {Head(s)} \cup Elems(Tail(s))
    <3>1. CASE i = 1
      BY <1>2, <3>1
    <3>2. CASE i # 1
      <4>1. i - 1 \in 1..n /\ (i - 1) + 1 = i
        BY <3>2
      <4> QED
        BY <1>1, <1>2, <4>1 DEF Elems
    <3> QED
      BY <3>1, <3>2
  <2>2. \A i \in 1..n : i + 1 \in 1..(n + 1)
    OBVIOUS
  <2>3. 1 \in 1..(n + 1)
    OBVIOUS
  <2> QED
    BY <1>1, <1>2, <2>1, <2>2, <2>3 DEF Elems
<1>4. Ordered(Tail(s))
  <2> SUFFICES ASSUME NEW i \in 1..n, NEW j \in 1..n, i < j, s[i + 1].by = s[j + 1].by
               PROVE  s[i + 1].n < s[j + 1].n
    BY <1>1, <1>2 DEF Ordered
  <2>1. i + 1 \in 1..(n + 1) /\ j + 1 \in 1..(n + 1) /\ i + 1 < j + 1
    OBVIOUS
  <2> QED
    BY <1>1, <2>1 DEF Ordered
<1>5. \A d \in Elems(Tail(s)) : ~Older(d, Head(s))
  <2> SUFFICES ASSUME NEW i \in 1..n, s[i + 1].by = s[1].by, s[i + 1].n < s[1].n PROVE FALSE
    BY <1>1, <1>2 DEF Elems, Older
  <2>1. 1 \in 1..(n + 1) /\ i + 1 \in 1..(n + 1) /\ 1 < i + 1
    OBVIOUS
  <2>2. s[1].n < s[i + 1].n
    BY <1>1, <2>1 DEF Ordered
  <2>3. s[1].n \in Int /\ s[i + 1].n \in Int
    BY <1>2, <2>1, EventNumbers
  <2> QED
    BY <2>2, <2>3
<1>6. Head(s) \in Events
  OBVIOUS
<1> QED
  BY <1>3, <1>4, <1>5, <1>6

\* A reply younger than all of its publisher's keeps a sequence ordered.
LEMMA AppendOrder ==
  ASSUME NEW s \in Seq(Events), NEW r \in Events, Ordered(s),
         \A d \in Elems(s) : d.by = r.by => d.n < r.n
  PROVE  /\ Append(s, r) \in Seq(Events)
         /\ Elems(Append(s, r)) = Elems(s) \cup {r}
         /\ Ordered(Append(s, r))
<1>1. PICK n \in Nat : Len(s) = n
  OBVIOUS
<1>2. /\ Append(s, r) \in Seq(Events) /\ Len(Append(s, r)) = n + 1
      /\ \A i \in 1..n : Append(s, r)[i] = s[i]
      /\ Append(s, r)[n + 1] = r
  BY <1>1
<1>3. \A i \in 1..(n + 1) : i \in 1..n \/ i = n + 1
  OBVIOUS
<1>4. \A i \in 1..n : i \in 1..(n + 1)
  OBVIOUS
<1>5. n + 1 \in 1..(n + 1)
  OBVIOUS
<1> DEFINE q == Append(s, r)
<1> HIDE DEF q
<1>6. Elems(q) = Elems(s) \cup {r}
  BY <1>1, <1>2, <1>3, <1>4, <1>5 DEF Elems, q
<1>7. Ordered(q)
  <2> SUFFICES ASSUME NEW i \in 1..(n + 1), NEW j \in 1..(n + 1), i < j, q[i].by = q[j].by
               PROVE  q[i].n < q[j].n
    BY <1>2 DEF Ordered, q
  <2>1. i \in 1..n
    OBVIOUS
  <2>2. CASE j \in 1..n
    BY <1>1, <1>2, <2>1, <2>2 DEF Ordered, q
  <2>3. CASE j = n + 1
    <3>1. q[j] = r /\ q[i] = s[i] /\ s[i] \in Elems(s)
      BY <1>1, <1>2, <2>1, <2>3 DEF q, Elems
    <3> QED
      BY <3>1
  <2> QED
    BY <1>3, <2>2, <2>3
<1> QED
  BY <1>2, <1>6, <1>7 DEF q

\* The ring drops its oldest: what it keeps is ordered, and whole.
LEMMA LastOrder ==
  ASSUME NEW s \in Seq(Events), NEW A \in SUBSET Events, NEW n \in Nat, Ordered(s), Whole(s, A)
  PROVE  /\ Elems(Last(n, s)) \subseteq Elems(s)
         /\ Ordered(Last(n, s))
         /\ Whole(Last(n, s), A)
<1>1. CASE Len(s) <= n
  BY <1>1 DEF Last
<1>2. CASE Len(s) > n
  <2>1. PICK k \in Nat : Len(s) = k + n
    <3>1. Len(s) \in Nat /\ Len(s) - n \in Nat /\ Len(s) = (Len(s) - n) + n
      BY <1>2
    <3> QED
      BY <3>1
  <2> DEFINE q == Last(n, s)
  <2>2. Len(q) = n /\ \A i \in 1..n : q[i] = s[k + i]
    <3>1. q = SubSeq(s, k + 1, k + n)
      BY <1>2, <2>1 DEF Last
    <3> HIDE DEF q
    <3>2. Len(SubSeq(s, k + 1, k + n)) = n /\ \A i \in 1..n : SubSeq(s, k + 1, k + n)[i] = s[k + i]
      BY <2>1
    <3> QED
      BY <3>1, <3>2
  <2> HIDE DEF q
  <2>3. \A i \in 1..n : k + i \in 1..(k + n)
    OBVIOUS
  <2>4. Elems(q) \subseteq Elems(s)
    BY <2>1, <2>2, <2>3 DEF Elems
  <2>5. Ordered(q)
    <3> SUFFICES ASSUME NEW i \in 1..n, NEW j \in 1..n, i < j, s[k + i].by = s[k + j].by
                 PROVE  s[k + i].n < s[k + j].n
      BY <2>2 DEF Ordered
    <3>1. k + i \in 1..(k + n) /\ k + j \in 1..(k + n) /\ k + i < k + j
      OBVIOUS
    <3> QED
      BY <2>1, <3>1 DEF Ordered
  <2>6. Whole(q, A)
    <3> SUFFICES ASSUME NEW i \in 1..n, NEW e \in A, Older(s[k + i], e) PROVE e \in Elems(q)
      BY <2>2 DEF Whole, Elems
    <3>1. s[k + i] \in Elems(s)
      BY <2>1, <2>3 DEF Elems
    <3>2. e \in Elems(s)
      BY <3>1 DEF Whole
    <3>3. PICK j \in 1..(k + n) : s[j] = e
      BY <2>1, <3>2 DEF Elems
    <3>4. ~(j <= k)
      <4> SUFFICES ASSUME j <= k PROVE FALSE
        OBVIOUS
      <4>1. k + i \in 1..(k + n) /\ j < k + i
        OBVIOUS
      <4>2. s[j].n < s[k + i].n
        BY <2>1, <3>3, <4>1 DEF Ordered, Older
      <4>3. s[j].n \in Int /\ s[k + i].n \in Int
        BY <2>1, <4>1, EventNumbers
      <4> QED
        BY <3>3, <4>2, <4>3 DEF Older
    <3>5. j - k \in 1..n /\ k + (j - k) = j
      BY <3>4
    <3>6. q[j - k] = e
      BY <2>2, <3>3, <3>5
    <3> QED
      BY <2>2, <3>5, <3>6 DEF Elems
  <2> QED
    BY <2>4, <2>5, <2>6 DEF q
<1> QED
  BY <1>1, <1>2

\* A reply is appended by Publish and by nothing else.
LEMMA AppendedStep ==
  ASSUME IInv, NEW c \in Conns, Step(c)
  PROVE  Appended' = IF Publish(c) THEN Appended \cup {Reply(c)} ELSE Appended
<1> USE DEF IInv, TypeOK, HandlerTypes, Move, Following
<1>0. \A b \in Conns : made[b] \in Int
  BY RelayAssumption
<1>1. CASE Publish(c)
  <2>1. Reply(c) \in Events /\ Reply(c).by = c /\ Reply(c).n = made[c]
    BY <1>1, ReplyType DEF Publish, PublishTo, Reply
  <2>2. UNCHANGED made /\ phase[c] = "publish" /\ phase' = [phase EXCEPT ![c] = "sending"]
    BY <1>1 DEF Publish, PublishTo
  <2>3. \A e \in Events : e.by = c /\ e.n = made[c] => e = Reply(c)
    BY DEF Events, Reply
  <2>4. \A e \in Events : e.by \in Conns /\ e.n \in Int
    BY EventNumbers
  <2>5. ASSUME NEW e \in Events PROVE e \in Appended' <=> e \in Appended \/ e = Reply(c)
    <3>1. CASE e.by = c
      <4>1. e \in Appended' <=> e.n <= made[c]
        BY <2>2, <3>1 DEF Appended
      <4>2. e \in Appended <=> e.n <= made[c] /\ e.n # made[c]
        BY <2>2, <3>1 DEF Appended
      <4>3. e = Reply(c) <=> e.n = made[c]
        BY <2>1, <2>3, <3>1
      <4>4. e.n \in Int /\ made[c] \in Int
        BY <1>0, <2>4
      <4> HIDE DEF IInv, Appended
      <4> QED
        BY <4>1, <4>2, <4>3, <4>4
    <3>2. CASE e.by # c
      <4>1. phase'[e.by] = phase[e.by] /\ made'[e.by] = made[e.by] /\ e # Reply(c)
        BY <2>1, <2>2, <2>4, <3>2
      <4> QED
        BY <4>1 DEF Appended
    <3> QED
      BY <3>1, <3>2
  <2> QED
    BY <1>1, <2>1, <2>5 DEF Appended
<1>2. CASE Event(c)
  <2>1. ~Publish(c) /\ phase[c] = "read"
    BY <1>2 DEF Event, Publish, PublishTo
  <2>2. \/ phase'[c] = "ok" /\ made'[c] = made[c] + 1
        \/ phase'[c] = "reject" /\ made'[c] = made[c]
    BY <1>2, <1>0 DEF Event
  <2>3. \A b \in Conns : b # c => phase'[b] = phase[b] /\ made'[b] = made[b]
    BY <1>2 DEF Event
  <2>4. ASSUME NEW e \in Events PROVE e \in Appended' <=> e \in Appended
    <3>0. e.by \in Conns /\ e.n \in Int /\ made[c] \in Int
      BY <1>0, EventNumbers
    <3>1. CASE e.by = c
      <4>1. e \in Appended <=> e.n <= made[c]
        BY <2>1, <3>1 DEF Appended
      <4>2. CASE phase'[c] = "ok" /\ made'[c] = made[c] + 1
        <5>1. e \in Appended' <=> e.n <= made[c] + 1 /\ e.n # made[c] + 1
          BY <3>1, <4>2 DEF Appended
        <5> HIDE DEF IInv, Appended
        <5> QED
          BY <3>0, <4>1, <5>1
      <4>3. CASE phase'[c] = "reject" /\ made'[c] = made[c]
        BY <3>1, <4>1, <4>3 DEF Appended
      <4> QED
        BY <2>2, <4>2, <4>3
    <3>2. CASE e.by # c
      BY <2>3, <3>0, <3>2 DEF Appended
    <3> QED
      BY <3>1, <3>2
  <2> QED
    BY <2>1, <2>4 DEF Appended
<1>3. CASE ~Publish(c) /\ ~Event(c)
  <2>1. /\ UNCHANGED made
        /\ \A b \in Conns : phase'[b] \in {"ok", "publish"} <=> phase[b] \in {"ok", "publish"}
    BY <1>3 DEF Step, Handle, Connect, AdmitIf, Admit, Break, ReadFails, LeaveWith, Leave, ReqIf,
       Req, WriteClosed, ReplayOf, Replay, WriteReplay, Eose, CloseSub, WriteReject, WriteOk,
       SendLeaving, Send, WriteEvent, Sent, handlerVars
  <2>2. \A e \in Events : e.by \in Conns
    BY EventNumbers
  <2> QED
    BY <1>3, <2>1, <2>2 DEF Appended
<1> QED
  BY <1>1, <1>2, <1>3

\* A step that appends, replays and delivers nothing, and changes subscriptions
\* only where nothing is left of a replay, disturbs no order.
LEMMA OrderFrame ==
  ASSUME OrderInv, Appended' = Appended, UNCHANGED <<recent, queue, delivered>>,
         \A t \in Conns : \/ queue[t] = <<>>
                          \/ /\ phase'[t] = "replaying"
                             /\ cur'[t] = cur[t] /\ subs'[t] = subs[t] /\ due'[t] = due[t]
  PROVE  OrderInv'
<1>1. RingOrder'
  BY DEF OrderInv, RingOrder
<1>2. ASSUME NEW t \in Conns PROVE ReplayOrder(t)'
  <2>1. ReplayOrder(t)
    BY DEF OrderInv
  <2>2. phase'[t] # "replaying" => queue'[t] = <<>>
    OBVIOUS
  <2>3. /\ Left(t)' \subseteq Appended' /\ Ordered(queue[t])'
        /\ \A d \in delivered'[t] : d[2] \in Appended'
    BY <2>1 DEF ReplayOrder, Left
  <2>4. \A d \in ToReplay(t)', e \in Appended' :
          Older(d[2], e) => <<cur'[t], e>> \in due'[t] \cup ToReplay(t)'
    <3>1. CASE queue[t] = <<>>
      <4>1. Left(t)' = {}
        BY <3>1 DEF Left
      <4> QED
        BY <4>1 DEF ToReplay
    <3>2. CASE cur'[t] = cur[t] /\ subs'[t] = subs[t] /\ due'[t] = due[t]
      <4>1. ToReplay(t)' = ToReplay(t)
        BY <3>2 DEF ToReplay, Left
      <4> QED
        BY <2>1, <3>2, <4>1 DEF ReplayOrder
    <3> QED
      BY <3>1, <3>2
  <2> QED
    BY <2>2, <2>3, <2>4 DEF ReplayOrder
<1> QED
  BY <1>1, <1>2 DEF OrderInv

LEMMA ReplayKeepsOrder ==
  ASSUME IInv, OrderInv, NEW c \in Conns, Replay(c)
  PROVE  OrderInv'
<1> USE DEF IInv, TypeOK, HandlerTypes, RingTypes, Move
<1>1. /\ phase' = [phase EXCEPT ![c] = "replaying"]
      /\ queue' = [queue EXCEPT ![c] = recent]
      /\ UNCHANGED <<recent, cur, subs, due, delivered, made>>
  BY DEF Replay, ReplayOf, historyVars
<1>2. Appended' = Appended
  BY AppendedStep DEF Step, Handle, Replay, ReplayOf, Publish, PublishTo
<1>3. RingOrder'
  BY <1>1, <1>2 DEF OrderInv, RingOrder
<1>4. ASSUME NEW t \in Conns PROVE ReplayOrder(t)'
  <2>0. ReplayOrder(t) /\ RingOrder
    BY DEF OrderInv
  <2>1. CASE t = c
    <3>1. queue'[t] = recent /\ Left(t)' = Elems(recent)
      BY <1>1, <2>1 DEF Left, Elems
    <3>2. ASSUME NEW d \in ToReplay(t)', NEW e \in Appended, Older(d[2], e)
          PROVE  <<cur'[t], e>> \in ToReplay(t)'
      <4>1. d[2] \in Elems(recent) /\ Match(subs'[t][cur'[t]], d[2])
        BY <3>1 DEF ToReplay, Match
      <4>2. e \in Elems(recent)
        BY <2>0, <3>2, <4>1 DEF RingOrder, Whole
      <4>3. Match(subs'[t][cur'[t]], e)
        BY <3>2, <4>1 DEF Match, Older
      <4> QED
        BY <3>1, <4>2, <4>3 DEF ToReplay, Match
    <3> QED
      BY <1>1, <1>2, <2>0, <2>1, <3>1, <3>2 DEF ReplayOrder, RingOrder
  <2>2. CASE t # c
    <3>1. ToReplay(t)' = ToReplay(t) /\ Left(t)' = Left(t)
      BY <1>1, <2>2 DEF ToReplay, Left
    <3> QED
      BY <1>1, <1>2, <2>0, <2>2, <3>1 DEF ReplayOrder
  <2> QED
    BY <2>1, <2>2
<1> QED
  BY <1>3, <1>4 DEF OrderInv

LEMMA WriteReplayKeepsOrder ==
  ASSUME IInv, OrderInv, NEW c \in Conns, WriteReplay(c)
  PROVE  OrderInv'
<1> USE DEF IInv, TypeOK, HandlerTypes, RingTypes, HistoryTypes
<1> DEFINE h == Head(queue[c])
<1>1. /\ phase[c] = "replaying" /\ queue[c] # <<>>
      /\ queue' = [queue EXCEPT ![c] = Tail(queue[c])]
      /\ UNCHANGED <<phase, recent, cur, subs, due, made>>
  BY DEF WriteReplay
<1>2. Appended' = Appended
  BY AppendedStep, <1>1 DEF Step, Handle, Publish, PublishTo
<1>3. RingOrder'
  BY <1>1, <1>2 DEF OrderInv, RingOrder
<1>4. /\ h \in Events
      /\ Elems(queue[c]) = {h} \cup Elems(Tail(queue[c]))
      /\ Ordered(Tail(queue[c]))
      /\ \A d \in Elems(Tail(queue[c])) : ~Older(d, h)
  <2>1. queue[c] \in Seq(Events) /\ Ordered(queue[c])
    BY DEF OrderInv, ReplayOrder
  <2> HIDE DEF IInv
  <2> QED
    BY <1>1, <2>1, TailOrder
<1> HIDE DEF h
<1>5. \A t \in Conns : \A d \in delivered'[t] : d \in delivered[t] \/ (t = c /\ d[2] = h)
  <2>1. \/ delivered' = delivered
        \/ delivered' = [delivered EXCEPT ![c] = delivered[c] \cup {<<cur[c], h>>}]
    BY DEF WriteReplay, Deliver, h
  <2>2. DOMAIN delivered = Conns
    OBVIOUS
  <2> HIDE DEF IInv
  <2> QED
    BY <2>1, <2>2
<1>6. ASSUME NEW t \in Conns PROVE ReplayOrder(t)'
  <2>0. ReplayOrder(t)
    BY DEF OrderInv
  <2>1. CASE t = c
    <3>1. Left(t) = {h} \cup Left(t)' /\ queue'[t] = Tail(queue[c])
      <4>1. queue'[t] = Tail(queue[c])
        BY <1>1, <2>1
      <4>2. Left(t) = Elems(queue[c]) /\ Left(t)' = Elems(Tail(queue[c]))
        BY <2>1, <4>1 DEF Left, Elems
      <4> QED
        BY <1>4, <4>1, <4>2
    <3>2. h \in Appended /\ Left(t)' \subseteq Appended
      BY <2>0, <3>1 DEF ReplayOrder
    <3>3. ASSUME NEW d \in ToReplay(t)', NEW e \in Appended, Older(d[2], e)
          PROVE  <<cur[t], e>> \in due[t] \cup ToReplay(t)'
      <4>1. d[2] \in Left(t)' /\ d \in ToReplay(t)
        BY <1>1, <3>1 DEF ToReplay
      <4>2. e # h
        BY <1>1, <1>4, <2>1, <3>3, <4>1 DEF Left, Elems
      <4>3. <<cur[t], e>> \in due[t] \cup ToReplay(t)
        BY <2>0, <3>3, <4>1 DEF ReplayOrder
      <4>4. <<cur[t], e>> \in ToReplay(t) => <<cur[t], e>> \in ToReplay(t)'
        BY <1>1, <3>1, <4>2 DEF ToReplay
      <4> QED
        BY <4>3, <4>4
    <3>4. \A d \in delivered'[t] : d[2] \in Appended
      BY <1>5, <2>0, <3>2 DEF ReplayOrder
    <3> QED
      BY <1>1, <1>2, <1>4, <2>1, <3>1, <3>2, <3>3, <3>4 DEF ReplayOrder
  <2>2. CASE t # c
    <3>1. queue'[t] = queue[t] /\ ToReplay(t)' = ToReplay(t) /\ Left(t)' = Left(t)
      BY <1>1, <2>2 DEF ToReplay, Left
    <3>2. \A d \in delivered'[t] : d \in delivered[t]
      BY <1>5, <2>2
    <3> QED
      BY <1>1, <1>2, <2>0, <3>1, <3>2 DEF ReplayOrder
  <2> QED
    BY <2>1, <2>2
<1> QED
  BY <1>3, <1>6 DEF OrderInv

\* What is appended while a replay is being written is due to its subscription.
LEMMA PublishKeepsOrder ==
  ASSUME IInv, OrderInv, NEW c \in Conns, Publish(c)
  PROVE  OrderInv'
<1> USE DEF IInv, TypeOK, HandlerTypes, RingTypes
<1> DEFINE r == Reply(c)
           s == Append(recent, r)
<1>1. /\ phase[c] = "publish" /\ phase' = [phase EXCEPT ![c] = "sending"]
      /\ recent' = Last(MaxRecent, s)
      /\ \A t \in Conns : due[t] \subseteq due'[t]
      /\ \A t \in Conns : t \in clients => \A id \in SubIds : Match(subs[t][id], r) => <<id, r>> \in due'[t]
      /\ UNCHANGED <<queue, cur, subs, made, delivered>>
  BY DEF Publish, PublishTo, Move, Matching
<1>2. r \in Events /\ r.by = c /\ r.n = made[c]
  BY <1>1, ReplyType DEF Reply
<1>3. Appended' = Appended \cup {r}
  BY AppendedStep DEF Step, Handle
<1>4. \A e \in Appended : e.by = c => e.n < r.n
  <2>1. ASSUME NEW e \in Appended, e.by = c PROVE e.n < r.n
    <3>1. e.n <= made[c] /\ e.n # made[c] /\ e.n \in Int
      BY <1>1, <2>1, EventNumbers DEF Appended
    <3>2. made[c] \in Int
      BY RelayAssumption
    <3> HIDE DEF IInv
    <3> QED
      BY <1>2, <3>1, <3>2
  <2> QED
    BY <2>1
<1> HIDE DEF r
<1>5. RingOrder'
  <2>1. RingOrder /\ recent \in Seq(Events) /\ MaxRecent \in Nat
    BY RelayAssumption DEF OrderInv
  <2>2. \A d \in Elems(recent) : d.by = r.by => d.n < r.n
    BY <1>2, <1>4, <2>1 DEF RingOrder
  <2>3. s \in Seq(Events) /\ Elems(s) = Elems(recent) \cup {r} /\ Ordered(s)
    <3> HIDE DEF IInv
    <3> QED
      BY <1>2, <2>1, <2>2, AppendOrder DEF RingOrder
  <2> HIDE DEF s
  <2>4. Appended' \in SUBSET Events
    BY <1>2, <1>3 DEF Appended
  <2>5. Whole(s, Appended')
    <3> SUFFICES ASSUME NEW d \in Elems(s), NEW e \in Appended', Older(d, e) PROVE e \in Elems(s)
      BY DEF Whole
    <3>1. CASE d = r
      <4>1. e # r /\ e \in Appended /\ e.by = c
        <5>1. r.n \in Int
          BY <1>2, EventNumbers
        <5> HIDE DEF IInv
        <5> QED
          BY <1>2, <1>3, <3>1, <5>1 DEF Older
      <4>2. e.n < r.n /\ r.n < e.n /\ e.n \in Int /\ r.n \in Int
        BY <1>2, <1>4, <3>1, <4>1, EventNumbers DEF Older, Appended
      <4> HIDE DEF IInv
      <4> QED
        BY <4>2
    <3>2. CASE d # r
      BY <1>3, <2>1, <2>3, <3>2 DEF RingOrder, Whole
    <3> QED
      BY <3>1, <3>2
  <2>6. /\ Elems(Last(MaxRecent, s)) \subseteq Elems(s)
        /\ Ordered(Last(MaxRecent, s))
        /\ Whole(Last(MaxRecent, s), Appended')
    <3> HIDE DEF IInv
    <3> QED
      BY <2>1, <2>3, <2>4, <2>5, LastOrder
  <2>7. Elems(s) \subseteq Appended'
    BY <1>3, <2>1, <2>3 DEF RingOrder
  <2> QED
    BY <1>1, <2>6, <2>7 DEF RingOrder
<1>6. ASSUME NEW t \in Conns PROVE ReplayOrder(t)'
  <2>0. ReplayOrder(t)
    BY DEF OrderInv
  <2>1. Left(t)' = Left(t) /\ ToReplay(t)' = ToReplay(t) /\ queue'[t] = queue[t]
    BY <1>1 DEF Left, ToReplay
  <2>2. phase'[t] # "replaying" => queue'[t] = <<>>
    BY <1>1, <2>0, <2>1 DEF ReplayOrder
  <2>3. ASSUME NEW d \in ToReplay(t), NEW e \in Appended', Older(d[2], e)
        PROVE  <<cur[t], e>> \in due'[t] \cup ToReplay(t)
    <3>1. CASE e \in Appended
      BY <1>1, <2>0, <2>3, <3>1 DEF ReplayOrder
    <3>2. CASE e = r
      <4>1. queue[t] # <<>>
        BY DEF ToReplay, Left
      <4>2. phase[t] = "replaying"
        BY <2>0, <4>1 DEF ReplayOrder
      <4>3. t \in clients /\ cur[t] \in SubIds
        BY <4>2 DEF TableInv, CurInv, Live, Phases
      <4>4. Match(subs[t][cur[t]], r)
        BY <2>3, <3>2 DEF ToReplay, Match, Older
      <4> QED
        BY <1>1, <3>2, <4>3, <4>4
    <3> QED
      BY <1>3, <2>3, <3>1, <3>2
  <2> QED
    BY <1>1, <1>3, <2>0, <2>1, <2>2, <2>3 DEF ReplayOrder
<1> QED
  BY <1>5, <1>6 DEF OrderInv

LEMMA WriteEventKeepsOrder ==
  ASSUME IInv, OrderInv, NEW c \in Conns, WriteEvent(c)
  PROVE  OrderInv'
<1> USE DEF IInv, TypeOK, HandlerTypes, HistoryTypes
<1>1. UNCHANGED <<phase, recent, queue, cur, subs, due, made>> /\ phase[c] = "sending"
  BY DEF WriteEvent
<1>2. Appended' = Appended
  BY AppendedStep, <1>1 DEF Step, Handle, Publish, PublishTo
<1>3. Reply(c) \in Appended
  BY <1>1, ReplyType DEF Appended, Reply, AckInv
<1>4. \A t \in Conns : \A d \in delivered'[t] : d \in delivered[t] \/ d[2] = Reply(c)
  <2>1. PICK w \in writing[c] :
          \/ delivered' = delivered
          \/ delivered' = [delivered EXCEPT ![w[1]] = delivered[w[1]] \cup {<<w[2], Reply(c)>>}]
    BY DEF WriteEvent, Deliver
  <2>2. DOMAIN delivered = Conns
    OBVIOUS
  <2> HIDE DEF IInv
  <2> QED
    BY <2>1, <2>2
<1>5. ASSUME NEW t \in Conns PROVE ReplayOrder(t)'
  <2>1. ReplayOrder(t)
    BY DEF OrderInv
  <2>2. Left(t)' = Left(t) /\ ToReplay(t)' = ToReplay(t)
    BY <1>1 DEF Left, ToReplay
  <2>3. \A d \in delivered'[t] : d[2] \in Appended
    BY <1>3, <1>4, <2>1 DEF ReplayOrder
  <2> QED
    BY <1>1, <1>2, <2>1, <2>2, <2>3 DEF ReplayOrder
<1> QED
  BY <1>1, <1>2, <1>5 DEF OrderInv, RingOrder

LEMMA OrderStep ==
  ASSUME IInv, OrderInv, [Next]_vars
  PROVE  OrderInv'
<1>1. CASE UNCHANGED vars
  <2>1. Appended' = Appended
    BY <1>1 DEF vars, Appended
  <2>2. \A t \in Conns : phase[t] # "replaying" => queue[t] = <<>>
    BY DEF OrderInv, ReplayOrder
  <2> QED
    BY <1>1, <2>1, <2>2, OrderFrame DEF vars
<1>2. ASSUME NEW c \in Conns, Step(c), ~Replay(c), ~WriteReplay(c), ~Publish(c), ~WriteEvent(c)
      PROVE  OrderInv'
  <2>1. Appended' = Appended
    BY <1>2, AppendedStep
  <2>2. \A t \in Conns : phase[t] # "replaying" => queue[t] = <<>>
    BY DEF OrderInv, ReplayOrder
  <2>3. UNCHANGED <<recent, queue, delivered>>
    BY <1>2 DEF Step, Handle, Connect, AdmitIf, Admit, Break, ReadFails, LeaveWith, Leave, ReqIf,
       Req, WriteClosed, Eose, CloseSub, Event, WriteReject, WriteOk, SendLeaving, Send, Sent,
       handlerVars, historyVars
  <2>4. \A t \in Conns : \/ queue[t] = <<>>
                         \/ /\ phase'[t] = "replaying"
                            /\ cur'[t] = cur[t] /\ subs'[t] = subs[t] /\ due'[t] = due[t]
    BY <1>2, <2>2 DEF IInv, TypeOK, HandlerTypes, SubTypes, HistoryTypes, Move, Step, Handle, Connect,
       AdmitIf, Admit, Break, ReadFails, LeaveWith, Leave, ReqIf, Req, WriteClosed, Eose, CloseSub,
       Event, WriteReject, WriteOk, SendLeaving, Send, Sent, Following, handlerVars, historyVars
  <2> QED
    BY <2>1, <2>3, <2>4, OrderFrame
<1> QED
  BY <1>1, <1>2, StepKinds, ReplayKeepsOrder, WriteReplayKeepsOrder, PublishKeepsOrder,
     WriteEventKeepsOrder

LEMMA InitOrder == Init => OrderInv
<1> SUFFICES ASSUME Init PROVE OrderInv
  OBVIOUS
<1>1. Elems(<<>>) = {} /\ Ordered(<<>>)
  BY DEF Elems, Ordered
<1>2. RingOrder
  BY <1>1 DEF Init, RingOrder, Whole
<1>3. ASSUME NEW t \in Conns PROVE ReplayOrder(t)
  <2>1. queue[t] = <<>> /\ delivered[t] = {}
    BY DEF Init
  <2>2. Left(t) = {}
    BY <2>1 DEF Left
  <2> QED
    BY <1>1, <2>1, <2>2 DEF ReplayOrder, ToReplay
<1> QED
  BY <1>2, <1>3 DEF OrderInv

-----------------------------------------------------------------------------
(* Theorems.                                                                *)

LEMMA Inductive == Spec => []IInv
<1>1. IInv /\ [Next]_vars => IInv'
  <2> SUFFICES ASSUME IInv, [Next]_vars PROVE IInv'
    OBVIOUS
  <2> QED
    BY TypeStep, TableStep, CountStep, CurStep, DueStep, LossStep, AckStep DEF IInv
<1> QED
  BY InitIInv, <1>1, PTL DEF Spec

\* Every variable of the relay keeps its type; the ring of recent events in
\* particular never holds more than maxRecent of them (publish).
THEOREM TypeCorrect == Spec => []TypeOK
<1>1. IInv => TypeOK
  BY DEF IInv
<1> QED
  BY Inductive, <1>1, PTL

\* The table of clients (b.clients) is exact and bounded by maxClients, for any
\* number of connections that come and go.
THEOREM TableIsExact == Spec => []ClientTableExact
<1>1. IInv => ClientTableExact
  BY DEF IInv, TableInv, CountInv, ClientTableExact
<1> QED
  BY Inductive, <1>1, PTL

\* A client never holds more than maxSubs subscriptions (REQ in serveWS).
THEOREM SubsWithinLimit == Spec => []SubsBounded
<1>1. IInv => SubsBounded
  BY DEF IInv, CountInv
<1> QED
  BY Inductive, <1>1, PTL

\* publish and send reach every subscription that matched when the reply was
\* appended, whatever else clients subscribe, close or replay meanwhile.
THEOREM RepliesNotLost == Spec => []NoLostReply
<1>1. IInv => NoLostReply
  BY DEF IInv
<1> QED
  BY Inductive, <1>1, PTL

\* OK true precedes the reply at every client, live or replayed (serveWS EVENT).
THEOREM OkFirst == Spec => []OkBeforeReply
<1>1. IInv => OkBeforeReply
  BY DEF IInv, AckInv, OkBeforeReply
<1> QED
  BY Inductive, <1>1, PTL

\* Of two replies of one publisher that were due, the later is never received
\* without the earlier: a reply that is still on its way is the last its publisher
\* made.  Replays are in order too, and are overtaken by nothing but what was
\* appended since the subscription.
THEOREM InOrder == Spec => []PublisherOrder
<1>1. IInv /\ OrderInv => PublisherOrder
  <2> SUFFICES ASSUME IInv, OrderInv, NEW t \in Conns, up[t], NEW e \in delivered[t]
               PROVE  /\ \A d \in due[t] : Later(d, e) => d \in delivered[t]
                      /\ \A d \in ToReplay(t) : Later(d, e) => e \in due[t] \/ e \in ToReplay(t)
    BY DEF PublisherOrder
  <2>1. ASSUME NEW d \in due[t], Later(d, e), d \notin delivered[t] PROVE FALSE
    <3>1. PICK c \in Conns : Pending(c, t, d)
      BY <2>1 DEF IInv, NoLostReply, Pending
    <3>2. d[2].by = c /\ d[2].n = made[c]
      BY <3>1 DEF Pending, Reply
    <3>3. e[2].by = c /\ made[c] < e[2].n
      BY <2>1, <3>2 DEF Later
    <3>4. e[2].n <= made[c]
      BY <3>3 DEF IInv, AckInv
    <3>5. made[c] \in Nat /\ e[2].n \in Nat
      BY RelayAssumption DEF IInv, TypeOK, HandlerTypes, HistoryTypes, Events
    <3> QED
      BY ONLY <3>3, <3>4, <3>5
  <2>2. ASSUME NEW d \in ToReplay(t), Later(d, e) PROVE e \in due[t] \/ e \in ToReplay(t)
    <3>1. e = <<e[1], e[2]>> /\ e[2] \in Appended
      BY DEF IInv, TypeOK, HistoryTypes, OrderInv, ReplayOrder
    <3>2. d[1] = cur[t] /\ Older(d[2], e[2])
      BY <2>2 DEF ToReplay, Later, Older
    <3>3. <<cur[t], e[2]>> \in due[t] \cup ToReplay(t)
      BY <3>1, <3>2 DEF OrderInv, ReplayOrder
    <3>4. <<cur[t], e[2]>> = e
      BY <2>2, <3>1, <3>2 DEF Later
    <3> QED
      BY <3>3, <3>4
  <2> QED
    BY <2>1, <2>2
<1> QED
  BY <1>1, Inductive, InitOrder, OrderStep, PTL DEF Spec
=============================================================================

-------------------------------- MODULE Relay --------------------------------
(***************************************************************************)
(* The relay inside a bunker (src/bunker/bunker.go: serveWS, publish,      *)
(* replay, send, write): its table of clients, their subscriptions, the    *)
(* ring of recent events, and the delivery of the signer's replies.        *)
(*                                                                         *)
(* Critical sections of b.mu and c.mu do not block and are one step each;  *)
(* between them any handler may run.  A write takes at most a second: it   *)
(* reaches the peer while the connection is up and is lost afterwards (a   *)
(* write that times out closes the connection: Break).  Each connection is *)
(* made once; a client that reconnects is another member of Conns.  How an *)
(* event is decrypted, approved and signed is in module Bunker.            *)
(***************************************************************************)
EXTENDS Naturals, Sequences, FiniteSets

CONSTANTS Conns,       \* WebSocket connections
          SubIds,      \* subscription ids a client may use
          Filters,     \* what a REQ may ask for: non-empty sets of publishers
          MaxClients,  \* maxClients, 8 in the code
          MaxSubs,     \* maxSubs, 8 in the code
          MaxRecent,   \* maxRecent, 32 in the code
          MaxEvents    \* bound: EVENT messages accepted per connection

ASSUME RelayAssumption ==
  /\ IsFiniteSet(Conns) /\ IsFiniteSet(SubIds)
  /\ Filters \subseteq (SUBSET Conns) \ {{}}
  /\ MaxClients \in Nat \ {0} /\ MaxSubs \in Nat \ {0} /\ MaxRecent \in Nat \ {0}
  /\ MaxEvents \in Nat

NoSub == {}          \* no subscription under an id
NoId == "noid"       \* no REQ is being served

Events == [by : Conns, n : 1..MaxEvents]    \* replies, named by their publisher

VARIABLES
  phase,      \* where each connection's handler is
  up,         \* the connection still carries messages
  clients,    \* b.clients
  subs,       \* c.subs: a filter or NoSub for each id
  recent,     \* b.recent
  cur,        \* the id of the REQ being served
  queue,      \* what is left to write of a replay
  made,       \* how many events each connection had accepted
  targets,    \* clients a publisher has yet to look at
  writing,    \* <<client, id>> pairs a publisher has yet to write
  acked,      \* history: events whose OK true was written
  delivered,  \* history: the <<id, event>> pairs each connection received
  due         \* history: pairs whose event was appended while id was subscribed

handlerVars == <<phase, cur, queue, made, targets, writing>>
historyVars == <<acked, delivered, due>>
vars == <<phase, up, clients, subs, recent, cur, queue, made, targets, writing,
          acked, delivered, due>>

Phases == {"new", "accepted", "read", "limit", "replay", "replaying", "reject",
           "ok", "publish", "sending", "leaving", "gone"}
Live == Phases \ {"new", "accepted", "gone"}

HandlerTypes == /\ phase \in [Conns -> Phases]
                /\ up \in [Conns -> BOOLEAN]
                /\ clients \in SUBSET Conns
                /\ cur \in [Conns -> SubIds \cup {NoId}]
                /\ made \in [Conns -> 0..MaxEvents]
SubTypes == subs \in [Conns -> [SubIds -> Filters \cup {NoSub}]]
RingTypes == /\ recent \in Seq(Events)
             /\ Len(recent) <= MaxRecent
             /\ queue \in [Conns -> Seq(Events)]
SendTypes == /\ targets \in [Conns -> SUBSET Conns]
             /\ writing \in [Conns -> SUBSET (Conns \X SubIds)]
HistoryTypes == /\ acked \in SUBSET Events
                /\ delivered \in [Conns -> SUBSET (SubIds \X Events)]
                /\ due \in [Conns -> SUBSET (SubIds \X Events)]

TypeOK == HandlerTypes /\ SubTypes /\ RingTypes /\ SendTypes /\ HistoryTypes

Init ==
  /\ phase = [c \in Conns |-> "new"]
  /\ up = [c \in Conns |-> FALSE]
  /\ clients = {}
  /\ subs = [c \in Conns |-> [id \in SubIds |-> NoSub]]
  /\ recent = <<>>
  /\ cur = [c \in Conns |-> NoId]
  /\ queue = [c \in Conns |-> <<>>]
  /\ made = [c \in Conns |-> 0]
  /\ targets = [c \in Conns |-> {}]
  /\ writing = [c \in Conns |-> {}]
  /\ acked = {}
  /\ delivered = [c \in Conns |-> {}]
  /\ due = [c \in Conns |-> {}]

-----------------------------------------------------------------------------
(* Helpers.                                                                 *)

Move(c, p) == phase' = [phase EXCEPT ![c] = p]

\* match: the event passes the filters of a subscription.
Match(filter, e) == e.by \in filter

Reply(c) == [by |-> c, n |-> made[c]]         \* what c is publishing

Matching(c, e) == {id \in SubIds : Match(subs[c][id], e)}

Open(c) == {id \in SubIds : subs[c][id] # NoSub}

\* c.write of an event under id: it arrives if the connection is up.
Deliver(c, id, e) ==
  delivered' = [delivered EXCEPT ![c] = IF up[c] THEN @ \cup {<<id, e>>} ELSE @]

\* The last n elements of s.
Last(n, s) == IF Len(s) <= n THEN s ELSE SubSeq(s, Len(s) - n + 1, Len(s))

\* The stages of a handler after its event is accepted: OK, then publish.
PublishFirst == [accepted |-> "publish", sent |-> "ok", ok |-> "read"]   \* mutant: OK comes last
Following == [accepted |-> "ok", ok |-> "publish", sent |-> "read"]

-----------------------------------------------------------------------------
(* Connections.                                                             *)

Connect(c) ==
  /\ phase[c] = "new"
  /\ Move(c, "accepted")
  /\ up' = [up EXCEPT ![c] = TRUE]
  /\ UNCHANGED <<clients, subs, recent, cur, queue, made, targets, writing, historyVars>>

\* Under b.mu: a full table refuses the connection, which is closed.
AdmitIf(c, room) ==
  /\ phase[c] = "accepted"
  /\ IF room
       THEN /\ Move(c, "read")
            /\ clients' = clients \cup {c}
            /\ UNCHANGED up
       ELSE /\ Move(c, "gone")
            /\ up' = [up EXCEPT ![c] = FALSE]
            /\ UNCHANGED clients
  /\ UNCHANGED <<subs, recent, cur, queue, made, targets, writing, historyVars>>

AdmitOneMore(c) == AdmitIf(c, Cardinality(clients) <= MaxClients)   \* mutant: > for >=
Admit(c) == AdmitIf(c, Cardinality(clients) < MaxClients)

\* The peer leaves, a write times out, or the context is done.
Break(c) ==
  /\ up[c]
  /\ up' = [up EXCEPT ![c] = FALSE]
  /\ UNCHANGED <<clients, subs, recent, handlerVars, historyVars>>

ReadFails(c) ==
  /\ phase[c] = "read"
  /\ ~up[c]
  /\ Move(c, "leaving")
  /\ UNCHANGED <<up, clients, subs, recent, cur, queue, made, targets, writing, historyVars>>

\* The deferred function: the slot is given back under b.mu.
LeaveWith(c, rest) ==
  /\ phase[c] = "leaving"
  /\ clients' = rest
  /\ Move(c, "gone")
  /\ UNCHANGED <<up, subs, recent, cur, queue, made, targets, writing, historyVars>>

Leave(c) == LeaveWith(c, clients \ {c})

-----------------------------------------------------------------------------
(* REQ and CLOSE.                                                           *)

\* Under c.mu.  The count does not ask whether id is already subscribed.  A
\* REQ for a live id replaces its filter, and what was due under the old
\* filter only is no longer due.
ReqIf(c, id, f, room) ==
  /\ phase[c] = "read"
  /\ up[c]
  /\ IF room
       THEN /\ subs' = [subs EXCEPT ![c][id] = f]
            /\ cur' = [cur EXCEPT ![c] = id]
            /\ due' = [due EXCEPT ![c] = {d \in @ : d[1] = id => Match(f, d[2])}]
            /\ Move(c, "replay")
       ELSE /\ Move(c, "limit")
            /\ UNCHANGED <<subs, cur, due>>
  /\ UNCHANGED <<up, clients, recent, queue, made, targets, writing, acked, delivered>>

ReqOneMore(c, id, f) == ReqIf(c, id, f, Cardinality(Open(c)) <= MaxSubs)   \* mutant
Req(c, id, f) == ReqIf(c, id, f, Cardinality(Open(c)) < MaxSubs)

\* CLOSED "rate-limited" is written to the client.
WriteClosed(c) ==
  /\ phase[c] = "limit"
  /\ Move(c, "read")
  /\ UNCHANGED <<up, clients, subs, recent, cur, queue, made, targets, writing, historyVars>>

\* replay: a copy of recent is taken under b.mu; then the events of the copy
\* that match are written one by one.
ReplayOf(c, copy) ==
  /\ phase[c] = "replay"
  /\ queue' = [queue EXCEPT ![c] = copy]
  /\ Move(c, "replaying")
  /\ UNCHANGED <<up, clients, subs, recent, cur, made, targets, writing, historyVars>>

ReplayNewest(c) ==                              \* mutant: the newest event first
  ReplayOf(c, [i \in 1..Len(recent) |-> recent[Len(recent) + 1 - i]])
Replay(c) == ReplayOf(c, recent)

WriteReplay(c) ==
  /\ phase[c] = "replaying"
  /\ queue[c] # <<>>
  /\ IF Match(subs[c][cur[c]], Head(queue[c]))
       THEN Deliver(c, cur[c], Head(queue[c]))
       ELSE UNCHANGED delivered
  /\ queue' = [queue EXCEPT ![c] = Tail(@)]
  /\ UNCHANGED <<phase, up, clients, subs, recent, cur, made, targets, writing, acked, due>>

\* EOSE ends the replay.
Eose(c) ==
  /\ phase[c] = "replaying"
  /\ queue[c] = <<>>
  /\ Move(c, "read")
  /\ cur' = [cur EXCEPT ![c] = NoId]
  /\ UNCHANGED <<up, clients, subs, recent, queue, made, targets, writing, historyVars>>

\* CLOSE, under c.mu.
CloseSub(c, id) ==
  /\ phase[c] = "read"
  /\ up[c]
  /\ subs[c][id] # NoSub
  /\ subs' = [subs EXCEPT ![c][id] = NoSub]
  /\ due' = [due EXCEPT ![c] = {d \in @ : d[1] # id}]
  /\ UNCHANGED <<up, clients, recent, handlerVars, acked, delivered>>

-----------------------------------------------------------------------------
(* EVENT.                                                                   *)

\* accept turns the event down, or yields a signed reply.
Event(c) ==
  /\ phase[c] = "read"
  /\ up[c]
  /\ \/ /\ made[c] < MaxEvents
        /\ made' = [made EXCEPT ![c] = @ + 1]
        /\ Move(c, Following["accepted"])
     \/ /\ Move(c, "reject")
        /\ UNCHANGED made
  /\ UNCHANGED <<up, clients, subs, recent, cur, queue, targets, writing, historyVars>>

WriteReject(c) ==
  /\ phase[c] = "reject"
  /\ Move(c, "read")
  /\ UNCHANGED <<up, clients, subs, recent, cur, queue, made, targets, writing, historyVars>>

WriteOk(c) ==
  /\ phase[c] = "ok"
  /\ acked' = acked \cup {Reply(c)}
  /\ Move(c, Following["ok"])
  /\ UNCHANGED <<up, clients, subs, recent, cur, queue, made, targets, writing, delivered, due>>

\* Under b.mu: the reply joins the ring, the oldest beyond MaxRecent drop out,
\* and the clients are copied.  Every subscription that matches now is due it.
PublishTo(c, ring, to) ==
  /\ phase[c] = "publish"
  /\ recent' = ring
  /\ targets' = [targets EXCEPT ![c] = to]
  /\ due' = [t \in Conns |->
               due[t] \cup (IF t \in clients
                              THEN {<<id, Reply(c)>> : id \in Matching(t, Reply(c))}
                              ELSE {})]
  /\ Move(c, "sending")
  /\ UNCHANGED <<up, clients, subs, cur, queue, made, writing, acked, delivered>>

\* mutant: a client that is replaying is left to its replay
PublishSkips(c) == PublishTo(c, Last(MaxRecent, Append(recent, Reply(c))),
                             {t \in clients : phase[t] # "replaying"})
Publish(c) == PublishTo(c, Last(MaxRecent, Append(recent, Reply(c))), clients)

\* send: the ids of one client whose filters match now, read under its c.mu.
SendLeaving(c, t, rest) ==
  /\ phase[c] = "sending"
  /\ writing[c] = {}
  /\ t \in targets[c]
  /\ writing' = [writing EXCEPT ![c] = {<<t, id>> : id \in Matching(t, Reply(c))}]
  /\ targets' = [targets EXCEPT ![c] = rest]
  /\ UNCHANGED <<phase, up, clients, subs, recent, cur, queue, made, historyVars>>

SendForever(c, t) == SendLeaving(c, t, targets[c])      \* mutant: the loop does not advance
Send(c, t) == SendLeaving(c, t, targets[c] \ {t})

WriteEvent(c) ==
  /\ phase[c] = "sending"
  /\ \E w \in writing[c] :
       /\ Deliver(w[1], w[2], Reply(c))
       /\ writing' = [writing EXCEPT ![c] = @ \ {w}]
  /\ UNCHANGED <<phase, up, clients, subs, recent, cur, queue, made, targets, acked, due>>

Sent(c) ==
  /\ phase[c] = "sending"
  /\ targets[c] = {}
  /\ writing[c] = {}
  /\ Move(c, Following["sent"])
  /\ UNCHANGED <<up, clients, subs, recent, cur, queue, made, targets, writing, historyVars>>

\* The steps a handler takes by itself; the others need a message or a fault.
Handle(c) ==
  \/ Admit(c) \/ ReadFails(c) \/ Leave(c)
  \/ WriteClosed(c) \/ Replay(c) \/ WriteReplay(c) \/ Eose(c)
  \/ WriteReject(c) \/ WriteOk(c) \/ Publish(c) \/ WriteEvent(c) \/ Sent(c)
  \/ \E t \in Conns : Send(c, t)

Next == \E c \in Conns :
  \/ Connect(c) \/ Break(c)
  \/ \E id \in SubIds, f \in Filters : Req(c, id, f)
  \/ \E id \in SubIds : CloseSub(c, id)
  \/ Event(c)
  \/ Handle(c)

Spec == Init /\ [][Next]_vars

\* A handler that is not waiting for a message runs: no critical section blocks
\* and a write ends after a second at the latest.
FairSpec == Spec /\ \A c \in Conns : WF_vars(Handle(c))

-----------------------------------------------------------------------------
(* Safety.                                                                  *)

\* The table of clients is the set of handlers in their loop, so that a
\* connection gives its slot back on every path; there are never more than
\* MaxClients of them.
ClientTableExact ==
  /\ clients = {c \in Conns : phase[c] \in Live}
  /\ Cardinality(clients) <= MaxClients

\* No client holds more than MaxSubs subscriptions.
SubsBounded == \A c \in Conns : Cardinality(Open(c)) <= MaxSubs

\* A reply that is appended while a subscription matches it is received under
\* that subscription, or its publisher is still on the way to it; only a broken
\* connection, a CLOSE or another REQ for the id ends the obligation.  In
\* particular nothing is lost between registering a REQ, copying the ring and
\* the copies of the client table that publishers work from.
NoLostReply ==
  \A t \in Conns : up[t] =>
    \A d \in due[t] :
      \/ d \in delivered[t]
      \/ \E c \in Conns : /\ phase[c] = "sending"
                          /\ Reply(c) = d[2]
                          /\ t \in targets[c] \/ <<t, d[1]>> \in writing[c]

\* What is left of t's replay, and what of it is to be written.
Left(t) == {queue[t][i] : i \in 1..Len(queue[t])}
ToReplay(t) == {<<cur[t], e>> : e \in {x \in Left(t) : Match(subs[t][cur[t]], x)}}

Later(d, e) == d[1] = e[1] /\ d[2].by = e[2].by /\ d[2].n < e[2].n

\* The order of one publisher's replies under one subscription.  Of two that were
\* appended while it matched, the earlier comes first.  Of two that its replay
\* brings, the earlier comes first.  But replays are written with no lock held: a
\* reply appended while it matched may overtake one that is still to be replayed,
\* of the same publisher too, and this is the only case.
PublisherOrder ==
  \A t \in Conns : up[t] => \A e \in delivered[t] :
    /\ \A d \in due[t] : Later(d, e) => d \in delivered[t]
    /\ \A d \in ToReplay(t) : Later(d, e) => e \in due[t] \/ e \in ToReplay(t)

\* Nobody receives a reply before its requester was told OK.
OkBeforeReply ==
  \A t \in Conns : \A d \in delivered[t] : d[2] \in acked

-----------------------------------------------------------------------------
(* Liveness.                                                                *)

\* Serving a REQ or spreading a reply ends, whoever of the clients is broken, and a
\* broken connection gives its slot back, also from the middle of a publish.
HandlersServe ==
  \A c \in Conns : /\ phase[c] \in {"replay", "publish"} ~> phase[c] = "read"
                   /\ (c \in clients /\ ~up[c]) ~> c \notin clients
=============================================================================

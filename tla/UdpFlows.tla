------------------------------ MODULE UdpFlows ------------------------------
(***************************************************************************)
(* The native UDP service (udp.go): the client gives every local address a *)
(* flow, the server gives every flow a socket to the backend, in a peer    *)
(* object per Session.  Four kinds of goroutines share it: the reader of   *)
(* the listener, the monitor that expires, one reader per backend socket,  *)
(* and whoever stops the server.                                           *)
(*                                                                         *)
(* The datagrams between the peers are those of Datagrams: lost or         *)
(* reordered, never handed on twice.                                       *)
(***************************************************************************)
EXTENDS Integers, FiniteSets

CONSTANTS
  Sessions, Apps,
  FlowsMax,       \* udpFlowsMax
  MaxFlows,       \* bound: flow ids of a client
  MaxPeers,       \* bound: peer objects made
  MaxSockets,     \* bound: backend sockets dialled
  MaxDatagrams    \* bound: datagrams sent by applications

VARIABLES
  client,     \* per Session: never, running or stopped (udpStarted)
  flows,      \* per Session and address: the id of the flow, or 0
  nextFlow,
  up, down,   \* datagrams on their way; "from" is the application that asked
  budget,     \* datagrams sent so far
  live,       \* Sessions the server has and that are not done
  stopped,    \* the UDP server's context is cancelled
  peers,      \* UDPServer.peers: the peer object of a Session, or 0
  entries,    \* per peer object, its flows: a socket, or 0
  flowCount,
  sockets,    \* backend sockets made, with the goroutine that reads each
  reader,     \* UDPServer.read
  made,       \* history: the Session of each peer object
  late,       \* history: a flow was made in a peer that expire had removed
  answered    \* history: pairs of who got a reply and who had asked

clientVars == <<client, flows, nextFlow, budget, answered>>
serverVars == <<peers, entries, flowCount, sockets, made, late>>
flowVars == <<clientVars, serverVars, up, down, live, stopped, reader>>

Peers == 1..MaxPeers
Ids == 1..MaxFlows
Made == {p \in Peers : made[p] # {}}
Numbers == DOMAIN sockets
Idle == [at |-> "idle"]
Size(f) == Cardinality({a \in Apps : f[a] # 0})

Init ==
  /\ client = [s \in Sessions |-> "never"]
  /\ flows = [s \in Sessions |-> [a \in Apps |-> 0]] /\ nextFlow = [s \in Sessions |-> 0]
  /\ up = {} /\ down = {} /\ budget = 0
  /\ live = Sessions /\ stopped = FALSE
  /\ peers = [s \in Sessions |-> 0] /\ entries = [p \in Peers |-> [f \in Ids |-> 0]]
  /\ flowCount = 0 /\ sockets = <<>> /\ reader = Idle
  /\ made = [p \in Peers |-> {}] /\ late = FALSE /\ answered = {}

-----------------------------------------------------------------------------
(* The client.                                                             *)

StartClient(s) ==
  /\ client[s] = "never" /\ client' = [client EXCEPT ![s] = "running"]
  /\ UNCHANGED <<flows, nextFlow, budget, answered, serverVars, up, down, live, stopped, reader>>

StopClient(s) ==
  /\ client[s] = "running" /\ client' = [client EXCEPT ![s] = "stopped"]
  /\ UNCHANGED <<flows, nextFlow, budget, answered, serverVars, up, down, live, stopped, reader>>

(* Mutant: the id of a flow that has expired is used again.                *)
NewFlowReused(s) == Size(flows[s]) + 1
NewFlow(s) == nextFlow[s] + 1

ReadLocal(s, a) ==
  LET known == flows[s][a] # 0
      id == IF known THEN flows[s][a] ELSE NewFlow(s)
  IN /\ client[s] = "running" /\ budget < MaxDatagrams /\ id \in Ids
     /\ known \/ Size(flows[s]) < FlowsMax
     /\ flows' = [flows EXCEPT ![s][a] = id]
     /\ nextFlow' = IF known THEN nextFlow ELSE [nextFlow EXCEPT ![s] = @ + 1]
     /\ up' = up \cup {[session |-> s, flow |-> id, from |-> a]}
     /\ budget' = budget + 1
     /\ UNCHANGED <<client, answered, serverVars, down, live, stopped, reader>>

ReadCarrier(d) ==
  /\ client[d.session] = "running" /\ down' = down \ {d}
  /\ answered' = answered \cup {<<a, d.from>> : a \in {a \in Apps : flows[d.session][a] = d.flow}}
  /\ UNCHANGED <<client, flows, nextFlow, budget, serverVars, up, live, stopped, reader>>

ExpireLocal(s, a) ==
  /\ client[s] = "running" /\ flows[s][a] # 0 /\ flows' = [flows EXCEPT ![s][a] = 0]
  /\ UNCHANGED <<client, nextFlow, budget, answered, serverVars, up, down, live, stopped, reader>>

-----------------------------------------------------------------------------
(* The server's reader: the Session is looked up under Server.mu, the peer *)
(* and the flow under UDPServer.mu, the write to the backend under none.   *)

Look(d) ==
  /\ reader = Idle /\ ~stopped
  /\ up' = up \ {d}
  /\ reader' = IF d.session \in live THEN [at |-> "looked", data |-> d] ELSE Idle
  /\ UNCHANGED <<clientVars, serverVars, down, live, stopped>>

GetPeer ==
  LET s == reader.data.session
      p == IF peers[s] # 0 THEN peers[s] ELSE Cardinality(Made) + 1
  IN /\ reader.at = "looked"
     /\ IF stopped \/ p \notin Peers
        THEN reader' = Idle /\ UNCHANGED <<peers, made>>
        ELSE /\ peers' = [peers EXCEPT ![s] = p] /\ made' = [made EXCEPT ![p] = {s}]
             /\ reader' = [at |-> "received", data |-> reader.data, peer |-> p]
     /\ UNCHANGED <<clientVars, entries, flowCount, sockets, late, up, down, live, stopped>>

(* Mutant: a stopped server still dials.                                   *)
RefusesFull == flowCount >= FlowsMax
Refuses == stopped \/ flowCount >= FlowsMax

GetFlow ==
  LET p == reader.peer
      id == reader.data.flow
      k == Cardinality(Numbers) + 1
      writing(n) == [at |-> "writing", data |-> reader.data, peer |-> p, socket |-> n]
  IN /\ reader.at = "received"
     /\ IF ~stopped /\ entries[p][id] # 0
        THEN reader' = writing(entries[p][id]) /\ UNCHANGED <<entries, flowCount, sockets, late>>
        ELSE \E dialled \in BOOLEAN :
               IF Refuses \/ ~dialled \/ k > MaxSockets
               THEN reader' = Idle /\ UNCHANGED <<entries, flowCount, sockets, late>>
               ELSE /\ reader' = writing(k)
                    /\ entries' = [entries EXCEPT ![p][id] = k] /\ flowCount' = flowCount + 1
                    /\ sockets' = [n \in 1..k |-> IF n < k THEN sockets[n]
                         ELSE [peer |-> p, flow |-> id, open |-> TRUE, reading |-> TRUE, asked |-> {}]]
                    /\ late' = (late \/ peers[reader.data.session] # p)
     /\ UNCHANGED <<clientVars, peers, made, up, down, live, stopped>>

(* Mutant: the flow goes, whatever socket it has by now.                   *)
RemovesAny(p, id, k) == entries[p][id] # 0
Removes(p, id, k) == entries[p][id] = k

(* Mutant: a flow that is gone is counted again.                           *)
RemoveFlowTwice(p, id, k) ==
  /\ entries' = IF Removes(p, id, k) THEN [entries EXCEPT ![p][id] = 0] ELSE entries
  /\ flowCount' = flowCount - 1

RemoveFlow(p, id, k) ==
  /\ entries' = IF Removes(p, id, k) THEN [entries EXCEPT ![p][id] = 0] ELSE entries
  /\ flowCount' = IF Removes(p, id, k) THEN flowCount - 1 ELSE flowCount

(* The write fails on a socket that expire has closed.                     *)
WriteBackend ==
  LET k == reader.socket
  IN /\ reader.at = "writing" /\ reader' = Idle
     /\ \/ /\ sockets[k].open
           /\ sockets' = [sockets EXCEPT ![k].asked = @ \cup {reader.data.from}]
           /\ UNCHANGED <<entries, flowCount>>
        \/ /\ sockets' = [sockets EXCEPT ![k].open = FALSE]
           /\ RemoveFlow(reader.peer, reader.data.flow, k)
     /\ UNCHANGED <<clientVars, peers, made, late, up, down, live, stopped>>

-----------------------------------------------------------------------------
(* readBackend, the monitor, and the ends.                                 *)

(* The backend answers on the socket it was asked on.                      *)
ReadBackend(k) ==
  LET b == sockets[k]
  IN /\ b.reading /\ b.open
     /\ \E from \in b.asked, s \in made[b.peer] :
          /\ sockets' = [sockets EXCEPT ![k].asked = @ \ {from}]
          /\ down' = down \cup {[session |-> s, flow |-> b.flow, from |-> from]}
     /\ UNCHANGED <<clientVars, peers, entries, flowCount, made, late, up, live, stopped, reader>>

(* A read fails when the socket is closed, and may fail before.            *)
ReaderEnds(k) ==
  LET b == sockets[k]
  IN /\ b.reading /\ sockets' = [sockets EXCEPT ![k].open = FALSE, ![k].reading = FALSE]
     /\ RemoveFlow(b.peer, b.flow, k)
     /\ UNCHANGED <<clientVars, peers, made, late, up, down, live, stopped, reader>>
ClosedReaderEnds(k) == ~sockets[k].open /\ ReaderEnds(k)

Closes(gone) == [k \in Numbers |-> [sockets[k] EXCEPT !.open = @ /\ k \notin gone]]

(* Mutant: a peer goes with the last of its flows.                         *)
LeavesIdle(s, left) == left = {}
Leaves(s, left) == s \notin live

(* expire, for one peer: its idle flows, all of them once the Session is   *)
(* done, and then the peer.                                                *)
Expire(s, idle) ==
  LET p == peers[s]
      all == {id \in Ids : entries[p][id] # 0}
      out == IF s \in live THEN all \cap idle ELSE all
  IN /\ p # 0 /\ ~stopped /\ (s \in live => out # {})
     /\ sockets' = Closes({entries[p][id] : id \in out})
     /\ entries' = [entries EXCEPT ![p] = [id \in Ids |-> IF id \in out THEN 0 ELSE @[id]]]
     /\ flowCount' = flowCount - Cardinality(out)
     /\ peers' = IF Leaves(s, all \ out) THEN [peers EXCEPT ![s] = 0] ELSE peers
     /\ UNCHANGED <<clientVars, made, late, up, down, live, stopped, reader>>

SessionEnds(s) ==
  /\ s \in live /\ live' = live \ {s}
  /\ UNCHANGED <<clientVars, serverVars, up, down, stopped, reader>>

(* stop closes the sockets of the peers it finds.                          *)
Stop ==
  /\ ~stopped /\ stopped' = TRUE
  /\ sockets' = [k \in Numbers |-> [sockets[k] EXCEPT
                    !.open = @ /\ \A s \in Sessions : \A id \in Ids :
                                    peers[s] # 0 => entries[peers[s]][id] # k]]
  /\ UNCHANGED <<clientVars, peers, entries, flowCount, made, late, up, down, live, reader>>

Read == GetPeer \/ GetFlow \/ WriteBackend
Next ==
  \/ \E s \in Sessions :
       \/ StartClient(s) \/ StopClient(s) \/ SessionEnds(s)
       \/ \E a \in Apps : ReadLocal(s, a) \/ ExpireLocal(s, a)
       \/ \E idle \in SUBSET Ids : Expire(s, idle)
  \/ \E d \in up : Look(d)
  \/ \E d \in down : ReadCarrier(d)
  \/ Read \/ Stop
  \/ \E k \in Numbers : ReadBackend(k) \/ ReaderEnds(k)

(* The reader goes on, the monitor ticks, a closed socket's read returns.  *)
Fairness ==
  /\ WF_flowVars(Read)
  /\ \A s \in Sessions : WF_flowVars(s \notin live /\ Expire(s, Ids))
  /\ \A k \in 1..MaxSockets : WF_flowVars(k \in Numbers /\ ClosedReaderEnds(k))

FlowSpec == Init /\ [][Next]_flowVars /\ Fairness

-----------------------------------------------------------------------------

TypeOK ==
  /\ client \in [Sessions -> {"never", "running", "stopped"}]
  /\ flows \in [Sessions -> [Apps -> 0..MaxFlows]] /\ nextFlow \in [Sessions -> 0..MaxFlows]
  /\ live \subseteq Sessions /\ peers \in [Sessions -> 0..MaxPeers]
  /\ entries \in [Peers -> [Ids -> 0..MaxSockets]] /\ flowCount \in 0..FlowsMax
  /\ reader.at \in {"idle", "looked", "received", "writing"}

(* flowCount is the number of flows of all peers, though the reader, the   *)
(* monitor and a reader of the backend may all remove the same flow and a  *)
(* new one may have taken its place; so the limit of flows is never        *)
(* exceeded and never lost for good.                                       *)
CountAgrees ==
  flowCount = Cardinality({e \in Peers \X Ids : entries[e[1]][e[2]] # 0})

(* A reply goes to the application that asked, whatever expired and came   *)
(* back at either end in between.                                          *)
RepliesReturn == \A r \in answered : r[1] = r[2]

(* Every open socket is one that expire and stop will find, unless its     *)
(* flow was made in a peer that was just removed (getFlow tests the        *)
(* context, not whether its peer is still there).                          *)
NoStray ==
  ~late => \A k \in Numbers : sockets[k].open =>
             /\ entries[sockets[k].peer][sockets[k].flow] = k
             /\ \E s \in Sessions : peers[s] = sockets[k].peer

(* When a Session is done or the server is stopped, every goroutine that   *)
(* reads the backend for it ends: Close, which waits for them, returns.    *)
Drains ==
  \A s \in Sessions :
    (s \notin live \/ stopped)
      ~> (late \/ \A k \in Numbers : s \in made[sockets[k].peer] => ~sockets[k].reading)

(* "One peer must live for the entire TCP session" (datagram.go): while a  *)
(* Session lives its peer is not replaced, so that the counters of its     *)
(* packets never start again.                                              *)
PeerOnce == \A s \in live : Cardinality({p \in Peers : s \in made[p]}) <= 1
=============================================================================

------------------------------ MODULE UdpProofs ------------------------------
(***************************************************************************)
(* Theorems about the native UDP path, for any number of Sessions,         *)
(* applications, flows and sockets (UdpFlows), and of paths, datagrams and *)
(* fragments, whatever the network does to them (Datagrams).               *)
(***************************************************************************)
EXTENDS MCServices, Sequences, FiniteSetTheorems, TLAPS

Peers == 1..MaxPeers
Ids == 1..UdpMaxFlows
Datagram == [session : Sessions, flow : Ids, from : Apps]
Backend == [peer : Peers, flow : Ids, open : BOOLEAN, reading : BOOLEAN, asked : SUBSET Apps]
Numbers == DOMAIN sockets

ClientTypes ==
  /\ client \in [Sessions -> {"never", "running", "stopped"}]
  /\ flows \in [Sessions -> [Apps -> 0..UdpMaxFlows]] /\ nextFlow \in [Sessions -> 0..UdpMaxFlows]
  /\ up \subseteq Datagram /\ down \subseteq Datagram
  /\ live \subseteq Sessions /\ stopped \in BOOLEAN

PeerTypes ==
  /\ peers \in [Sessions -> 0..MaxPeers]
  /\ \A p \in Peers : made[p] = {} \/ \E s \in Sessions : made[p] = {s}
  /\ made = [p \in Peers |-> made[p]]
  /\ \E m \in 0..MaxPeers : \A p \in Peers : made[p] # {} <=> p <= m

SocketTypes ==
  /\ entries \in [Peers -> [Ids -> 0..MaxSockets]] /\ flowCount \in Nat
  /\ \E n \in 0..MaxSockets : Numbers = 1..n
  /\ \A k \in Numbers : sockets[k] \in Backend
  /\ late \in BOOLEAN

(* What the server's reader holds between two of its steps.                *)
ReaderTypes ==
  /\ reader.at \in {"idle", "looked", "received", "writing"}
  /\ reader.at # "idle" => reader.data \in Datagram
  /\ reader.at \in {"received", "writing"} =>
       reader.peer \in Peers /\ made[reader.peer] = {reader.data.session}
  /\ reader.at = "writing" =>
       /\ reader.socket \in Numbers /\ sockets[reader.socket].peer = reader.peer
       /\ sockets[reader.socket].flow = reader.data.flow

(* A peer object is of one Session, and the Session that lives has one.    *)
PeersKept ==
  /\ \A s \in Sessions : peers[s] # 0 => made[peers[s]] = {s}
  /\ \A s \in live : \A p \in Peers : s \in made[p] => peers[s] = p

(* An entry is a socket that was made for it; sockets are of peers made.   *)
EntriesKept ==
  /\ \A p \in Peers : \A id \in Ids :
       entries[p][id] # 0 =>
         /\ entries[p][id] \in Numbers
         /\ sockets[entries[p][id]].peer = p /\ sockets[entries[p][id]].flow = id
  /\ \A k \in Numbers : made[sockets[k].peer] # {}

Entries == {e \in Peers \X Ids : entries[e[1]][e[2]] # 0}
CountKept == flowCount = Cardinality(Entries) /\ flowCount <= UdpFlowsMax

StrayKept ==
  ~late => \A k \in Numbers : sockets[k].open =>
             /\ entries[sockets[k].peer][sockets[k].flow] = k
             /\ \E s \in Sessions : peers[s] = sockets[k].peer

(* Who uses a flow of a Session: the application that has it now, and      *)
(* those who asked with a datagram that is still on its way or whose       *)
(* answer may still come.                                                  *)
Uses(s, id, a) ==
  \/ flows[s][a] = id
  \/ \E d \in up \cup down : d.session = s /\ d.flow = id /\ d.from = a
  \/ reader.at # "idle" /\ reader.data = [session |-> s, flow |-> id, from |-> a]
  \/ \E k \in Numbers : made[sockets[k].peer] = {s} /\ sockets[k].flow = id /\ a \in sockets[k].asked

UsersKept ==
  /\ \A s \in Sessions : \A id \in Ids : \A a \in Apps : Uses(s, id, a) => id <= nextFlow[s]
  /\ \A s \in Sessions : \A id \in Ids : \A a \in Apps : \A b \in Apps :
       Uses(s, id, a) /\ Uses(s, id, b) => a = b
  /\ \A r \in answered : r[1] = r[2]

FlowTypes == ClientTypes /\ PeerTypes /\ SocketTypes /\ ReaderTypes
FlowInv == FlowTypes /\ PeersKept /\ EntriesKept /\ CountKept /\ StrayKept /\ UsersKept

-----------------------------------------------------------------------------

LEMMA FlowConstants ==
  /\ UdpFlowsMax \in Nat /\ UdpMaxFlows \in Nat /\ MaxPeers \in Nat /\ MaxSockets \in Nat
  /\ Udp!Peers = Peers /\ Udp!Ids = Ids /\ Udp!Numbers = Numbers
BY FlowsAssumption DEF Udp!Peers, Udp!Ids, Udp!Numbers, Peers, Ids, Numbers

LEMMA SameCount == \A S : Udp!Cardinality(S) = Cardinality(S)
BY DEF Cardinality, Udp!Cardinality

LEMMA TableFinite ==
  ASSUME NEW S, S \subseteq Peers \X Ids
  PROVE  IsFiniteSet(S) /\ Cardinality(S) \in Nat
<1>1. IsFiniteSet(Peers) /\ IsFiniteSet(Ids)
  BY FlowConstants, FS_Interval DEF Peers, Ids
<1>2. IsFiniteSet(Peers \X Ids)
  BY <1>1, FS_Product
<1>. QED BY <1>2, FS_Subset, FS_CardinalityType

LEMMA FlowInit == Udp!Init => FlowInv
<1> SUFFICES ASSUME Udp!Init PROVE FlowInv
  OBVIOUS
<1>0. /\ Peers = Udp!Peers /\ Ids = Udp!Ids /\ UdpFlowsMax \in Nat /\ UdpMaxFlows \in Nat
      /\ MaxPeers \in Nat /\ MaxSockets \in Nat
  BY FlowConstants
<1>1. ClientTypes
  <2>1. /\ client = [s \in Sessions |-> "never"] /\ up = {} /\ down = {} /\ live = Sessions
        /\ stopped = FALSE /\ flows = [s \in Sessions |-> [a \in Apps |-> 0]]
        /\ nextFlow = [s \in Sessions |-> 0]
    BY DEF Udp!Init
  <2>2. 0 \in 0..UdpMaxFlows
    BY <1>0
  <2>. QED BY <2>1, <2>2, Zenon DEF ClientTypes
<1>2. made = [p \in Peers |-> {}] /\ reader.at = "idle" /\ sockets = <<>> /\ late = FALSE
  BY <1>0 DEF Udp!Init, Udp!Idle
<1>3. PeerTypes
  <2>1. \A p \in Peers : made[p] # {} <=> p <= 0
    BY <1>0, <1>2 DEF Peers
  <2>2. peers \in [Sessions -> 0..MaxPeers]
    BY <1>0 DEF Udp!Init
  <2>. QED BY <1>0, <1>2, <2>1, <2>2 DEF PeerTypes
<1>4. Numbers = {} /\ Numbers = 1..0
  BY <1>2 DEF Numbers
<1>5. SocketTypes
  <2>1. entries \in [Peers -> [Ids -> 0..MaxSockets]] /\ flowCount = 0
    BY <1>0 DEF Udp!Init
  <2>2. 0 \in 0..MaxSockets /\ flowCount \in Nat
    BY <1>0, <2>1
  <2>3. late \in BOOLEAN
    BY <1>2, Zenon
  <2>. QED BY <1>4, <2>1, <2>2, <2>3, Zenon DEF SocketTypes
<1>6. ReaderTypes
  BY <1>2 DEF ReaderTypes
<1>7. PeersKept
  BY <1>2 DEF Udp!Init, PeersKept
<1>8. EntriesKept
  BY <1>0, <1>4 DEF Udp!Init, EntriesKept
<1>9. CountKept
  <2>1. Entries = {}
    BY <1>0 DEF Udp!Init, Entries
  <2>. QED BY <1>0, <2>1, FS_EmptySet DEF Udp!Init, CountKept
<1>10. StrayKept
  BY <1>4 DEF StrayKept
<1>11. UsersKept
  <2>1. \A s \in Sessions : \A id \in Ids : \A a \in Apps : ~Uses(s, id, a)
    BY <1>0, <1>2, <1>4 DEF Udp!Init, Uses, Ids
  <2>. QED BY <2>1 DEF Udp!Init, UsersKept
<1>. QED BY <1>1, <1>3, <1>5, <1>6, <1>7, <1>8, <1>9, <1>10, <1>11 DEF FlowInv, FlowTypes

-----------------------------------------------------------------------------
(* What a step leaves alone stays right.                                   *)

TablesInv == PeerTypes /\ SocketTypes /\ PeersKept /\ EntriesKept /\ CountKept /\ StrayKept
ServerInv == TablesInv /\ ReaderTypes

LEMMA TablesIdle ==
  ASSUME TablesInv, UNCHANGED <<peers, entries, flowCount, sockets, made, late>>, live' \subseteq live
  PROVE  TablesInv'
<1>1. Numbers' = Numbers /\ Entries' = Entries
  BY DEF Numbers, Entries
<1>2. PeerTypes'
  BY DEF TablesInv, PeerTypes
<1>3. SocketTypes'
  BY <1>1 DEF TablesInv, SocketTypes
<1>4. PeersKept'
  BY DEF TablesInv, PeersKept
<1>5. EntriesKept'
  BY <1>1 DEF TablesInv, EntriesKept
<1>6. CountKept'
  BY <1>1 DEF TablesInv, CountKept
<1>7. StrayKept'
  BY <1>1 DEF TablesInv, StrayKept
<1>. QED BY <1>2, <1>3, <1>4, <1>5, <1>6, <1>7 DEF TablesInv

LEMMA ServerIdle ==
  ASSUME ServerInv, UNCHANGED <<peers, entries, flowCount, sockets, made, late, reader>>,
         live' \subseteq live
  PROVE  ServerInv'
<1>1. TablesInv'
  BY TablesIdle DEF ServerInv
<1>2. ReaderTypes'
  BY DEF ServerInv, ReaderTypes, Numbers
<1>. QED BY <1>1, <1>2 DEF ServerInv

LEMMA UsersStay ==
  ASSUME UsersKept, UNCHANGED nextFlow, \A r \in answered' : r[1] = r[2],
         \A s \in Sessions : \A id \in Ids : \A a \in Apps : Uses(s, id, a)' => Uses(s, id, a)
  PROVE  UsersKept'
BY DEF UsersKept

-----------------------------------------------------------------------------
(* The client.                                                             *)

LEMMA ClientTurns ==
  ASSUME FlowInv, NEW s \in Sessions, Udp!StartClient(s) \/ Udp!StopClient(s)
  PROVE  FlowInv'
<1>1. /\ UNCHANGED <<flows, nextFlow, answered, up, down, live, stopped>>
      /\ UNCHANGED <<peers, entries, flowCount, sockets, made, late, reader>>
      /\ client' \in [Sessions -> {"never", "running", "stopped"}]
  BY DEF FlowInv, FlowTypes, ClientTypes, Udp!StartClient, Udp!StopClient, Udp!serverVars
<1>2. ClientTypes'
  BY <1>1 DEF FlowInv, FlowTypes, ClientTypes
<1>3. ServerInv'
  BY <1>1, ServerIdle DEF FlowInv, FlowTypes, ServerInv, TablesInv
<1>4. UsersKept'
  BY <1>1, UsersStay, SMTT(30) DEF FlowInv, UsersKept, Uses, Numbers
<1>. QED BY <1>2, <1>3, <1>4 DEF FlowInv, FlowTypes, ServerInv, TablesInv

LEMMA ReadLocalKeeps ==
  ASSUME FlowInv, NEW s \in Sessions, NEW a \in Apps, Udp!ReadLocal(s, a)
  PROVE  FlowInv'
<1> DEFINE known == flows[s][a] # 0
           id == IF known THEN flows[s][a] ELSE nextFlow[s] + 1
           d == [session |-> s, flow |-> id, from |-> a]
<1>0. /\ ClientTypes /\ UsersKept /\ flows \in [Sessions -> [Apps -> 0..UdpMaxFlows]]
      /\ nextFlow \in [Sessions -> 0..UdpMaxFlows]
  BY DEF FlowInv, FlowTypes, ClientTypes
<1>1. /\ id \in Ids /\ up' = up \cup {d}
      /\ flows' = [flows EXCEPT ![s] = [flows[s] EXCEPT ![a] = id]]
      /\ nextFlow' = IF known THEN nextFlow ELSE [nextFlow EXCEPT ![s] = nextFlow[s] + 1]
      /\ UNCHANGED <<client, answered, down, live, stopped>>
      /\ UNCHANGED <<peers, entries, flowCount, sockets, made, late, reader>>
  BY <1>0, FlowConstants DEF Udp!ReadLocal, Udp!NewFlow, Udp!serverVars
<1>2. /\ nextFlow[s] \in Nat /\ nextFlow' \in [Sessions -> 0..UdpMaxFlows]
      /\ \A x \in Sessions : nextFlow'[x] = IF x = s /\ ~known THEN id ELSE nextFlow[x]
      /\ \A x \in Sessions : nextFlow[x] <= nextFlow'[x]
  BY <1>0, <1>1, FlowConstants DEF Ids
<1>3. d \in Datagram /\ d.session = s /\ d.flow = id /\ d.from = a
  BY <1>1 DEF Datagram
<1>4. /\ flows' \in [Sessions -> [Apps -> 0..UdpMaxFlows]]
      /\ \A x \in Sessions : \A b \in Apps : flows'[x][b] = IF x = s /\ b = a THEN id ELSE flows[x][b]
  <2>1. id \in 0..UdpMaxFlows
    BY <1>1, FlowConstants DEF Ids
  <2> HIDE DEF id
  <2>. QED BY <1>0, <1>1, <2>1
<1>5. known => Uses(s, id, a)
  BY DEF Uses
<1>6. ~known => id = nextFlow[s] + 1
  OBVIOUS
<1> HIDE DEF id, d, known
<1>7. ClientTypes'
  BY <1>0, <1>1, <1>2, <1>3, <1>4 DEF ClientTypes
<1>8. ServerInv'
  BY <1>1, ServerIdle DEF FlowInv, FlowTypes, ServerInv, TablesInv
<1>9. ASSUME NEW x \in Sessions, NEW i \in Ids, NEW b \in Apps, Uses(x, i, b)'
      PROVE  Uses(x, i, b) \/ (x = s /\ i = id /\ b = a)
  <2>1. CASE flows'[x][b] = i
    BY <1>4, <2>1 DEF Uses
  <2>2. CASE \E e \in up' \cup down' : e.session = x /\ e.flow = i /\ e.from = b
    BY <1>1, <1>3, <2>2 DEF Uses
  <2>3. CASE reader'.at # "idle" /\ reader'.data = [session |-> x, flow |-> i, from |-> b]
    BY <1>1, <2>3 DEF Uses
  <2>4. CASE \E k \in Numbers' : /\ made'[sockets'[k].peer] = {x} /\ sockets'[k].flow = i
                                 /\ b \in sockets'[k].asked
    BY <1>1, <2>4 DEF Uses, Numbers
  <2>. QED BY <1>9, <2>1, <2>2, <2>3, <2>4 DEF Uses
<1>10. ASSUME NEW x \in Sessions, NEW i \in Ids, NEW b \in Apps, Uses(x, i, b)'
       PROVE  i <= nextFlow'[x]
  <2>1. CASE Uses(x, i, b)
    BY <1>0, <1>2, <2>1 DEF UsersKept, Ids
  <2>2. CASE ~Uses(x, i, b)
    <3>1. x = s /\ i = id /\ b = a /\ ~known
      BY <1>5, <1>9, <1>10, <2>2
    <3>. QED BY <1>1, <1>2, <3>1 DEF Ids
  <2>. QED BY <2>1, <2>2
<1>11. ASSUME NEW x \in Sessions, NEW i \in Ids, NEW b \in Apps, NEW c \in Apps,
              Uses(x, i, b)', Uses(x, i, c)'
       PROVE  b = c
  <2>1. CASE known \/ ~(x = s /\ i = id)
    <3>1. Uses(x, i, b) /\ Uses(x, i, c)
      BY <1>5, <1>9, <1>11, <2>1
    <3>. QED BY <1>0, <3>1 DEF UsersKept
  <2>2. CASE ~known /\ x = s /\ i = id
    <3>1. \A e \in Apps : ~Uses(x, i, e)
      BY <1>0, <1>1, <1>2, <1>6, <2>2 DEF UsersKept, Ids
    <3>. QED BY <1>9, <1>11, <3>1
  <2>. QED BY <2>1, <2>2
<1>12. UsersKept'
  BY <1>0, <1>1, <1>10, <1>11 DEF UsersKept
<1>. QED BY <1>7, <1>8, <1>12 DEF FlowInv, FlowTypes, ServerInv, TablesInv

LEMMA ReadCarrierKeeps ==
  ASSUME FlowInv, NEW d \in down, Udp!ReadCarrier(d)
  PROVE  FlowInv'
<1>0. /\ ClientTypes /\ UsersKept /\ d \in Datagram
      /\ down' = down \ {d}
      /\ answered' = answered \cup {<<a, d.from>> : a \in {a \in Apps : flows[d.session][a] = d.flow}}
      /\ UNCHANGED <<client, flows, nextFlow, up, live, stopped>>
      /\ UNCHANGED <<peers, entries, flowCount, sockets, made, late, reader>>
  BY DEF FlowInv, FlowTypes, ClientTypes, Udp!ReadCarrier, Udp!serverVars
<1>1. d.session \in Sessions /\ d.flow \in Ids /\ d.from \in Apps
  BY <1>0 DEF Datagram
<1>2. ASSUME NEW a \in Apps, flows[d.session][a] = d.flow PROVE a = d.from
  <2>1. Uses(d.session, d.flow, a) /\ Uses(d.session, d.flow, d.from)
    BY <1>2 DEF Uses
  <2>. QED BY <1>0, <1>1, <2>1 DEF UsersKept
<1>3. \A r \in answered' : r[1] = r[2]
  BY <1>0, <1>2 DEF UsersKept
<1>4. UsersKept'
  BY <1>0, <1>3, UsersStay DEF Uses, Numbers
<1>5. ServerInv'
  BY <1>0, ServerIdle DEF FlowInv, FlowTypes, ServerInv, TablesInv
<1>6. ClientTypes'
  BY <1>0 DEF ClientTypes
<1>. QED BY <1>4, <1>5, <1>6 DEF FlowInv, FlowTypes, ServerInv, TablesInv

LEMMA ExpireLocalKeeps ==
  ASSUME FlowInv, NEW s \in Sessions, NEW a \in Apps, Udp!ExpireLocal(s, a)
  PROVE  FlowInv'
<1>0. /\ ClientTypes /\ UsersKept /\ flows \in [Sessions -> [Apps -> 0..UdpMaxFlows]]
      /\ flows' = [flows EXCEPT ![s] = [flows[s] EXCEPT ![a] = 0]]
      /\ UNCHANGED <<client, nextFlow, answered, up, down, live, stopped>>
      /\ UNCHANGED <<peers, entries, flowCount, sockets, made, late, reader>>
  BY DEF FlowInv, FlowTypes, ClientTypes, Udp!ExpireLocal, Udp!serverVars
<1>1. /\ flows' \in [Sessions -> [Apps -> 0..UdpMaxFlows]]
      /\ \A x \in Sessions : \A b \in Apps : flows'[x][b] \in {0, flows[x][b]}
  <2>1. 0 \in 0..UdpMaxFlows
    BY FlowConstants
  <2>. QED BY <1>0, <2>1
<1>2. \A x \in Sessions : \A i \in Ids : \A b \in Apps : Uses(x, i, b)' => Uses(x, i, b)
  <2>1. \A i \in Ids : i # 0
    BY FlowConstants DEF Ids
  <2>2. Numbers' = Numbers
    BY <1>0 DEF Numbers
  <2>3. \A x \in Sessions : \A i \in Ids : \A b \in Apps : flows'[x][b] = i => flows[x][b] = i
    BY <1>1, <2>1
  <2>4. UNCHANGED <<up, down, sockets, made, reader>>
    BY <1>0
  <2> SUFFICES ASSUME NEW x \in Sessions, NEW i \in Ids, NEW b \in Apps, Uses(x, i, b)'
               PROVE  Uses(x, i, b)
    OBVIOUS
  <2>5. CASE flows'[x][b] = i
    BY <2>3, <2>5 DEF Uses
  <2>6. CASE flows'[x][b] # i
    BY <2>2, <2>4, <2>6 DEF Uses
  <2>. QED BY <2>5, <2>6
<1>3. UsersKept'
  BY <1>0, <1>2, UsersStay DEF UsersKept
<1>4. ServerInv'
  BY <1>0, ServerIdle DEF FlowInv, FlowTypes, ServerInv, TablesInv
<1>5. ClientTypes'
  BY <1>0, <1>1 DEF ClientTypes
<1>. QED BY <1>3, <1>4, <1>5 DEF FlowInv, FlowTypes, ServerInv, TablesInv

LEMMA EndKeeps ==
  ASSUME FlowInv, NEW s \in Sessions, Udp!SessionEnds(s)
  PROVE  FlowInv'
<1>1. /\ UNCHANGED <<client, flows, nextFlow, answered, up, down, stopped>>
      /\ UNCHANGED <<peers, entries, flowCount, sockets, made, late, reader>>
      /\ live' = live \ {s}
  BY DEF Udp!SessionEnds, Udp!serverVars, Udp!clientVars
<1>2. ClientTypes'
  BY <1>1 DEF FlowInv, FlowTypes, ClientTypes
<1>3. ServerInv'
  BY <1>1, ServerIdle DEF FlowInv, FlowTypes, ServerInv, TablesInv
<1>4. UsersKept'
  BY <1>1, UsersStay DEF FlowInv, UsersKept, Uses, Numbers
<1>. QED BY <1>2, <1>3, <1>4 DEF FlowInv, FlowTypes, ServerInv, TablesInv

-----------------------------------------------------------------------------
(* The server's reader.                                                    *)

LEMMA LookKeeps ==
  ASSUME FlowInv, NEW d \in up, Udp!Look(d)
  PROVE  FlowInv'
<1>0. /\ ClientTypes /\ UsersKept /\ ServerInv /\ d \in Datagram
      /\ up' = up \ {d}
      /\ reader' \in {[at |-> "looked", data |-> d], [at |-> "idle"]}
      /\ UNCHANGED <<client, flows, nextFlow, answered, down, live, stopped>>
      /\ UNCHANGED <<peers, entries, flowCount, sockets, made, late>>
  BY DEF FlowInv, FlowTypes, ClientTypes, ServerInv, TablesInv, Udp!Look, Udp!clientVars, Udp!serverVars, Udp!Idle
<1>1. \/ reader'.at = "looked" /\ reader'.data = d
      \/ reader'.at = "idle"
  BY <1>0
<1>2. ClientTypes'
  BY <1>0 DEF ClientTypes
<1>3. Numbers' = Numbers
  BY <1>0 DEF Numbers
<1>4. TablesInv'
  BY <1>0, TablesIdle DEF ServerInv
<1>5. ReaderTypes'
  BY <1>0, <1>1 DEF ReaderTypes
<1>6. ASSUME NEW s \in Sessions, NEW id \in Ids, NEW a \in Apps, Uses(s, id, a)'
      PROVE  Uses(s, id, a)
  <2>1. CASE reader'.at # "idle" /\ reader'.data = [session |-> s, flow |-> id, from |-> a]
    <3>1. d = [session |-> s, flow |-> id, from |-> a]
      BY <1>1, <2>1
    <3>2. d.session = s /\ d.flow = id /\ d.from = a
      BY <3>1
    <3>. QED BY <3>2 DEF Uses
  <2>2. CASE ~(reader'.at # "idle" /\ reader'.data = [session |-> s, flow |-> id, from |-> a])
    BY <1>0, <1>3, <1>6, <2>2 DEF Uses
  <2>. QED BY <2>1, <2>2
<1>7. UsersKept'
  BY <1>0, <1>6, UsersStay DEF UsersKept
<1>. QED BY <1>2, <1>4, <1>5, <1>7 DEF FlowInv, FlowTypes, TablesInv

LEMMA ReaderForgets ==
  ASSUME FlowInv, reader'.at = "idle",
         UNCHANGED <<client, flows, nextFlow, answered, up, down, live, stopped>>,
         UNCHANGED <<peers, entries, flowCount, sockets, made, late>>
  PROVE  FlowInv'
<1>1. ClientTypes'
  BY DEF FlowInv, FlowTypes, ClientTypes
<1>2. Numbers' = Numbers
  BY DEF Numbers
<1>3. TablesInv'
  BY TablesIdle DEF FlowInv, FlowTypes, TablesInv
<1>4. ReaderTypes'
  BY DEF ReaderTypes
<1>5. \A s \in Sessions : \A id \in Ids : \A a \in Apps : Uses(s, id, a)' => Uses(s, id, a)
  BY <1>2 DEF Uses
<1>6. UsersKept'
  BY <1>5, UsersStay DEF FlowInv, UsersKept
<1>. QED BY <1>1, <1>3, <1>4, <1>6 DEF FlowInv, FlowTypes, TablesInv

(* The next peer object is the one after those that were made.             *)
LEMMA NextPeer ==
  ASSUME PeerTypes
  PROVE  LET p == Udp!Cardinality(Udp!Made) + 1
         IN p \in Peers => /\ made[p] = {}
                           /\ \A q \in Peers : q <= p <=> (made[q] # {} \/ q = p)
<1>1. PICK m \in 0..MaxPeers : \A p \in Peers : made[p] # {} <=> p <= m
  BY DEF PeerTypes
<1>2. Udp!Made = 1..m
  BY <1>1, FlowConstants DEF Udp!Made, Peers
<1>3. Cardinality(1..m) = m
  BY <1>1, FlowConstants, FS_Interval
<1>4. Udp!Cardinality(Udp!Made) + 1 = m + 1
  BY <1>2, <1>3, SameCount
<1>. QED BY <1>1, <1>4, FlowConstants DEF Peers

LEMMA GetPeerKeeps ==
  ASSUME FlowInv, Udp!GetPeer
  PROVE  FlowInv'
<1> DEFINE d == reader.data
           s == d.session
           p == IF peers[s] # 0 THEN peers[s] ELSE Udp!Cardinality(Udp!Made) + 1
<1>0. /\ ClientTypes /\ UsersKept /\ PeerTypes /\ SocketTypes /\ ReaderTypes /\ PeersKept
      /\ EntriesKept /\ CountKept /\ StrayKept
  BY DEF FlowInv, FlowTypes
<1>1. /\ d \in Datagram /\ s \in Sessions
      /\ UNCHANGED <<client, flows, nextFlow, answered, up, down, live, stopped>>
      /\ UNCHANGED <<entries, flowCount, sockets, late>>
  BY <1>0 DEF ReaderTypes, Datagram, Udp!GetPeer, Udp!clientVars
<1>2. CASE reader' = [at |-> "idle"] /\ UNCHANGED <<peers, made>>
  BY <1>1, <1>2, ReaderForgets
<1>3. CASE /\ p \in Peers /\ peers' = [peers EXCEPT ![s] = p] /\ made' = [made EXCEPT ![p] = {s}]
           /\ reader' = [at |-> "received", data |-> d, peer |-> p]
  <2>1. /\ made[p] \in {{}, {s}} /\ (\A q \in Peers : made'[q] = IF q = p THEN {s} ELSE made[q])
        /\ peers' \in [Sessions -> 0..MaxPeers]
        /\ \A x \in Sessions : peers'[x] = IF x = s THEN p ELSE peers[x]
        /\ peers[s] \in {0, p} /\ p # 0
    <3>1. p \in 0..MaxPeers /\ p # 0
      BY <1>3, FlowConstants DEF Peers
    <3>2. made[p] \in {{}, {s}} /\ peers[s] \in {0, p}
      BY <1>0, <1>1, <1>3, NextPeer DEF PeersKept
    <3> HIDE DEF p, s, d
    <3>3. \A q \in Peers : made'[q] = IF q = p THEN {s} ELSE made[q]
      BY <1>0, <1>3 DEF PeerTypes
    <3>. QED BY <1>0, <1>1, <1>3, <3>1, <3>2, <3>3 DEF PeerTypes
  <2>2. \E m \in 0..MaxPeers : \A q \in Peers : made'[q] # {} <=> q <= m
    <3>1. CASE made[p] = {s}
      <4>1. \A q \in Peers : made'[q] # {} <=> made[q] # {}
        BY <2>1, <3>1
      <4>. QED BY <1>0, <4>1 DEF PeerTypes
    <3>2. CASE made[p] # {s}
      <4>1. peers[s] = 0
        BY <1>0, <1>1, <3>2 DEF PeersKept
      <4>2. p = Udp!Cardinality(Udp!Made) + 1
        BY <4>1
      <4>3. \A q \in Peers : q <= p <=> (made[q] # {} \/ q = p)
        BY <1>0, <1>3, <4>2, NextPeer
      <4>4. p \in 0..MaxPeers
        BY <1>3, FlowConstants DEF Peers
      <4> HIDE DEF p, s, d
      <4>5. \A q \in Peers : made'[q] # {} <=> q <= p
        BY <2>1, <4>3
      <4>. QED BY <4>4, <4>5
    <3>. QED BY <3>1, <3>2
  <2> HIDE DEF p, s
  <2>3. PeerTypes'
    <3>1. \A q \in Peers : made'[q] = {} \/ \E x \in Sessions : made'[q] = {x}
      BY <1>0, <1>1, <2>1 DEF PeerTypes
    <3>2. made' = [q \in Peers |-> made'[q]]
      BY <1>0, <1>3 DEF PeerTypes
    <3>. QED BY <2>1, <2>2, <3>1, <3>2 DEF PeerTypes
  <2>4. Numbers' = Numbers /\ Entries' = Entries
    BY <1>1 DEF Numbers, Entries
  <2>5. SocketTypes' /\ CountKept' /\ ClientTypes'
    BY <1>0, <1>1, <2>4 DEF SocketTypes, CountKept, ClientTypes
  <2>6. ReaderTypes'
    BY <1>1, <1>3, <2>1 DEF ReaderTypes, s
  <2>7. PeersKept'
    <3>1. \A x \in Sessions : peers'[x] # 0 => made'[peers'[x]] = {x}
      <4> SUFFICES ASSUME NEW x \in Sessions, peers'[x] # 0 PROVE made'[peers'[x]] = {x}
        OBVIOUS
      <4>1. CASE x = s
        BY <1>3, <2>1, <4>1
      <4>2. CASE x # s
        <5>1. peers'[x] = peers[x] /\ peers[x] \in Peers
          BY <1>0, <2>1, <4>2, FlowConstants DEF PeerTypes, Peers
        <5>2. made[peers[x]] = {x}
          BY <1>0, <5>1 DEF PeersKept
        <5>3. peers[x] # p
          BY <2>1, <4>2, <5>2
        <5>. QED BY <2>1, <5>1, <5>2, <5>3
      <4>. QED BY <4>1, <4>2
    <3>2. \A x \in live : \A q \in Peers : x \in made'[q] => peers'[x] = q
      <4> SUFFICES ASSUME NEW x \in live, NEW q \in Peers, x \in made'[q] PROVE peers'[x] = q
        OBVIOUS
      <4>1. x \in Sessions
        BY <1>0 DEF ClientTypes
      <4>2. CASE q = p
        BY <1>1, <2>1, <4>1, <4>2
      <4>3. CASE q # p
        <5>1. x \in made[q] /\ peers[x] = q
          BY <1>0, <2>1, <4>3 DEF PeersKept
        <5>2. q # 0
          BY FlowConstants DEF Peers
        <5>. QED BY <2>1, <4>1, <4>3, <5>1, <5>2
      <4>. QED BY <4>2, <4>3
    <3>. QED BY <1>1, <3>1, <3>2 DEF PeersKept
  <2>8. EntriesKept'
    <3>1. \A k \in Numbers : sockets[k].peer \in Peers
      BY <1>0 DEF SocketTypes, Backend
    <3>2. \A k \in Numbers : made'[sockets[k].peer] # {}
      BY <1>0, <2>1, <3>1 DEF EntriesKept
    <3>. QED BY <1>0, <1>1, <2>4, <3>2 DEF EntriesKept
  <2>9. StrayKept'
    <3> SUFFICES ASSUME ~late, NEW k \in Numbers, sockets[k].open
                 PROVE  /\ entries[sockets[k].peer][sockets[k].flow] = k
                        /\ \E x \in Sessions : peers'[x] = sockets[k].peer
      BY <1>1, <2>4 DEF StrayKept
    <3>1. PICK x \in Sessions : peers[x] = sockets[k].peer
      BY <1>0 DEF StrayKept
    <3>2. sockets[k].peer # 0
      BY <1>0, FlowConstants DEF SocketTypes, Backend, Peers
    <3>. QED BY <1>0, <2>1, <3>1, <3>2 DEF StrayKept
  <2>10. \A x \in Sessions : \A i \in Ids : \A b \in Apps : Uses(x, i, b)' => Uses(x, i, b)
    <3> SUFFICES ASSUME NEW x \in Sessions, NEW i \in Ids, NEW b \in Apps, Uses(x, i, b)'
                 PROVE  Uses(x, i, b)
      OBVIOUS
    <3>1. CASE reader'.at # "idle" /\ reader'.data = [session |-> x, flow |-> i, from |-> b]
      <4>1. reader.at # "idle" /\ reader'.data = reader.data
        BY <1>3 DEF Udp!GetPeer
      <4>. QED BY <3>1, <4>1 DEF Uses
    <3>2. CASE \E k \in Numbers' : /\ made'[sockets'[k].peer] = {x} /\ sockets'[k].flow = i
                                   /\ b \in sockets'[k].asked
      <4>1. PICK k \in Numbers : made'[sockets[k].peer] = {x} /\ sockets[k].flow = i
                                 /\ b \in sockets[k].asked
        BY <1>1, <2>4, <3>2
      <4>2. sockets[k].peer \in Peers /\ made[sockets[k].peer] # {}
        BY <1>0 DEF SocketTypes, Backend, EntriesKept
      <4>3. made[sockets[k].peer] = made'[sockets[k].peer]
        BY <2>1, <4>2
      <4>. QED BY <4>1, <4>3 DEF Uses
    <3>3. CASE flows'[x][b] = i \/ \E e \in up' \cup down' : e.session = x /\ e.flow = i /\ e.from = b
      BY <1>1, <3>3 DEF Uses
    <3>. QED BY <3>1, <3>2, <3>3 DEF Uses
  <2>11. UsersKept'
    BY <1>0, <1>1, <2>10, UsersStay DEF UsersKept
  <2>. QED BY <2>3, <2>5, <2>6, <2>7, <2>8, <2>9, <2>11 DEF FlowInv, FlowTypes
<1>. QED BY <1>2, <1>3, FlowConstants DEF Udp!GetPeer, Udp!Idle

LEMMA NextSocket ==
  ASSUME SocketTypes
  PROVE  /\ Udp!Cardinality(Udp!Numbers) + 1 \in Nat \ {0}
         /\ Numbers = 1..Udp!Cardinality(Udp!Numbers)
<1>1. PICK n \in 0..MaxSockets : Numbers = 1..n
  BY DEF SocketTypes
<1>2. Cardinality(1..n) = n
  BY <1>1, FlowConstants, FS_Interval
<1>3. Udp!Cardinality(Udp!Numbers) = n
  BY <1>1, <1>2, SameCount, FlowConstants
<1>. QED BY <1>1, <1>3, FlowConstants

LEMMA GetFlowKeeps ==
  ASSUME FlowInv, Udp!GetFlow
  PROVE  FlowInv'
<1> DEFINE d == reader.data
           p == reader.peer
           id == d.flow
           k == Udp!Cardinality(Udp!Numbers) + 1
           b == [peer |-> p, flow |-> id, open |-> TRUE, reading |-> TRUE, asked |-> {}]
<1>0. /\ ClientTypes /\ UsersKept /\ TablesInv /\ PeerTypes /\ SocketTypes /\ ReaderTypes /\ PeersKept
      /\ EntriesKept /\ CountKept /\ StrayKept
  BY DEF FlowInv, FlowTypes, TablesInv
<1>1. /\ d \in Datagram /\ id \in Ids /\ p \in Peers /\ d.session \in Sessions
      /\ made[p] = {d.session} /\ reader.at = "received"
      /\ UNCHANGED <<client, flows, nextFlow, answered, up, down, live, stopped, peers, made>>
  BY <1>0 DEF ReaderTypes, Datagram, Udp!GetFlow, Udp!clientVars
<1>2. CASE reader' = [at |-> "idle"] /\ UNCHANGED <<entries, flowCount, sockets, late>>
  BY <1>1, <1>2, ReaderForgets
<1>3. ASSUME NEW n \in Numbers, sockets[n].peer = p, sockets[n].flow = id,
             reader' = [at |-> "writing", data |-> d, peer |-> p, socket |-> n],
             UNCHANGED <<entries, flowCount, sockets, late>>
      PROVE  FlowInv'
  <2>1. TablesInv' /\ Numbers' = Numbers
    BY <1>0, <1>1, <1>3, TablesIdle DEF Numbers
  <2>2. ReaderTypes'
    BY <1>1, <1>3, <2>1 DEF ReaderTypes
  <2>3. ClientTypes'
    BY <1>0, <1>1 DEF ClientTypes
  <2>4. reader'.at # "idle" /\ reader.at # "idle" /\ reader'.data = reader.data
    BY <1>1, <1>3
  <2>5. \A s \in Sessions : \A i \in Ids : \A a \in Apps : Uses(s, i, a)' => Uses(s, i, a)
    BY <1>1, <1>3, <2>1, <2>4 DEF Uses
  <2>6. UsersKept'
    BY <1>0, <1>1, <2>5, UsersStay DEF UsersKept
  <2>. QED BY <2>1, <2>2, <2>3, <2>6 DEF FlowInv, FlowTypes, TablesInv
<1>4. ASSUME entries[p][id] = 0, flowCount < UdpFlowsMax, k <= MaxSockets,
             reader' = [at |-> "writing", data |-> d, peer |-> p, socket |-> k],
             entries' = [entries EXCEPT ![p] = [entries[p] EXCEPT ![id] = k]],
             flowCount' = flowCount + 1,
             sockets' = [n \in 1..k |-> IF n < k THEN sockets[n] ELSE b],
             late' = (late \/ peers[d.session] # p)
      PROVE  FlowInv'
  <2>1. k \in Nat \ {0} /\ Numbers = 1..(k - 1) /\ k \notin Numbers /\ k \in 0..MaxSockets
    <3> DEFINE m == Udp!Cardinality(Udp!Numbers)
    <3>1. k = m + 1 /\ m + 1 \in Nat \ {0} /\ Numbers = 1..m
      BY <1>0, NextSocket
    <3>2. m \in Nat
      <4>1. PICK n \in 0..MaxSockets : Numbers = 1..n
        BY <1>0 DEF SocketTypes
      <4>2. Cardinality(1..n) = n /\ n \in Nat
        BY <4>1, FlowConstants, FS_Interval
      <4>. QED BY <4>1, <4>2, SameCount, FlowConstants
    <3>3. k <= MaxSockets
      BY <1>4
    <3> HIDE DEF m, k
    <3>. QED BY <3>1, <3>2, <3>3, FlowConstants
  <2>2. b \in Backend /\ b.peer = p /\ b.flow = id /\ b.asked = {}
    BY <1>1 DEF Backend
  <2> HIDE DEF k, b
  <2>3. /\ Numbers' = 1..k /\ Numbers' = Numbers \cup {k} /\ sockets'[k] = b
        /\ \A n \in Numbers : sockets'[n] = sockets[n]
    BY <1>4, <2>1 DEF Numbers
  <2>4. /\ entries' \in [Peers -> [Ids -> 0..MaxSockets]]
        /\ \A q \in Peers : \A i \in Ids :
             entries'[q][i] = IF q = p /\ i = id THEN k ELSE entries[q][i]
    BY <1>0, <1>1, <1>4, <2>1 DEF SocketTypes
  <2>5. SocketTypes'
    <3>1. \A n \in Numbers' : sockets'[n] \in Backend
      BY <1>0, <2>2, <2>3 DEF SocketTypes
    <3>2. flowCount' \in Nat
      BY <1>0, <1>4 DEF SocketTypes
    <3>3. late' \in BOOLEAN
      BY <1>4, Zenon
    <3>. QED BY <2>1, <2>3, <2>4, <3>1, <3>2, <3>3 DEF SocketTypes
  <2>6. PeerTypes' /\ PeersKept' /\ ClientTypes'
    BY <1>0, <1>1 DEF PeerTypes, PeersKept, ClientTypes
  <2>7. ReaderTypes'
    <3>1. /\ reader'.at = "writing" /\ reader'.data = d /\ reader'.peer = p /\ reader'.socket = k
      BY <1>4
    <3>2. sockets'[reader'.socket].peer = p /\ sockets'[reader'.socket].flow = id
      BY <2>2, <2>3, <3>1
    <3>. QED BY <1>1, <2>3, <3>1, <3>2 DEF ReaderTypes
  <2>8. EntriesKept'
    <3>1. \A q \in Peers : \A i \in Ids :
            entries'[q][i] # 0 => /\ entries'[q][i] \in Numbers'
                                  /\ sockets'[entries'[q][i]].peer = q
                                  /\ sockets'[entries'[q][i]].flow = i
      BY <1>0, <2>2, <2>3, <2>4 DEF EntriesKept
    <3>2. ASSUME NEW n \in Numbers' PROVE made'[sockets'[n].peer] # {}
      <4>1. CASE n \in Numbers
        <5>1. sockets'[n] = sockets[n] /\ made' = made
          BY <1>1, <2>3, <4>1
        <5>. QED BY <1>0, <4>1, <5>1, Zenon DEF EntriesKept
      <4>2. CASE n = k
        <5>1. made[p] # {} /\ made' = made /\ sockets'[n].peer = p
          BY <1>0, <1>1, <2>2, <2>3, <4>2
        <5>. QED BY <5>1
      <4>. QED BY <2>3, <3>2, <4>1, <4>2
    <3>. QED BY <3>1, <3>2, Zenon DEF EntriesKept
  <2>9. CountKept'
    <3>1. Entries' = Entries \cup {<<p, id>>} /\ <<p, id>> \notin Entries
      <4>1. \A q \in Peers : \A i \in Ids : <<q, i>> \in Entries' <=> (<<q, i>> \in Entries \/ <<q, i>> = <<p, id>>)
        BY <1>4, <2>1, <2>4 DEF Entries
      <4>2. Entries \subseteq Peers \X Ids /\ Entries' \subseteq Peers \X Ids
        BY DEF Entries
      <4>3. <<p, id>> \notin Entries
        BY <1>4 DEF Entries
      <4>. QED BY <1>1, <4>1, <4>2, <4>3
    <3>2. IsFiniteSet(Entries) /\ Cardinality(Entries) \in Nat
      BY TableFinite DEF Entries
    <3>3. Cardinality(Entries \cup {<<p, id>>}) = Cardinality(Entries) + 1
      BY <3>1, <3>2, FS_AddElement, Zenon
    <3>. QED BY <1>0, <1>4, <3>1, <3>2, <3>3, FlowConstants DEF CountKept
  <2>10. StrayKept'
    <3> SUFFICES ASSUME ~late', NEW n \in Numbers', sockets'[n].open
                 PROVE  /\ entries'[sockets'[n].peer][sockets'[n].flow] = n
                        /\ \E s \in Sessions : peers'[s] = sockets'[n].peer
      BY DEF StrayKept
    <3>1. ~late /\ peers[d.session] = p
      BY <1>4
    <3>2. CASE n = k
      BY <1>1, <2>2, <2>3, <2>4, <3>1, <3>2
    <3>3. CASE n # k
      <4>1. n \in Numbers /\ sockets'[n] = sockets[n]
        BY <2>3, <3>3
      <4>2. /\ entries[sockets[n].peer][sockets[n].flow] = n
            /\ \E s \in Sessions : peers[s] = sockets[n].peer
            /\ sockets[n].peer \in Peers /\ sockets[n].flow \in Ids
        BY <1>0, <3>1, <4>1 DEF StrayKept, SocketTypes, Backend
      <4>3. ~(sockets[n].peer = p /\ sockets[n].flow = id)
        BY <1>4, <2>1, <4>1, <4>2
      <4>. QED BY <1>1, <2>4, <4>1, <4>2, <4>3
    <3>. QED BY <3>2, <3>3
  <2>11. \A s \in Sessions : \A i \in Ids : \A a \in Apps : Uses(s, i, a)' => Uses(s, i, a)
    <3> SUFFICES ASSUME NEW s \in Sessions, NEW i \in Ids, NEW a \in Apps, Uses(s, i, a)'
                 PROVE  Uses(s, i, a)
      OBVIOUS
    <3>1. CASE reader'.at # "idle" /\ reader'.data = [session |-> s, flow |-> i, from |-> a]
      <4>1. reader.at # "idle" /\ reader'.data = reader.data
        BY <1>1, <1>4
      <4>. QED BY <3>1, <4>1 DEF Uses
    <3>2. CASE \E n \in Numbers' : /\ made'[sockets'[n].peer] = {s} /\ sockets'[n].flow = i
                                   /\ a \in sockets'[n].asked
      BY <1>1, <2>2, <2>3, <3>2 DEF Uses
    <3>3. CASE flows'[s][a] = i \/ \E e \in up' \cup down' : e.session = s /\ e.flow = i /\ e.from = a
      BY <1>1, <3>3 DEF Uses
    <3>. QED BY <3>1, <3>2, <3>3 DEF Uses
  <2>12. UsersKept'
    BY <1>0, <1>1, <2>11, UsersStay DEF UsersKept
  <2>. QED BY <2>5, <2>6, <2>7, <2>8, <2>9, <2>10, <2>12 DEF FlowInv, FlowTypes
<1>5. \/ reader' = [at |-> "idle"] /\ UNCHANGED <<entries, flowCount, sockets, late>>
      \/ /\ entries[p][id] # 0 /\ UNCHANGED <<entries, flowCount, sockets, late>>
         /\ reader' = [at |-> "writing", data |-> d, peer |-> p, socket |-> entries[p][id]]
      \/ /\ entries[p][id] = 0 /\ flowCount < UdpFlowsMax /\ k <= MaxSockets
         /\ reader' = [at |-> "writing", data |-> d, peer |-> p, socket |-> k]
         /\ entries' = [entries EXCEPT ![p] = [entries[p] EXCEPT ![id] = k]]
         /\ flowCount' = flowCount + 1
         /\ sockets' = [n \in 1..k |-> IF n < k THEN sockets[n] ELSE b]
         /\ late' = (late \/ peers[d.session] # p)
  <2>0. flowCount \in Nat /\ k \in Nat /\ MaxSockets \in Nat /\ UdpFlowsMax \in Nat
    BY <1>0, NextSocket, FlowConstants DEF SocketTypes
  <2>1. CASE ~stopped /\ entries[p][id] # 0
    BY <2>1 DEF Udp!GetFlow
  <2>2. CASE ~(~stopped /\ entries[p][id] # 0)
    <3>1. PICK dialled \in BOOLEAN :
            IF Udp!Refuses \/ ~dialled \/ k > MaxSockets
            THEN reader' = Udp!Idle /\ UNCHANGED <<entries, flowCount, sockets, late>>
            ELSE /\ reader' = [at |-> "writing", data |-> d, peer |-> p, socket |-> k]
                 /\ entries' = [entries EXCEPT ![p] = [entries[p] EXCEPT ![id] = k]]
                 /\ flowCount' = flowCount + 1
                 /\ sockets' = [n \in 1..k |-> IF n < k THEN sockets[n] ELSE b]
                 /\ late' = (late \/ peers[d.session] # p)
      BY <2>2 DEF Udp!GetFlow
    <3>2. CASE Udp!Refuses \/ ~dialled \/ k > MaxSockets
      BY <3>1, <3>2 DEF Udp!Idle
    <3>3. CASE ~(Udp!Refuses \/ ~dialled \/ k > MaxSockets)
      <4>1. ~stopped /\ ~(flowCount >= UdpFlowsMax) /\ ~(k > MaxSockets)
        BY <3>3 DEF Udp!Refuses
      <4> HIDE DEF k
      <4>2. flowCount < UdpFlowsMax /\ k <= MaxSockets
        BY <2>0, <4>1
      <4>. QED BY <2>2, <3>1, <3>3, <4>1, <4>2
    <3>. QED BY <3>2, <3>3
  <2>. QED BY <2>1, <2>2
<1>6. ASSUME entries[p][id] # 0
      PROVE  /\ entries[p][id] \in Numbers
             /\ sockets[entries[p][id]].peer = p /\ sockets[entries[p][id]].flow = id
  BY <1>0, <1>1, <1>6 DEF EntriesKept
<1> HIDE DEF d, p, id, k, b
<1>. QED BY <1>2, <1>3, <1>4, <1>5, <1>6

-----------------------------------------------------------------------------
(* A flow is removed, by whoever comes first, with its socket.             *)

LEMMA RemoveKeeps ==
  ASSUME FlowInv, NEW k \in Numbers, NEW b \in Backend,
         b.peer = sockets[k].peer, b.flow = sockets[k].flow, b.open = FALSE,
         b.asked = sockets[k].asked,
         sockets' = [sockets EXCEPT ![k] = b],
         Udp!RemoveFlow(sockets[k].peer, sockets[k].flow, k),
         UNCHANGED <<client, flows, nextFlow, answered, up, down, live, stopped, peers, made, late>>,
         reader' = reader \/ reader'.at = "idle"
  PROVE  FlowInv'
<1> DEFINE p == sockets[k].peer
           id == sockets[k].flow
<1>0. /\ ClientTypes /\ UsersKept /\ PeerTypes /\ SocketTypes /\ ReaderTypes /\ PeersKept
      /\ EntriesKept /\ CountKept /\ StrayKept
  BY DEF FlowInv, FlowTypes
<1>1. p \in Peers /\ id \in Ids /\ k # 0 /\ k \in 0..MaxSockets
  BY <1>0, FlowConstants DEF SocketTypes, Backend
<1>2. /\ Numbers' = Numbers /\ sockets'[k] = b
      /\ \A n \in Numbers : n # k => sockets'[n] = sockets[n]
      /\ \A n \in Numbers : /\ sockets'[n] \in Backend
                            /\ sockets'[n].peer = sockets[n].peer /\ sockets'[n].flow = sockets[n].flow
                            /\ sockets'[n].asked = sockets[n].asked
  BY <1>0 DEF Numbers, SocketTypes
<1>3. \/ entries[p][id] # k /\ UNCHANGED <<entries, flowCount>>
      \/ /\ entries[p][id] = k /\ flowCount' = flowCount - 1
         /\ entries' = [entries EXCEPT ![p] = [entries[p] EXCEPT ![id] = 0]]
  BY DEF Udp!RemoveFlow, Udp!Removes
<1> HIDE DEF p, id
<1>4. /\ entries' \in [Peers -> [Ids -> 0..MaxSockets]]
      /\ \A q \in Peers : \A i \in Ids :
           entries'[q][i] = IF q = p /\ i = id /\ entries[q][i] = k THEN 0 ELSE entries[q][i]
  <2>1. entries \in [Peers -> [Ids -> 0..MaxSockets]] /\ 0 \in 0..MaxSockets
    BY <1>0, FlowConstants DEF SocketTypes
  <2>. QED BY <1>1, <1>3, <2>1, SMTT(30)
<1>5. CountKept' /\ flowCount' \in Nat
  <2>1. IsFiniteSet(Entries) /\ Cardinality(Entries) \in Nat /\ flowCount \in Nat
        /\ flowCount = Cardinality(Entries) /\ flowCount <= UdpFlowsMax
    BY <1>0, TableFinite DEF Entries, CountKept, SocketTypes
  <2>2. CASE entries[p][id] # k /\ UNCHANGED <<entries, flowCount>>
    BY <2>1, <2>2 DEF CountKept, Entries
  <2>3. CASE /\ entries[p][id] = k /\ flowCount' = flowCount - 1
             /\ entries' = [entries EXCEPT ![p] = [entries[p] EXCEPT ![id] = 0]]
    <3>1. Entries' = Entries \ {<<p, id>>} /\ <<p, id>> \in Entries
      <4>1. \A q \in Peers : \A i \in Ids :
              <<q, i>> \in Entries' <=> (<<q, i>> \in Entries /\ <<q, i>> # <<p, id>>)
        BY <1>1, <1>4, <2>3 DEF Entries
      <4>2. Entries \subseteq Peers \X Ids /\ Entries' \subseteq Peers \X Ids
        BY DEF Entries
      <4>3. <<p, id>> \in Entries
        BY <1>1, <2>3 DEF Entries
      <4>. QED BY <1>1, <4>1, <4>2, <4>3
    <3>2. Cardinality(Entries \ {<<p, id>>}) = Cardinality(Entries) - 1
      BY <2>1, <3>1, FS_RemoveElement, Zenon
    <3>3. IsFiniteSet(Entries \ {<<p, id>>}) /\ Cardinality(Entries \ {<<p, id>>}) \in Nat
      BY TableFinite DEF Entries
    <3>. QED BY <2>1, <2>3, <3>1, <3>2, <3>3, FlowConstants DEF CountKept
  <2>. QED BY <1>3, <2>2, <2>3
<1>6. SocketTypes'
  BY <1>0, <1>2, <1>4, <1>5 DEF SocketTypes
<1>7. PeerTypes' /\ PeersKept' /\ ClientTypes'
  BY <1>0 DEF PeerTypes, PeersKept, ClientTypes
<1>8. ReaderTypes'
  BY <1>0, <1>2 DEF ReaderTypes
<1>9. EntriesKept'
  <2>1. \A q \in Peers : \A i \in Ids :
          entries'[q][i] # 0 => /\ entries'[q][i] \in Numbers'
                                /\ sockets'[entries'[q][i]].peer = q
                                /\ sockets'[entries'[q][i]].flow = i
    BY <1>0, <1>2, <1>4 DEF EntriesKept
  <2>2. \A n \in Numbers' : made'[sockets'[n].peer] # {}
    BY <1>0, <1>2 DEF EntriesKept
  <2>. QED BY <2>1, <2>2 DEF EntriesKept
<1>10. StrayKept'
  <2> SUFFICES ASSUME ~late', NEW n \in Numbers', sockets'[n].open
               PROVE  /\ entries'[sockets'[n].peer][sockets'[n].flow] = n
                      /\ \E s \in Sessions : peers'[s] = sockets'[n].peer
    BY DEF StrayKept
  <2>1. n # k /\ n \in Numbers /\ sockets'[n] = sockets[n]
    BY <1>2
  <2>2. /\ entries[sockets[n].peer][sockets[n].flow] = n
        /\ \E s \in Sessions : peers[s] = sockets[n].peer
        /\ sockets[n].peer \in Peers /\ sockets[n].flow \in Ids
    BY <1>0, <2>1 DEF StrayKept, SocketTypes, Backend
  <2>. QED BY <1>4, <2>1, <2>2
<1>11. ASSUME NEW s \in Sessions, NEW i \in Ids, NEW a \in Apps, Uses(s, i, a)'
       PROVE  Uses(s, i, a)
  <2>1. CASE \E n \in Numbers' : /\ made'[sockets'[n].peer] = {s} /\ sockets'[n].flow = i
                                 /\ a \in sockets'[n].asked
    BY <1>2, <2>1 DEF Uses
  <2>2. CASE reader'.at # "idle" /\ reader'.data = [session |-> s, flow |-> i, from |-> a]
    BY <2>2 DEF Uses
  <2>3. CASE flows'[s][a] = i \/ \E e \in up' \cup down' : e.session = s /\ e.flow = i /\ e.from = a
    BY <2>3 DEF Uses
  <2>. QED BY <1>11, <2>1, <2>2, <2>3 DEF Uses
<1>12. UsersKept'
  BY <1>0, <1>11, UsersStay DEF UsersKept
<1>. QED BY <1>5, <1>6, <1>7, <1>8, <1>9, <1>10, <1>12 DEF FlowInv, FlowTypes

(* A socket is asked, or answers: those who asked are all that changes.    *)
LEMMA AskedChanges ==
  ASSUME FlowInv, NEW k \in Numbers, NEW b \in Backend,
         b.peer = sockets[k].peer, b.flow = sockets[k].flow, b.open = sockets[k].open,
         sockets' = [sockets EXCEPT ![k] = b],
         UNCHANGED <<peers, made, late, live, entries, flowCount>>
  PROVE  /\ TablesInv' /\ Numbers' = Numbers /\ sockets'[k] = b
         /\ \A n \in Numbers : n # k => sockets'[n] = sockets[n]
         /\ \A n \in Numbers : sockets'[n].peer = sockets[n].peer /\ sockets'[n].flow = sockets[n].flow
<1>0. /\ PeerTypes /\ SocketTypes /\ PeersKept /\ EntriesKept /\ CountKept /\ StrayKept
  BY DEF FlowInv, FlowTypes
<1>1. /\ Numbers' = Numbers /\ sockets'[k] = b
      /\ \A n \in Numbers : n # k => sockets'[n] = sockets[n]
      /\ \A n \in Numbers : sockets'[n] \in Backend
      /\ \A n \in Numbers : sockets'[n].peer = sockets[n].peer /\ sockets'[n].flow = sockets[n].flow
  BY <1>0 DEF Numbers, SocketTypes
<1>2. \A n \in Numbers : sockets'[n].open = sockets[n].open
  BY <1>1
<1>3. SocketTypes'
  BY <1>0, <1>1 DEF SocketTypes
<1>4. PeerTypes' /\ PeersKept'
  BY <1>0 DEF PeerTypes, PeersKept
<1>5. CountKept'
  BY <1>0 DEF CountKept, Entries
<1>6. EntriesKept'
  <2>1. \A q \in Peers : \A i \in Ids :
          entries'[q][i] # 0 => /\ entries'[q][i] \in Numbers'
                                /\ sockets'[entries'[q][i]].peer = q
                                /\ sockets'[entries'[q][i]].flow = i
    BY <1>0, <1>1 DEF EntriesKept
  <2>2. \A n \in Numbers' : made'[sockets'[n].peer] # {}
    BY <1>0, <1>1 DEF EntriesKept
  <2>. QED BY <2>1, <2>2 DEF EntriesKept
<1>7. StrayKept'
  BY <1>0, <1>1, <1>2 DEF StrayKept
<1>. QED BY <1>1, <1>3, <1>4, <1>5, <1>6, <1>7 DEF TablesInv

LEMMA WriteKeeps ==
  ASSUME FlowInv, Udp!WriteBackend
  PROVE  FlowInv'
<1> DEFINE d == reader.data
           k == reader.socket
<1>0. /\ ClientTypes /\ UsersKept /\ SocketTypes /\ ReaderTypes /\ TablesInv
      /\ k \in Numbers /\ d \in Datagram /\ sockets[k] \in Backend
      /\ reader.at = "writing" /\ reader' = [at |-> "idle"]
      /\ reader.peer = sockets[k].peer /\ d.flow = sockets[k].flow
      /\ made[sockets[k].peer] = {d.session}
      /\ UNCHANGED <<client, flows, nextFlow, answered, up, down, live, stopped, peers, made, late>>
  BY DEF FlowInv, FlowTypes, TablesInv, ReaderTypes, SocketTypes, Udp!WriteBackend, Udp!clientVars, Udp!Idle
<1>1. CASE /\ sockets' = [sockets EXCEPT ![k] = [sockets[k] EXCEPT !.open = FALSE]]
           /\ Udp!RemoveFlow(reader.peer, reader.data.flow, k)
  <2> DEFINE b == [sockets[k] EXCEPT !.open = FALSE]
  <2>1. /\ b \in Backend /\ b.peer = sockets[k].peer /\ b.flow = sockets[k].flow
        /\ b.open = FALSE /\ b.asked = sockets[k].asked
    BY <1>0 DEF Backend
  <2>2. Udp!RemoveFlow(sockets[k].peer, sockets[k].flow, k)
    BY <1>0, <1>1
  <2>3. reader'.at = "idle" /\ sockets' = [sockets EXCEPT ![k] = b]
    BY <1>0, <1>1
  <2> HIDE DEF b, k, d
  <2>. QED BY <1>0, <2>1, <2>2, <2>3, RemoveKeeps
<1>2. CASE /\ sockets' = [sockets EXCEPT ![k] = [sockets[k] EXCEPT !.asked = sockets[k].asked \cup {d.from}]]
           /\ UNCHANGED <<entries, flowCount>>
  <2> DEFINE who == sockets[k].asked \cup {d.from}
             b == [sockets[k] EXCEPT !.asked = who]
  <2>1. who \in SUBSET Apps
    BY <1>0 DEF Backend, Datagram
  <2> HIDE DEF who
  <2>2. /\ b \in Backend /\ b.peer = sockets[k].peer /\ b.flow = sockets[k].flow
        /\ b.open = sockets[k].open /\ b.asked = who
    BY <1>0, <2>1 DEF Backend
  <2>3. sockets' = [sockets EXCEPT ![k] = b] /\ reader'.at = "idle"
    BY <1>0, <1>2 DEF who
  <2> HIDE DEF b, k, d
  <2>4. /\ TablesInv' /\ Numbers' = Numbers /\ sockets'[k] = b
        /\ \A n \in Numbers : n # k => sockets'[n] = sockets[n]
    BY <1>0, <1>2, <2>2, <2>3, AskedChanges
  <2>5. ReaderTypes' /\ ClientTypes'
    BY <1>0, <2>3 DEF ReaderTypes, ClientTypes
  <2>6. ASSUME NEW s \in Sessions, NEW i \in Ids, NEW a \in Apps, Uses(s, i, a)'
        PROVE  Uses(s, i, a)
    <3>1. CASE flows'[s][a] = i \/ \E e \in up' \cup down' : e.session = s /\ e.flow = i /\ e.from = a
      BY <1>0, <3>1 DEF Uses
    <3>2. ASSUME NEW n \in Numbers, made[sockets'[n].peer] = {s}, sockets'[n].flow = i,
                 a \in sockets'[n].asked
          PROVE  Uses(s, i, a)
      <4>1. CASE n # k \/ a \in sockets[k].asked
        BY <2>2, <2>4, <3>2, <4>1 DEF Uses
      <4>2. CASE n = k /\ a \notin sockets[k].asked
        <5>1. a = d.from /\ d.session = s /\ d.flow = i
          BY <1>0, <2>2, <2>4, <3>2, <4>2 DEF who
        <5>2. d = [session |-> s, flow |-> i, from |-> a]
          BY <1>0, <5>1 DEF Datagram
        <5>. QED BY <1>0, <5>2 DEF Uses, d
      <4>. QED BY <4>1, <4>2
    <3>3. reader'.at = "idle"
      BY <2>3
    <3>4. \/ flows'[s][a] = i \/ \E e \in up' \cup down' : e.session = s /\ e.flow = i /\ e.from = a
          \/ \E n \in Numbers : made[sockets'[n].peer] = {s} /\ sockets'[n].flow = i /\ a \in sockets'[n].asked
      BY <1>0, <2>4, <2>6, <3>3 DEF Uses
    <3>. QED BY <3>1, <3>2, <3>4
  <2>7. UsersKept'
    BY <1>0, <2>6, UsersStay DEF UsersKept
  <2>. QED BY <2>4, <2>5, <2>7 DEF FlowInv, FlowTypes, TablesInv
<1>. QED BY <1>1, <1>2 DEF Udp!WriteBackend

LEMMA ReadBackendKeeps ==
  ASSUME FlowInv, NEW k \in Numbers, Udp!ReadBackend(k)
  PROVE  FlowInv'
<1>0. /\ ClientTypes /\ UsersKept /\ SocketTypes /\ ReaderTypes /\ TablesInv /\ PeerTypes
      /\ sockets[k] \in Backend
      /\ UNCHANGED <<client, flows, nextFlow, answered, up, live, stopped, peers, made, late, reader>>
      /\ UNCHANGED <<entries, flowCount>>
  BY DEF FlowInv, FlowTypes, TablesInv, SocketTypes, Udp!ReadBackend, Udp!clientVars
<1>1. PICK from \in sockets[k].asked, s \in made[sockets[k].peer] :
        /\ sockets' = [sockets EXCEPT ![k] = [sockets[k] EXCEPT !.asked = sockets[k].asked \ {from}]]
        /\ down' = down \cup {[session |-> s, flow |-> sockets[k].flow, from |-> from]}
  BY DEF Udp!ReadBackend
<1> DEFINE who == sockets[k].asked \ {from}
           b == [sockets[k] EXCEPT !.asked = who]
           d == [session |-> s, flow |-> sockets[k].flow, from |-> from]
<1>2. who \in SUBSET Apps /\ from \in Apps /\ sockets[k].peer \in Peers /\ sockets[k].flow \in Ids
  BY <1>0 DEF Backend
<1>3. s \in Sessions /\ made[sockets[k].peer] = {s}
  BY <1>0, <1>1, <1>2 DEF PeerTypes
<1>4. d \in Datagram /\ d.session = s /\ d.flow = sockets[k].flow /\ d.from = from
  BY <1>2, <1>3 DEF Datagram
<1> HIDE DEF who, d
<1>5. /\ b \in Backend /\ b.peer = sockets[k].peer /\ b.flow = sockets[k].flow
      /\ b.open = sockets[k].open /\ b.asked = who
  BY <1>0, <1>2 DEF Backend
<1>6. sockets' = [sockets EXCEPT ![k] = b] /\ down' = down \cup {d}
  BY <1>1 DEF who, d
<1> HIDE DEF b
<1>7. /\ TablesInv' /\ Numbers' = Numbers /\ sockets'[k] = b
      /\ \A n \in Numbers : n # k => sockets'[n] = sockets[n]
      /\ \A n \in Numbers : sockets'[n].peer = sockets[n].peer /\ sockets'[n].flow = sockets[n].flow
  BY <1>0, <1>5, <1>6, AskedChanges
<1>8. ReaderTypes'
  BY <1>0, <1>7 DEF ReaderTypes
<1>9. ClientTypes'
  BY <1>0, <1>4, <1>6 DEF ClientTypes
<1>10. ASSUME NEW x \in Sessions, NEW i \in Ids, NEW a \in Apps, Uses(x, i, a)'
       PROVE  Uses(x, i, a)
  <2>1. ASSUME NEW e \in down', e.session = x, e.flow = i, e.from = a PROVE Uses(x, i, a)
    <3>1. CASE e \in down
      BY <2>1, <3>1 DEF Uses
    <3>2. CASE e = d
      BY <1>1, <1>3, <1>4, <2>1, <3>2 DEF Uses
    <3>. QED BY <1>6, <3>1, <3>2
  <2>2. ASSUME NEW n \in Numbers, made[sockets'[n].peer] = {x}, sockets'[n].flow = i, a \in sockets'[n].asked
        PROVE  Uses(x, i, a)
    <3>1. a \in sockets[n].asked
      BY <1>5, <1>7, <2>2 DEF who
    <3>. QED BY <1>7, <2>2, <3>1 DEF Uses
  <2>3. CASE flows'[x][a] = i \/ \E e \in up' : e.session = x /\ e.flow = i /\ e.from = a
    BY <1>0, <2>3 DEF Uses
  <2>4. CASE reader'.at # "idle" /\ reader'.data = [session |-> x, flow |-> i, from |-> a]
    BY <1>0, <2>4 DEF Uses
  <2>5. \/ flows'[x][a] = i \/ \E e \in up' : e.session = x /\ e.flow = i /\ e.from = a
        \/ \E e \in down' : e.session = x /\ e.flow = i /\ e.from = a
        \/ reader'.at # "idle" /\ reader'.data = [session |-> x, flow |-> i, from |-> a]
        \/ \E n \in Numbers : made[sockets'[n].peer] = {x} /\ sockets'[n].flow = i /\ a \in sockets'[n].asked
    BY <1>0, <1>7, <1>10 DEF Uses
  <2>. QED BY <2>1, <2>2, <2>3, <2>4, <2>5
<1>11. UsersKept'
  BY <1>0, <1>10, UsersStay DEF UsersKept
<1>. QED BY <1>7, <1>8, <1>9, <1>11 DEF FlowInv, FlowTypes, TablesInv

LEMMA ReaderEndsKeeps ==
  ASSUME FlowInv, NEW k \in Numbers, Udp!ReaderEnds(k)
  PROVE  FlowInv'
<1> DEFINE b == [[sockets[k] EXCEPT !.open = FALSE] EXCEPT !.reading = FALSE]
<1>0. /\ sockets[k] \in Backend
      /\ UNCHANGED <<client, flows, nextFlow, answered, up, down, live, stopped, peers, made, late>>
      /\ reader' = reader
      /\ Udp!RemoveFlow(sockets[k].peer, sockets[k].flow, k)
      /\ sockets' = [sockets EXCEPT ![k].open = FALSE, ![k].reading = FALSE]
  BY DEF FlowInv, FlowTypes, SocketTypes, Udp!ReaderEnds, Udp!clientVars
<1>1. /\ b \in Backend /\ b.peer = sockets[k].peer /\ b.flow = sockets[k].flow
      /\ b.open = FALSE /\ b.asked = sockets[k].asked
  BY <1>0 DEF Backend
<1>2. sockets' = [sockets EXCEPT ![k] = b]
  BY <1>0
<1> HIDE DEF b
<1>. QED BY <1>0, <1>1, <1>2, RemoveKeeps

-----------------------------------------------------------------------------
(* The monitor and stop.                                                   *)

LEMMA Closed ==
  ASSUME SocketTypes, NEW gone, sockets' = Udp!Closes(gone)
  PROVE  /\ Numbers' = Numbers
         /\ \A n \in Numbers : /\ sockets'[n] \in Backend
                               /\ sockets'[n].peer = sockets[n].peer
                               /\ sockets'[n].flow = sockets[n].flow
                               /\ sockets'[n].asked = sockets[n].asked
                               /\ sockets'[n].open => (sockets[n].open /\ n \notin gone)
<1>1. sockets' = [n \in Numbers |-> [sockets[n] EXCEPT !.open = sockets[n].open /\ n \notin gone]]
  BY FlowConstants DEF Udp!Closes
<1>2. Numbers' = Numbers
  BY <1>1 DEF Numbers
<1>3. ASSUME NEW n \in Numbers
      PROVE  /\ sockets'[n] \in Backend
             /\ sockets'[n].peer = sockets[n].peer
             /\ sockets'[n].flow = sockets[n].flow
             /\ sockets'[n].asked = sockets[n].asked
             /\ sockets'[n].open => (sockets[n].open /\ n \notin gone)
  <2> DEFINE o == sockets[n].open /\ n \notin gone
  <2>1. sockets'[n] = [sockets[n] EXCEPT !.open = o] /\ sockets[n] \in Backend
    BY <1>1 DEF SocketTypes
  <2>2. o \in BOOLEAN
    OBVIOUS
  <2>3. o => (sockets[n].open /\ n \notin gone)
    OBVIOUS
  <2> HIDE DEF o
  <2>4. /\ sockets'[n] \in Backend /\ sockets'[n].peer = sockets[n].peer
        /\ sockets'[n].flow = sockets[n].flow /\ sockets'[n].asked = sockets[n].asked
        /\ sockets'[n].open = o
    BY <2>1, <2>2 DEF Backend
  <2>. QED BY <2>3, <2>4
<1>. QED BY <1>2, <1>3

(* What closing sockets cannot disturb.                                    *)
LEMMA ClosedKeeps ==
  ASSUME FlowInv, NEW gone, sockets' = Udp!Closes(gone),
         entries' \in [Peers -> [Ids -> 0..MaxSockets]],
         \A q \in Peers : \A i \in Ids : entries'[q][i] \in {0, entries[q][i]},
         flowCount' \in Nat, stopped' \in BOOLEAN,
         UNCHANGED <<client, flows, nextFlow, answered, up, down, live, made, late, reader>>
  PROVE  ClientTypes' /\ SocketTypes' /\ ReaderTypes' /\ EntriesKept' /\ UsersKept'
<1>0. ClientTypes /\ UsersKept /\ SocketTypes /\ ReaderTypes /\ EntriesKept
  BY DEF FlowInv, FlowTypes
<1>1. /\ Numbers' = Numbers
      /\ \A n \in Numbers : /\ sockets'[n] \in Backend
                            /\ sockets'[n].peer = sockets[n].peer
                            /\ sockets'[n].flow = sockets[n].flow
                            /\ sockets'[n].asked = sockets[n].asked
  BY <1>0, Closed
<1>2. ClientTypes'
  BY <1>0 DEF ClientTypes
<1>3. SocketTypes'
  BY <1>0, <1>1 DEF SocketTypes
<1>4. ReaderTypes'
  BY <1>0, <1>1 DEF ReaderTypes
<1>5. EntriesKept'
  <2>1. \A q \in Peers : \A i \in Ids :
          entries'[q][i] # 0 => /\ entries'[q][i] \in Numbers'
                                /\ sockets'[entries'[q][i]].peer = q
                                /\ sockets'[entries'[q][i]].flow = i
    BY <1>0, <1>1 DEF EntriesKept
  <2>2. \A n \in Numbers' : made'[sockets'[n].peer] # {}
    BY <1>0, <1>1 DEF EntriesKept
  <2>. QED BY <2>1, <2>2 DEF EntriesKept
<1>6. ASSUME NEW s \in Sessions, NEW i \in Ids, NEW a \in Apps, Uses(s, i, a)'
      PROVE  Uses(s, i, a)
  <2>1. CASE \E n \in Numbers' : /\ made'[sockets'[n].peer] = {s} /\ sockets'[n].flow = i
                                 /\ a \in sockets'[n].asked
    BY <1>1, <2>1 DEF Uses
  <2>2. CASE reader'.at # "idle" /\ reader'.data = [session |-> s, flow |-> i, from |-> a]
    BY <2>2 DEF Uses
  <2>3. CASE flows'[s][a] = i \/ \E e \in up' \cup down' : e.session = s /\ e.flow = i /\ e.from = a
    BY <2>3 DEF Uses
  <2>. QED BY <1>6, <2>1, <2>2, <2>3 DEF Uses
<1>7. UsersKept'
  BY <1>0, <1>6, UsersStay DEF UsersKept
<1>. QED BY <1>2, <1>3, <1>4, <1>5, <1>7

LEMMA StopKeeps ==
  ASSUME FlowInv, Udp!Stop
  PROVE  FlowInv'
<1> DEFINE gone == {k \in Numbers : ~(\A s \in Sessions : \A id \in Ids :
                                        peers[s] # 0 => entries[peers[s]][id] # k)}
<1>0. /\ PeerTypes /\ SocketTypes /\ PeersKept /\ CountKept /\ StrayKept
      /\ entries \in [Peers -> [Ids -> 0..MaxSockets]] /\ flowCount \in Nat
      /\ UNCHANGED <<client, flows, nextFlow, answered, up, down, live, made, late, reader>>
      /\ UNCHANGED <<peers, entries, flowCount>> /\ stopped' = TRUE
  BY DEF FlowInv, FlowTypes, SocketTypes, Udp!Stop, Udp!clientVars
<1>1. sockets' = [k \in Numbers |-> [sockets[k] EXCEPT
                    !.open = sockets[k].open /\ \A s \in Sessions : \A id \in Ids :
                               peers[s] # 0 => entries[peers[s]][id] # k]]
  BY FlowConstants, Zenon DEF Udp!Stop
<1>2. \A k \in Numbers : (\A s \in Sessions : \A id \in Ids :
                            peers[s] # 0 => entries[peers[s]][id] # k) <=> k \notin gone
  OBVIOUS
<1> HIDE DEF gone
<1>3. sockets' = Udp!Closes(gone)
  <2>1. \A k \in Numbers :
          (sockets[k].open /\ \A s \in Sessions : \A id \in Ids :
                               peers[s] # 0 => entries[peers[s]][id] # k)
          = (sockets[k].open /\ k \notin gone)
    BY <1>2, Zenon
  <2>. QED BY <1>1, <2>1, FlowConstants, Zenon DEF Udp!Closes
<1>4. stopped' \in BOOLEAN
  BY <1>0, Zenon
<1>5. ClientTypes' /\ SocketTypes' /\ ReaderTypes' /\ EntriesKept' /\ UsersKept'
  BY <1>0, <1>3, <1>4, ClosedKeeps
<1>6. PeerTypes' /\ PeersKept'
  BY <1>0 DEF PeerTypes, PeersKept
<1>7. CountKept'
  BY <1>0 DEF CountKept, Entries
<1>8. StrayKept'
  <2>1. /\ Numbers' = Numbers
        /\ \A n \in Numbers : /\ sockets'[n].peer = sockets[n].peer
                              /\ sockets'[n].flow = sockets[n].flow
                              /\ sockets'[n].open => sockets[n].open
    BY <1>0, <1>3, Closed
  <2>. QED BY <1>0, <2>1 DEF StrayKept
<1>. QED BY <1>5, <1>6, <1>7, <1>8 DEF FlowInv, FlowTypes

LEMMA ExpireKeeps ==
  ASSUME FlowInv, NEW s \in Sessions, NEW idle \in SUBSET Ids, Udp!Expire(s, idle)
  PROVE  FlowInv'
<1> DEFINE p == peers[s]
           all == {id \in Ids : entries[p][id] # 0}
           out == IF s \in live THEN all \cap idle ELSE all
           gone == {entries[p][id] : id \in out}
<1>0. /\ ClientTypes /\ PeerTypes /\ SocketTypes /\ PeersKept /\ CountKept /\ StrayKept /\ EntriesKept
      /\ entries \in [Peers -> [Ids -> 0..MaxSockets]] /\ flowCount \in Nat
      /\ peers \in [Sessions -> 0..MaxPeers]
      /\ UNCHANGED <<client, flows, nextFlow, answered, up, down, live, stopped, made, late, reader>>
  BY DEF FlowInv, FlowTypes, SocketTypes, PeerTypes, Udp!Expire, Udp!clientVars
<1>1. /\ p # 0 /\ sockets' = Udp!Closes(gone)
      /\ entries' = [entries EXCEPT ![p] = [id \in Ids |-> IF id \in out THEN 0 ELSE entries[p][id]]]
      /\ flowCount' = flowCount - Cardinality(out)
      /\ peers' = IF s \notin live THEN [peers EXCEPT ![s] = 0] ELSE peers
  BY SameCount, FlowConstants DEF Udp!Expire, Udp!Leaves
<1>2. p \in Peers /\ made[p] = {s}
  BY <1>0, <1>1, FlowConstants DEF PeersKept, Peers
<1>3. /\ out \subseteq Ids /\ (\A id \in out : entries[p][id] # 0 /\ entries[p][id] \in gone)
      /\ s \notin live => \A id \in Ids : entries[p][id] # 0 => id \in out
  OBVIOUS
<1>4. stopped' \in BOOLEAN
  BY <1>0 DEF ClientTypes
<1> HIDE DEF p, all, out, gone
<1>5. /\ entries' \in [Peers -> [Ids -> 0..MaxSockets]]
      /\ \A q \in Peers : \A i \in Ids :
           entries'[q][i] = IF q = p /\ i \in out THEN 0 ELSE entries[q][i]
  <2>1. 0 \in 0..MaxSockets
    BY FlowConstants
  <2>. QED BY <1>0, <1>1, <1>2, <2>1
<1>6. CountKept' /\ flowCount' \in Nat
  <2>1. IsFiniteSet(Entries) /\ Cardinality(Entries) \in Nat /\ flowCount = Cardinality(Entries)
        /\ flowCount <= UdpFlowsMax
    BY <1>0, TableFinite DEF Entries, CountKept
  <2>2. {p} \X out \subseteq Entries
    BY <1>2, <1>3 DEF Entries
  <2>3. Entries' = Entries \ ({p} \X out)
    <3>1. \A q \in Peers : \A i \in Ids :
            <<q, i>> \in Entries' <=> (<<q, i>> \in Entries /\ ~(q = p /\ i \in out))
      BY <1>5 DEF Entries
    <3>2. Entries \subseteq Peers \X Ids /\ Entries' \subseteq Peers \X Ids
      BY DEF Entries
    <3>. QED BY <3>1, <3>2
  <2>4. IsFiniteSet(out) /\ Cardinality(out) \in Nat
    <3>1. IsFiniteSet(Ids)
      BY FlowConstants, FS_Interval DEF Ids
    <3>. QED BY <1>3, <3>1, FS_Subset, FS_CardinalityType
  <2>5. Cardinality({p} \X out) = Cardinality(out)
    <3>1. IsFiniteSet({p}) /\ Cardinality({p}) = 1
      BY FS_Singleton
    <3>2. Cardinality({p} \X out) = Cardinality({p}) * Cardinality(out)
      BY <2>4, <3>1, FS_Product
    <3>. QED BY <2>4, <3>1, <3>2
  <2>6. Cardinality(Entries \ ({p} \X out)) = Cardinality(Entries) - Cardinality(Entries \cap ({p} \X out))
    BY <2>1, FS_Difference
  <2>7. Entries \cap ({p} \X out) = {p} \X out
    BY <2>2
  <2>8. IsFiniteSet(Entries') /\ Cardinality(Entries') \in Nat
    <3>1. Entries' \subseteq Peers \X Ids
      BY DEF Entries
    <3>. QED BY <3>1, TableFinite
  <2>9. Cardinality(Entries') = flowCount'
    BY <1>1, <2>1, <2>3, <2>5, <2>6, <2>7
  <2>10. flowCount' <= flowCount
    BY <1>0, <1>1, <2>4
  <2>. QED BY <2>1, <2>8, <2>9, <2>10, FlowConstants DEF CountKept
<1>7. ClientTypes' /\ SocketTypes' /\ ReaderTypes' /\ EntriesKept' /\ UsersKept'
  <2>1. \A q \in Peers : \A i \in Ids : entries'[q][i] \in {0, entries[q][i]}
    BY <1>5
  <2>. QED BY <1>0, <1>1, <1>4, <1>5, <1>6, <2>1, ClosedKeeps
<1>8. /\ peers' \in [Sessions -> 0..MaxPeers]
      /\ \A x \in Sessions : peers'[x] = IF x = s /\ s \notin live THEN 0 ELSE peers[x]
  <2>1. 0 \in 0..MaxPeers
    BY FlowConstants
  <2>. QED BY <1>0, <1>1, <2>1
<1>9. PeerTypes'
  BY <1>0, <1>8 DEF PeerTypes
<1>10. PeersKept'
  <2>1. \A x \in Sessions : peers'[x] # 0 => made'[peers'[x]] = {x}
    BY <1>0, <1>8 DEF PeersKept
  <2>2. \A x \in live : x \in Sessions /\ \A q \in Peers : x \in made[q] => peers[x] = q
    BY <1>0 DEF PeersKept, ClientTypes
  <2>3. \A x \in live : \A q \in Peers : x \in made'[q] => peers'[x] = q
    BY <1>0, <1>8, <2>2
  <2>. QED BY <1>0, <2>1, <2>3 DEF PeersKept
<1>11. StrayKept'
  <2>0. /\ Numbers' = Numbers
        /\ \A n \in Numbers : /\ sockets'[n].peer = sockets[n].peer
                              /\ sockets'[n].flow = sockets[n].flow
                              /\ sockets'[n].open => (sockets[n].open /\ n \notin gone)
    BY <1>0, <1>1, Closed
  <2> SUFFICES ASSUME ~late, NEW n \in Numbers, sockets'[n].open
               PROVE  /\ entries'[sockets[n].peer][sockets[n].flow] = n
                      /\ \E x \in Sessions : peers'[x] = sockets[n].peer
    BY <1>0, <2>0 DEF StrayKept
  <2>1. /\ entries[sockets[n].peer][sockets[n].flow] = n /\ n \notin gone
        /\ sockets[n].peer \in Peers /\ sockets[n].flow \in Ids
    BY <1>0, <2>0 DEF StrayKept, SocketTypes, Backend
  <2>2. PICK x \in Sessions : peers[x] = sockets[n].peer
    BY <1>0, <2>0 DEF StrayKept
  <2>3. ~(sockets[n].peer = p /\ sockets[n].flow \in out)
    BY <1>3, <2>1
  <2>4. entries'[sockets[n].peer][sockets[n].flow] = n
    BY <1>5, <2>1, <2>3
  <2>5. n # 0
    BY <1>0, FlowConstants DEF SocketTypes
  <2>6. ~(x = s /\ s \notin live)
    BY <1>3, <2>1, <2>2, <2>3, <2>5 DEF p
  <2>. QED BY <1>8, <2>2, <2>4, <2>6
<1>. QED BY <1>6, <1>7, <1>9, <1>10, <1>11 DEF FlowInv, FlowTypes

-----------------------------------------------------------------------------

LEMMA FlowStep == FlowInv /\ [Next]_vars => FlowInv'
<1> SUFFICES ASSUME FlowInv, [Next]_vars PROVE FlowInv'
  OBVIOUS
<1>1. CASE Udp!Next
  <2>1. Udp!Ids = Ids /\ Udp!Numbers = Numbers
    BY FlowConstants
  <2>. QED BY <1>1, <2>1, ClientTurns, ReadLocalKeeps, ReadCarrierKeeps, ExpireLocalKeeps, EndKeeps,
              LookKeeps, GetPeerKeeps, GetFlowKeeps, WriteKeeps, ReadBackendKeeps, ReaderEndsKeeps,
              ExpireKeeps, StopKeeps
       DEF Udp!Next, Udp!Read
<1>2. CASE UNCHANGED udpVars
  <2>1. /\ UNCHANGED <<client, flows, nextFlow, answered, up, down, live, stopped>>
        /\ UNCHANGED <<peers, entries, flowCount, sockets, made, late, reader>>
    BY <1>2 DEF udpVars
  <2>2. ClientTypes'
    BY <2>1 DEF FlowInv, FlowTypes, ClientTypes
  <2>3. ServerInv'
    BY <2>1, ServerIdle DEF FlowInv, FlowTypes, ServerInv, TablesInv
  <2>4. UsersKept'
    BY <2>1, UsersStay DEF FlowInv, UsersKept, Uses, Numbers
  <2>. QED BY <2>2, <2>3, <2>4 DEF FlowInv, FlowTypes, ServerInv, TablesInv
<1>3. Udp!Next \/ UNCHANGED udpVars
  BY DEF Next, vars, OfUdp, OfProduct, OfUot, OfPackets, OfServer, OfReceive
<1>. QED BY <1>1, <1>2, <1>3

(* However flows expire, are removed by whoever comes first and come back, *)
(* and Sessions end: the count of flows is the number of flows there are   *)
(* and within its limit, every open socket is one that the monitor will    *)
(* find, a Session that lives keeps its peer object, and a reply goes to   *)
(* the application that asked (udp.go).                                    *)
THEOREM FlowsKept == Spec => []FlowsAgree
<1>1. Init => FlowInv
  BY FlowInit DEF Init
<1>2. FlowInv => FlowsAgree
  <2> SUFFICES ASSUME FlowInv PROVE FlowsAgree
    OBVIOUS
  <2>0. Udp!Peers = Peers /\ Udp!Ids = Ids /\ Udp!Numbers = Numbers
    BY FlowConstants
  <2>1. Udp!TypeOK
    <3>1. flowCount \in 0..UdpFlowsMax
      BY FlowConstants DEF FlowInv, FlowTypes, SocketTypes, CountKept
    <3>. QED BY <2>0, <3>1 DEF FlowInv, FlowTypes, ClientTypes, PeerTypes, SocketTypes, ReaderTypes, Udp!TypeOK
  <2>2. Udp!CountAgrees
    BY <2>0, SameCount DEF FlowInv, CountKept, Entries, Udp!CountAgrees
  <2>3. Udp!NoStray
    BY <2>0 DEF FlowInv, StrayKept, Udp!NoStray
  <2>4. Udp!PeerOnce
    <3> SUFFICES ASSUME NEW s \in live PROVE Cardinality({p \in Peers : s \in made[p]}) <= 1
      BY <2>0, SameCount DEF Udp!PeerOnce
    <3>1. \A p \in Peers : s \in made[p] => peers[s] = p
      BY DEF FlowInv, PeersKept
    <3>2. {p \in Peers : s \in made[p]} \subseteq {peers[s]}
      BY <3>1
    <3>3. IsFiniteSet({peers[s]}) /\ Cardinality({peers[s]}) = 1
      BY FS_Singleton
    <3>4. Cardinality({p \in Peers : s \in made[p]}) <= Cardinality({peers[s]})
      BY <3>2, <3>3, FS_Subset
    <3>. QED BY <3>3, <3>4
  <2>5. Udp!RepliesReturn
    BY DEF FlowInv, UsersKept, Udp!RepliesReturn
  <2>. QED BY <2>1, <2>2, <2>3, <2>4, <2>5 DEF FlowsAgree
<1>. QED BY <1>1, <1>2, FlowStep, PTL DEF Spec

-----------------------------------------------------------------------------
(* Datagrams: what both ends have sent, and what they made of it.          *)

Fragment == [kind : {"data", "unsent", "ping", "pong", "receipt"},
             path : Paths, id : Nat, index : Nat, count : Nat]
Slots == [highest : Nat, slots : [0..(Window - 1) -> Nat]]

PacketTypes ==
  /\ sent \in [Packets!Ends -> Seq(Fragment)] /\ seen \subseteq Paths
  /\ replay \in [Packets!Ends -> Slots] /\ completed \in Slots
  /\ handled \in [Packets!Ends -> SUBSET Nat] /\ again \in BOOLEAN

DatagramTypes ==
  /\ nextID \in 0..MaxDatagrams /\ sizes \in [Packets!Ids -> 0..MaxFragments]
  /\ assemblies \in [Packets!Ids -> SUBSET Nat] /\ held \in Nat
  /\ pending \subseteq [id : Packets!Ids, path : Paths, size : Nat]
  /\ outstanding \in [Paths -> Nat]
  /\ delivered \in [Packets!Ids -> {0, 1}] /\ confirmed \subseteq Packets!Ids

(* What has been committed is below the window or in its slot of it.       *)
WindowKept(w, H) ==
  \A n \in H : n <= w.highest /\ (n <= w.highest - Window \/ w.slots[n % Window] = n)

WindowsKept ==
  /\ \A e \in Packets!Ends : WindowKept(replay[e], handled[e])
  /\ \A e \in Packets!Ends : handled[e] \subseteq DOMAIN sent[Packets!Other(e)]
  /\ WindowKept(completed, {d \in Packets!Ids : delivered[d] # 0})
  /\ ~again

(* The server has handled every fragment of it, and handed it on once.     *)
Rebuilt(d) == delivered[d] = 1 /\ Packets!Handled(d) = 1..sizes[d]

Right(p) ==
  /\ p.kind \in {"data", "unsent", "ping"}
  /\ p.kind # "ping" => p.id \in 1..nextID /\ p.count = sizes[p.id] /\ p.index \in 1..p.count
True(p) ==
  p.kind \in {"pong", "receipt"} /\ (p.kind = "receipt" => p.id \in Packets!Ids /\ Rebuilt(p.id))

Packed(e) == {sent[e][n] : n \in DOMAIN sent[e]}
FragmentsKept == \A p \in Packed("client") : Right(p)
ReceiptsKept ==
  /\ \A p \in Packed("server") : True(p)
  /\ \A d \in confirmed : Rebuilt(d)
  /\ \A d \in Packets!Ids : delivered[d] = 1 => d <= nextID

AssembliesKept ==
  /\ \A d \in Packets!Ids : assemblies[d] # Packets!None => d <= nextID /\ assemblies[d] \subseteq Packets!Handled(d)
  /\ IsFiniteSet(Packets!UnderAssembly)
  /\ held = Cardinality(Packets!UnderAssembly) /\ held <= AssemblyLimit

ChargesKept ==
  /\ \A d, c \in pending : d.id = c.id => d = c
  /\ \A d \in pending : d.id <= nextID
  /\ \A p \in Paths : IsFiniteSet(Packets!Awaited(p)) /\ outstanding[p] = Cardinality(Packets!Awaited(p))

DatagramInv ==
  /\ PacketTypes /\ DatagramTypes /\ WindowsKept /\ FragmentsKept /\ ReceiptsKept
  /\ AssembliesKept /\ ChargesKept

LEMMA DatagramConstants ==
  /\ Window \in Nat \ {0} /\ MaxFragments \in Nat /\ AssemblyLimit \in Nat /\ MaxDatagrams \in Nat
  /\ Packets!Ids = 1..MaxDatagrams /\ Packets!Ends = {"client", "server"}
  /\ Packets!Other("client") = "server" /\ Packets!Other("server") = "client"
  /\ Packets!None = {0}
BY DatagramsAssumption DEF Packets!Ids, Packets!Ends, Packets!Other, Packets!None

LEMMA SamePacketCount == \A S : Packets!Cardinality(S) = Cardinality(S)
BY DEF Cardinality, Packets!Cardinality

-----------------------------------------------------------------------------
(* Rows of fragments are counted as they are added and taken away.         *)

LEMMA RowCounted ==
  ASSUME NEW d, NEW n \in Nat
  PROVE  IsFiniteSet({d} \X (1..n)) /\ Cardinality({d} \X (1..n)) = n
<1>1. IsFiniteSet({d}) /\ Cardinality({d}) = 1
  BY FS_Singleton
<1>2. IsFiniteSet(1..n) /\ Cardinality(1..n) = n
  BY FS_Interval
<1>3. IsFiniteSet({d} \X (1..n)) /\ Cardinality({d} \X (1..n)) = Cardinality({d}) * Cardinality(1..n)
  BY <1>1, <1>2, FS_Product
<1>. QED BY <1>1, <1>2, <1>3

LEMMA RowAdded ==
  ASSUME NEW S, IsFiniteSet(S), NEW d, NEW n \in Nat, S \cap ({d} \X (1..n)) = {}
  PROVE  /\ IsFiniteSet(S \cup ({d} \X (1..n)))
         /\ Cardinality(S \cup ({d} \X (1..n))) = Cardinality(S) + n
<1> DEFINE R == {d} \X (1..n)
<1>1. IsFiniteSet(R) /\ Cardinality(R) = n
  BY RowCounted
<1> SUFFICES ASSUME S \cap R = {} PROVE IsFiniteSet(S \cup R) /\ Cardinality(S \cup R) = Cardinality(S) + n
  OBVIOUS
<1> HIDE DEF R
<1>2. IsFiniteSet(S \cup R) /\ Cardinality(S \cup R) = Cardinality(S) + Cardinality(R) - Cardinality(S \cap R)
  BY <1>1, FS_Union
<1>3. Cardinality(S \cap R) = 0 /\ Cardinality(S) \in Nat
  BY FS_EmptySet, FS_CardinalityType
<1>. QED BY <1>1, <1>2, <1>3

LEMMA RowTaken ==
  ASSUME NEW S, IsFiniteSet(S), NEW d, NEW n \in Nat, ({d} \X (1..n)) \subseteq S
  PROVE  /\ IsFiniteSet(S \ ({d} \X (1..n)))
         /\ Cardinality(S \ ({d} \X (1..n))) = Cardinality(S) - n
         /\ Cardinality(S) \in Nat /\ n <= Cardinality(S)
<1> DEFINE R == {d} \X (1..n)
<1>1. IsFiniteSet(R) /\ Cardinality(R) = n
  BY RowCounted
<1> SUFFICES ASSUME R \subseteq S
             PROVE  /\ IsFiniteSet(S \ R) /\ Cardinality(S \ R) = Cardinality(S) - n
                    /\ Cardinality(S) \in Nat /\ n <= Cardinality(S)
  OBVIOUS
<1> HIDE DEF R
<1>2. IsFiniteSet(S \ R) /\ Cardinality(S \ R) = Cardinality(S) - Cardinality(S \cap R)
  BY FS_Difference
<1>3. S \cap R = R
  OBVIOUS
<1>4. Cardinality(S) \in Nat /\ Cardinality(S \ R) \in Nat
  BY <1>2, FS_CardinalityType
<1>5. Cardinality(S \ R) = Cardinality(S) - n
  BY <1>1, <1>2, <1>3
<1>. QED BY <1>2, <1>4, <1>5

(* All of the fragments of a datagram, when there are as many.             *)
LEMMA AllOf ==
  ASSUME NEW n \in Nat, NEW S \in SUBSET (1..n), Cardinality(S) = n
  PROVE  S = 1..n
<1>1. IsFiniteSet(1..n) /\ Cardinality(1..n) = n
  BY FS_Interval
<1>2. Cardinality(S) = Cardinality(1..n)
  BY <1>1
<1> DEFINE U == 1..n
<1> HIDE DEF U
<1>3. S \in SUBSET U /\ IsFiniteSet(U) /\ Cardinality(S) = Cardinality(U)
  BY <1>1, <1>2 DEF U
<1>4. S = U
  BY <1>3, FS_Subset
<1>. QED BY <1>4 DEF U

-----------------------------------------------------------------------------
(* The sliding window: two numbers in one slot are a window apart.         *)

LEMMA PacketsApart ==
  ASSUME NEW m \in Nat, NEW n \in Nat, m < n, m % Window = n % Window
  PROVE  m + Window <= n
<1> DEFINE a == m \div Window
           b == n \div Window
<1>0. Window \in Nat \ {0}
  BY DatagramConstants
<1>1. a \in Int /\ b \in Int /\ m % Window \in 0..(Window - 1) /\ n % Window \in 0..(Window - 1)
  BY <1>0
<1>2. m = Window * a + (m % Window) /\ n = Window * b + (n % Window)
  BY <1>0
<1>3. n - m = Window * (b - a)
  <2>1. n - m = Window * b - Window * a
    BY <1>0, <1>1, <1>2
  <2>. QED BY <2>1, <1>0, <1>1
<1> HIDE DEF a, b
<1>4. b - a > 0
  BY <1>0, <1>1, <1>3
<1>5. Window * (b - a) >= Window
  <2>1. PICK k \in Nat : b - a = k + 1
    <3>1. b - a - 1 \in Nat /\ b - a = (b - a - 1) + 1
      BY <1>1, <1>4
    <3>. QED BY <3>1
  <2>2. Window * (k + 1) = Window * k + Window /\ Window * k \in Nat
    BY <1>0
  <2>. QED BY <1>0, <2>1, <2>2
<1>. QED BY <1>0, <1>3, <1>5

(* check lets no number through twice, and commit remembers it.            *)
LEMMA WindowSlides ==
  ASSUME NEW w \in Slots, NEW H \in SUBSET Nat, NEW n \in Nat, WindowKept(w, H), Packets!Fresh(w, n)
  PROVE  /\ n \notin H /\ Packets!Slid(w, n) \in Slots
         /\ WindowKept(Packets!Slid(w, n), H \cup {n})
<1> DEFINE v == Packets!Slid(w, n)
           i == n % Window
<1>0. Window \in Nat \ {0}
  BY DatagramConstants
<1>1. i \in 0..(Window - 1)
  BY <1>0
<1>2. w.highest \in Nat /\ w.slots \in [0..(Window - 1) -> Nat]
  BY DEF Slots
<1>3. ~(w.highest >= Window /\ n <= w.highest - Window) /\ w.slots[i] # n
  BY DEF Packets!Fresh
<1>4. n \notin H
  BY <1>0, <1>2, <1>3 DEF WindowKept
<1>5. /\ v.highest \in Nat /\ v.highest >= n /\ v.highest >= w.highest
      /\ v.highest \in {n, w.highest}
  BY <1>2 DEF Packets!Slid
<1>6. v.slots = [w.slots EXCEPT ![i] = n]
  BY DEF Packets!Slid
<1>7. v \in Slots
  BY <1>1, <1>2, <1>5, <1>6 DEF Slots, Packets!Slid
<1>8. ASSUME NEW m \in H \cup {n}
      PROVE  m <= v.highest /\ (m <= v.highest - Window \/ v.slots[m % Window] = m)
  <2> DEFINE j == m % Window
  <2>1. m \in Nat /\ j \in 0..(Window - 1)
    BY <1>0
  <2>2. CASE m = n
    BY <2>2, <1>1, <1>2, <1>5, <1>6
  <2>3. CASE m # n /\ j # i
    <3>1. m \in H /\ v.slots[j] = w.slots[j]
      BY <2>1, <2>3, <1>1, <1>2, <1>6
    <3>2. m <= w.highest /\ (m <= w.highest - Window \/ w.slots[j] = m)
      BY <3>1 DEF WindowKept
    <3>. QED BY <3>1, <3>2, <2>1, <1>0, <1>2, <1>5
  <2>4. CASE m < n /\ j = i
    <3>1. m + Window <= n
      BY <2>1, <2>4, PacketsApart
    <3>. QED BY <3>1, <2>1, <1>0, <1>2, <1>5
  <2>5. CASE m > n /\ j = i
    <3>1. n + Window <= m
      BY <2>1, <2>5, PacketsApart
    <3>2. m <= w.highest
      BY <2>5 DEF WindowKept
    <3>3. w.highest >= Window /\ n <= w.highest - Window
      BY <3>1, <3>2, <2>1, <1>0, <1>2
    <3>. QED BY <3>3, <1>3
  <2>. QED BY <2>1, <2>2, <2>3, <2>4, <2>5
<1>9. WindowKept(v, H \cup {n})
  BY <1>8 DEF WindowKept
<1>. QED BY <1>4, <1>7, <1>9

LEMMA NewWindow ==
  Packets!NewWindow \in Slots /\ WindowKept(Packets!NewWindow, {})
BY DatagramConstants DEF Packets!NewWindow, Slots, WindowKept

-----------------------------------------------------------------------------
(* What was handled of a datagram: fragments of it.                        *)

LEMMA HandledIn ==
  ASSUME DatagramInv, NEW d \in Packets!Ids
  PROVE  Packets!Handled(d) \subseteq 1..sizes[d] /\ (Packets!Handled(d) # {} => d \in 1..nextID)
<1> SUFFICES ASSUME NEW i \in Packets!Handled(d) PROVE i \in 1..sizes[d] /\ d \in 1..nextID
  OBVIOUS
<1>1. PICK k \in handled["server"] :
        sent["client"][k].kind = "data" /\ sent["client"][k].id = d /\ i = sent["client"][k].index
  BY DEF Packets!Handled
<1>2. k \in DOMAIN sent["client"]
  BY DatagramConstants DEF DatagramInv, WindowsKept
<1>3. Right(sent["client"][k])
  BY <1>2 DEF DatagramInv, FragmentsKept, Packed
<1>. QED BY <1>1, <1>3 DEF Right

(* What is sent later changes nothing of what was handled.                 *)
LEMMA HandledStays ==
  ASSUME DatagramInv, handled'["server"] = handled["server"],
         \A n \in DOMAIN sent["client"] : sent'["client"][n] = sent["client"][n],
         NEW d
  PROVE  Packets!Handled(d)' = Packets!Handled(d)
<1>1. handled["server"] \subseteq DOMAIN sent["client"]
  BY DatagramConstants DEF DatagramInv, WindowsKept
<1>2. \A k \in handled["server"] : sent'["client"][k] = sent["client"][k]
  BY <1>1
<1>. QED BY <1>2 DEF Packets!Handled

LEMMA RebuiltStays ==
  ASSUME DatagramInv, NEW d \in Packets!Ids, Rebuilt(d), delivered'[d] = delivered[d], sizes'[d] = sizes[d],
         Packets!Handled(d) \subseteq Packets!Handled(d)', Packets!Handled(d)' \subseteq 1..sizes[d]
  PROVE  Rebuilt(d)'
BY DEF Rebuilt

(* Packets are added at the end.                                           *)
LEMMA SentMore ==
  ASSUME PacketTypes, NEW e \in Packets!Ends, NEW new \in Seq(Fragment),
         sent' = [sent EXCEPT ![e] = @ \o new]
  PROVE  /\ sent' \in [Packets!Ends -> Seq(Fragment)]
         /\ \A c \in Packets!Ends : /\ DOMAIN sent[c] \subseteq DOMAIN sent'[c]
                                    /\ \A n \in DOMAIN sent[c] : sent'[c][n] = sent[c][n]
         /\ Packed(e)' = Packed(e) \cup {new[i] : i \in 1..Len(new)}
         /\ \A c \in Packets!Ends : c # e => Packed(c)' = Packed(c)
<1>1. sent \in [Packets!Ends -> Seq(Fragment)]
  BY DEF PacketTypes
<1>2. sent'[e] = sent[e] \o new /\ \A c \in Packets!Ends : c # e => sent'[c] = sent[c]
  BY <1>1
<1>3. PICK old \in Seq(Fragment) : old = sent[e]
  BY <1>1
<1>4. /\ old \o new \in Seq(Fragment) /\ DOMAIN old = 1..Len(old)
      /\ DOMAIN (old \o new) = 1..(Len(old) + Len(new))
      /\ \A n \in 1..Len(old) : (old \o new)[n] = old[n]
      /\ \A n \in 1..(Len(old) + Len(new)) : n > Len(old) => (old \o new)[n] = new[n - Len(old)]
      /\ Len(old) \in Nat /\ Len(new) \in Nat
  OBVIOUS
<1>5. Packed(e)' = Packed(e) \cup {new[i] : i \in 1..Len(new)}
  <2>0. PICK all \in Seq(Fragment) : all = old \o new
    BY <1>4
  <2>1. \A p : p \in Packed(e) <=> \E n \in 1..Len(old) : p = old[n]
    BY <1>3, <1>4 DEF Packed
  <2>2. \A p : p \in Packed(e)' <=> \E n \in 1..(Len(old) + Len(new)) : p = all[n]
    <3>1. sent'[e] = all /\ DOMAIN all = 1..(Len(old) + Len(new))
      BY <1>2, <1>3, <1>4, <2>0
    <3>. QED BY <3>1 DEF Packed
  <2>3. \A n \in 1..Len(old) : n \in 1..(Len(old) + Len(new)) /\ all[n] = old[n]
    BY <1>4, <2>0
  <2>4. \A i \in 1..Len(new) : i + Len(old) \in 1..(Len(old) + Len(new)) /\ all[i + Len(old)] = new[i]
    <3> SUFFICES ASSUME NEW i \in 1..Len(new)
                 PROVE  i + Len(old) \in 1..(Len(old) + Len(new)) /\ all[i + Len(old)] = new[i]
      OBVIOUS
    <3>1. i + Len(old) \in 1..(Len(old) + Len(new)) /\ i + Len(old) > Len(old) /\ i + Len(old) - Len(old) = i
      BY <1>4
    <3>. QED BY <3>1, <1>4, <2>0
  <2>5. \A n \in 1..(Len(old) + Len(new)) :
          (\E k \in 1..Len(old) : all[n] = old[k]) \/ \E i \in 1..Len(new) : all[n] = new[i]
    <3> SUFFICES ASSUME NEW n \in 1..(Len(old) + Len(new)), n \notin 1..Len(old)
                 PROVE  \E i \in 1..Len(new) : all[n] = new[i]
      BY <1>4, <2>0
    <3>1. n - Len(old) \in 1..Len(new) /\ all[n] = new[n - Len(old)]
      BY <1>4, <2>0
    <3>. QED BY <3>1
  <2>6. \A p : p \in Packed(e)' <=> (p \in Packed(e) \/ \E i \in 1..Len(new) : p = new[i])
    <3>1. ASSUME NEW p \in Packed(e)' PROVE p \in Packed(e) \/ \E i \in 1..Len(new) : p = new[i]
      <4>1. PICK n \in 1..(Len(old) + Len(new)) : p = all[n]
        BY <2>2, <3>1
      <4>. QED BY <4>1, <2>1, <2>5
    <3>2. ASSUME NEW p \in Packed(e) PROVE p \in Packed(e)'
      <4>1. PICK n \in 1..Len(old) : p = old[n]
        BY <2>1, <3>2
      <4>. QED BY <4>1, <2>2, <2>3
    <3>3. ASSUME NEW i \in 1..Len(new) PROVE new[i] \in Packed(e)'
      BY <2>2, <2>4
    <3>. QED BY <3>1, <3>2, <3>3
  <2>. QED BY <2>6
<1>6. sent' \in [Packets!Ends -> Seq(Fragment)]
  BY <1>1, <1>3, <1>4
<1>7. \A c \in Packets!Ends : /\ DOMAIN sent[c] \subseteq DOMAIN sent'[c]
                              /\ \A n \in DOMAIN sent[c] : sent'[c][n] = sent[c][n]
  <2> SUFFICES ASSUME NEW c \in Packets!Ends
               PROVE  /\ DOMAIN sent[c] \subseteq DOMAIN sent'[c]
                      /\ \A n \in DOMAIN sent[c] : sent'[c][n] = sent[c][n]
    OBVIOUS
  <2>1. CASE c = e
    BY <2>1, <1>2, <1>3, <1>4
  <2>2. CASE c # e
    BY <2>2, <1>2
  <2>. QED BY <2>1, <2>2
<1>8. \A c \in Packets!Ends : c # e => Packed(c)' = Packed(c)
  BY <1>2 DEF Packed
<1>. QED BY <1>5, <1>6, <1>7, <1>8

LEMMA SentOne ==
  ASSUME PacketTypes, NEW e \in Packets!Ends, NEW p \in Fragment,
         sent' = [sent EXCEPT ![e] = Append(@, p)]
  PROVE  /\ sent' \in [Packets!Ends -> Seq(Fragment)]
         /\ \A c \in Packets!Ends : /\ DOMAIN sent[c] \subseteq DOMAIN sent'[c]
                                    /\ \A n \in DOMAIN sent[c] : sent'[c][n] = sent[c][n]
         /\ Packed(e)' = Packed(e) \cup {p}
         /\ \A c \in Packets!Ends : c # e => Packed(c)' = Packed(c)
<1>1. <<p>> \in Seq(Fragment) /\ \A i \in 1..Len(<<p>>) : <<p>>[i] = p
  OBVIOUS
<1>2. PICK old \in Seq(Fragment) : old = sent[e]
  BY DEF PacketTypes
<1>3. Append(old, p) = old \o <<p>>
  OBVIOUS
<1>4. Append(sent[e], p) = sent[e] \o <<p>>
  BY <1>2, <1>3
<1>5. sent' = [sent EXCEPT ![e] = @ \o <<p>>]
  BY <1>4
<1>6. PICK new \in Seq(Fragment) : new = <<p>>
  BY <1>1
<1>7. Len(new) = 1 /\ new[1] = p
  BY <1>6
<1>8. {new[i] : i \in 1..Len(new)} = {p}
  BY <1>7
<1>9. sent' = [sent EXCEPT ![e] = @ \o new]
  BY <1>5, <1>6
<1>. QED BY <1>8, <1>9, SentMore

-----------------------------------------------------------------------------
(* The parts of the invariant a step leaves alone.                         *)

LEMMA AssembliesIdle ==
  ASSUME DatagramInv, UNCHANGED <<assemblies, held>>, nextID' \in Nat, nextID <= nextID',
         \A d \in Packets!Ids : assemblies[d] # Packets!None => sizes'[d] = sizes[d],
         \A d \in Packets!Ids : Packets!Handled(d) \subseteq Packets!Handled(d)'
  PROVE  AssembliesKept'
<1>1. Packets!UnderAssembly' = Packets!UnderAssembly
  BY DEF Packets!UnderAssembly
<1>2. \A d \in Packets!Ids : assemblies[d] # Packets!None => d <= nextID'
  BY DatagramConstants DEF DatagramInv, AssembliesKept, DatagramTypes
<1>. QED BY <1>1, <1>2 DEF DatagramInv, AssembliesKept, Packets!None

LEMMA ChargesIdle ==
  ASSUME DatagramInv, UNCHANGED <<pending, outstanding>>, nextID' = nextID
  PROVE  ChargesKept'
<1>1. \A p : Packets!Awaited(p)' = Packets!Awaited(p)
  BY DEF Packets!Awaited
<1>. QED BY <1>1 DEF DatagramInv, ChargesKept

LEMMA ReceiptsIdle ==
  ASSUME DatagramInv, UNCHANGED <<delivered, confirmed>>, nextID' \in Nat, nextID <= nextID',
         \A p \in Packed("server")' : p \in Packed("server") \/ p.kind = "pong",
         \A d \in Packets!Ids : d <= nextID => sizes'[d] = sizes[d],
         \A d \in Packets!Ids : d <= nextID =>
           Packets!Handled(d) \subseteq Packets!Handled(d)' /\ Packets!Handled(d)' \subseteq 1..sizes[d]
  PROVE  ReceiptsKept'
<1>1. ASSUME NEW d \in Packets!Ids, Rebuilt(d) PROVE Rebuilt(d)'
  <2>1. delivered[d] = 1 /\ d <= nextID
    BY <1>1 DEF Rebuilt, DatagramInv, ReceiptsKept
  <2>. QED BY <1>1, <2>1, RebuiltStays
<1>2. ASSUME NEW p \in Packed("server")' PROVE True(p)'
  <2>1. CASE p \in Packed("server")
    BY <2>1, <1>1 DEF True, DatagramInv, ReceiptsKept
  <2>2. CASE p.kind = "pong"
    BY <2>2 DEF True
  <2>. QED BY <2>1, <2>2
<1>3. \A d \in confirmed' : Rebuilt(d)'
  BY <1>1 DEF DatagramInv, ReceiptsKept, DatagramTypes
<1>4. \A d \in Packets!Ids : delivered'[d] = 1 => d <= nextID'
  BY DatagramConstants DEF DatagramInv, ReceiptsKept, DatagramTypes
<1>. QED BY <1>2, <1>3, <1>4 DEF ReceiptsKept

LEMMA WindowsIdle ==
  ASSUME DatagramInv, UNCHANGED <<replay, handled, again, completed, delivered>>,
         \A c \in Packets!Ends : DOMAIN sent[c] \subseteq DOMAIN sent'[c]
  PROVE  WindowsKept'
<1>1. \A e \in Packets!Ends : Packets!Other(e) \in Packets!Ends
  BY DatagramConstants
<1>. QED BY <1>1 DEF DatagramInv, WindowsKept

LEMMA FragmentsIdle ==
  ASSUME DatagramInv, Packed("client")' = Packed("client"), UNCHANGED <<nextID, sizes>>
  PROVE  FragmentsKept'
<1>1. \A p \in Packed("client") : Right(p)
  BY DEF DatagramInv, FragmentsKept
<1>. QED BY <1>1 DEF FragmentsKept, Right

LEMMA DatagramInit == Packets!Init => DatagramInv
<1> SUFFICES ASSUME Packets!Init PROVE DatagramInv
  OBVIOUS
<1> USE DatagramConstants
<1>1. /\ sent = [e \in Packets!Ends |-> <<>>] /\ handled = [e \in Packets!Ends |-> {}]
      /\ replay = [e \in Packets!Ends |-> Packets!NewWindow] /\ completed = Packets!NewWindow
      /\ seen = {} /\ again = FALSE /\ nextID = 0 /\ sizes = [d \in Packets!Ids |-> 0]
      /\ assemblies = [d \in Packets!Ids |-> Packets!None] /\ held = 0 /\ pending = {}
      /\ outstanding = [p \in Paths |-> 0] /\ delivered = [d \in Packets!Ids |-> 0] /\ confirmed = {}
  BY DEF Packets!Init
<1>2. <<>> \in Seq(Fragment) /\ DOMAIN <<>> = {}
  OBVIOUS
<1>3. PacketTypes
  BY <1>1, <1>2, NewWindow DEF PacketTypes
<1>4. DatagramTypes
  BY <1>1 DEF DatagramTypes
<1>5. WindowsKept
  <2>1. {d \in Packets!Ids : delivered[d] # 0} = {}
    BY <1>1
  <2>. QED BY <1>1, <2>1, NewWindow DEF WindowsKept
<1>6. Packed("client") = {} /\ Packed("server") = {}
  BY <1>1, <1>2 DEF Packed
<1>7. FragmentsKept /\ ReceiptsKept
  BY <1>1, <1>6 DEF FragmentsKept, ReceiptsKept
<1>8. AssembliesKept
  <2>1. Packets!UnderAssembly = {}
    BY <1>1 DEF Packets!UnderAssembly
  <2>. QED BY <1>1, <2>1, FS_EmptySet DEF AssembliesKept
<1>9. ChargesKept
  <2>1. \A p \in Paths : Packets!Awaited(p) = {}
    BY <1>1 DEF Packets!Awaited
  <2>. QED BY <1>1, <2>1, FS_EmptySet DEF ChargesKept
<1>. QED BY <1>3, <1>4, <1>5, <1>7, <1>8, <1>9 DEF DatagramInv

-----------------------------------------------------------------------------
(* tick: pings, and paths nothing was heard from.                          *)

LEMMA PingKeeps ==
  ASSUME DatagramInv, NEW path \in Paths, Packets!Ping(path)
  PROVE  DatagramInv'
<1>1. /\ UNCHANGED <<replay, seen, handled, again, completed, assemblies, held, delivered>>
      /\ UNCHANGED <<pending, outstanding, nextID, sizes, confirmed>>
      /\ sent' = [sent EXCEPT !["client"] = Append(@, Packets!Probe(path, 0))]
  BY DEF Packets!Ping, Packets!serverVars, Packets!clientVars
<1>2. "client" \in Packets!Ends /\ "server" \in Packets!Ends
  BY DatagramConstants
<1>3. Packets!Probe(path, 0) \in Fragment /\ Packets!Probe(path, 0).kind = "ping"
  BY DEF Packets!Probe, Packets!Packet, Fragment
<1>4. PICK p \in Fragment : p = Packets!Probe(path, 0)
  BY <1>3
<1>5. sent' = [sent EXCEPT !["client"] = Append(@, p)] /\ p.kind = "ping"
  BY <1>1, <1>3, <1>4
<1>6. PacketTypes
  BY DEF DatagramInv
<1>7. /\ sent' \in [Packets!Ends -> Seq(Fragment)]
      /\ \A c \in Packets!Ends : DOMAIN sent[c] \subseteq DOMAIN sent'[c]
      /\ \A n \in DOMAIN sent["client"] : sent'["client"][n] = sent["client"][n]
      /\ Packed("client")' = Packed("client") \cup {p} /\ Packed("server")' = Packed("server")
  BY <1>2, <1>5, <1>6, SentOne
<1>8. PacketTypes' /\ DatagramTypes'
  BY <1>1, <1>7 DEF DatagramInv, PacketTypes, DatagramTypes
<1>9. \A d : Packets!Handled(d)' = Packets!Handled(d)
  BY <1>1, <1>7, HandledStays
<1>10. FragmentsKept'
  BY <1>1, <1>5, <1>7 DEF DatagramInv, FragmentsKept, Right
<1>11. nextID \in Nat
  BY DatagramConstants DEF DatagramInv, DatagramTypes
<1>12. ReceiptsKept'
  BY <1>1, <1>7, <1>9, <1>11, HandledIn, ReceiptsIdle
<1>13. AssembliesKept'
  BY <1>1, <1>9, <1>11, AssembliesIdle
<1>. QED BY <1>1, <1>7, <1>8, <1>10, <1>12, <1>13, WindowsIdle, ChargesIdle DEF DatagramInv

LEMMA PathFadesKeeps ==
  ASSUME DatagramInv, NEW path \in Paths, Packets!PathFades(path)
  PROVE  DatagramInv'
<1>1. /\ UNCHANGED <<sent, replay, handled, again, completed, assemblies, held, delivered>>
      /\ UNCHANGED <<pending, outstanding, nextID, sizes, confirmed>>
      /\ seen' = seen \ {path}
  BY DEF Packets!PathFades, Packets!serverVars, Packets!clientVars
<1>2. PacketTypes' /\ DatagramTypes'
  BY <1>1 DEF DatagramInv, PacketTypes, DatagramTypes
<1>3. Packed("client")' = Packed("client") /\ Packed("server")' = Packed("server")
  BY <1>1 DEF Packed
<1>4. \A d : Packets!Handled(d)' = Packets!Handled(d)
  BY <1>1 DEF Packets!Handled
<1>5. nextID \in Nat
  BY DatagramConstants DEF DatagramInv, DatagramTypes
<1>6. ReceiptsKept'
  BY <1>1, <1>3, <1>4, <1>5, HandledIn, ReceiptsIdle
<1>7. AssembliesKept'
  BY <1>1, <1>4, <1>5, AssembliesIdle
<1>. QED BY <1>1, <1>2, <1>3, <1>6, <1>7, WindowsIdle, ChargesIdle, FragmentsIdle DEF DatagramInv

-----------------------------------------------------------------------------
(* What a datagram is charged, and credited.                               *)

(* The fragments of the datagrams that await a receipt, one by one.        *)
LEMMA AwaitedRows ==
  ASSUME NEW p, NEW x
  PROVE  x \in Packets!Awaited(p) <=> \E d \in pending : d.path = p /\ x \in {d} \X (1..d.size)
BY DEF Packets!Awaited

LEMMA AwaitedRowsNext ==
  ASSUME NEW p, NEW x
  PROVE  x \in Packets!Awaited(p)' <=> \E d \in pending' : d.path = p /\ x \in {d} \X (1..d.size)
BY DEF Packets!Awaited

LEMMA CreditKeeps ==
  ASSUME DatagramInv, NEW d \in pending, pending' = pending \ {d},
         outstanding' = Packets!Credit(d.path, d.size), nextID' = nextID
  PROVE  ChargesKept' /\ outstanding' \in [Paths -> Nat]
<1>1. d.path \in Paths /\ d.size \in Nat /\ outstanding \in [Paths -> Nat]
  BY DEF DatagramInv, DatagramTypes
<1> DEFINE R == {d} \X (1..d.size)
           S == Packets!Awaited(d.path)
<1>2. IsFiniteSet(S) /\ outstanding[d.path] = Cardinality(S)
  BY <1>1 DEF DatagramInv, ChargesKept
<1>3. R \subseteq S
  BY AwaitedRows
<1>4. Packets!Awaited(d.path)' = S \ R
  <2>1. ASSUME NEW x PROVE x \in Packets!Awaited(d.path)' <=> x \in S \ R
    <3>1. ASSUME NEW c \in pending, c # d PROVE ({c} \X (1..c.size)) \cap R = {}
      BY <3>1
    <3>2. x \in Packets!Awaited(d.path)' <=> \E c \in pending \ {d} : c.path = d.path /\ x \in {c} \X (1..c.size)
      BY AwaitedRowsNext
    <3>3. x \in S <=> \E c \in pending : c.path = d.path /\ x \in {c} \X (1..c.size)
      BY AwaitedRows
    <3> HIDE DEF R, S
    <3>. QED BY <3>1, <3>2, <3>3 DEF R
  <2>. QED BY <2>1
<1>5. \A p \in Paths : p # d.path => Packets!Awaited(p)' = Packets!Awaited(p)
  <2> SUFFICES ASSUME NEW p \in Paths, p # d.path, NEW x PROVE x \in Packets!Awaited(p)' <=> x \in Packets!Awaited(p)
    OBVIOUS
  <2>1. x \in Packets!Awaited(p)' <=> \E c \in pending \ {d} : c.path = p /\ x \in {c} \X (1..c.size)
    BY AwaitedRowsNext
  <2>2. x \in Packets!Awaited(p) <=> \E c \in pending : c.path = p /\ x \in {c} \X (1..c.size)
    BY AwaitedRows
  <2>. QED BY <2>1, <2>2
<1>6. /\ IsFiniteSet(S \ R) /\ Cardinality(S \ R) = Cardinality(S) - d.size
      /\ Cardinality(S) \in Nat /\ d.size <= Cardinality(S)
  BY <1>1, <1>2, <1>3, RowTaken
<1>7. outstanding' = [outstanding EXCEPT ![d.path] = Cardinality(S) - d.size]
  <2>1. PICK c \in Nat : c = Cardinality(S)
    BY <1>6
  <2>2. (IF outstanding[d.path] > d.size THEN outstanding[d.path] - d.size ELSE 0) = c - d.size
    BY <1>1, <1>2, <1>6, <2>1
  <2>. QED BY <2>1, <2>2 DEF Packets!Credit
<1>8. outstanding' \in [Paths -> Nat] /\ outstanding'[d.path] = Cardinality(S \ R)
      /\ \A p \in Paths : p # d.path => outstanding'[p] = outstanding[p]
  BY <1>1, <1>6, <1>7
<1> HIDE DEF R, S
<1>9. \A p \in Paths : /\ IsFiniteSet(Packets!Awaited(p)') /\ outstanding'[p] = Cardinality(Packets!Awaited(p)')
  <2> SUFFICES ASSUME NEW p \in Paths
               PROVE  IsFiniteSet(Packets!Awaited(p)') /\ outstanding'[p] = Cardinality(Packets!Awaited(p)')
    OBVIOUS
  <2>1. CASE p = d.path
    BY <2>1, <1>4, <1>6, <1>8
  <2>2. CASE p # d.path
    BY <2>2, <1>5, <1>8 DEF DatagramInv, ChargesKept
  <2>. QED BY <2>1, <2>2
<1>. QED BY <1>8, <1>9 DEF DatagramInv, ChargesKept

LEMMA ChargeKeeps ==
  ASSUME DatagramInv, NEW path \in Paths, NEW count \in Nat, nextID' = nextID + 1,
         NEW d, d = [id |-> nextID + 1, path |-> path, size |-> count],
         pending' = pending \cup {d}, Packets!Charge(path, count)
  PROVE  ChargesKept' /\ outstanding' \in [Paths -> Nat]
<1>1. d.path = path /\ d.size = count /\ d.id = nextID + 1 /\ outstanding \in [Paths -> Nat] /\ nextID \in Nat
  BY DatagramConstants DEF DatagramInv, DatagramTypes
<1>2. \A c \in pending : c.id <= nextID /\ c.id \in Nat /\ c # d
  <2>1. \A c \in pending : c.id <= nextID /\ c.id \in Nat
    BY DatagramConstants DEF DatagramInv, DatagramTypes, ChargesKept
  <2>. QED BY <1>1, <2>1
<1> DEFINE R == {d} \X (1..count)
           S == Packets!Awaited(path)
<1>3. IsFiniteSet(S) /\ outstanding[path] = Cardinality(S)
  BY <1>1 DEF DatagramInv, ChargesKept
<1>4. S \cap R = {}
  <2>1. ASSUME NEW x \in S, x \in R PROVE FALSE
    <3>1. PICK c \in pending : x \in {c} \X (1..c.size)
      BY <2>1, AwaitedRows
    <3>. QED BY <1>2, <2>1, <3>1
  <2>. QED BY <2>1
<1>5. Packets!Awaited(path)' = S \cup R
  <2>1. ASSUME NEW x PROVE x \in Packets!Awaited(path)' <=> x \in S \cup R
    <3>1. x \in Packets!Awaited(path)' <=> \E c \in pending \cup {d} : c.path = path /\ x \in {c} \X (1..c.size)
      BY AwaitedRowsNext
    <3>2. x \in S <=> \E c \in pending : c.path = path /\ x \in {c} \X (1..c.size)
      BY AwaitedRows
    <3> HIDE DEF S
    <3>. QED BY <1>1, <3>1, <3>2
  <2>. QED BY <2>1
<1>6. \A p \in Paths : p # path => Packets!Awaited(p)' = Packets!Awaited(p)
  <2> SUFFICES ASSUME NEW p \in Paths, p # path, NEW x PROVE x \in Packets!Awaited(p)' <=> x \in Packets!Awaited(p)
    OBVIOUS
  <2>1. x \in Packets!Awaited(p)' <=> \E c \in pending \cup {d} : c.path = p /\ x \in {c} \X (1..c.size)
    BY AwaitedRowsNext
  <2>2. x \in Packets!Awaited(p) <=> \E c \in pending : c.path = p /\ x \in {c} \X (1..c.size)
    BY AwaitedRows
  <2>. QED BY <1>1, <2>1, <2>2
<1>7. IsFiniteSet(S \cup R) /\ Cardinality(S \cup R) = Cardinality(S) + count /\ Cardinality(S) \in Nat
  BY <1>3, <1>4, RowAdded, FS_CardinalityType
<1>8. /\ outstanding' \in [Paths -> Nat] /\ outstanding'[path] = Cardinality(S \cup R)
      /\ \A p \in Paths : p # path => outstanding'[p] = outstanding[p]
  BY <1>1, <1>3, <1>7 DEF Packets!Charge
<1> HIDE DEF R, S
<1>9. \A p \in Paths : IsFiniteSet(Packets!Awaited(p)') /\ outstanding'[p] = Cardinality(Packets!Awaited(p)')
  <2> SUFFICES ASSUME NEW p \in Paths
               PROVE  IsFiniteSet(Packets!Awaited(p)') /\ outstanding'[p] = Cardinality(Packets!Awaited(p)')
    OBVIOUS
  <2>1. CASE p = path
    BY <2>1, <1>5, <1>7, <1>8
  <2>2. CASE p # path
    BY <2>2, <1>6, <1>8 DEF DatagramInv, ChargesKept
  <2>. QED BY <2>1, <2>2
<1>10. \A c, b \in pending' : c.id = b.id => c = b
  <2>1. \A c \in pending : c.id # d.id
    BY <1>1, <1>2
  <2>. QED BY <2>1 DEF DatagramInv, ChargesKept
<1>11. \A c \in pending' : c.id <= nextID'
  BY <1>1, <1>2
<1>. QED BY <1>8, <1>9, <1>10, <1>11 DEF ChargesKept

(* send: its fragments, those written and the one that could not be.       *)
Cut(path, id, count, written) ==
  [i \in 1..(IF written < count THEN written + 1 ELSE count) |->
     IF i <= written THEN Packets!Packet("data", path, id, i, count)
     ELSE Packets!Packet("unsent", path, id, i, count)]

LEMMA CutRight ==
  ASSUME NEW path \in Paths, NEW id \in Nat, NEW count \in Nat, NEW written \in 0..count
  PROVE  /\ Cut(path, id, count, written) \in Seq(Fragment)
         /\ \A i \in 1..Len(Cut(path, id, count, written)) :
              LET p == Cut(path, id, count, written)[i]
              IN p.kind \in {"data", "unsent"} /\ p.id = id /\ p.count = count /\ p.index \in 1..count
<1> DEFINE s == Cut(path, id, count, written)
           n == IF written < count THEN written + 1 ELSE count
<1>1. n \in Nat /\ n <= count
  OBVIOUS
<1>2. s = [i \in 1..n |-> IF i <= written THEN Packets!Packet("data", path, id, i, count)
                          ELSE Packets!Packet("unsent", path, id, i, count)]
  BY DEF Cut
<1>3. \A kind, i : /\ Packets!Packet(kind, path, id, i, count).kind = kind
                   /\ Packets!Packet(kind, path, id, i, count).id = id
                   /\ Packets!Packet(kind, path, id, i, count).count = count
                   /\ Packets!Packet(kind, path, id, i, count).index = i
  BY DEF Packets!Packet
<1>4. \A kind \in {"data", "unsent"} : \A i \in 1..n : Packets!Packet(kind, path, id, i, count) \in Fragment
  BY <1>1 DEF Packets!Packet, Fragment
<1> HIDE DEF s, n
<1>5. \A i \in 1..n : s[i] \in Fragment /\ \E kind \in {"data", "unsent"} : s[i] = Packets!Packet(kind, path, id, i, count)
  BY <1>2, <1>4
<1>6. s \in Seq(Fragment) /\ Len(s) = n
  BY <1>1, <1>2, <1>5
<1>7. \A i \in 1..n : s[i].kind \in {"data", "unsent"} /\ s[i].id = id /\ s[i].count = count /\ s[i].index = i /\ i \in 1..count
  BY <1>1, <1>3, <1>5
<1>. QED BY <1>6, <1>7 DEF s

LEMMA SendKeeps ==
  ASSUME DatagramInv, NEW path \in Paths, NEW count \in 1..MaxFragments, Packets!Send(path, count)
  PROVE  DatagramInv'
<1> DEFINE id == nextID + 1
<1>0. DatagramTypes /\ nextID \in Nat /\ nextID < MaxDatagrams /\ count \in Nat /\ count > 0 /\ id \in Packets!Ids /\ id \in Nat
  BY DatagramConstants DEF Packets!Send, DatagramInv, DatagramTypes
<1>1. /\ UNCHANGED <<replay, seen, handled, again, completed, assemblies, held, delivered, confirmed>>
      /\ nextID' = id /\ sizes' = [sizes EXCEPT ![id] = count]
  BY DEF Packets!Send, Packets!serverVars
<1>2. PICK written \in 0..count :
        /\ sent' = [sent EXCEPT !["client"] = @ \o Cut(path, id, count, written)]
        /\ IF written = count
           THEN /\ Packets!Charge(path, count)
                /\ pending' = pending \cup {[id |-> id, path |-> path, size |-> count]}
           ELSE UNCHANGED <<outstanding, pending>>
  BY <1>1, Zenon DEF Packets!Send, Cut
<1>3. "client" \in Packets!Ends /\ "server" \in Packets!Ends /\ PacketTypes
  BY DatagramConstants DEF DatagramInv
<1>4. PICK new \in Seq(Fragment) :
        /\ new = Cut(path, id, count, written)
        /\ \A i \in 1..Len(new) : /\ new[i].kind \in {"data", "unsent"} /\ new[i].id = id
                                  /\ new[i].count = count /\ new[i].index \in 1..count
  <2>1. PICK k \in Nat : k = id
    BY <1>0
  <2>2. PICK c \in Nat : c = count
    BY <1>0
  <2>3. written \in 0..c
    BY <2>2
  <2>4. /\ Cut(path, k, c, written) \in Seq(Fragment)
        /\ \A i \in 1..Len(Cut(path, k, c, written)) :
             LET p == Cut(path, k, c, written)[i]
             IN p.kind \in {"data", "unsent"} /\ p.id = k /\ p.count = c /\ p.index \in 1..c
    BY <2>3, CutRight
  <2> HIDE DEF id
  <2>. QED BY <2>1, <2>2, <2>4
<1>5. /\ sent' \in [Packets!Ends -> Seq(Fragment)]
      /\ \A c \in Packets!Ends : DOMAIN sent[c] \subseteq DOMAIN sent'[c]
      /\ \A n \in DOMAIN sent["client"] : sent'["client"][n] = sent["client"][n]
      /\ Packed("client")' = Packed("client") \cup {new[i] : i \in 1..Len(new)}
      /\ Packed("server")' = Packed("server")
  <2>1. sent' = [sent EXCEPT !["client"] = @ \o new]
    BY <1>2, <1>4
  <2>. QED BY <1>3, <2>1, SentMore
<1> HIDE DEF id
<1>6. /\ \A d \in Packets!Ids : d <= nextID => sizes'[d] = sizes[d] /\ d # id
      /\ sizes'[id] = count /\ sizes' \in [Packets!Ids -> 0..MaxFragments]
      /\ nextID' \in Nat /\ nextID <= nextID' /\ nextID' \in 0..MaxDatagrams
  <2>1. \A d \in Packets!Ids : d <= nextID => d # id
    BY <1>0 DEF id, Packets!Ids
  <2>2. nextID' \in Nat /\ nextID <= nextID' /\ nextID' \in 0..MaxDatagrams
    BY <1>0, <1>1, DatagramConstants DEF id
  <2>. QED BY <1>0, <1>1, <2>1, <2>2 DEF DatagramTypes
<1>7. \A d : Packets!Handled(d)' = Packets!Handled(d)
  BY <1>1, <1>5, HandledStays
<1>8. ChargesKept' /\ outstanding' \in [Paths -> Nat]
      /\ pending' \subseteq [id : Packets!Ids, path : Paths, size : Nat]
  <2>1. CASE written = count
    <3>1. PICK d : d = [id |-> id, path |-> path, size |-> count]
      OBVIOUS
    <3>2. Packets!Charge(path, count) /\ pending' = pending \cup {d}
      BY <1>2, <2>1, <3>1
    <3>3. ChargesKept' /\ outstanding' \in [Paths -> Nat]
      BY <1>0, <1>1, <3>1, <3>2, ChargeKeeps DEF id
    <3>4. d \in [id : Packets!Ids, path : Paths, size : Nat]
      BY <1>0, <3>1
    <3>. QED BY <1>0, <3>2, <3>3, <3>4 DEF DatagramTypes
  <2>2. CASE written # count
    <3>1. UNCHANGED <<outstanding, pending>>
      BY <1>2, <2>2
    <3>2. \A p : Packets!Awaited(p)' = Packets!Awaited(p)
      BY <3>1 DEF Packets!Awaited
    <3>3. \A d \in pending : d.id <= nextID /\ d.id \in Nat
      BY <1>0, DatagramConstants DEF DatagramInv, ChargesKept, DatagramTypes
    <3>4. \A d \in pending' : d.id <= nextID'
      BY <1>0, <1>6, <3>1, <3>3
    <3>5. ChargesKept'
      BY <3>1, <3>2, <3>4 DEF DatagramInv, ChargesKept
    <3>. QED BY <1>0, <3>1, <3>5 DEF DatagramTypes
  <2>. QED BY <2>1, <2>2
<1>9. PacketTypes' /\ DatagramTypes'
  BY <1>1, <1>5, <1>6, <1>8 DEF DatagramInv, PacketTypes, DatagramTypes
<1>10. FragmentsKept'
  <2>1. ASSUME NEW p \in Packed("client") PROVE Right(p)'
    <3>1. Right(p)
      BY DEF DatagramInv, FragmentsKept
    <3>2. p.kind # "ping" => p.id \in Packets!Ids /\ p.id <= nextID
      BY <1>0, <3>1, DatagramConstants DEF Right
    <3>3. p.kind # "ping" => sizes'[p.id] = sizes[p.id]
      BY <1>6, <3>2
    <3>4. p.kind # "ping" => p.id \in 1..nextID'
      BY <1>0, <1>6, <3>1 DEF Right
    <3>. QED BY <3>1, <3>3, <3>4 DEF Right
  <2>2. ASSUME NEW i \in 1..Len(new) PROVE Right(new[i])'
    <3>1. id \in 1..nextID'
      BY <1>0, <1>1 DEF id
    <3>. QED BY <1>4, <1>6, <3>1 DEF Right
  <2>3. \A p \in Packed("client")' : Right(p)'
    BY <1>5, <2>1, <2>2
  <2>. QED BY <2>3 DEF FragmentsKept
<1>11. ReceiptsKept'
  BY <1>1, <1>5, <1>6, <1>7, HandledIn, ReceiptsIdle
<1>12. AssembliesKept'
  <2>1. \A d \in Packets!Ids : assemblies[d] # Packets!None => sizes'[d] = sizes[d]
    BY <1>6 DEF DatagramInv, AssembliesKept
  <2>. QED BY <1>1, <1>6, <1>7, <2>1, AssembliesIdle
<1>. QED BY <1>1, <1>5, <1>8, <1>9, <1>10, <1>11, <1>12, WindowsIdle DEF DatagramInv

-----------------------------------------------------------------------------
(* tick: what waited too long.                                             *)

LEMMA ReceiptExpiresKeeps ==
  ASSUME DatagramInv, NEW d \in pending, Packets!ReceiptExpires(d)
  PROVE  DatagramInv'
<1>1. /\ UNCHANGED <<sent, replay, handled, again, completed, assemblies, held, delivered>>
      /\ UNCHANGED <<nextID, sizes, confirmed, seen>>
      /\ pending' = pending \ {d} /\ outstanding' = Packets!Credit(d.path, d.size)
  BY DEF Packets!ReceiptExpires, Packets!serverVars, Packets!Uncharged
<1>2. ChargesKept' /\ outstanding' \in [Paths -> Nat]
  BY <1>1, CreditKeeps
<1>3. PacketTypes' /\ DatagramTypes'
  BY <1>1, <1>2 DEF DatagramInv, PacketTypes, DatagramTypes
<1>4. Packed("client")' = Packed("client") /\ Packed("server")' = Packed("server")
  BY <1>1 DEF Packed
<1>5. \A c : Packets!Handled(c)' = Packets!Handled(c)
  BY <1>1 DEF Packets!Handled
<1>6. nextID \in Nat
  BY DatagramConstants DEF DatagramInv, DatagramTypes
<1>7. ReceiptsKept'
  BY <1>1, <1>4, <1>5, <1>6, HandledIn, ReceiptsIdle
<1>8. AssembliesKept'
  BY <1>1, <1>5, <1>6, AssembliesIdle
<1>. QED BY <1>1, <1>2, <1>3, <1>4, <1>7, <1>8, WindowsIdle, FragmentsIdle DEF DatagramInv

(* The rows of the datagrams under assembly.                               *)
LEMMA AssemblyRows ==
  ASSUME NEW x
  PROVE  x \in Packets!UnderAssembly <=>
           \E d \in Packets!Ids : assemblies[d] # Packets!None /\ x \in {d} \X (1..sizes[d])
BY DEF Packets!UnderAssembly

LEMMA AssemblyRowsNext ==
  ASSUME NEW x
  PROVE  x \in Packets!UnderAssembly' <=>
           \E d \in Packets!Ids : assemblies'[d] # Packets!None /\ x \in {d} \X (1..sizes'[d])
BY DEF Packets!UnderAssembly, Packets!None

(* An assembly ends and gives its room back, or begins and takes it.       *)
LEMMA AssemblyEnds ==
  ASSUME DatagramInv, NEW d \in Packets!Ids, assemblies[d] # Packets!None,
         assemblies' = [assemblies EXCEPT ![d] = Packets!None], sizes' = sizes
  PROVE  /\ IsFiniteSet(Packets!UnderAssembly') /\ Cardinality(Packets!UnderAssembly') = held - sizes[d]
         /\ held - sizes[d] \in Nat /\ held - sizes[d] <= AssemblyLimit
<1>1. assemblies \in [Packets!Ids -> SUBSET Nat] /\ sizes[d] \in Nat
  BY DatagramConstants DEF DatagramInv, DatagramTypes
<1>2. assemblies'[d] = Packets!None /\ \A c \in Packets!Ids : c # d => assemblies'[c] = assemblies[c]
  BY <1>1
<1> DEFINE R == {d} \X (1..sizes[d])
           S == Packets!UnderAssembly
<1>3. R \subseteq S
  BY AssemblyRows
<1>4. Packets!UnderAssembly' = S \ R
  <2>1. ASSUME NEW x PROVE x \in Packets!UnderAssembly' <=> x \in S \ R
    <3>1. ASSUME NEW c \in Packets!Ids, c # d PROVE ({c} \X (1..sizes[c])) \cap R = {}
      BY <3>1
    <3>2. x \in Packets!UnderAssembly' <=>
            \E c \in Packets!Ids : assemblies'[c] # Packets!None /\ x \in {c} \X (1..sizes[c])
      BY AssemblyRowsNext
    <3>3. x \in S <=> \E c \in Packets!Ids : assemblies[c] # Packets!None /\ x \in {c} \X (1..sizes[c])
      BY AssemblyRows
    <3> HIDE DEF R, S
    <3>. QED BY <1>2, <3>1, <3>2, <3>3 DEF R
  <2>. QED BY <2>1
<1>5. IsFiniteSet(S) /\ held = Cardinality(S) /\ held <= AssemblyLimit
  BY DEF DatagramInv, AssembliesKept
<1>6. IsFiniteSet(S \ R) /\ Cardinality(S \ R) = held - sizes[d] /\ held \in Nat /\ sizes[d] <= held
  BY <1>1, <1>3, <1>5, RowTaken
<1>. QED BY <1>1, <1>4, <1>5, <1>6, DatagramConstants

LEMMA AssemblyBegins ==
  ASSUME DatagramInv, NEW d \in Packets!Ids, assemblies[d] = Packets!None,
         NEW parts, parts # Packets!None, assemblies' = [assemblies EXCEPT ![d] = parts], sizes' = sizes
  PROVE  /\ IsFiniteSet(Packets!UnderAssembly') /\ Cardinality(Packets!UnderAssembly') = held + sizes[d]
<1>1. assemblies \in [Packets!Ids -> SUBSET Nat] /\ sizes[d] \in Nat
  BY DatagramConstants DEF DatagramInv, DatagramTypes
<1>2. assemblies'[d] = parts /\ \A c \in Packets!Ids : c # d => assemblies'[c] = assemblies[c]
  BY <1>1
<1> DEFINE R == {d} \X (1..sizes[d])
           S == Packets!UnderAssembly
<1>3. S \cap R = {}
  <2>1. ASSUME NEW x \in S, x \in R PROVE FALSE
    <3>1. PICK c \in Packets!Ids : assemblies[c] # Packets!None /\ x \in {c} \X (1..sizes[c])
      BY AssemblyRows
    <3>. QED BY <2>1, <3>1
  <2>. QED BY <2>1
<1>4. Packets!UnderAssembly' = S \cup R
  <2>1. ASSUME NEW x PROVE x \in Packets!UnderAssembly' <=> x \in S \cup R
    <3>1. x \in Packets!UnderAssembly' <=>
            \E c \in Packets!Ids : assemblies'[c] # Packets!None /\ x \in {c} \X (1..sizes[c])
      BY AssemblyRowsNext
    <3>2. x \in S <=> \E c \in Packets!Ids : assemblies[c] # Packets!None /\ x \in {c} \X (1..sizes[c])
      BY AssemblyRows
    <3> HIDE DEF S
    <3>. QED BY <1>2, <3>1, <3>2
  <2>. QED BY <2>1
<1>5. IsFiniteSet(S) /\ held = Cardinality(S)
  BY DEF DatagramInv, AssembliesKept
<1>. QED BY <1>1, <1>3, <1>4, <1>5, RowAdded

LEMMA AssemblyExpiresKeeps ==
  ASSUME DatagramInv, NEW d \in Packets!Ids, Packets!AssemblyExpires(d)
  PROVE  DatagramInv'
<1>1. /\ UNCHANGED <<sent, replay, handled, again, completed, delivered>>
      /\ UNCHANGED <<pending, outstanding, nextID, sizes, confirmed, seen>>
      /\ assemblies[d] # Packets!None /\ assemblies' = [assemblies EXCEPT ![d] = Packets!None]
      /\ held' = held - sizes[d]
  BY DEF Packets!AssemblyExpires, Packets!clientVars, Packets!Freed
<1>2. /\ IsFiniteSet(Packets!UnderAssembly') /\ held' = Cardinality(Packets!UnderAssembly')
      /\ held' \in Nat /\ held' <= AssemblyLimit
  BY <1>1, AssemblyEnds
<1>3. assemblies' \in [Packets!Ids -> SUBSET Nat]
  BY <1>1, DatagramConstants DEF DatagramInv, DatagramTypes
<1>4. PacketTypes' /\ DatagramTypes'
  BY <1>1, <1>2, <1>3 DEF DatagramInv, PacketTypes, DatagramTypes
<1>5. Packed("client")' = Packed("client") /\ Packed("server")' = Packed("server")
  BY <1>1 DEF Packed
<1>6. \A c : Packets!Handled(c)' = Packets!Handled(c)
  BY <1>1 DEF Packets!Handled
<1>7. nextID \in Nat
  BY DatagramConstants DEF DatagramInv, DatagramTypes
<1>8. ReceiptsKept'
  BY <1>1, <1>5, <1>6, <1>7, HandledIn, ReceiptsIdle
<1>9. AssembliesKept'
  <2>1. \A c \in Packets!Ids : assemblies'[c] # Packets!None => assemblies'[c] = assemblies[c]
    BY <1>1 DEF DatagramInv, DatagramTypes
  <2>2. \A c \in Packets!Ids : assemblies'[c] # Packets!None =>
          c <= nextID' /\ assemblies'[c] \subseteq Packets!Handled(c)'
    BY <1>1, <1>6, <2>1 DEF DatagramInv, AssembliesKept
  <2>. QED BY <1>2, <2>2 DEF AssembliesKept, Packets!None
<1>. QED BY <1>1, <1>4, <1>5, <1>8, <1>9, WindowsIdle, ChargesIdle, FragmentsIdle DEF DatagramInv

-----------------------------------------------------------------------------
(* receive.                                                                *)

(* What a receiver commits, it has not committed before.                   *)
LEMMA CommitKeeps ==
  ASSUME DatagramInv, NEW e \in Packets!Ends, NEW n \in DOMAIN sent[Packets!Other(e)],
         Packets!Fresh(replay[e], n), Packets!Commits(e, n)
  PROVE  /\ replay' \in [Packets!Ends -> Slots] /\ handled' \in [Packets!Ends -> SUBSET Nat] /\ again' = FALSE
         /\ \A c \in Packets!Ends : WindowKept(replay'[c], handled'[c])
         /\ \A c \in Packets!Ends : handled'[c] \subseteq DOMAIN sent[Packets!Other(c)]
         /\ handled'[e] = handled[e] \cup {n} /\ \A c \in Packets!Ends : c # e => handled'[c] = handled[c]
<1>1. /\ replay' = [replay EXCEPT ![e] = Packets!Slid(replay[e], n)]
      /\ handled' = [handled EXCEPT ![e] = handled[e] \cup {n}]
      /\ again' = (again \/ n \in handled[e])
  BY DEF Packets!Commits
<1>2. /\ replay \in [Packets!Ends -> Slots] /\ handled \in [Packets!Ends -> SUBSET Nat] /\ ~again
      /\ \A c \in Packets!Ends : WindowKept(replay[c], handled[c])
      /\ \A c \in Packets!Ends : handled[c] \subseteq DOMAIN sent[Packets!Other(c)]
  BY DEF DatagramInv, PacketTypes, WindowsKept
<1>3. n \in Nat
  <2>1. Packets!Other(e) \in Packets!Ends
    BY DatagramConstants
  <2>2. sent[Packets!Other(e)] \in Seq(Fragment)
    BY <2>1 DEF DatagramInv, PacketTypes
  <2>. QED BY <2>2
<1>4. PICK w \in Slots : w = replay[e]
  BY <1>2
<1>5. PICK H \in SUBSET Nat : H = handled[e]
  BY <1>2
<1>6. n \notin H /\ Packets!Slid(w, n) \in Slots /\ WindowKept(Packets!Slid(w, n), H \cup {n})
  BY <1>2, <1>3, <1>4, <1>5, WindowSlides
<1>7. replay' \in [Packets!Ends -> Slots] /\ handled' \in [Packets!Ends -> SUBSET Nat] /\ again' = FALSE
  BY <1>1, <1>2, <1>3, <1>4, <1>5, <1>6
<1>8. handled'[e] = handled[e] \cup {n} /\ \A c \in Packets!Ends : c # e => handled'[c] = handled[c]
  BY <1>1, <1>2
<1>9. replay'[e] = Packets!Slid(w, n) /\ \A c \in Packets!Ends : c # e => replay'[c] = replay[c]
  BY <1>1, <1>2, <1>4
<1>10. \A c \in Packets!Ends : WindowKept(replay'[c], handled'[c])
  <2> SUFFICES ASSUME NEW c \in Packets!Ends PROVE WindowKept(replay'[c], handled'[c])
    OBVIOUS
  <2>1. CASE c = e
    BY <2>1, <1>5, <1>6, <1>8, <1>9
  <2>2. CASE c # e
    BY <2>2, <1>2, <1>8, <1>9
  <2>. QED BY <2>1, <2>2
<1>11. \A c \in Packets!Ends : handled'[c] \subseteq DOMAIN sent[Packets!Other(c)]
  BY <1>2, <1>8
<1>. QED BY <1>7, <1>8, <1>10, <1>11

(* The server has handled one more packet: what it knows of the datagrams. *)
LEMMA HandledMore ==
  ASSUME DatagramInv, NEW n \in DOMAIN sent["client"], handled'["server"] = handled["server"] \cup {n},
         sent'["client"] = sent["client"], NEW d
  PROVE  Packets!Handled(d)' =
           Packets!Handled(d) \cup {i \in {sent["client"][n].index} : sent["client"][n].kind = "data" /\ sent["client"][n].id = d}
<1>1. ASSUME NEW i PROVE i \in Packets!Handled(d) <=>
        \E k \in handled["server"] : sent["client"][k].kind = "data" /\ sent["client"][k].id = d /\ i = sent["client"][k].index
  BY DEF Packets!Handled
<1>2. ASSUME NEW i PROVE i \in Packets!Handled(d)' <=>
        \E k \in handled["server"] \cup {n} :
           sent["client"][k].kind = "data" /\ sent["client"][k].id = d /\ i = sent["client"][k].index
  BY DEF Packets!Handled
<1>. QED BY <1>1, <1>2

LEMMA HandledFragment ==
  ASSUME DatagramInv, NEW n \in DOMAIN sent["client"], handled'["server"] = handled["server"] \cup {n},
         sent'["client"] = sent["client"]
  PROVE  \A d \in Packets!Ids : /\ Packets!Handled(d) \subseteq Packets!Handled(d)'
                                /\ Packets!Handled(d)' \subseteq 1..sizes[d]
<1> SUFFICES ASSUME NEW d \in Packets!Ids
             PROVE  Packets!Handled(d) \subseteq Packets!Handled(d)' /\ Packets!Handled(d)' \subseteq 1..sizes[d]
  OBVIOUS
<1>1. Right(sent["client"][n])
  BY DEF DatagramInv, FragmentsKept, Packed
<1>2. Packets!Handled(d) \subseteq 1..sizes[d]
  BY HandledIn
<1>. QED BY <1>1, <1>2, HandledMore DEF Right

(* A ping is answered.                                                     *)
LEMMA ReceivePingKeeps ==
  ASSUME DatagramInv, NEW n \in DOMAIN sent["client"], Packets!Fresh(replay["server"], n),
         Packets!Commits("server", n), Packets!ReceivePing(sent["client"][n])
  PROVE  DatagramInv'
<1> DEFINE path == sent["client"][n].path
           id == sent["client"][n].id
<1>1. /\ UNCHANGED <<completed, assemblies, held, delivered, pending, outstanding, nextID, sizes, confirmed, seen>>
      /\ sent' = [sent EXCEPT !["server"] = Append(@, Packets!Packet("pong", path, id, 0, 0))]
  BY DEF Packets!ReceivePing, Packets!serverVars, Packets!clientVars
<1>2. /\ "client" \in Packets!Ends /\ "server" \in Packets!Ends /\ PacketTypes
      /\ Packets!Other("client") = "server" /\ Packets!Other("server") = "client"
  BY DatagramConstants DEF DatagramInv
<1>3. sent["client"][n] \in Fragment
  BY <1>2 DEF PacketTypes
<1>4. PICK p \in Fragment : p = Packets!Packet("pong", path, id, 0, 0) /\ p.kind = "pong"
  <2>1. path \in Paths /\ id \in Nat
    BY <1>3 DEF Fragment
  <2> HIDE DEF path, id
  <2>2. Packets!Packet("pong", path, id, 0, 0) \in Fragment /\ Packets!Packet("pong", path, id, 0, 0).kind = "pong"
    BY <2>1 DEF Packets!Packet, Fragment
  <2>. QED BY <2>2
<1> HIDE DEF path, id
<1>5. sent' = [sent EXCEPT !["server"] = Append(@, p)]
  BY <1>1, <1>4
<1>6. /\ sent' \in [Packets!Ends -> Seq(Fragment)]
      /\ \A c \in Packets!Ends : DOMAIN sent[c] \subseteq DOMAIN sent'[c]
      /\ Packed("server")' = Packed("server") \cup {p} /\ Packed("client")' = Packed("client")
  BY <1>2, <1>5, SentOne
<1>7. sent'["client"] = sent["client"]
  BY <1>2, <1>5 DEF PacketTypes
<1>8. /\ replay' \in [Packets!Ends -> Slots] /\ handled' \in [Packets!Ends -> SUBSET Nat] /\ again' = FALSE
      /\ \A c \in Packets!Ends : WindowKept(replay'[c], handled'[c])
      /\ \A c \in Packets!Ends : handled'[c] \subseteq DOMAIN sent[Packets!Other(c)]
      /\ handled'["server"] = handled["server"] \cup {n}
  BY <1>2, CommitKeeps
<1>9. PacketTypes' /\ DatagramTypes'
  BY <1>1, <1>6, <1>8 DEF DatagramInv, PacketTypes, DatagramTypes
<1>10. WindowsKept'
  BY <1>1, <1>2, <1>6, <1>8, DatagramConstants DEF DatagramInv, WindowsKept
<1>11. \A d \in Packets!Ids : Packets!Handled(d) \subseteq Packets!Handled(d)' /\ Packets!Handled(d)' \subseteq 1..sizes[d]
  BY <1>7, <1>8, HandledFragment
<1>12. nextID \in Nat
  BY DatagramConstants DEF DatagramInv, DatagramTypes
<1>13. ReceiptsKept'
  BY <1>1, <1>4, <1>6, <1>11, <1>12, ReceiptsIdle
<1>14. AssembliesKept'
  BY <1>1, <1>11, <1>12, AssembliesIdle
<1>. QED BY <1>1, <1>6, <1>9, <1>10, <1>13, <1>14, FragmentsIdle, ChargesIdle DEF DatagramInv

(* The client's receipts and pongs: nothing is sent.                       *)
LEMMA ClientReceives ==
  ASSUME DatagramInv, NEW n \in DOMAIN sent["server"], Packets!Fresh(replay["client"], n),
         Packets!Commits("client", n),
         UNCHANGED <<sent, completed, assemblies, held, delivered, nextID, sizes>>, seen' \subseteq Paths
  PROVE  PacketTypes' /\ WindowsKept' /\ FragmentsKept' /\ AssembliesKept'
         /\ (\A d : Packets!Handled(d)' = Packets!Handled(d)) /\ (\A d : Rebuilt(d) => Rebuilt(d)')
<1>1. /\ "client" \in Packets!Ends /\ "server" \in Packets!Ends /\ PacketTypes
      /\ Packets!Other("client") = "server" /\ Packets!Other("server") = "client"
  BY DatagramConstants DEF DatagramInv
<1>2. /\ replay' \in [Packets!Ends -> Slots] /\ handled' \in [Packets!Ends -> SUBSET Nat] /\ again' = FALSE
      /\ \A c \in Packets!Ends : WindowKept(replay'[c], handled'[c])
      /\ \A c \in Packets!Ends : handled'[c] \subseteq DOMAIN sent[Packets!Other(c)]
      /\ handled'["server"] = handled["server"]
  BY <1>1, CommitKeeps
<1>3. PacketTypes'
  BY <1>1, <1>2 DEF PacketTypes
<1>4. WindowsKept'
  BY <1>2 DEF DatagramInv, WindowsKept
<1>5. \A d : Packets!Handled(d)' = Packets!Handled(d)
  BY <1>2 DEF Packets!Handled
<1>6. Packed("client")' = Packed("client")
  BY DEF Packed
<1>7. nextID \in Nat
  BY DatagramConstants DEF DatagramInv, DatagramTypes
<1>8. \A d : Rebuilt(d) => Rebuilt(d)'
  BY <1>5 DEF Rebuilt
<1>. QED BY <1>3, <1>4, <1>5, <1>6, <1>7, <1>8, FragmentsIdle, AssembliesIdle

(* A path was heard from.                                                  *)
LEMMA ReceivePongKeeps ==
  ASSUME DatagramInv, NEW n \in DOMAIN sent["server"], Packets!Fresh(replay["client"], n),
         Packets!Commits("client", n), Packets!ReceivePong(sent["server"][n])
  PROVE  DatagramInv'
<1>1. /\ UNCHANGED <<sent, completed, assemblies, held, delivered, pending, outstanding, nextID, sizes, confirmed>>
      /\ seen' = seen \cup {sent["server"][n].path}
  BY DEF Packets!ReceivePong, Packets!serverVars, Packets!clientVars
<1>2. sent["server"][n] \in Fragment /\ seen \subseteq Paths
  BY DatagramConstants DEF DatagramInv, PacketTypes
<1>3. seen' \subseteq Paths
  BY <1>1, <1>2 DEF Fragment
<1>4. /\ PacketTypes' /\ WindowsKept' /\ FragmentsKept' /\ AssembliesKept'
      /\ \A d : Rebuilt(d) => Rebuilt(d)'
  BY <1>1, <1>3, ClientReceives
<1>5. DatagramTypes'
  BY <1>1 DEF DatagramInv, DatagramTypes
<1>6. Packed("server")' = Packed("server")
  BY <1>1 DEF Packed
<1>7. ReceiptsKept'
  BY <1>1, <1>4, <1>6 DEF DatagramInv, ReceiptsKept, True
<1>. QED BY <1>1, <1>4, <1>5, <1>7, ChargesIdle DEF DatagramInv

(* The path the datagram was charged to is credited.                       *)
LEMMA ReceiveReceiptKeeps ==
  ASSUME DatagramInv, NEW n \in DOMAIN sent["server"], Packets!Fresh(replay["client"], n),
         Packets!Commits("client", n), Packets!ReceiveReceipt(sent["server"][n])
  PROVE  DatagramInv'
<1> DEFINE p == sent["server"][n]
           mine == {d \in pending : d.id = p.id}
<1>1. /\ UNCHANGED <<sent, completed, assemblies, held, delivered, nextID, sizes>>
      /\ p.kind = "receipt" /\ seen' = seen \cup {p.path} /\ confirmed' = confirmed \cup {p.id}
      /\ pending' = pending \ mine
      /\ outstanding' = IF mine = {} THEN outstanding
                        ELSE Packets!Credit((CHOOSE d \in mine : TRUE).path, (CHOOSE d \in mine : TRUE).size)
  BY DEF Packets!ReceiveReceipt, Packets!serverVars
<1>2. p \in Fragment /\ seen \subseteq Paths
  BY DatagramConstants DEF DatagramInv, PacketTypes
<1>3. seen' \subseteq Paths
  BY <1>1, <1>2 DEF Fragment
<1>4. /\ PacketTypes' /\ WindowsKept' /\ FragmentsKept' /\ AssembliesKept'
      /\ \A d : Rebuilt(d) => Rebuilt(d)'
  BY <1>1, <1>3, ClientReceives
<1>5. p.id \in Packets!Ids /\ Rebuilt(p.id)
  BY <1>1 DEF DatagramInv, ReceiptsKept, True, Packed
<1>6. ChargesKept' /\ outstanding' \in [Paths -> Nat] /\ pending' \subseteq pending
  <2>1. CASE mine = {}
    <3>1. UNCHANGED <<pending, outstanding>>
      BY <1>1, <2>1
    <3>. QED BY <1>1, <3>1, ChargesIdle DEF DatagramInv, DatagramTypes
  <2>2. CASE mine # {}
    <3>1. PICK d \in mine : d = CHOOSE c \in mine : TRUE
      BY <2>2
    <3>2. d \in pending /\ mine = {d}
      BY <3>1 DEF DatagramInv, ChargesKept
    <3>3. pending' = pending \ {d} /\ outstanding' = Packets!Credit(d.path, d.size)
      BY <1>1, <2>2, <3>1, <3>2
    <3>. QED BY <1>1, <3>2, <3>3, CreditKeeps
  <2>. QED BY <2>1, <2>2
<1> HIDE DEF p, mine
<1>7. DatagramTypes'
  BY <1>1, <1>5, <1>6 DEF DatagramInv, DatagramTypes
<1>8. Packed("server")' = Packed("server")
  BY <1>1 DEF Packed
<1>9. ReceiptsKept'
  BY <1>1, <1>4, <1>5, <1>8 DEF DatagramInv, ReceiptsKept, True
<1>. QED BY <1>4, <1>6, <1>7, <1>9 DEF DatagramInv

-----------------------------------------------------------------------------
(* A fragment at the server.                                               *)

LEMMA DataKeeps ==
  ASSUME DatagramInv, NEW n \in DOMAIN sent["client"], NEW p, p = sent["client"][n], p.kind = "data",
         Packets!Fresh(replay["server"], n), Packets!Commits("server", n),
         UNCHANGED <<seen, pending, outstanding, nextID, sizes, confirmed>>,
         sent' \in [Packets!Ends -> Seq(Fragment)], sent'["client"] = sent["client"],
         \A c \in Packets!Ends : DOMAIN sent[c] \subseteq DOMAIN sent'[c],
         completed' \in Slots, WindowKept(completed', {d \in Packets!Ids : delivered'[d] # 0})
  PROVE  PacketTypes' /\ WindowsKept' /\ FragmentsKept' /\ ChargesKept'
<1>1. /\ "client" \in Packets!Ends /\ "server" \in Packets!Ends
      /\ Packets!Other("client") = "server" /\ Packets!Other("server") = "client"
      /\ \A c \in Packets!Ends : Packets!Other(c) \in Packets!Ends
  BY DatagramConstants
<1>2. /\ replay' \in [Packets!Ends -> Slots] /\ handled' \in [Packets!Ends -> SUBSET Nat] /\ again' = FALSE
      /\ \A c \in Packets!Ends : WindowKept(replay'[c], handled'[c])
      /\ \A c \in Packets!Ends : handled'[c] \subseteq DOMAIN sent[Packets!Other(c)]
  BY <1>1, CommitKeeps
<1>3. PacketTypes'
  BY <1>2 DEF DatagramInv, PacketTypes
<1>4. WindowsKept'
  BY <1>1, <1>2 DEF WindowsKept
<1>5. Packed("client")' = Packed("client")
  BY DEF Packed
<1>. QED BY <1>3, <1>4, <1>5, FragmentsIdle, ChargesIdle

(* What is known of the fragment and of what was handled of its datagram.  *)
LEMMA DataKnown ==
  ASSUME DatagramInv, NEW n \in DOMAIN sent["client"], NEW p, p = sent["client"][n], p.kind = "data",
         Packets!Fresh(replay["server"], n), Packets!Commits("server", n),
         sizes' = sizes, sent'["client"] = sent["client"]
  PROVE  /\ p.id \in Packets!Ids /\ p.id <= nextID /\ nextID \in Nat
         /\ p.count = sizes[p.id] /\ p.index \in 1..p.count /\ p.count \in Nat
         /\ \A d \in Packets!Ids : /\ Packets!Handled(d) \subseteq Packets!Handled(d)'
                                   /\ Packets!Handled(d)' \subseteq 1..sizes[d]
         /\ p.index \in Packets!Handled(p.id)'
<1>1. /\ "server" \in Packets!Ends /\ Packets!Other("server") = "client"
  BY DatagramConstants
<1>2. handled'["server"] = handled["server"] \cup {n}
  BY <1>1, CommitKeeps
<1>3. Right(p)
  BY DEF DatagramInv, FragmentsKept, Packed
<1>4. p.id \in 1..nextID /\ p.count = sizes[p.id] /\ p.index \in 1..p.count
  BY <1>3 DEF Right
<1>5. nextID \in 0..MaxDatagrams /\ sizes \in [Packets!Ids -> 0..MaxFragments]
  BY DEF DatagramInv, DatagramTypes
<1>6. p.id \in Packets!Ids /\ p.id <= nextID /\ nextID \in Nat /\ p.count \in Nat
  BY <1>4, <1>5, DatagramConstants
<1>7. \A d \in Packets!Ids : Packets!Handled(d) \subseteq Packets!Handled(d)' /\ Packets!Handled(d)' \subseteq 1..sizes[d]
  BY <1>2, HandledFragment
<1>8. p.index \in Packets!Handled(p.id)'
  BY <1>2, HandledMore
<1>. QED BY <1>4, <1>6, <1>7, <1>8

(* The fragment is lost: a datagram that is over, or no room.              *)
LEMMA DataLost ==
  ASSUME DatagramInv, NEW n \in DOMAIN sent["client"], NEW p, p = sent["client"][n], p.kind = "data",
         Packets!Fresh(replay["server"], n), Packets!Commits("server", n),
         UNCHANGED <<sent, completed, assemblies, held, delivered>>,
         UNCHANGED <<seen, pending, outstanding, nextID, sizes, confirmed>>
  PROVE  DatagramInv'
<1>1. /\ sent' \in [Packets!Ends -> Seq(Fragment)] /\ completed' \in Slots
      /\ WindowKept(completed', {d \in Packets!Ids : delivered'[d] # 0})
  BY DEF DatagramInv, PacketTypes, WindowsKept
<1>2. PacketTypes' /\ WindowsKept' /\ FragmentsKept' /\ ChargesKept'
  BY <1>1, DataKeeps
<1>3. /\ nextID \in Nat
      /\ \A d \in Packets!Ids : Packets!Handled(d) \subseteq Packets!Handled(d)' /\ Packets!Handled(d)' \subseteq 1..sizes[d]
  BY DataKnown
<1>4. Packed("server")' = Packed("server")
  BY DEF Packed
<1>5. ReceiptsKept'
  BY <1>3, <1>4, ReceiptsIdle
<1>6. AssembliesKept'
  BY <1>3, AssembliesIdle
<1>7. DatagramTypes'
  BY DEF DatagramInv, DatagramTypes
<1>. QED BY <1>2, <1>5, <1>6, <1>7 DEF DatagramInv

(* A fragment that is not the last joins its datagram.                     *)
LEMMA DataJoins ==
  ASSUME DatagramInv, NEW n \in DOMAIN sent["client"], NEW p, p = sent["client"][n], p.kind = "data",
         Packets!Fresh(replay["server"], n), Packets!Commits("server", n),
         UNCHANGED <<sent, completed, delivered>>,
         UNCHANGED <<seen, pending, outstanding, nextID, sizes, confirmed>>,
         NEW new \in BOOLEAN, new <=> (assemblies[p.id] = Packets!None),
         NEW parts, parts = IF new THEN {p.index} ELSE assemblies[p.id] \cup {p.index},
         held' = held + (IF new THEN p.count ELSE 0), held' <= AssemblyLimit,
         assemblies' = [assemblies EXCEPT ![p.id] = parts]
  PROVE  DatagramInv'
<1>1. /\ sent' \in [Packets!Ends -> Seq(Fragment)] /\ completed' \in Slots
      /\ WindowKept(completed', {d \in Packets!Ids : delivered'[d] # 0})
  BY DEF DatagramInv, PacketTypes, WindowsKept
<1>2. PacketTypes' /\ WindowsKept' /\ FragmentsKept' /\ ChargesKept'
  BY <1>1, DataKeeps
<1>3. /\ p.id \in Packets!Ids /\ p.id <= nextID /\ nextID \in Nat
      /\ p.count = sizes[p.id] /\ p.index \in 1..p.count /\ p.count \in Nat
      /\ \A d \in Packets!Ids : Packets!Handled(d) \subseteq Packets!Handled(d)' /\ Packets!Handled(d)' \subseteq 1..sizes[d]
      /\ p.index \in Packets!Handled(p.id)'
  BY DataKnown
<1>4. Packed("server")' = Packed("server")
  BY DEF Packed
<1>5. ReceiptsKept'
  BY <1>3, <1>4, ReceiptsIdle
<1>6. assemblies \in [Packets!Ids -> SUBSET Nat] /\ held \in Nat /\ p.index \in Nat /\ p.index # 0
  BY <1>3 DEF DatagramInv, DatagramTypes
<1>7. parts \in SUBSET Nat /\ p.index \in parts /\ parts # Packets!None
  BY <1>3, <1>6, DatagramConstants
<1>8. assemblies' \in [Packets!Ids -> SUBSET Nat] /\ assemblies'[p.id] = parts
      /\ \A d \in Packets!Ids : d # p.id => assemblies'[d] = assemblies[d]
  BY <1>3, <1>6, <1>7
<1>9. IsFiniteSet(Packets!UnderAssembly') /\ held' = Cardinality(Packets!UnderAssembly')
  <2>1. CASE new
    BY <2>1, <1>3, <1>7, AssemblyBegins
  <2>2. CASE ~new
    <3>1. Packets!UnderAssembly' = Packets!UnderAssembly
      <4>1. \A d \in Packets!Ids : (assemblies'[d] # Packets!None) <=> (assemblies[d] # Packets!None)
        BY <2>2, <1>3, <1>7, <1>8
      <4>2. \A x : x \in Packets!UnderAssembly' <=> x \in Packets!UnderAssembly
        BY <4>1, AssemblyRows, AssemblyRowsNext
      <4>. QED BY <4>2
    <3>2. held' = held
      BY <2>2, <1>6
    <3>. QED BY <3>1, <3>2 DEF DatagramInv, AssembliesKept
  <2>. QED BY <2>1, <2>2
<1>10. held' \in Nat
  BY <1>3, <1>6
<1>11. DatagramTypes'
  BY <1>8, <1>10 DEF DatagramInv, DatagramTypes
<1>12. ASSUME NEW d \in Packets!Ids, assemblies'[d] # Packets!None
       PROVE  d <= nextID /\ assemblies'[d] \subseteq Packets!Handled(d)'
  <2>1. CASE d = p.id
    <3>1. ~new => assemblies[d] \subseteq Packets!Handled(d)
      BY <2>1, <1>3 DEF DatagramInv, AssembliesKept
    <3>2. parts \subseteq Packets!Handled(d)'
      BY <2>1, <3>1, <1>3
    <3>. QED BY <2>1, <3>2, <1>3, <1>8
  <2>2. CASE d # p.id
    BY <2>2, <1>3, <1>8, <1>12 DEF DatagramInv, AssembliesKept
  <2>. QED BY <2>1, <2>2
<1>13. AssembliesKept'
  BY <1>9, <1>12 DEF AssembliesKept, Packets!None
<1>. QED BY <1>2, <1>5, <1>11, <1>13 DEF DatagramInv

(* The last fragment: the datagram is handed on, once, and confirmed.      *)
LEMMA DataCompletes ==
  ASSUME DatagramInv, NEW n \in DOMAIN sent["client"], NEW p, p = sent["client"][n], p.kind = "data",
         Packets!Fresh(replay["server"], n), Packets!Commits("server", n),
         UNCHANGED <<seen, pending, outstanding, nextID, sizes, confirmed>>,
         NEW new \in BOOLEAN, new <=> (assemblies[p.id] = Packets!None),
         NEW parts, parts = IF new THEN {p.index} ELSE assemblies[p.id] \cup {p.index},
         Cardinality(parts) = p.count,
         NEW room, room = held + (IF new THEN p.count ELSE 0), held' = room - p.count,
         assemblies' = [assemblies EXCEPT ![p.id] = Packets!None],
         Packets!Fresh(completed, p.id), completed' = Packets!Slid(completed, p.id),
         delivered' = [delivered EXCEPT ![p.id] = @ + 1],
         sent' = [sent EXCEPT !["server"] = Append(@, Packets!Packet("receipt", p.path, p.id, 0, 0))]
  PROVE  DatagramInv'
<1>1. /\ "client" \in Packets!Ends /\ "server" \in Packets!Ends /\ PacketTypes
  BY DatagramConstants DEF DatagramInv
<1>2. p \in Fragment /\ p.id \in Nat /\ p.path \in Paths
  <2>1. sent["client"] \in Seq(Fragment)
    BY <1>1 DEF PacketTypes
  <2>2. p \in Fragment
    BY <2>1
  <2>. QED BY <2>2 DEF Fragment
<1>3. PICK q \in Fragment : q = Packets!Packet("receipt", p.path, p.id, 0, 0) /\ q.kind = "receipt" /\ q.id = p.id
  <2>1. Packets!Packet("receipt", p.path, p.id, 0, 0) \in Fragment
    BY <1>2 DEF Packets!Packet, Fragment
  <2>. QED BY <2>1 DEF Packets!Packet
<1>4. sent' = [sent EXCEPT !["server"] = Append(@, q)]
  BY <1>3
<1>5. /\ sent' \in [Packets!Ends -> Seq(Fragment)]
      /\ \A c \in Packets!Ends : DOMAIN sent[c] \subseteq DOMAIN sent'[c]
      /\ Packed("server")' = Packed("server") \cup {q}
  BY <1>1, <1>4, SentOne
<1>6. sent'["client"] = sent["client"]
  BY <1>1, <1>4 DEF PacketTypes
<1>7. /\ p.id \in Packets!Ids /\ p.id <= nextID /\ nextID \in Nat
      /\ p.count = sizes[p.id] /\ p.index \in 1..p.count /\ p.count \in Nat
      /\ \A d \in Packets!Ids : Packets!Handled(d) \subseteq Packets!Handled(d)' /\ Packets!Handled(d)' \subseteq 1..sizes[d]
      /\ p.index \in Packets!Handled(p.id)'
  BY <1>6, DataKnown
<1>8. delivered \in [Packets!Ids -> {0, 1}] /\ completed \in Slots
      /\ WindowKept(completed, {d \in Packets!Ids : delivered[d] # 0})
  BY DEF DatagramInv, DatagramTypes, PacketTypes, WindowsKept
<1>9. /\ p.id \notin {d \in Packets!Ids : delivered[d] # 0} /\ completed' \in Slots
      /\ WindowKept(completed', {d \in Packets!Ids : delivered[d] # 0} \cup {p.id})
  <2>1. {d \in Packets!Ids : delivered[d] # 0} \in SUBSET Nat
    BY DatagramConstants
  <2>. QED BY <1>2, <1>8, <2>1, WindowSlides
<1>10. delivered[p.id] = 0 /\ delivered' \in [Packets!Ids -> {0, 1}] /\ delivered'[p.id] = 1
       /\ \A d \in Packets!Ids : d # p.id => delivered'[d] = delivered[d]
  BY <1>7, <1>8, <1>9
<1>11. {d \in Packets!Ids : delivered'[d] # 0} = {d \in Packets!Ids : delivered[d] # 0} \cup {p.id}
  BY <1>7, <1>10
<1>12. PacketTypes' /\ WindowsKept' /\ FragmentsKept' /\ ChargesKept'
  BY <1>5, <1>6, <1>9, <1>11, DataKeeps
<1>13. assemblies \in [Packets!Ids -> SUBSET Nat] /\ held \in Nat
  BY DEF DatagramInv, DatagramTypes
<1>14. assemblies' \in [Packets!Ids -> SUBSET Nat] /\ assemblies'[p.id] = Packets!None
       /\ \A d \in Packets!Ids : d # p.id => assemblies'[d] = assemblies[d]
  BY <1>7, <1>13, DatagramConstants
<1>15. ~new => assemblies[p.id] \subseteq Packets!Handled(p.id)
  BY <1>7 DEF DatagramInv, AssembliesKept
<1>16. parts \subseteq Packets!Handled(p.id)'
  BY <1>7, <1>15
<1>17. Rebuilt(p.id)'
  <2>1. parts \in SUBSET (1..p.count)
    BY <1>7, <1>16
  <2>2. PICK c \in Nat : c = p.count
    BY <1>7
  <2>3. parts = 1..c
    BY <2>1, <2>2, AllOf
  <2>4. Packets!Handled(p.id)' = 1..sizes[p.id]
    BY <1>7, <1>16, <2>2, <2>3
  <2>. QED BY <1>10, <2>4 DEF Rebuilt
<1>18. \A d \in Packets!Ids : Rebuilt(d) => Rebuilt(d)'
  <2> SUFFICES ASSUME NEW d \in Packets!Ids, Rebuilt(d) PROVE Rebuilt(d)'
    OBVIOUS
  <2>1. d # p.id /\ delivered'[d] = delivered[d]
    BY <1>10 DEF Rebuilt
  <2>. QED BY <1>7, <2>1, RebuiltStays
<1>19. ReceiptsKept'
  <2>1. \A x \in Packed("server")' : True(x)'
    <3>1. True(q)'
      BY <1>3, <1>7, <1>17 DEF True
    <3>2. \A x \in Packed("server") : True(x)'
      BY <1>18 DEF DatagramInv, ReceiptsKept, True
    <3>. QED BY <1>5, <3>1, <3>2
  <2>2. \A d \in confirmed' : Rebuilt(d)'
    BY <1>18 DEF DatagramInv, ReceiptsKept, DatagramTypes
  <2>3. \A d \in Packets!Ids : delivered'[d] = 1 => d <= nextID'
    BY <1>7, <1>10 DEF DatagramInv, ReceiptsKept
  <2>. QED BY <2>1, <2>2, <2>3 DEF ReceiptsKept
<1>20. /\ IsFiniteSet(Packets!UnderAssembly') /\ held' = Cardinality(Packets!UnderAssembly')
       /\ held' \in Nat /\ held' <= AssemblyLimit
  <2>1. CASE new
    <3>1. held' = held
      BY <2>1, <1>7, <1>13
    <3>2. \A d \in Packets!Ids : assemblies'[d] = assemblies[d]
      BY <2>1, <1>14
    <3>3. Packets!UnderAssembly' = Packets!UnderAssembly
      <4>1. \A x : x \in Packets!UnderAssembly' <=> x \in Packets!UnderAssembly
        BY <3>2, AssemblyRows, AssemblyRowsNext
      <4>. QED BY <4>1
    <3>. QED BY <3>1, <3>3, <1>13 DEF DatagramInv, AssembliesKept
  <2>2. CASE ~new
    <3>1. held' = held - sizes[p.id]
      BY <2>2, <1>7, <1>13
    <3>. QED BY <2>2, <3>1, <1>7, AssemblyEnds
  <2>. QED BY <2>1, <2>2
<1>21. AssembliesKept'
  <2>1. \A d \in Packets!Ids : assemblies'[d] # Packets!None =>
          d <= nextID' /\ assemblies'[d] \subseteq Packets!Handled(d)'
    BY <1>7, <1>14 DEF DatagramInv, AssembliesKept
  <2>. QED BY <1>20, <2>1 DEF AssembliesKept, Packets!None
<1>22. DatagramTypes'
  BY <1>10, <1>14, <1>20 DEF DatagramInv, DatagramTypes
<1>. QED BY <1>12, <1>19, <1>21, <1>22 DEF DatagramInv

LEMMA ReceiveDataKeeps ==
  ASSUME DatagramInv, NEW n \in DOMAIN sent["client"],
         Packets!Fresh(replay["server"], n), Packets!Commits("server", n),
         Packets!ReceiveData(sent["client"][n])
  PROVE  DatagramInv'
<1>1. PICK p : p = sent["client"][n]
  OBVIOUS
<1>2. PICK new \in BOOLEAN : new <=> (assemblies[p.id] = Packets!None)
  OBVIOUS
<1>3. PICK parts : parts = IF new THEN {p.index} ELSE assemblies[p.id] \cup {p.index}
  OBVIOUS
<1>4. PICK room : room = held + (IF new THEN p.count ELSE 0)
  OBVIOUS
<1>5. /\ p.kind = "data" /\ UNCHANGED <<seen, pending, outstanding, nextID, sizes, confirmed>>
      /\ IF ~Packets!Fresh(completed, p.id) \/ room > AssemblyLimit
         THEN UNCHANGED <<sent, completed, assemblies, held, delivered>>
         ELSE IF Cardinality(parts) = p.count
         THEN /\ assemblies' = [assemblies EXCEPT ![p.id] = Packets!None]
              /\ held' = room - p.count
              /\ completed' = Packets!Slid(completed, p.id)
              /\ delivered' = [delivered EXCEPT ![p.id] = @ + 1]
              /\ sent' = [sent EXCEPT !["server"] = Append(@, Packets!Packet("receipt", p.path, p.id, 0, 0))]
         ELSE /\ assemblies' = [assemblies EXCEPT ![p.id] = parts] /\ held' = room
              /\ UNCHANGED <<sent, completed, delivered>>
  BY <1>1, <1>2, <1>3, <1>4, SamePacketCount
     DEF Packets!ReceiveData, Packets!Complete, Packets!serverVars, Packets!clientVars
<1>6. CASE ~Packets!Fresh(completed, p.id) \/ room > AssemblyLimit
  BY <1>1, <1>5, <1>6, DataLost
<1>7. CASE Packets!Fresh(completed, p.id) /\ ~(room > AssemblyLimit) /\ Cardinality(parts) = p.count
  <2>1. /\ assemblies' = [assemblies EXCEPT ![p.id] = Packets!None]
        /\ held' = room - p.count
        /\ completed' = Packets!Slid(completed, p.id)
        /\ delivered' = [delivered EXCEPT ![p.id] = @ + 1]
        /\ sent' = [sent EXCEPT !["server"] = Append(@, Packets!Packet("receipt", p.path, p.id, 0, 0))]
    BY <1>5, <1>7, Zenon
  <2>2. Packets!Fresh(completed, p.id) /\ Cardinality(parts) = p.count /\ p.kind = "data"
    BY <1>5, <1>7
  <2>3. UNCHANGED <<seen, pending, outstanding, nextID, sizes, confirmed>>
    BY <1>5
  <2>. QED BY <1>1, <1>2, <1>3, <1>4, <2>1, <2>2, <2>3, DataCompletes
<1>8. CASE Packets!Fresh(completed, p.id) /\ ~(room > AssemblyLimit) /\ Cardinality(parts) # p.count
  <2>1. room \in Int /\ room <= AssemblyLimit
    <3>1. p.count \in Nat
      <4>1. sent["client"] \in Seq(Fragment)
        BY DatagramConstants DEF DatagramInv, PacketTypes
      <4>2. p \in Fragment
        BY <1>1, <4>1
      <4>. QED BY <4>2 DEF Fragment
    <3>. QED BY <1>4, <1>8, <3>1, DatagramConstants DEF DatagramInv, DatagramTypes
  <2>. QED BY <1>1, <1>2, <1>3, <1>4, <1>5, <1>8, <2>1, DataJoins
<1>. QED BY <1>6, <1>7, <1>8

LEMMA ReceiveKeeps ==
  ASSUME DatagramInv, NEW e \in Packets!Ends, NEW n \in DOMAIN sent[Packets!Other(e)], Packets!Receive(e, n)
  PROVE  DatagramInv'
<1> DEFINE p == sent[Packets!Other(e)][n]
<1>1. /\ Packets!Fresh(replay[e], n) /\ Packets!Commits(e, n) /\ p.kind # "unsent"
      /\ Packets!ReceivePing(p) \/ Packets!ReceivePong(p) \/ Packets!ReceiveReceipt(p) \/ Packets!ReceiveData(p)
  BY DEF Packets!Receive
<1>2. CASE e = "server"
  <2>1. Packets!Other(e) = "client"
    BY <1>2, DatagramConstants
  <2>2. p.kind \in {"data", "unsent", "ping"}
    BY <2>1 DEF DatagramInv, FragmentsKept, Packed, Right
  <2>3. Packets!ReceivePing(p) \/ Packets!ReceiveData(p)
    BY <1>1, <2>2 DEF Packets!ReceivePong, Packets!ReceiveReceipt
  <2>. QED BY <1>1, <1>2, <2>1, <2>3, ReceivePingKeeps, ReceiveDataKeeps
<1>3. CASE e = "client"
  <2>1. Packets!Other(e) = "server"
    BY <1>3, DatagramConstants
  <2>2. p.kind \in {"pong", "receipt"}
    BY <2>1 DEF DatagramInv, ReceiptsKept, Packed, True
  <2>3. Packets!ReceivePong(p) \/ Packets!ReceiveReceipt(p)
    BY <1>1, <2>2 DEF Packets!ReceivePing, Packets!ReceiveData
  <2>. QED BY <1>1, <1>3, <2>1, <2>3, ReceivePongKeeps, ReceiveReceiptKeeps
<1>. QED BY <1>2, <1>3, DatagramConstants

-----------------------------------------------------------------------------

LEMMA DatagramStep == DatagramInv /\ [Next]_vars => DatagramInv'
<1> SUFFICES ASSUME DatagramInv, [Next]_vars PROVE DatagramInv'
  OBVIOUS
<1>1. CASE Packets!Next
  BY <1>1, PingKeeps, PathFadesKeeps, SendKeeps, ReceiveKeeps, AssemblyExpiresKeeps, ReceiptExpiresKeeps
     DEF Packets!Next
<1>2. CASE UNCHANGED datagramVars
  <2>1. /\ UNCHANGED <<sent, replay, handled, again, completed, assemblies, held, delivered>>
        /\ UNCHANGED <<pending, outstanding, nextID, sizes, confirmed, seen>>
    BY <1>2 DEF datagramVars
  <2>2. PacketTypes' /\ DatagramTypes'
    BY <2>1 DEF DatagramInv, PacketTypes, DatagramTypes
  <2>3. Packed("client")' = Packed("client") /\ Packed("server")' = Packed("server")
    BY <2>1 DEF Packed
  <2>4. \A d : Packets!Handled(d)' = Packets!Handled(d)
    BY <2>1 DEF Packets!Handled
  <2>5. nextID \in Nat
    BY DatagramConstants DEF DatagramInv, DatagramTypes
  <2>6. ReceiptsKept'
    BY <2>1, <2>3, <2>4, <2>5, HandledIn, ReceiptsIdle
  <2>7. AssembliesKept'
    BY <2>1, <2>4, <2>5, AssembliesIdle
  <2>. QED BY <2>1, <2>2, <2>3, <2>6, <2>7, WindowsIdle, ChargesIdle, FragmentsIdle DEF DatagramInv
<1>3. Packets!Next \/ UNCHANGED datagramVars
  BY DEF Next, vars, OfUdp, OfProduct, OfUot, OfPackets, OfServer, OfReceive
<1>. QED BY <1>1, <1>2, <1>3

(* However the network loses, repeats, delays and reorders, and whatever   *)
(* is given up meanwhile: no packet is handled and no datagram handed on   *)
(* twice, a receipt is of a datagram the server has every fragment of, a   *)
(* path is charged what awaits a receipt on it, and reassembly holds the   *)
(* room of what is under assembly, within its limit (udpPeer).             *)
THEOREM DatagramsKept == Spec => []DatagramsAgree
<1>1. Init => DatagramInv
  BY DatagramInit DEF Init
<1>2. DatagramInv => DatagramsAgree
  <2> SUFFICES ASSUME DatagramInv PROVE DatagramsAgree
    OBVIOUS
  <2>1. Packets!TypeOK
    <3>1. \A e \in Packets!Ends : \A n \in DOMAIN sent[e] : sent[e][n] \in Fragment
      BY DEF DatagramInv, PacketTypes
    <3>2. \A e \in Packets!Ends : \A n \in DOMAIN sent[e] :
            sent[e][n].kind \in {"data", "unsent", "ping", "pong", "receipt"} /\ sent[e][n].path \in Paths
      BY <3>1 DEF Fragment
    <3>3. \A d \in Packets!Ids : assemblies[d] \in {Packets!None} \cup SUBSET (1..MaxFragments)
      <4> SUFFICES ASSUME NEW d \in Packets!Ids, assemblies[d] # Packets!None
                   PROVE  assemblies[d] \in SUBSET (1..MaxFragments)
        OBVIOUS
      <4>1. assemblies[d] \subseteq 1..sizes[d]
        BY HandledIn DEF DatagramInv, AssembliesKept
      <4>2. 1..sizes[d] \subseteq 1..MaxFragments
        BY DatagramConstants DEF DatagramInv, DatagramTypes
      <4>. QED BY <4>1, <4>2
    <3>. QED BY <3>2, <3>3 DEF DatagramInv, PacketTypes, DatagramTypes, Packets!TypeOK
  <2>2. Packets!HandledOnce
    <3>1. \A d \in Packets!Ids : delivered[d] \in {0, 1}
      BY DEF DatagramInv, DatagramTypes
    <3>. QED BY <3>1 DEF DatagramInv, WindowsKept, Packets!HandledOnce
  <2>3. Packets!ReceiptsTrue
    BY DEF DatagramInv, ReceiptsKept, Rebuilt, Packets!ReceiptsTrue
  <2>4. Packets!ChargesAgree
    BY SamePacketCount DEF DatagramInv, ChargesKept, Packets!ChargesAgree
  <2>5. Packets!AssemblyAgrees
    BY SamePacketCount DEF DatagramInv, AssembliesKept, Packets!AssemblyAgrees
  <2>. QED BY <2>1, <2>2, <2>3, <2>4, <2>5 DEF DatagramsAgree
<1>. QED BY <1>1, <1>2, DatagramStep, PTL DEF Spec
=============================================================================

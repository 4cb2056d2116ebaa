------------------------------ MODULE Datagrams ------------------------------
(***************************************************************************)
(* The native UDP transport between the two ends of a Session              *)
(* (datagram.go, udpPeer): datagrams cut into fragments, each sealed under *)
(* a counter of its own and sent once, the sliding replay window,          *)
(* reassembly with a time limit, receipts, and the bytes charged to a path *)
(* until the receipt or its time limit.                                    *)
(*                                                                         *)
(* Data goes from the client to the server; the network loses, delays,     *)
(* reorders and duplicates every packet.  A fragment is one unit.          *)
(***************************************************************************)
EXTENDS Integers, Sequences, FiniteSets

CONSTANTS
  Paths,
  Window,         \* udpReplaySize
  PathLimit,      \* bytes charged to a path, 1 MiB
  MaxFragments,   \* of a datagram
  AssemblyLimit,  \* udpAssemblyBytesMax
  MaxDatagrams,   \* bound: datagrams sent
  MaxProbes       \* bound: pings

VARIABLES
  sent,         \* per end, the packets it sealed, by counter
  replay,       \* per end, replayWindow of counters: highest and slots
  completed,    \* the server's replayWindow of datagrams
  assemblies,   \* per datagram, the fragments received, or none
  held,         \* assemblyBytes
  pending,      \* datagrams without a receipt, with path and size
  outstanding,  \* per path, bytes charged
  seen,         \* paths the client has heard from lately
  nextID,
  sizes,        \* history: fragments of each datagram
  handled,      \* history: counters committed, per end
  again,        \* history: a counter was committed twice
  delivered,    \* history: how often a datagram was handed on
  confirmed,    \* history: datagrams with a receipt
  probes

datagramVars == <<sent, replay, completed, assemblies, held, pending, outstanding, seen, nextID,
                  sizes, handled, again, delivered, confirmed, probes>>
serverVars == <<completed, assemblies, held, delivered>>
clientVars == <<pending, outstanding, nextID, sizes, confirmed>>

Ends == {"client", "server"}
Other(e) == IF e = "client" THEN "server" ELSE "client"
Ids == 1..MaxDatagrams
NewWindow == [highest |-> 0, slots |-> [i \in 0..(Window - 1) |-> 0]]
None == {0}     \* no assembly

Init ==
  /\ sent = [e \in Ends |-> <<>>] /\ replay = [e \in Ends |-> NewWindow]
  /\ completed = NewWindow
  /\ assemblies = [d \in Ids |-> None] /\ held = 0
  /\ pending = {} /\ outstanding = [p \in Paths |-> 0] /\ seen = {}
  /\ nextID = 0 /\ sizes = [d \in Ids |-> 0]
  /\ handled = [e \in Ends |-> {}] /\ again = FALSE
  /\ delivered = [d \in Ids |-> 0] /\ confirmed = {} /\ probes = 0

-----------------------------------------------------------------------------
(* replayWindow.                                                           *)

(* Mutant: the window is one counter too long.                             *)
FreshLoose(w, n) == ~(w.highest >= Window /\ n < w.highest - Window) /\ w.slots[n % Window] # n
Fresh(w, n) == ~(w.highest >= Window /\ n <= w.highest - Window) /\ w.slots[n % Window] # n

Slid(w, n) == [highest |-> IF n > w.highest THEN n ELSE w.highest, slots |-> [w.slots EXCEPT ![n % Window] = n]]

-----------------------------------------------------------------------------
(* Packets.  sealLocked counts, so nothing is ever sent twice.             *)

Packet(kind, path, id, index, count) ==
  [kind |-> kind, path |-> path, id |-> id, index |-> index, count |-> count]
Probe(path, id) == Packet("ping", path, id, 0, 0)

(* tick: a ping on every path.                                             *)
Ping(path) ==
  /\ probes < MaxProbes /\ probes' = probes + 1
  /\ sent' = [sent EXCEPT !["client"] = Append(@, Probe(path, 0))]
  /\ UNCHANGED <<replay, seen, handled, again, serverVars, clientVars>>

(* Nothing was heard from a path for udpHealthy.                           *)
PathFades(path) ==
  /\ path \in seen /\ seen' = seen \ {path}
  /\ UNCHANGED <<sent, replay, handled, again, serverVars, clientVars, probes>>

Charge(path, bytes) == outstanding' = [outstanding EXCEPT ![path] = @ + bytes]
Credit(path, bytes) == [outstanding EXCEPT ![path] = IF @ > bytes THEN @ - bytes ELSE 0]

(* send: the fragments go out one by one; a write that fails ends it and   *)
(* the datagram is neither charged nor awaited.                            *)
Send(path, count) ==
  /\ nextID < MaxDatagrams
  /\ path \in seen /\ outstanding[path] + count <= PathLimit
  /\ Cardinality(pending) < Window
  /\ nextID' = nextID + 1 /\ sizes' = [sizes EXCEPT ![nextID'] = count]
  /\ \E written \in 0..count :
       /\ sent' = [sent EXCEPT !["client"] = @ \o
                     [i \in 1..(IF written < count THEN written + 1 ELSE count) |->
                        IF i <= written THEN Packet("data", path, nextID', i, count)
                        ELSE Packet("unsent", path, nextID', i, count)]]
       /\ IF written = count
          THEN /\ Charge(path, count)
               /\ pending' = pending \cup {[id |-> nextID', path |-> path, size |-> count]}
          ELSE UNCHANGED <<outstanding, pending>>
  /\ UNCHANGED <<replay, seen, handled, again, serverVars, confirmed, probes>>

-----------------------------------------------------------------------------
(* receive.                                                                *)

Commits(e, n) ==
  /\ replay' = [replay EXCEPT ![e] = Slid(@, n)]
  /\ handled' = [handled EXCEPT ![e] = @ \cup {n}]
  /\ again' = (again \/ n \in handled[e])

(* A ping is answered on the path it came from.                            *)
ReceivePing(p) ==
  /\ p.kind = "ping"
  /\ sent' = [sent EXCEPT !["server"] = Append(@, Packet("pong", p.path, p.id, 0, 0))]
  /\ UNCHANGED <<serverVars, clientVars, seen>>

ReceivePong(p) ==
  /\ p.kind = "pong" /\ seen' = seen \cup {p.path}
  /\ UNCHANGED <<sent, serverVars, clientVars>>

(* The path that is credited is the one the datagram was charged to.       *)
ReceiveReceipt(p) ==
  LET mine == {d \in pending : d.id = p.id}
  IN /\ p.kind = "receipt" /\ seen' = seen \cup {p.path}
     /\ pending' = pending \ mine
     /\ outstanding' = IF mine = {} THEN outstanding
                       ELSE LET d == CHOOSE d \in mine : TRUE IN Credit(d.path, d.size)
     /\ confirmed' = confirmed \cup {p.id}
     /\ UNCHANGED <<sent, serverVars, nextID, sizes>>

(* Mutant: the receipt goes out with the first fragment.                   *)
CompleteAny(p, parts) == TRUE
Complete(p, parts) == Cardinality(parts) = p.count

(* A datagram in its first fragment takes its room, in its last one gives  *)
(* it back, is handed on and confirmed; without room the fragment is lost. *)
ReceiveData(p) ==
  LET new == assemblies[p.id] = None
      parts == IF new THEN {p.index} ELSE assemblies[p.id] \cup {p.index}
      room == held + (IF new THEN p.count ELSE 0)
  IN /\ p.kind = "data"
     /\ IF ~Fresh(completed, p.id) \/ room > AssemblyLimit
        THEN UNCHANGED <<sent, serverVars>>
        ELSE IF Complete(p, parts)
        THEN /\ assemblies' = [assemblies EXCEPT ![p.id] = None]
             /\ held' = room - p.count
             /\ completed' = Slid(completed, p.id)
             /\ delivered' = [delivered EXCEPT ![p.id] = @ + 1]
             /\ sent' = [sent EXCEPT !["server"] = Append(@, Packet("receipt", p.path, p.id, 0, 0))]
        ELSE /\ assemblies' = [assemblies EXCEPT ![p.id] = parts] /\ held' = room
             /\ UNCHANGED <<sent, completed, delivered>>
     /\ UNCHANGED <<clientVars, seen>>

Receive(e, n) ==
  /\ n \in DOMAIN sent[Other(e)] /\ sent[Other(e)][n].kind # "unsent"
  /\ Fresh(replay[e], n)
  /\ Commits(e, n)
  /\ LET p == sent[Other(e)][n]
     IN ReceivePing(p) \/ ReceivePong(p) \/ ReceiveReceipt(p) \/ ReceiveData(p)
  /\ UNCHANGED probes

-----------------------------------------------------------------------------
(* tick: what waited too long.                                             *)

(* Mutant: the room of an abandoned assembly is not given back.            *)
FreedNone(d) == 0
Freed(d) == sizes[d]

AssemblyExpires(d) ==
  /\ assemblies[d] # None
  /\ assemblies' = [assemblies EXCEPT ![d] = None] /\ held' = held - Freed(d)
  /\ UNCHANGED <<sent, replay, completed, delivered, clientVars, seen, handled, again, probes>>

(* Mutant: the path stays charged.                                         *)
UnchargedNot(d) == outstanding
Uncharged(d) == Credit(d.path, d.size)

ReceiptExpires(d) ==
  /\ d \in pending /\ pending' = pending \ {d}
  /\ outstanding' = Uncharged(d)
  /\ UNCHANGED <<sent, replay, serverVars, nextID, sizes, confirmed, seen, handled, again, probes>>

Next ==
  \/ \E p \in Paths : \/ Ping(p) \/ PathFades(p)
                      \/ \E count \in 1..MaxFragments : Send(p, count)
  \/ \E e \in Ends : \E n \in DOMAIN sent[Other(e)] : Receive(e, n)
  \/ \E d \in Ids : AssemblyExpires(d)
  \/ \E d \in pending : ReceiptExpires(d)

DatagramSpec == Init /\ [][Next]_datagramVars

-----------------------------------------------------------------------------

TypeOK ==
  /\ \A e \in Ends : \A n \in DOMAIN sent[e] :
       sent[e][n].kind \in {"data", "unsent", "ping", "pong", "receipt"} /\ sent[e][n].path \in Paths
  /\ nextID \in 0..MaxDatagrams /\ seen \subseteq Paths
  /\ \A d \in Ids : assemblies[d] \in {None} \cup SUBSET (1..MaxFragments)

(* No packet is handled twice, however the network repeats and reorders    *)
(* it, at the edge of the window too (replayWindow.check and commit), and  *)
(* so no datagram is handed on twice.                                      *)
HandledOnce == ~again /\ \A d \in Ids : delivered[d] <= 1

(* The fragments that await a receipt, and those there is room kept for.   *)
Awaited(p) == UNION {{d} \X (1..d.size) : d \in {d \in pending : d.path = p}}
UnderAssembly == UNION {{d} \X (1..sizes[d]) : d \in {d \in Ids : assemblies[d] # None}}

(* The bytes charged to a path are those of its datagrams that await a     *)
(* receipt, whichever of receipt and time limit comes first, and on        *)
(* whatever path the receipt comes; a path never fills up for good.        *)
ChargesAgree == \A p \in Paths : outstanding[p] = Cardinality(Awaited(p))

(* The memory of reassembly is that of the datagrams under assembly, and   *)
(* within its limit, whatever is completed, abandoned, or begun again by a *)
(* fragment that comes after its datagram was abandoned.                   *)
AssemblyAgrees == held = Cardinality(UnderAssembly) /\ held <= AssemblyLimit

(* "A receipt confirms datagram reconstruction": the sender is told only    *)
(* of datagrams of which the server has handled every fragment, each in a  *)
(* packet of its own, though an assembly may have been given up halfway.   *)
Handled(d) == {sent["client"][n].index : n \in {k \in handled["server"] :
                 sent["client"][k].kind = "data" /\ sent["client"][k].id = d}}
ReceiptsTrue == \A d \in confirmed : delivered[d] = 1 /\ Handled(d) = 1..sizes[d]
=============================================================================

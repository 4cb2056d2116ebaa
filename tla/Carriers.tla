------------------------------ MODULE Carriers ------------------------------
(***************************************************************************)
(* How the Carriers of one Session are established and replaced (tcp.go,   *)
(* mpx4_stable_state.go, protocol.go, session.go): DialClient and the      *)
(* maintainCarrier goroutines of the client, the handshake handlers and    *)
(* the Session registry of the server, the admission of generations, the   *)
(* superseding of an incarnation, and the 30-second limit without Carriers.*)
(*                                                                         *)
(* A connection is the pair of stages its two ends have reached.  The four *)
(* handshake messages are implied by them: a message is readable once the  *)
(* other end has passed the stage that sends it.  "left" is an end that    *)
(* has gone after its last handshake message, which may still be readable; *)
(* "gone" is an end that has gone before it.                               *)
(***************************************************************************)
EXTENDS Integers, FiniteSets

CONSTANTS
  NumCarriers,     \* addresses given to DialClient; Carrier c has address c
  Conns,           \* TCP connections that exist at the same time
  NoConn,          \* no connection
  LastGeneration,  \* mpx4VarIntMax
  MayBeFull,       \* other Sessions may fill the registry
  MaxFailures,     \* bound: ends that fail though the other end is there
  MaxEarly         \* bound: generations spent on candidates refused for being early

Carriers == 1..NumCarriers
Generations == 0..LastGeneration

ASSUME CarriersAssumption ==
  /\ NumCarriers \in Nat \ {0}
  /\ LastGeneration \in Nat \ {0}
  /\ NoConn \notin Conns
  /\ MayBeFull \in BOOLEAN
  /\ MaxFailures \in Nat /\ MaxEarly \in Nat

VARIABLES
  phase,       \* the client: "dialing" (DialClient), "open", "failed", "closed"
  turn,        \* the address DialClient tries
  cUsed,       \* the client's carrierUsed
  cHighest,    \* the client's highestGeneration
  cNext,       \* nextCandidateGeneration
  cSpent,      \* generationExhausted
  cPath,       \* per Carrier, the active connection of the client
  cExpired,    \* the client's run loop found it without Carriers for 30 seconds
  sess,        \* the server's Session: "none", "open", "closed" but registered
  sUsed, sHighest, sPath, sExpired,   \* the same at the server
  conn,        \* the connections
  failures     \* failures so far

clientVars == <<phase, turn, cUsed, cHighest, cNext, cSpent, cPath, cExpired>>
serverVars == <<sess, sUsed, sHighest, sPath, sExpired>>
vars == <<clientVars, serverVars, conn, failures>>

-----------------------------------------------------------------------------
Gone == {"gone", "left"}
NoHandshake == [carrier |-> 1, generation |-> 0, create |-> FALSE,
                client |-> "gone", server |-> "gone"]

(* A connection both ends have gone from can be another one.               *)
Tidy(r) == IF r.client \in Gone /\ r.server \in Gone THEN NoHandshake ELSE r
Idle(k) == conn[k] = NoHandshake

(* An end closes its connection.                                           *)
Leaves(stage, sent) == IF stage \in sent THEN "left" ELSE IF stage \in Gone THEN stage ELSE "gone"
ClientGoes(r) == Tidy([r EXCEPT !.client = Leaves(@, {"finished", "up"})])
ServerGoes(r) == Tidy([r EXCEPT !.server = Leaves(@, {"commit", "attach", "up"})])

(* Mutant: a Carrier dials again while a candidate of it is on its way.    *)
TryingNever(c) == FALSE

(* A candidate is on its way; one goroutine per Carrier makes them.        *)
Trying(c) == \E k \in Conns : conn[k].carrier = c /\ conn[k].client \in {"init", "finished"}

Init ==
  /\ phase = "dialing" /\ turn = 1
  /\ cUsed = [c \in Carriers |-> FALSE] /\ sUsed = cUsed
  /\ cHighest = [c \in Carriers |-> 0] /\ sHighest = cHighest
  /\ cNext = cHighest /\ cSpent = cUsed
  /\ cPath = [c \in Carriers |-> NoConn] /\ sPath = cPath
  /\ cExpired = FALSE /\ sExpired = FALSE
  /\ sess = "none"
  /\ conn = [k \in Conns |-> NoHandshake]
  /\ failures = 0

-----------------------------------------------------------------------------
(* The client.                                                             *)

Connect(k, c, g, create) ==
  /\ Idle(k)
  /\ conn' = [conn EXCEPT ![k] = [carrier |-> c, generation |-> g, create |-> create,
                                  client |-> "init", server |-> "init"]]

(* dialClientPolicy: one address after the other, each with a CREATE.      *)
Dial(k) ==
  /\ phase = "dialing" /\ ~Trying(turn)
  /\ Connect(k, turn, 0, TRUE)
  /\ UNCHANGED <<clientVars, serverVars, failures>>

(* Mutant: the generation of a candidate that failed is used again.        *)
CandidateAgain(c) == IF cUsed[c] THEN cHighest[c] + 1 ELSE 0

(* nextCarrierCandidateGenerationLocked.                                   *)
Candidate(c) ==
  IF ~cUsed[c] THEN 0 ELSE IF cNext[c] <= cHighest[c] THEN cHighest[c] + 1 ELSE cNext[c]

(* Mutant: off by one at the last generation.                              *)
ExhaustedAbove(c) == cUsed[c] /\ cHighest[c] > LastGeneration

Exhausted(c) == cUsed[c] /\ (cSpent[c] \/ cHighest[c] = LastGeneration)

(* Not code: the server would not refuse a candidate for coming early.  It *)
(* bounds how many generations the model spends on refused candidates.     *)
Timely(c) ==
  /\ sess = "open"
  /\ \A k \in Conns : conn[k].carrier = c => conn[k].server \notin {"commit", "attach"}

(* maintainCarrier: a candidate for a Carrier that is not active.          *)
Maintain(k, c) ==
  LET g == Candidate(c) IN
  /\ phase = "open" /\ cPath[c] = NoConn /\ ~Trying(c)
  /\ ~Exhausted(c)
  /\ cUsed[c] => g <= MaxEarly \/ Timely(c)
  /\ Connect(k, c, g, FALSE)
  /\ cSpent' = [cSpent EXCEPT ![c] = @ \/ (cUsed[c] /\ g = LastGeneration)]
  /\ cNext' = [cNext EXCEPT ![c] = IF cUsed[c] /\ g < LastGeneration THEN g + 1 ELSE @]
  /\ UNCHANGED <<phase, turn, cUsed, cHighest, cPath, cExpired, serverVars, failures>>

(* clientHandshake up to CLIENT_FINISHED.                                  *)
ClientFinishes(k) ==
  /\ conn[k].client = "init" /\ conn[k].server = "offer"
  /\ conn' = [conn EXCEPT ![k].client = "finished"]
  /\ UNCHANGED <<clientVars, serverVars, failures>>

(* Mutant: an incarnation may come twice.                                  *)
AdmissibleAgain(used, highest, g) == IF used THEN g >= highest ELSE g = 0

(* validateCarrierGenerationLocked.                                        *)
Admissible(used, highest, g) == IF used THEN g > highest ELSE g = 0

(* Mutant: only the first generation of a Carrier is remembered.           *)
RaisedOnce(highest, c, g) == highest

(* commitCarrierGenerationLocked.                                          *)
Raised(highest, c, g) == [highest EXCEPT ![c] = g]

(* Mutant: the client does not wait for SERVER_FINISHED.                   *)
AnsweredEarly(k) == conn[k].server \in {"offer", "commit", "attach", "up", "left"}

(* SERVER_FINISHED can be read.                                            *)
Answered(k) == conn[k].server \in {"commit", "attach", "up", "left"}

(* The rest of clientHandshake, and addCarrier at the client.              *)
ClientAttaches(k) ==
  LET c == conn[k].carrier
      g == conn[k].generation IN
  /\ conn[k].client = "finished" /\ Answered(k)
  /\ Admissible(cUsed[c], cHighest[c], g)
  /\ conn' = [conn EXCEPT ![k].client = "up"]
  /\ phase' = "open"
  /\ cUsed' = [cUsed EXCEPT ![c] = TRUE]
  /\ cHighest' = Raised(cHighest, c, g)
  /\ cSpent' = [cSpent EXCEPT ![c] = (g = LastGeneration)]
  /\ cNext' = [cNext EXCEPT ![c] =
       IF g = LastGeneration THEN 0 ELSE IF @ <= g THEN g + 1 ELSE @]
  /\ cPath' = [cPath EXCEPT ![c] = k]
  /\ UNCHANGED <<turn, cExpired, serverVars, failures>>

(* Mutant: an end that closes after the handshake is not noticed.          *)
BreaksQuietly(other) ==
  \/ other = "gone" /\ UNCHANGED failures
  \/ other \notin Gone /\ failures < MaxFailures /\ failures' = failures + 1

(* An end fails: the other end has gone, or the network fails.             *)
Breaks(other) ==
  \/ other \in Gone /\ UNCHANGED failures
  \/ other \notin Gone /\ failures < MaxFailures /\ failures' = failures + 1

(* The handshake fails at the client: it was refused, or the connection    *)
(* failed, or the answer did not come within handshakeTimeout.  DialClient *)
(* goes on to the next address.                                            *)
ClientFails(k) ==
  /\ conn[k].client \in {"init", "finished"}
  /\ Breaks(conn[k].server)
  /\ conn' = [conn EXCEPT ![k] = ClientGoes(@)]
  /\ IF phase = "dialing"
     THEN /\ turn' = IF turn < NumCarriers THEN turn + 1 ELSE turn
          /\ phase' = IF turn < NumCarriers THEN phase ELSE "failed"
     ELSE UNCHANGED <<phase, turn>>
  /\ UNCHANGED <<cUsed, cHighest, cNext, cSpent, cPath, cExpired, serverVars>>

(* readCarrier and detachLocked at the client.                             *)
ClientLoses(c) ==
  LET k == cPath[c] IN
  /\ k # NoConn
  /\ Breaks(conn[k].server)
  /\ conn' = [conn EXCEPT ![k] = ClientGoes(@)]
  /\ cPath' = [cPath EXCEPT ![c] = NoConn]
  /\ UNCHANGED <<phase, turn, cUsed, cHighest, cNext, cSpent, cExpired, serverVars>>

NoPaths(path) == \A c \in Carriers : path[c] = NoConn

(* Session.run decides under the lock, and stops the Session after it.     *)
ClientExpires ==
  /\ phase = "open" /\ ~cExpired /\ NoPaths(cPath)
  /\ cExpired' = TRUE
  /\ UNCHANGED <<phase, turn, cUsed, cHighest, cNext, cSpent, cPath, serverVars, conn, failures>>

(* stop at the client: it closes every connection.                         *)
ClientStops ==
  /\ phase \in {"dialing", "open"}
  /\ phase' = "closed"
  /\ conn' = [k \in Conns |-> ClientGoes(conn[k])]
  /\ cPath' = [c \in Carriers |-> NoConn]
  /\ cExpired' = FALSE
  /\ UNCHANGED <<turn, cUsed, cHighest, cNext, cSpent, serverVars, failures>>

-----------------------------------------------------------------------------
(* The server.                                                             *)

(* attach: what validates a CLIENT_INIT before anything is committed.      *)
Welcome(k, registered) ==
  LET r == conn[k] IN
  IF r.create THEN r.generation = 0 /\ registered = "none"
  ELSE registered = "open" /\ Admissible(sUsed[r.carrier], sHighest[r.carrier], r.generation)

Forget == /\ sess' = "none"
          /\ sUsed' = [c \in Carriers |-> FALSE]
          /\ sHighest' = [c \in Carriers |-> 0]

(* attach up to SERVER_INIT or HANDSHAKE_REJECT.  It prunes a Session      *)
(* whose run loop has ended.                                               *)
ServerOffers(k) ==
  /\ conn[k].server = "init"
  /\ \/ sess = "closed" /\ Forget
     \/ UNCHANGED <<sess, sUsed, sHighest>>
  /\ \/ /\ Welcome(k, sess')
        /\ conn' = [conn EXCEPT ![k].server = "offer"]
     \/ /\ Welcome(k, sess') => conn[k].create /\ MayBeFull
        /\ conn' = [conn EXCEPT ![k] = ServerGoes(@)]
  /\ UNCHANGED <<clientVars, sPath, sExpired, failures>>

(* incomingHandshake.finish: CLIENT_FINISHED read, SERVER_FINISHED written.*)
ServerFinishes(k) ==
  /\ conn[k].server = "offer" /\ conn[k].client \in {"finished", "left"}
  /\ conn' = [conn EXCEPT ![k].server = "commit"]
  /\ UNCHANGED <<clientVars, serverVars, failures>>

(* attach: the registry is read again, a CREATE makes its Session.         *)
ServerCommits(k) ==
  /\ conn[k].server = "commit"
  /\ \/ /\ conn[k].create /\ sess = "none"
        /\ sess' = "open"
        /\ conn' = [conn EXCEPT ![k].server = "attach"]
     \/ /\ ~conn[k].create /\ sess = "open"
        /\ conn' = [conn EXCEPT ![k].server = "attach"]
        /\ UNCHANGED sess
     \/ /\ IF conn[k].create THEN sess # "none" \/ MayBeFull ELSE sess # "open"
        /\ conn' = [conn EXCEPT ![k] = ServerGoes(@)]
        /\ UNCHANGED sess
  /\ UNCHANGED <<clientVars, sUsed, sHighest, sPath, sExpired, failures>>

(* Mutant: the superseded incarnation stays attached.                      *)
SupersedeNone(k, old) == [conn EXCEPT ![k].server = "up"]

(* detachLocked of the incarnation that is superseded.                     *)
Supersede(k, old) ==
  [j \in Conns |-> IF j = k THEN [conn[k] EXCEPT !.server = "up"]
                   ELSE IF j = old THEN ServerGoes(conn[j]) ELSE conn[j]]

(* addCarrier at the server: a higher generation supersedes the incarnation*)
(* that is active, anything else is closed.                                *)
ServerAttaches(k) ==
  LET c == conn[k].carrier
      g == conn[k].generation IN
  /\ conn[k].server = "attach"
  /\ IF Admissible(sUsed[c], sHighest[c], g)
     THEN /\ sUsed' = [sUsed EXCEPT ![c] = TRUE]
          /\ sHighest' = Raised(sHighest, c, g)
          /\ sPath' = [sPath EXCEPT ![c] = k]
          /\ conn' = Supersede(k, sPath[c])
     ELSE /\ conn' = [conn EXCEPT ![k] = ServerGoes(@)]
          /\ UNCHANGED <<sUsed, sHighest, sPath>>
  /\ UNCHANGED <<clientVars, sess, sExpired, failures>>

(* A handshake fails at the server before SERVER_FINISHED.                 *)
ServerFails(k) ==
  /\ conn[k].server \in {"init", "offer"}
  /\ Breaks(conn[k].client)
  /\ conn' = [conn EXCEPT ![k] = ServerGoes(@)]
  /\ UNCHANGED <<clientVars, serverVars>>

ServerLoses(c) ==
  LET k == sPath[c] IN
  /\ k # NoConn
  /\ Breaks(conn[k].client)
  /\ conn' = [conn EXCEPT ![k] = ServerGoes(@)]
  /\ sPath' = [sPath EXCEPT ![c] = NoConn]
  /\ UNCHANGED <<clientVars, sess, sUsed, sHighest, sExpired>>

(* 30 seconds are longer than DialClient takes for three addresses (4 to   *)
(* connect and 5 for the handshake each), so no CREATE is unfinished then. *)
ServerExpires ==
  /\ sess = "open" /\ ~sExpired /\ NoPaths(sPath)
  /\ \A k \in Conns : conn[k].create => conn[k].server \in Gone \cup {"up"}
  /\ sExpired' = TRUE
  /\ UNCHANGED <<clientVars, sess, sUsed, sHighest, sPath, conn, failures>>

(* stop at the server.  A handler that already holds the Session finds it  *)
(* closed in addCarrier.                                                   *)
ServerStops ==
  /\ sExpired
  /\ sess' = "closed"
  /\ conn' = [k \in Conns |-> IF conn[k].server \in {"attach", "up"}
                              THEN ServerGoes(conn[k]) ELSE conn[k]]
  /\ sPath' = [c \in Carriers |-> NoConn]
  /\ sExpired' = FALSE
  /\ UNCHANGED <<clientVars, sUsed, sHighest, failures>>

-----------------------------------------------------------------------------
ClientStep ==
  \/ \E k \in Conns : Dial(k) \/ ClientFinishes(k) \/ ClientAttaches(k) \/ ClientFails(k)
  \/ \E k \in Conns, c \in Carriers : Maintain(k, c)
  \/ \E c \in Carriers : ClientLoses(c)
  \/ ClientExpires \/ ClientStops

ServerStep ==
  \/ \E k \in Conns : \/ ServerOffers(k) \/ ServerFinishes(k) \/ ServerCommits(k)
                       \/ ServerAttaches(k) \/ ServerFails(k)
  \/ \E c \in Carriers : ServerLoses(c)
  \/ ServerExpires \/ ServerStops

Next == ClientStep \/ ServerStep

Spec == Init /\ [][Next]_vars

(* The goroutines run, handshakes end within handshakeTimeout, each end    *)
(* notices that the other closed a connection, and the run loop stops a    *)
(* Session that stays without Carriers.  That connections stop failing     *)
(* (MaxFailures) is the only assumption about the network.                 *)
Fairness ==
  /\ WF_vars(\E k \in Conns : Dial(k))
  /\ WF_vars(ClientExpires) /\ WF_vars(cExpired /\ ClientStops)
  /\ WF_vars(ServerExpires) /\ WF_vars(ServerStops)
  /\ \A c \in Carriers :
       /\ WF_vars(\E k \in Conns : Maintain(k, c))
       /\ WF_vars(cPath[c] # NoConn /\ conn[cPath[c]].server \in Gone /\ ClientLoses(c))
       /\ WF_vars(sPath[c] # NoConn /\ conn[sPath[c]].client \in Gone /\ ServerLoses(c))
  /\ \A k \in Conns :
       /\ WF_vars(ClientFinishes(k)) /\ WF_vars(ClientAttaches(k))
       /\ WF_vars(conn[k].server \in Gone /\ ClientFails(k))
       /\ WF_vars(ServerOffers(k)) /\ WF_vars(ServerFinishes(k))
       /\ WF_vars(ServerCommits(k)) /\ WF_vars(ServerAttaches(k))
       /\ WF_vars(conn[k].client \in Gone /\ ServerFails(k))

FairSpec == Spec /\ Fairness

-----------------------------------------------------------------------------
ClientStages == {"init", "finished", "up"} \cup Gone
ServerStages == {"init", "offer", "commit", "attach", "up"} \cup Gone
Connections == [carrier : Carriers, generation : Generations, create : BOOLEAN,
                client : ClientStages, server : ServerStages]

(* Every variable has its type.                                            *)
TypeOK ==
  /\ phase \in {"dialing", "open", "failed", "closed"} /\ turn \in Carriers
  /\ sess \in {"none", "open", "closed"}
  /\ cUsed \in [Carriers -> BOOLEAN] /\ sUsed \in [Carriers -> BOOLEAN]
  /\ cHighest \in [Carriers -> Generations] /\ sHighest \in [Carriers -> Generations]
  /\ cNext \in [Carriers -> Generations] /\ cSpent \in [Carriers -> BOOLEAN]
  /\ cPath \in [Carriers -> Conns \cup {NoConn}]
  /\ sPath \in [Carriers -> Conns \cup {NoConn}]
  /\ cExpired \in BOOLEAN /\ sExpired \in BOOLEAN
  /\ conn \in [Conns -> Connections]
  /\ failures \in Nat

(* The connections an endpoint schedules on are those it has attached and  *)
(* not lost: one per Carrier ID, a superseded one never.                   *)
Scheduled ==
  \A k \in Conns :
    /\ conn[k].client = "up" <=> cPath[conn[k].carrier] = k
    /\ conn[k].server = "up" <=> sPath[conn[k].carrier] = k

(* Every candidate for a Carrier the client has used has a generation      *)
(* above all that the server may have accepted, ambiguous ones included.   *)
CandidateAboveServer ==
  \A c \in Carriers :
    phase = "open" /\ sess = "open" /\ cUsed[c] /\ sUsed[c] /\ ~cSpent[c]
      => Candidate(c) > sHighest[c]

(* The inductive invariant of CarriersProofs.  The paths lead to           *)
(* connections of their Carrier; a Carrier has one candidate at a time, and *)
(* none of a lower generation when the last one is taken; every connection *)
(* and everything the server accepted is below the next candidate; only an *)
(* open Session of the server has connections.                             *)
InStage(k, c) == conn[k].carrier = c /\ conn[k].client \in {"init", "finished"}

ClientPaths ==
  /\ \A k \in Conns : conn[k].client = "up" <=> cPath[conn[k].carrier] = k
  /\ \A c \in Carriers : cPath[c] # NoConn => conn[cPath[c]].carrier = c

ServerPaths ==
  /\ \A k \in Conns : conn[k].server = "up" <=> sPath[conn[k].carrier] = k
  /\ \A c \in Carriers : sPath[c] # NoConn => conn[sPath[c]].carrier = c

TryInv ==
  /\ phase = "dialing" => \A c \in Carriers : cPath[c] = NoConn /\ ~cUsed[c]
  /\ \A c \in Carriers, j, k \in Conns :
       InStage(j, c) => /\ cPath[c] = NoConn
                        /\ InStage(k, c) => j = k
                        /\ cUsed[c] /\ cSpent[c] => conn[j].generation = LastGeneration

Below(c, g) ==
  IF cUsed[c] THEN cSpent[c] \/ g <= cHighest[c] \/ g < cNext[c] ELSE g = 0

GenInv ==
  /\ \A k \in Conns : Below(conn[k].carrier, conn[k].generation)
  /\ \A c \in Carriers : Below(c, sHighest[c])
  /\ \A c \in Carriers : cUsed[c] /\ cHighest[c] = LastGeneration => cSpent[c]

SessInv ==
  sess # "open" => /\ NoPaths(sPath)
                   /\ \A k \in Conns : conn[k].server # "attach"

IInv == TypeOK /\ ClientPaths /\ ServerPaths /\ TryInv /\ GenInv /\ SessInv

Handled(c) == \E k \in Conns : conn[k].carrier = c /\ conn[k].server \in {"commit", "attach"}

(* A Carrier the client takes for accepted is accepted by the server, or   *)
(* its handler is about to: otherwise every later candidate would be       *)
(* refused, since a first generation must be 0.  It needs a server Session *)
(* that was created over the Carrier for which DialClient succeeded.       *)
AcceptedByServer ==
  phase = "open" /\ sess = "open" /\ sUsed[turn] =>
    \A c \in Carriers : cUsed[c] => sUsed[c] \/ Handled(c)

(* Each endpoint keeps the history of incarnations the protocol asks for.  *)
History(used, highest) == [c \in Carriers |-> IF used[c] THEN highest[c] ELSE -1]
Live(path) == [c \in Carriers |-> IF path[c] = NoConn THEN -1 ELSE conn[path[c]].generation]

Client == INSTANCE Incarnations WITH
  NoGeneration <- -1, highest <- History(cUsed, cHighest), live <- Live(cPath)
Server == INSTANCE Incarnations WITH
  NoGeneration <- -1, highest <- History(sUsed, sHighest), live <- Live(sPath)

ClientKeepsHistory == Client!Spec
ServerKeepsHistory == Server!Spec
(* Both do, each for the lifetime of its Session.                          *)
HistoriesKept == ClientKeepsHistory /\ ServerKeepsHistory

Agreed(c) == cPath[c] # NoConn /\ cPath[c] = sPath[c]

(* A Carrier that both ends have accepted comes back on one connection, or *)
(* the Session ends: candidates keep their turn and their generations.     *)
Reconnects ==
  \A c \in Carriers :
    (phase = "open" /\ sess = "open" /\ cUsed[c] /\ sUsed[c])
      ~> (phase # "open" \/ Agreed(c) \/ cSpent[c])

(* Neither end keeps a Session that the other has ended or never had.      *)
EndTogether ==
  /\ (phase \in {"failed", "closed"}) ~> (sess # "open")
  /\ (phase = "open" /\ sess = "closed") ~> (phase = "closed")
=============================================================================

--------------------------- MODULE CarriersProofs ---------------------------
(***************************************************************************)
(* Theorems about Carriers, for any number of Carriers, connections,       *)
(* generations and failures.                                               *)
(***************************************************************************)
EXTENDS Carriers, TLAPS

-----------------------------------------------------------------------------
(* Connections.                                                            *)

LEMMA Numbers == /\ 1 \in Carriers /\ Carriers \subseteq Nat
                 /\ 0 \in Generations /\ LastGeneration \in Generations
                 /\ Generations \subseteq Nat
BY CarriersAssumption DEF Carriers, Generations

LEMMA NoHandshakeType == NoHandshake \in Connections
BY Numbers DEF NoHandshake, Connections, ClientStages, ServerStages, Gone

(* What is left of a connection that one end closes.                       *)
LEMMA ClientGoesFacts ==
  ASSUME NEW r \in Connections
  PROVE  /\ ClientGoes(r) \in Connections
         /\ ClientGoes(r).client \in Gone
         /\ \/ ClientGoes(r) = NoHandshake /\ r.server \in Gone
            \/ /\ ClientGoes(r).carrier = r.carrier
               /\ ClientGoes(r).generation = r.generation
               /\ ClientGoes(r).server = r.server
<1> DEFINE q == [r EXCEPT !.client = Leaves(@, {"finished", "up"})]
<1>1. q.client \in Gone
  BY DEF Connections, ClientStages, Leaves, Gone
<1>2. /\ q \in Connections
      /\ q.carrier = r.carrier /\ q.generation = r.generation /\ q.server = r.server
  BY <1>1 DEF Connections, ClientStages
<1>3. ClientGoes(r) = IF r.server \in Gone THEN NoHandshake ELSE q
  BY <1>1, <1>2 DEF ClientGoes, Tidy
<1> HIDE DEF q
<1>. QED BY <1>1, <1>2, <1>3, NoHandshakeType DEF NoHandshake, Gone

LEMMA ServerGoesFacts ==
  ASSUME NEW r \in Connections
  PROVE  /\ ServerGoes(r) \in Connections
         /\ ServerGoes(r).server \in Gone
         /\ \/ ServerGoes(r) = NoHandshake /\ r.client \in Gone
            \/ /\ ServerGoes(r).carrier = r.carrier
               /\ ServerGoes(r).generation = r.generation
               /\ ServerGoes(r).client = r.client
<1> DEFINE q == [r EXCEPT !.server = Leaves(@, {"commit", "attach", "up"})]
<1>1. q.server \in Gone
  BY DEF Connections, ServerStages, Leaves, Gone
<1>2. /\ q \in Connections
      /\ q.carrier = r.carrier /\ q.generation = r.generation /\ q.client = r.client
  BY <1>1 DEF Connections, ServerStages
<1>3. ServerGoes(r) = IF r.client \in Gone THEN NoHandshake ELSE q
  BY <1>1, <1>2 DEF ServerGoes, Tidy
<1> HIDE DEF q
<1>. QED BY <1>1, <1>2, <1>3, NoHandshakeType DEF NoHandshake, Gone

-----------------------------------------------------------------------------
(* Types.                                                                  *)

LEMMA TypeInit == Init => TypeOK
<1> SUFFICES ASSUME Init PROVE TypeOK
  OBVIOUS
<1>1. conn \in [Conns -> Connections]
  BY NoHandshakeType DEF Init
<1>2. /\ cUsed \in [Carriers -> BOOLEAN] /\ cSpent \in [Carriers -> BOOLEAN]
      /\ sUsed \in [Carriers -> BOOLEAN]
  BY DEF Init
<1>3. /\ cHighest \in [Carriers -> Generations] /\ sHighest \in [Carriers -> Generations]
      /\ cNext \in [Carriers -> Generations]
  BY Numbers DEF Init
<1>. QED BY <1>1, <1>2, <1>3, Numbers DEF Init, TypeOK

LEMMA CandidateType ==
  ASSUME TypeOK, NEW c \in Carriers, ~Exhausted(c)
  PROVE  Candidate(c) \in Generations
<1>1. cHighest[c] \in Generations /\ cNext[c] \in Generations
  BY DEF TypeOK
<1>2. cUsed[c] => cHighest[c] # LastGeneration
  BY DEF Exhausted
<1>. QED BY <1>1, <1>2, Numbers, CarriersAssumption DEF Candidate, Generations

LEMMA ConnType ==
  ASSUME TypeOK, Next PROVE conn' \in [Conns -> Connections]
<1>1. conn \in [Conns -> Connections]
  BY DEF TypeOK
<1>2. ASSUME NEW k \in Conns, NEW c \in Carriers, NEW g \in Generations, NEW b \in BOOLEAN,
             Connect(k, c, g, b)
      PROVE  conn' \in [Conns -> Connections]
  BY <1>1, <1>2 DEF Connect, Connections, ClientStages, ServerStages
<1>3. ASSUME NEW k \in Conns, conn' = [conn EXCEPT ![k] = ClientGoes(@)]
      PROVE  conn' \in [Conns -> Connections]
  BY <1>1, <1>3, ClientGoesFacts
<1>4. ASSUME NEW k \in Conns, conn' = [conn EXCEPT ![k] = ServerGoes(@)]
      PROVE  conn' \in [Conns -> Connections]
  BY <1>1, <1>4, ServerGoesFacts
<1>5. ASSUME NEW k \in Conns, NEW s \in {"finished", "up"}, conn' = [conn EXCEPT ![k].client = s]
      PROVE  conn' \in [Conns -> Connections]
  BY <1>1, <1>5 DEF Connections, ClientStages
<1>6. ASSUME NEW k \in Conns, NEW s \in {"offer", "commit", "attach"},
             conn' = [conn EXCEPT ![k].server = s]
      PROVE  conn' \in [Conns -> Connections]
  BY <1>1, <1>6 DEF Connections, ServerStages
<1>7. ASSUME NEW k \in Conns, NEW old, conn' = Supersede(k, old)
      PROVE  conn' \in [Conns -> Connections]
  <2>1. [conn[k] EXCEPT !.server = "up"] \in Connections
    BY <1>1 DEF Connections, ServerStages
  <2>. QED BY <1>1, <1>7, <2>1, ServerGoesFacts DEF Supersede
<1>c1. ASSUME NEW k \in Conns, Dial(k) PROVE conn' \in [Conns -> Connections]
  BY <1>c1, <1>2, Numbers DEF Dial, TypeOK
<1>c2. ASSUME NEW k \in Conns, NEW c \in Carriers, Maintain(k, c)
       PROVE  conn' \in [Conns -> Connections]
  BY <1>c2, <1>2, CandidateType DEF Maintain
<1>c3. ASSUME NEW k \in Conns, ClientFinishes(k) PROVE conn' \in [Conns -> Connections]
  BY <1>c3, <1>5 DEF ClientFinishes
<1>c4. ASSUME NEW k \in Conns, ClientAttaches(k) PROVE conn' \in [Conns -> Connections]
  BY <1>c4, <1>5 DEF ClientAttaches
<1>c5. ASSUME NEW k \in Conns, ClientFails(k) PROVE conn' \in [Conns -> Connections]
  BY <1>c5, <1>3 DEF ClientFails
<1>c6. ASSUME NEW c \in Carriers, ClientLoses(c) PROVE conn' \in [Conns -> Connections]
  BY <1>c6, <1>3 DEF ClientLoses, TypeOK
<1>c7. CASE ClientExpires
  BY <1>c7, <1>1 DEF ClientExpires
<1>c8. CASE ClientStops
  BY <1>c8, <1>1, ClientGoesFacts DEF ClientStops
<1>s1. ASSUME NEW k \in Conns, ServerOffers(k) PROVE conn' \in [Conns -> Connections]
  BY <1>s1, <1>4, <1>6 DEF ServerOffers
<1>s2. ASSUME NEW k \in Conns, ServerFinishes(k) PROVE conn' \in [Conns -> Connections]
  BY <1>s2, <1>6 DEF ServerFinishes
<1>s3. ASSUME NEW k \in Conns, ServerCommits(k) PROVE conn' \in [Conns -> Connections]
  BY <1>s3, <1>4, <1>6 DEF ServerCommits
<1>s4. ASSUME NEW k \in Conns, ServerAttaches(k) PROVE conn' \in [Conns -> Connections]
  BY <1>s4, <1>4, <1>7 DEF ServerAttaches
<1>s5. ASSUME NEW k \in Conns, ServerFails(k) PROVE conn' \in [Conns -> Connections]
  BY <1>s5, <1>4 DEF ServerFails
<1>s6. ASSUME NEW c \in Carriers, ServerLoses(c) PROVE conn' \in [Conns -> Connections]
  BY <1>s6, <1>4 DEF ServerLoses, TypeOK
<1>s7. CASE ServerExpires
  BY <1>s7, <1>1 DEF ServerExpires
<1>s8. CASE ServerStops
  BY <1>s8, <1>1, ServerGoesFacts DEF ServerStops
<1>. QED BY <1>c1, <1>c2, <1>c3, <1>c4, <1>c5, <1>c6, <1>c7, <1>c8,
            <1>s1, <1>s2, <1>s3, <1>s4, <1>s5, <1>s6, <1>s7, <1>s8
     DEF Next, ClientStep, ServerStep

LEMMA TypeStep ==
  ASSUME TypeOK, [Next]_vars PROVE TypeOK'
<1>0. ASSUME UNCHANGED vars PROVE TypeOK'
  BY <1>0 DEF TypeOK, vars, clientVars, serverVars
<1>1. ASSUME Next PROVE conn' \in [Conns -> Connections]
  BY <1>1, ConnType
<1>2. ASSUME NEW other, Breaks(other) PROVE failures' \in Nat
  BY <1>2 DEF Breaks, TypeOK
<1>c1. ASSUME NEW k \in Conns, Dial(k) PROVE TypeOK'
  BY <1>c1, <1>1 DEF Dial, TypeOK, clientVars, serverVars, Next, ClientStep
<1>c2. ASSUME NEW k \in Conns, NEW c \in Carriers, Maintain(k, c) PROVE TypeOK'
  <2>1. Candidate(c) \in Generations /\ (Candidate(c) < LastGeneration => Candidate(c) + 1 \in Generations)
    BY <1>c2, CandidateType, Numbers, CarriersAssumption DEF Maintain, Generations
  <2>2. cNext' \in [Carriers -> Generations] /\ cSpent' \in [Carriers -> BOOLEAN]
    BY <1>c2, <2>1 DEF Maintain, TypeOK
  <2>3. conn' \in [Conns -> Connections]
    BY <1>c2, <1>1 DEF Next, ClientStep
  <2>. QED BY <1>c2, <2>2, <2>3 DEF Maintain, TypeOK, serverVars
<1>c3. ASSUME NEW k \in Conns, ClientFinishes(k) PROVE TypeOK'
  BY <1>c3, <1>1 DEF ClientFinishes, TypeOK, clientVars, serverVars, Next, ClientStep
<1>c4. ASSUME NEW k \in Conns, ClientAttaches(k) PROVE TypeOK'
  <2>1. conn[k].carrier \in Carriers /\ conn[k].generation \in Generations
    BY DEF TypeOK, Connections
  <2>2. conn[k].generation # LastGeneration => conn[k].generation + 1 \in Generations
    BY <2>1, Numbers, CarriersAssumption DEF Generations
  <2>3. /\ cUsed' \in [Carriers -> BOOLEAN] /\ cSpent' \in [Carriers -> BOOLEAN]
        /\ cHighest' \in [Carriers -> Generations]
    BY <1>c4, <2>1 DEF ClientAttaches, TypeOK, Raised
  <2>4. cNext' \in [Carriers -> Generations]
    BY <1>c4, <2>1, <2>2, Numbers DEF ClientAttaches, TypeOK
  <2>5. cPath' \in [Carriers -> Conns \cup {NoConn}]
    BY <1>c4 DEF ClientAttaches, TypeOK
  <2>6. conn' \in [Conns -> Connections]
    BY <1>c4, <1>1 DEF Next, ClientStep
  <2>. QED BY <1>c4, <2>3, <2>4, <2>5, <2>6 DEF ClientAttaches, TypeOK, serverVars
<1>c5. ASSUME NEW k \in Conns, ClientFails(k) PROVE TypeOK'
  <2>1. conn' \in [Conns -> Connections] /\ failures' \in Nat
    BY <1>c5, <1>1, <1>2 DEF Next, ClientStep, ClientFails
  <2>2. turn' \in Carriers /\ phase' \in {"dialing", "open", "failed", "closed"}
    BY <1>c5, CarriersAssumption DEF ClientFails, TypeOK, Carriers
  <2>. QED BY <1>c5, <2>1, <2>2 DEF ClientFails, TypeOK, serverVars
<1>c6. ASSUME NEW c \in Carriers, ClientLoses(c) PROVE TypeOK'
  <2>1. conn' \in [Conns -> Connections] /\ failures' \in Nat
    BY <1>c6, <1>1, <1>2 DEF Next, ClientStep, ClientLoses
  <2>. QED BY <1>c6, <2>1 DEF ClientLoses, TypeOK, serverVars
<1>c7. CASE ClientExpires
  BY <1>c7 DEF ClientExpires, TypeOK, serverVars
<1>c8. CASE ClientStops
  BY <1>c8, <1>1 DEF ClientStops, TypeOK, serverVars, Next, ClientStep
<1>s1. ASSUME NEW k \in Conns, ServerOffers(k) PROVE TypeOK'
  <2>1. conn' \in [Conns -> Connections]
    BY <1>s1, <1>1 DEF Next, ServerStep
  <2>2. /\ sess' \in {"none", "open", "closed"} /\ sUsed' \in [Carriers -> BOOLEAN]
        /\ sHighest' \in [Carriers -> Generations]
    BY <1>s1, Numbers DEF ServerOffers, Forget, TypeOK
  <2>. QED BY <1>s1, <2>1, <2>2 DEF ServerOffers, TypeOK, clientVars
<1>s2. ASSUME NEW k \in Conns, ServerFinishes(k) PROVE TypeOK'
  BY <1>s2, <1>1 DEF ServerFinishes, TypeOK, clientVars, serverVars, Next, ServerStep
<1>s3. ASSUME NEW k \in Conns, ServerCommits(k) PROVE TypeOK'
  <2>1. conn' \in [Conns -> Connections]
    BY <1>s3, <1>1 DEF Next, ServerStep
  <2>2. sess' \in {"none", "open", "closed"}
    BY <1>s3 DEF ServerCommits, TypeOK
  <2>. QED BY <1>s3, <2>1, <2>2 DEF ServerCommits, TypeOK, clientVars
<1>s4. ASSUME NEW k \in Conns, ServerAttaches(k) PROVE TypeOK'
  <2>1. conn' \in [Conns -> Connections]
    BY <1>s4, <1>1 DEF Next, ServerStep
  <2>2. conn[k].carrier \in Carriers /\ conn[k].generation \in Generations
    BY DEF TypeOK, Connections
  <2>3. /\ sUsed' \in [Carriers -> BOOLEAN] /\ sHighest' \in [Carriers -> Generations]
        /\ sPath' \in [Carriers -> Conns \cup {NoConn}]
    BY <1>s4, <2>2, ZenonT(60) DEF ServerAttaches, TypeOK, Raised
  <2>. QED BY <1>s4, <2>1, <2>3 DEF ServerAttaches, TypeOK, clientVars
<1>s5. ASSUME NEW k \in Conns, ServerFails(k) PROVE TypeOK'
  <2>1. conn' \in [Conns -> Connections] /\ failures' \in Nat
    BY <1>s5, <1>1, <1>2 DEF Next, ServerStep, ServerFails
  <2>. QED BY <1>s5, <2>1 DEF ServerFails, TypeOK, clientVars, serverVars
<1>s6. ASSUME NEW c \in Carriers, ServerLoses(c) PROVE TypeOK'
  <2>1. conn' \in [Conns -> Connections] /\ failures' \in Nat
    BY <1>s6, <1>1, <1>2 DEF Next, ServerStep, ServerLoses
  <2>. QED BY <1>s6, <2>1 DEF ServerLoses, TypeOK, clientVars
<1>s7. CASE ServerExpires
  BY <1>s7 DEF ServerExpires, TypeOK, clientVars
<1>s8. CASE ServerStops
  BY <1>s8, <1>1 DEF ServerStops, TypeOK, clientVars, Next, ServerStep
<1>. QED BY <1>0, <1>c1, <1>c2, <1>c3, <1>c4, <1>c5, <1>c6, <1>c7, <1>c8,
            <1>s1, <1>s2, <1>s3, <1>s4, <1>s5, <1>s6, <1>s7, <1>s8
     DEF Next, ClientStep, ServerStep

(* Every variable of the client, of the server and of the connections keeps *)
(* its type.                                                               *)
THEOREM CarrierTypes == Spec => []TypeOK
<1>1. TypeOK /\ [Next]_vars => TypeOK'
  BY TypeStep
<1>. QED BY TypeInit, <1>1, PTL DEF Spec

-----------------------------------------------------------------------------
(* What a step leaves alone.                                               *)

Same(k) ==
  conn'[k].carrier = conn[k].carrier /\ conn'[k].generation = conn[k].generation

(* An end stays in its stage, or gone.                                     *)
ClientEndStays(k) ==
  \/ conn'[k].client = conn[k].client
  \/ {conn'[k].client, conn[k].client} \subseteq Gone

ServerEndStays(k) ==
  \/ conn'[k].server = conn[k].server
  \/ {conn'[k].server, conn[k].server} \subseteq Gone

(* The client's active connections stay as they are.                       *)
ClientUpCalm ==
  /\ UNCHANGED <<cUsed, cHighest, cPath>>
  /\ \A k \in Conns : /\ conn'[k].client = "up" <=> conn[k].client = "up"
                      /\ conn[k].client = "up" => Same(k)

(* And it makes no candidate.                                              *)
ClientCalm ==
  /\ ClientUpCalm
  /\ UNCHANGED <<cNext, cSpent>>
  /\ phase' = "dialing" => phase = "dialing"
  /\ \A k \in Conns : /\ conn'[k].client \notin Gone => conn[k].client \notin Gone
                      /\ conn'[k] = NoHandshake \/ Same(k)

ServerCalm ==
  /\ UNCHANGED sPath
  /\ \A k \in Conns : /\ conn'[k].server = "up" <=> conn[k].server = "up"
                      /\ conn[k].server = "up" => Same(k)

(* One connection changes.                                                 *)
LEMMA OneGoes ==
  ASSUME TypeOK, NEW k \in Conns
  PROVE  /\ conn' = [conn EXCEPT ![k] = ClientGoes(@)] =>
              \A j \in Conns : /\ j # k => conn'[j] = conn[j]
                               /\ conn'[j] = NoHandshake \/ Same(j)
                               /\ conn'[k].client \in Gone
                               /\ ServerEndStays(j)
         /\ conn' = [conn EXCEPT ![k] = ServerGoes(@)] =>
              \A j \in Conns : /\ j # k => conn'[j] = conn[j]
                               /\ conn'[j] = NoHandshake \/ Same(j)
                               /\ conn'[k].server \in Gone
                               /\ ClientEndStays(j)
<1>1. conn \in [Conns -> Connections]
  BY DEF TypeOK
<1>2. ASSUME conn' = [conn EXCEPT ![k] = ClientGoes(@)], NEW j \in Conns
      PROVE  /\ j # k => conn'[j] = conn[j]
             /\ conn'[j] = NoHandshake \/ Same(j)
             /\ conn'[k].client \in Gone
             /\ ServerEndStays(j)
  <2>1. conn'[k] = ClientGoes(conn[k]) /\ conn[k] \in Connections
    BY <1>1, <1>2
  <2>2. j # k => conn'[j] = conn[j]
    BY <1>1, <1>2
  <2>3. NoHandshake.server \in Gone
    BY DEF NoHandshake, Gone
  <2>. QED BY <2>1, <2>2, <2>3, ClientGoesFacts DEF Same, ServerEndStays
<1>3. ASSUME conn' = [conn EXCEPT ![k] = ServerGoes(@)], NEW j \in Conns
      PROVE  /\ j # k => conn'[j] = conn[j]
             /\ conn'[j] = NoHandshake \/ Same(j)
             /\ conn'[k].server \in Gone
             /\ ClientEndStays(j)
  <2>1. conn'[k] = ServerGoes(conn[k]) /\ conn[k] \in Connections
    BY <1>1, <1>3
  <2>2. j # k => conn'[j] = conn[j]
    BY <1>1, <1>3
  <2>3. NoHandshake.client \in Gone
    BY DEF NoHandshake, Gone
  <2>. QED BY <2>1, <2>2, <2>3, ServerGoesFacts DEF Same, ClientEndStays
<1>. QED BY <1>2, <1>3

LEMMA OneStage ==
  ASSUME TypeOK, NEW k \in Conns, NEW s
  PROVE  /\ conn' = [conn EXCEPT ![k].client = s] =>
              \A j \in Conns : /\ j # k => conn'[j] = conn[j]
                               /\ Same(j)
                               /\ conn'[k].client = s
                               /\ conn'[j].server = conn[j].server
         /\ conn' = [conn EXCEPT ![k].server = s] =>
              \A j \in Conns : /\ j # k => conn'[j] = conn[j]
                               /\ Same(j)
                               /\ conn'[k].server = s
                               /\ conn'[j].client = conn[j].client
BY DEF TypeOK, Connections, Same

LEMMA OneConnects ==
  ASSUME TypeOK, NEW k \in Conns, NEW c, NEW g, NEW b, Connect(k, c, g, b)
  PROVE  /\ conn[k] = NoHandshake
         /\ conn'[k] = [carrier |-> c, generation |-> g, create |-> b,
                        client |-> "init", server |-> "init"]
         /\ \A j \in Conns : j # k => conn'[j] = conn[j]
BY DEF TypeOK, Connect, Idle

LEMMA UpIsNotGone == "up" \notin Gone /\ "init" \notin Gone /\ "finished" \notin Gone
BY DEF Gone

LEMMA ClientActs ==
  ASSUME TypeOK, Next
  PROVE  \/ \E k \in Conns : Dial(k)
         \/ \E k \in Conns, c \in Carriers : Maintain(k, c)
         \/ \E k \in Conns : ClientAttaches(k)
         \/ \E c \in Carriers : ClientLoses(c)
         \/ ClientStops
         \/ ClientCalm
<1> USE DEF ClientCalm, ClientUpCalm
<1>1. ASSUME UNCHANGED clientVars, \A j \in Conns : ClientEndStays(j),
             \A j \in Conns : conn'[j] = NoHandshake \/ Same(j)
      PROVE  ClientCalm
  <2>1. NoHandshake.client \in Gone
    BY DEF NoHandshake, Gone
  <2>. QED BY <1>1, <2>1, UpIsNotGone DEF clientVars, ClientEndStays
<1>c3. ASSUME NEW k \in Conns, ClientFinishes(k) PROVE ClientCalm
  <2>1. conn' = [conn EXCEPT ![k].client = "finished"] /\ conn[k].client = "init"
    BY <1>c3 DEF ClientFinishes
  <2>2. UNCHANGED clientVars
    BY <1>c3 DEF ClientFinishes
  <2>3. \A j \in Conns : Same(j) /\ (j # k => conn'[j] = conn[j]) /\ conn'[k].client = "finished"
    BY <2>1, OneStage, ZenonT(60)
  <2>. QED BY <2>1, <2>2, <2>3, UpIsNotGone DEF clientVars
<1>c5. ASSUME NEW k \in Conns, ClientFails(k) PROVE ClientCalm
  <2>1. conn' = [conn EXCEPT ![k] = ClientGoes(@)] /\ conn[k].client \in {"init", "finished"}
    BY <1>c5 DEF ClientFails
  <2>2. UNCHANGED <<cUsed, cHighest, cNext, cSpent, cPath>>
    BY <1>c5 DEF ClientFails
  <2>3. \A j \in Conns : /\ conn'[j] = NoHandshake \/ Same(j)
                         /\ j # k => conn'[j] = conn[j]
                         /\ conn'[k].client \in Gone
    BY <2>1, OneGoes
  <2>4. phase' = "dialing" => phase = "dialing"
    BY <1>c5 DEF ClientFails
  <2>5. \A j \in Conns : /\ conn'[j].client = "up" <=> conn[j].client = "up"
                         /\ conn[j].client = "up" => Same(j)
    <3>1. conn[k].client # "up" /\ conn'[k].client # "up"
      BY <2>1, <2>3, UpIsNotGone
    <3>. QED BY <2>3, <3>1 DEF Same
  <2>. QED BY <2>1, <2>2, <2>3, <2>4, <2>5, UpIsNotGone
<1>c7. CASE ClientExpires
  BY <1>c7 DEF ClientExpires, Same
<1>2. ASSUME NEW k \in Conns, conn' = [conn EXCEPT ![k] = ServerGoes(@)], UNCHANGED clientVars
      PROVE  ClientCalm
  <2>1. \A j \in Conns : ClientEndStays(j) /\ (conn'[j] = NoHandshake \/ Same(j))
    BY <1>2, OneGoes DEF ClientEndStays
  <2>. QED BY <1>1, <1>2, <2>1
<1>3. ASSUME NEW k \in Conns, NEW s, conn' = [conn EXCEPT ![k].server = s], UNCHANGED clientVars
      PROVE  ClientCalm
  <2>0. \A j \in Conns : conn'[j].client = conn[j].client /\ Same(j)
    BY <1>3, OneStage, ZenonT(60)
  <2>1. \A j \in Conns : ClientEndStays(j) /\ (conn'[j] = NoHandshake \/ Same(j))
    BY <2>0 DEF ClientEndStays
  <2>. QED BY <1>1, <1>3, <2>1
<1>s1. ASSUME NEW k \in Conns, ServerOffers(k) PROVE ClientCalm
  BY <1>s1, <1>2, <1>3 DEF ServerOffers
<1>s2. ASSUME NEW k \in Conns, ServerFinishes(k) PROVE ClientCalm
  BY <1>s2, <1>3 DEF ServerFinishes
<1>s3. ASSUME NEW k \in Conns, ServerCommits(k) PROVE ClientCalm
  BY <1>s3, <1>2, <1>3 DEF ServerCommits
<1>s4. ASSUME NEW k \in Conns, ServerAttaches(k) PROVE ClientCalm
  <2>1. CASE conn' = [conn EXCEPT ![k] = ServerGoes(@)]
    BY <1>s4, <2>1, <1>2 DEF ServerAttaches
  <2>2. CASE conn' = Supersede(k, sPath[conn[k].carrier])
    <3>1. \A j \in Conns : ClientEndStays(j) /\ (conn'[j] = NoHandshake \/ Same(j))
      <4>1. conn'[k] = [conn[k] EXCEPT !.server = "up"] /\ conn[k] \in Connections
        BY <2>2 DEF Supersede, TypeOK
      <4>2. ClientEndStays(k) /\ Same(k)
        BY <4>1 DEF ClientEndStays, Same, Connections
      <4>3. ASSUME NEW j \in Conns, j # k
            PROVE  ClientEndStays(j) /\ (conn'[j] = NoHandshake \/ Same(j))
        <5>1. conn[j] \in Connections
          BY DEF TypeOK
        <5>2. conn'[j] \in {conn[j], ServerGoes(conn[j])}
          BY <2>2, <4>3 DEF Supersede
        <5>3. NoHandshake.client \in Gone
          BY DEF NoHandshake, Gone
        <5>. QED BY <5>1, <5>2, <5>3, ServerGoesFacts DEF ClientEndStays, Same
      <4>. QED BY <4>2, <4>3
    <3>. QED BY <1>s4, <3>1, <1>1 DEF ServerAttaches
  <2>. QED BY <1>s4, <2>1, <2>2 DEF ServerAttaches
<1>s5. ASSUME NEW k \in Conns, ServerFails(k) PROVE ClientCalm
  BY <1>s5, <1>2 DEF ServerFails
<1>s6. ASSUME NEW c \in Carriers, ServerLoses(c) PROVE ClientCalm
  BY <1>s6, <1>2 DEF ServerLoses, TypeOK
<1>s7. CASE ServerExpires
  BY <1>s7, <1>1 DEF ServerExpires, Same, ClientEndStays
<1>s8. CASE ServerStops
  <2>1. ASSUME NEW j \in Conns PROVE ClientEndStays(j) /\ (conn'[j] = NoHandshake \/ Same(j))
    <3>1. conn[j] \in Connections
      BY DEF TypeOK
    <3>2. conn'[j] \in {conn[j], ServerGoes(conn[j])}
      BY <1>s8 DEF ServerStops
    <3>3. NoHandshake.client \in Gone
      BY DEF NoHandshake, Gone
    <3>. QED BY <3>1, <3>2, <3>3, ServerGoesFacts DEF ClientEndStays, Same
  <2>. QED BY <1>s8, <1>1, <2>1 DEF ServerStops
<1>. QED BY <1>c3, <1>c5, <1>c7, <1>s1, <1>s2, <1>s3, <1>s4, <1>s5, <1>s6, <1>s7, <1>s8
     DEF Next, ClientStep, ServerStep

LEMMA ServerActs ==
  ASSUME TypeOK, Next
  PROVE  \/ \E k \in Conns : ServerAttaches(k)
         \/ \E c \in Carriers : ServerLoses(c)
         \/ ServerStops
         \/ ServerCalm
<1> USE DEF ServerCalm
<1>0. conn \in [Conns -> Connections] /\ NoHandshake.server # "up"
  BY DEF TypeOK, NoHandshake
<1>1. ASSUME UNCHANGED sPath, \A j \in Conns : ServerEndStays(j),
             \A j \in Conns : conn'[j] = NoHandshake \/ Same(j)
      PROVE  ServerCalm
  BY <1>0, <1>1, UpIsNotGone DEF ServerEndStays
<1>2. ASSUME NEW k \in Conns, conn' = [conn EXCEPT ![k] = ClientGoes(@)], UNCHANGED sPath
      PROVE  ServerCalm
  <2>1. \A j \in Conns : ServerEndStays(j) /\ (conn'[j] = NoHandshake \/ Same(j))
    BY <1>2, OneGoes DEF ServerEndStays
  <2>. QED BY <1>1, <1>2, <2>1
<1>3. ASSUME NEW k \in Conns, NEW s, conn' = [conn EXCEPT ![k].client = s], UNCHANGED sPath
      PROVE  ServerCalm
  <2>1. \A j \in Conns : conn'[j].server = conn[j].server /\ Same(j)
    BY <1>3, OneStage, ZenonT(60)
  <2>. QED BY <1>3, <2>1
<1>4. ASSUME NEW k \in Conns, NEW s, conn' = [conn EXCEPT ![k].server = s], UNCHANGED sPath,
             s # "up", conn[k].server # "up"
      PROVE  ServerCalm
  <2>1. \A j \in Conns : /\ j # k => conn'[j] = conn[j]
                         /\ conn'[k].server = s
                         /\ Same(j)
    <3>1. conn' = [conn EXCEPT ![k].server = s]
      BY <1>4
    <3>. QED BY <3>1, OneStage, ZenonT(60)
  <2>. QED BY <1>4, <2>1
<1>5. ASSUME NEW k \in Conns, conn' = [conn EXCEPT ![k] = ServerGoes(@)], UNCHANGED sPath,
             conn[k].server # "up"
      PROVE  ServerCalm
  <2>1. \A j \in Conns : /\ j # k => conn'[j] = conn[j]
                         /\ conn'[k].server \in Gone
    BY <1>5, OneGoes
  <2>. QED BY <1>5, <2>1, UpIsNotGone DEF Same
<1>6. ASSUME NEW k \in Conns, NEW c, NEW g, NEW b, Connect(k, c, g, b), UNCHANGED sPath
      PROVE  ServerCalm
  <2>1. /\ conn[k].server # "up" /\ conn'[k].server = "init"
        /\ \A j \in Conns : j # k => conn'[j] = conn[j]
    <3>1. /\ conn[k] = NoHandshake
          /\ conn'[k] = [carrier |-> c, generation |-> g, create |-> b,
                         client |-> "init", server |-> "init"]
          /\ \A j \in Conns : j # k => conn'[j] = conn[j]
      BY <1>6, OneConnects
    <3>. QED BY <3>1, <1>0
  <2>. QED BY <1>6, <2>1 DEF Same
<1>7. ASSUME UNCHANGED <<sPath, conn>> PROVE ServerCalm
  BY <1>7 DEF Same
<1>c1. ASSUME NEW k \in Conns, Dial(k) PROVE ServerCalm
  BY <1>c1, <1>6 DEF Dial, serverVars
<1>c2. ASSUME NEW k \in Conns, NEW c \in Carriers, Maintain(k, c) PROVE ServerCalm
  BY <1>c2, <1>6 DEF Maintain, serverVars
<1>c3. ASSUME NEW k \in Conns, ClientFinishes(k) PROVE ServerCalm
  BY <1>c3, <1>3 DEF ClientFinishes, serverVars
<1>c4. ASSUME NEW k \in Conns, ClientAttaches(k) PROVE ServerCalm
  BY <1>c4, <1>3 DEF ClientAttaches, serverVars
<1>c5. ASSUME NEW k \in Conns, ClientFails(k) PROVE ServerCalm
  BY <1>c5, <1>2 DEF ClientFails, serverVars
<1>c6. ASSUME NEW c \in Carriers, ClientLoses(c) PROVE ServerCalm
  BY <1>c6, <1>2 DEF ClientLoses, serverVars, TypeOK
<1>c7. CASE ClientExpires
  BY <1>c7, <1>7 DEF ClientExpires, serverVars
<1>c8. CASE ClientStops
  <2>1. ASSUME NEW j \in Conns PROVE ServerEndStays(j) /\ (conn'[j] = NoHandshake \/ Same(j))
    <3>1. conn[j] \in Connections /\ conn'[j] = ClientGoes(conn[j])
      BY <1>0, <1>c8 DEF ClientStops
    <3>2. NoHandshake.server \in Gone
      BY DEF NoHandshake, Gone
    <3>. QED BY <3>1, <3>2, ClientGoesFacts DEF ServerEndStays, Same
  <2>. QED BY <1>c8, <1>1, <2>1 DEF ClientStops, serverVars
<1>s1. ASSUME NEW k \in Conns, ServerOffers(k) PROVE ServerCalm
  BY <1>s1, <1>4, <1>5 DEF ServerOffers
<1>s2. ASSUME NEW k \in Conns, ServerFinishes(k) PROVE ServerCalm
  BY <1>s2, <1>4 DEF ServerFinishes, serverVars
<1>s3. ASSUME NEW k \in Conns, ServerCommits(k) PROVE ServerCalm
  BY <1>s3, <1>4, <1>5 DEF ServerCommits
<1>s5. ASSUME NEW k \in Conns, ServerFails(k) PROVE ServerCalm
  BY <1>s5, <1>5 DEF ServerFails, serverVars
<1>s7. CASE ServerExpires
  BY <1>s7, <1>7 DEF ServerExpires
<1>. QED BY <1>c1, <1>c2, <1>c3, <1>c4, <1>c5, <1>c6, <1>c7, <1>c8,
            <1>s1, <1>s2, <1>s3, <1>s5, <1>s7
     DEF Next, ClientStep, ServerStep

-----------------------------------------------------------------------------
(* The paths.                                                              *)

LEMMA ClientPathsCalm ==
  ASSUME TypeOK, TypeOK', ClientPaths, ClientUpCalm PROVE ClientPaths'
<1>1. ASSUME NEW c \in Carriers, cPath'[c] # NoConn
      PROVE  conn'[cPath'[c]].carrier = c
  <2>1. cPath[c] \in Conns /\ cPath' = cPath
    BY <1>1 DEF ClientUpCalm, TypeOK
  <2>2. conn[cPath[c]].carrier = c /\ conn[cPath[c]].client = "up"
    BY <1>1, <2>1 DEF ClientPaths
  <2>. QED BY <2>1, <2>2 DEF ClientUpCalm, Same
<1>2. ASSUME NEW k \in Conns
      PROVE  conn'[k].client = "up" <=> cPath'[conn'[k].carrier] = k
  <2>1. cPath' = cPath /\ k # NoConn /\ conn'[k].carrier \in Carriers
    BY CarriersAssumption DEF ClientUpCalm, TypeOK, Connections
  <2>2. CASE conn'[k].client = "up"
    BY <2>1, <2>2 DEF ClientUpCalm, Same, ClientPaths
  <2>3. CASE cPath'[conn'[k].carrier] = k
    BY <2>1, <2>3 DEF ClientUpCalm, ClientPaths
  <2>. QED BY <2>2, <2>3
<1>. QED BY <1>1, <1>2 DEF ClientPaths

LEMMA ServerPathsCalm ==
  ASSUME TypeOK, TypeOK', ServerPaths, ServerCalm PROVE ServerPaths'
<1>1. ASSUME NEW c \in Carriers, sPath'[c] # NoConn
      PROVE  conn'[sPath'[c]].carrier = c
  <2>1. sPath[c] \in Conns /\ sPath' = sPath
    BY <1>1 DEF ServerCalm, TypeOK
  <2>2. conn[sPath[c]].carrier = c /\ conn[sPath[c]].server = "up"
    BY <1>1, <2>1 DEF ServerPaths
  <2>. QED BY <2>1, <2>2 DEF ServerCalm, Same
<1>2. ASSUME NEW k \in Conns
      PROVE  conn'[k].server = "up" <=> sPath'[conn'[k].carrier] = k
  <2>1. sPath' = sPath /\ k # NoConn /\ conn'[k].carrier \in Carriers
    BY CarriersAssumption DEF ServerCalm, TypeOK, Connections
  <2>2. CASE conn'[k].server = "up"
    BY <2>1, <2>2 DEF ServerCalm, Same, ServerPaths
  <2>3. CASE sPath'[conn'[k].carrier] = k
    BY <2>1, <2>3 DEF ServerCalm, ServerPaths
  <2>. QED BY <2>2, <2>3
<1>. QED BY <1>1, <1>2 DEF ServerPaths

LEMMA ConnectCalm ==
  ASSUME TypeOK, NEW k \in Conns, NEW c, NEW g, NEW b, Connect(k, c, g, b),
         UNCHANGED <<cUsed, cHighest, cPath>>
  PROVE  ClientUpCalm
<1>1. /\ conn[k] = NoHandshake
      /\ conn'[k] = [carrier |-> c, generation |-> g, create |-> b,
                     client |-> "init", server |-> "init"]
      /\ \A j \in Conns : j # k => conn'[j] = conn[j]
  BY OneConnects
<1>2. conn[k].client # "up" /\ conn'[k].client # "up"
  BY <1>1 DEF NoHandshake
<1>3. \A j \in Conns : /\ conn'[j].client = "up" <=> conn[j].client = "up"
                       /\ conn[j].client = "up" => Same(j)
  BY <1>1, <1>2 DEF Same
<1>. QED BY <1>3 DEF ClientUpCalm

(* How the client's active connections change.                             *)
LEMMA ClientUpActs ==
  ASSUME TypeOK, Next
  PROVE  \/ \E k \in Conns : ClientAttaches(k)
         \/ \E c \in Carriers : ClientLoses(c)
         \/ ClientStops
         \/ ClientUpCalm
<1>1. ASSUME NEW k \in Conns, Dial(k) PROVE ClientUpCalm
  BY <1>1, ConnectCalm DEF Dial, clientVars
<1>2. ASSUME NEW k \in Conns, NEW c \in Carriers, Maintain(k, c) PROVE ClientUpCalm
  BY <1>2, ConnectCalm DEF Maintain
<1>. QED BY <1>1, <1>2, ClientActs DEF ClientCalm

LEMMA ClientPathsAttach ==
  ASSUME TypeOK, ClientPaths, TryInv, NEW k \in Conns, ClientAttaches(k)
  PROVE  ClientPaths'
<1> DEFINE c == conn[k].carrier
<1>1. /\ c \in Carriers /\ conn[k].client = "finished"
      /\ conn' = [conn EXCEPT ![k].client = "up"]
      /\ cPath' = [cPath EXCEPT ![c] = k]
  BY DEF ClientAttaches, TypeOK, Connections
<1>2. \A j \in Conns : /\ j # k => conn'[j] = conn[j]
                       /\ Same(j)
                       /\ conn'[k].client = "up"
  BY <1>1, OneStage, ZenonT(60)
<1>3. cPath[c] = NoConn
  BY <1>1 DEF TryInv, InStage
<1>4. cPath'[c] = k /\ \A d \in Carriers : d # c => cPath'[d] = cPath[d]
  BY <1>1 DEF TypeOK
<1>5. \A d \in Carriers : cPath[d] # k
  BY <1>1, CarriersAssumption DEF ClientPaths
<1>6. \A j \in Conns : conn'[j].carrier = conn[j].carrier /\ conn[j].carrier \in Carriers
  BY <1>2 DEF Same, TypeOK, Connections
<1> HIDE DEF c
<1>7. ASSUME NEW j \in Conns
      PROVE  conn'[j].client = "up" <=> cPath'[conn'[j].carrier] = j
  <2>0. conn'[k].carrier = c
    BY <1>6 DEF c
  <2>1. CASE j = k
    BY <2>0, <2>1, <1>2, <1>4
  <2>2. CASE j # k /\ conn[j].carrier = c
    <3>1. conn[j].client # "up"
      BY <2>2, <1>3, CarriersAssumption DEF ClientPaths
    <3>. QED BY <3>1, <2>2, <1>2, <1>4, <1>6
  <2>3. CASE j # k /\ conn[j].carrier # c
    BY <2>3, <1>2, <1>4, <1>6 DEF ClientPaths
  <2>. QED BY <2>1, <2>2, <2>3
<1>8. ASSUME NEW d \in Carriers, cPath'[d] # NoConn PROVE conn'[cPath'[d]].carrier = d
  <2>1. CASE d = c
    BY <2>1, <1>4, <1>6 DEF c
  <2>2. CASE d # c
    <3>1. cPath'[d] = cPath[d] /\ cPath[d] \in Conns
      BY <2>2, <1>4, <1>8 DEF TypeOK
    <3>. QED BY <3>1, <1>8, <1>6 DEF ClientPaths
  <2>. QED BY <2>1, <2>2
<1>. QED BY <1>7, <1>8 DEF ClientPaths

LEMMA ClientPathsLose ==
  ASSUME TypeOK, TypeOK', ClientPaths, NEW c \in Carriers, ClientLoses(c)
  PROVE  ClientPaths'
<1> DEFINE k == cPath[c]
<1>1. /\ k \in Conns /\ conn' = [conn EXCEPT ![k] = ClientGoes(@)]
      /\ cPath' = [cPath EXCEPT ![c] = NoConn]
  BY DEF ClientLoses, TypeOK
<1>2. conn[k].carrier = c
  BY DEF ClientLoses, ClientPaths
<1> HIDE DEF k
<1>3. \A j \in Conns : j # k => conn'[j] = conn[j]
  BY <1>1, OneGoes
<1>4. conn'[k].client # "up"
  <2>1. conn'[k].client \in Gone
    BY <1>1, OneGoes
  <2>. QED BY <2>1, UpIsNotGone
<1>5. cPath'[c] = NoConn /\ \A d \in Carriers : d # c => cPath'[d] = cPath[d]
  BY <1>1 DEF TypeOK
<1>6. \A d \in Carriers : d # c => cPath[d] # k
  BY <1>1, <1>2, CarriersAssumption DEF ClientPaths
<1>7. \A j \in Conns : conn[j].carrier \in Carriers /\ conn'[j].carrier \in Carriers /\ j # NoConn
  BY CarriersAssumption DEF TypeOK, Connections
<1>8. ASSUME NEW j \in Conns
      PROVE  conn'[j].client = "up" <=> cPath'[conn'[j].carrier] = j
  <2>1. CASE j = k
    BY <2>1, <1>4, <1>5, <1>6, <1>7
  <2>2. CASE j # k
    <3>1. conn'[j] = conn[j] /\ (conn[j].client = "up" <=> cPath[conn[j].carrier] = j)
      BY <2>2, <1>3 DEF ClientPaths
    <3>2. cPath[c] = k
      BY DEF k
    <3>. QED BY <2>2, <3>1, <3>2, <1>5, <1>7
  <2>. QED BY <2>1, <2>2
<1>9. ASSUME NEW d \in Carriers, cPath'[d] # NoConn PROVE conn'[cPath'[d]].carrier = d
  <2>1. d # c /\ cPath'[d] = cPath[d]
    BY <1>5, <1>9
  <2>2. cPath[d] \in Conns /\ cPath[d] # k /\ conn[cPath[d]].carrier = d
    BY <2>1, <1>6, <1>9 DEF TypeOK, ClientPaths
  <2>. QED BY <2>1, <2>2, <1>3
<1>. QED BY <1>8, <1>9 DEF ClientPaths

LEMMA ClientPathsStop ==
  ASSUME TypeOK, TypeOK', ClientStops PROVE ClientPaths'
<1>1. cPath' = [c \in Carriers |-> NoConn] /\ conn' = [k \in Conns |-> ClientGoes(conn[k])]
  BY DEF ClientStops
<1>2. ASSUME NEW k \in Conns PROVE conn'[k].client # "up" /\ k # NoConn /\ conn'[k].carrier \in Carriers
  <2>1. conn[k] \in Connections /\ conn'[k] \in Connections /\ conn'[k] = ClientGoes(conn[k])
    BY <1>1 DEF TypeOK
  <2>2. conn'[k].client \in Gone /\ conn'[k].carrier \in Carriers
    BY <2>1, ClientGoesFacts DEF Connections
  <2>. QED BY <2>2, UpIsNotGone, CarriersAssumption
<1>. QED BY <1>1, <1>2 DEF ClientPaths

LEMMA ClientPathsStep ==
  ASSUME TypeOK, TypeOK', ClientPaths, TryInv, Next PROVE ClientPaths'
BY ClientUpActs, ClientPathsCalm, ClientPathsAttach, ClientPathsLose, ClientPathsStop

(* A refused incarnation.                                                  *)
LEMMA RefuseCalm ==
  ASSUME TypeOK, NEW k \in Conns, conn' = [conn EXCEPT ![k] = ServerGoes(@)],
         UNCHANGED sPath, conn[k].server # "up"
  PROVE  ServerCalm
<1>1. \A j \in Conns : /\ j # k => conn'[j] = conn[j]
                       /\ conn'[k].server \in Gone
  BY OneGoes
<1>. QED BY <1>1, UpIsNotGone DEF Same, ServerCalm

(* An accepted incarnation.                                                *)
LEMMA SupersedeFacts ==
  ASSUME TypeOK, ServerPaths, NEW k \in Conns, NEW c, c = conn[k].carrier,
         conn[k].server = "attach", conn' = Supersede(k, sPath[c])
  PROVE  /\ c \in Carriers
         /\ conn'[k].server = "up" /\ Same(k)
         /\ \A d \in Carriers : sPath[d] # k
         /\ \A j \in Conns : /\ j # k /\ j # sPath[c] => conn'[j] = conn[j]
                             /\ j # k /\ j = sPath[c] => conn'[j].server \in Gone
                             /\ conn'[j].carrier \in Carriers
<1>1. conn \in [Conns -> Connections] /\ c \in Carriers
  BY DEF TypeOK, Connections
<1>2. conn'[k] = [conn[k] EXCEPT !.server = "up"] /\ conn[k] \in Connections
  BY <1>1 DEF Supersede
<1>3. conn'[k].server = "up" /\ Same(k) /\ conn'[k].carrier \in Carriers
  BY <1>2 DEF Same, Connections
<1>4. \A d \in Carriers : sPath[d] # k
  BY <1>1, CarriersAssumption DEF ServerPaths
<1>5. ASSUME NEW j \in Conns, j # k
      PROVE  /\ j # sPath[c] => conn'[j] = conn[j]
             /\ j = sPath[c] => conn'[j].server \in Gone
             /\ conn'[j].carrier \in Carriers
  <2>1. conn[j] \in Connections
    BY <1>1
  <2>2. conn'[j] = IF j = sPath[c] THEN ServerGoes(conn[j]) ELSE conn[j]
    BY <1>5 DEF Supersede
  <2>3. conn[j].carrier \in Carriers /\ ServerGoes(conn[j]).carrier \in Carriers
    BY <2>1, ServerGoesFacts DEF Connections
  <2>. QED BY <2>1, <2>2, <2>3, ServerGoesFacts
<1>. QED BY <1>1, <1>3, <1>4, <1>5

LEMMA ServerPathsAttach ==
  ASSUME TypeOK, TypeOK', ServerPaths, NEW k \in Conns, ServerAttaches(k)
  PROVE  ServerPaths'
<1> DEFINE c == conn[k].carrier
<1>0. conn[k].server = "attach" /\ c = conn[k].carrier
  BY DEF ServerAttaches
<1> HIDE DEF c
<1>1. CASE conn' = [conn EXCEPT ![k] = ServerGoes(@)] /\ UNCHANGED sPath
  BY <1>0, <1>1, RefuseCalm, ServerPathsCalm
<1>2. CASE conn' = Supersede(k, sPath[c]) /\ sPath' = [sPath EXCEPT ![c] = k]
  <2>1. /\ c \in Carriers
        /\ conn'[k].server = "up" /\ Same(k)
        /\ \A d \in Carriers : sPath[d] # k
        /\ \A j \in Conns : /\ j # k /\ j # sPath[c] => conn'[j] = conn[j]
                            /\ j # k /\ j = sPath[c] => conn'[j].server \in Gone
                            /\ conn'[j].carrier \in Carriers
    BY <1>0, <1>2, SupersedeFacts
  <2>2. sPath'[c] = k /\ \A d \in Carriers : d # c => sPath'[d] = sPath[d]
    BY <1>2, <2>1 DEF TypeOK
  <2>3. conn'[k].carrier = c
    BY <1>0, <2>1 DEF Same
  <2>4. \A j \in Conns : j # NoConn
    BY CarriersAssumption
  <2>5. \A d \in Carriers : d # c /\ sPath[d] # NoConn => sPath[d] # sPath[c]
    BY <2>1, <2>4 DEF ServerPaths, TypeOK
  <2>6. ASSUME NEW j \in Conns
        PROVE  conn'[j].server = "up" <=> sPath'[conn'[j].carrier] = j
    <3>1. CASE j = k
      BY <3>1, <2>1, <2>2, <2>3
    <3>2. CASE j # k /\ j = sPath[c]
      <4>1. conn'[j].server # "up"
        BY <3>2, <2>1, UpIsNotGone
      <4>2. \A d \in Carriers : d # c => sPath'[d] # j
        BY <3>2, <2>2, <2>4, <2>5
      <4>. QED BY <3>2, <4>1, <4>2, <2>1, <2>2
    <3>3. CASE j # k /\ j # sPath[c]
      <4>1. conn'[j] = conn[j] /\ (conn[j].server = "up" <=> sPath[conn[j].carrier] = j)
        BY <3>3, <2>1 DEF ServerPaths
      <4>2. conn[j].carrier \in Carriers
        BY <2>1, <4>1
      <4>. QED BY <3>3, <4>1, <4>2, <2>2
    <3>. QED BY <3>1, <3>2, <3>3
  <2>7. ASSUME NEW d \in Carriers, sPath'[d] # NoConn PROVE conn'[sPath'[d]].carrier = d
    <3>1. CASE d = c
      BY <3>1, <2>2, <2>3
    <3>2. CASE d # c
      <4>1. sPath'[d] = sPath[d] /\ sPath[d] \in Conns /\ conn[sPath[d]].carrier = d
        BY <3>2, <2>2, <2>7 DEF TypeOK, ServerPaths
      <4>2. sPath[d] # k /\ sPath[d] # sPath[c]
        BY <3>2, <2>1, <2>4, <2>5, <4>1
      <4>. QED BY <4>1, <4>2, <2>1
    <3>. QED BY <3>1, <3>2
  <2>. QED BY <2>6, <2>7 DEF ServerPaths
<1>. QED BY <1>0, <1>1, <1>2 DEF ServerAttaches

LEMMA ServerPathsLose ==
  ASSUME TypeOK, TypeOK', ServerPaths, NEW c \in Carriers, ServerLoses(c)
  PROVE  ServerPaths'
<1> DEFINE k == sPath[c]
<1>1. /\ k \in Conns /\ conn' = [conn EXCEPT ![k] = ServerGoes(@)]
      /\ sPath' = [sPath EXCEPT ![c] = NoConn]
  BY DEF ServerLoses, TypeOK
<1>2. conn[k].carrier = c
  BY DEF ServerLoses, ServerPaths
<1>0. sPath[c] = k
  OBVIOUS
<1> HIDE DEF k
<1>3. \A j \in Conns : j # k => conn'[j] = conn[j]
  BY <1>1, OneGoes
<1>4. conn'[k].server # "up"
  <2>1. conn'[k].server \in Gone
    BY <1>1, OneGoes
  <2>. QED BY <2>1, UpIsNotGone
<1>5. sPath'[c] = NoConn /\ \A d \in Carriers : d # c => sPath'[d] = sPath[d]
  BY <1>1 DEF TypeOK
<1>6. \A d \in Carriers : d # c => sPath[d] # k
  BY <1>1, <1>2, CarriersAssumption DEF ServerPaths
<1>7. \A j \in Conns : conn[j].carrier \in Carriers /\ conn'[j].carrier \in Carriers /\ j # NoConn
  BY CarriersAssumption DEF TypeOK, Connections
<1>8. ASSUME NEW j \in Conns
      PROVE  conn'[j].server = "up" <=> sPath'[conn'[j].carrier] = j
  <2>1. CASE j = k
    BY <2>1, <1>4, <1>5, <1>6, <1>7
  <2>2. CASE j # k
    <3>1. conn'[j] = conn[j] /\ (conn[j].server = "up" <=> sPath[conn[j].carrier] = j)
      BY <2>2, <1>3 DEF ServerPaths
    <3>. QED BY <2>2, <3>1, <1>0, <1>5, <1>7
  <2>. QED BY <2>1, <2>2
<1>9. ASSUME NEW d \in Carriers, sPath'[d] # NoConn PROVE conn'[sPath'[d]].carrier = d
  <2>1. d # c /\ sPath'[d] = sPath[d]
    BY <1>5, <1>9
  <2>2. sPath[d] \in Conns /\ sPath[d] # k /\ conn[sPath[d]].carrier = d
    BY <2>1, <1>6, <1>9 DEF TypeOK, ServerPaths
  <2>. QED BY <2>1, <2>2, <1>3
<1>. QED BY <1>8, <1>9 DEF ServerPaths

(* A connection with the server up has its Carrier's path, so stop closes  *)
(* all of them.                                                            *)
LEMMA ServerPathsStop ==
  ASSUME TypeOK, TypeOK', ServerStops PROVE ServerPaths'
<1>1. sPath' = [c \in Carriers |-> NoConn]
  BY DEF ServerStops
<1>2. ASSUME NEW k \in Conns PROVE conn'[k].server # "up" /\ k # NoConn /\ conn'[k].carrier \in Carriers
  <2>1. conn[k] \in Connections /\ conn'[k] \in Connections
    BY DEF TypeOK
  <2>2. \/ conn'[k] = ServerGoes(conn[k])
        \/ conn'[k] = conn[k] /\ conn[k].server # "up"
    BY DEF ServerStops
  <2>. QED BY <2>1, <2>2, ServerGoesFacts, UpIsNotGone, CarriersAssumption DEF Connections
<1>. QED BY <1>1, <1>2 DEF ServerPaths

LEMMA ServerPathsStep ==
  ASSUME TypeOK, TypeOK', ServerPaths, Next PROVE ServerPaths'
BY ServerActs, ServerPathsCalm, ServerPathsAttach, ServerPathsLose, ServerPathsStop

-----------------------------------------------------------------------------
(* Candidates.                                                             *)

LEMMA StageIsNotGone ==
  ASSUME NEW k, NEW c, InStage(k, c)
  PROVE  conn[k].client \notin Gone /\ conn[k].client # "up"
BY DEF InStage, Gone

LEMMA TryCalm ==
  ASSUME TypeOK, TypeOK', TryInv, ClientCalm PROVE TryInv'
<1>1. ASSUME NEW j \in Conns, NEW c \in Carriers, InStage(j, c)'
      PROVE  InStage(j, c) /\ conn'[j].generation = conn[j].generation
  <2>1. conn'[j].client \notin Gone /\ conn'[j].client # "up" /\ conn'[j].carrier = c
    BY <1>1 DEF InStage, Gone
  <2>2. conn[j].client \notin Gone /\ conn[j].client # "up" /\ conn[j].client \in ClientStages
    BY <2>1 DEF ClientCalm, ClientUpCalm, TypeOK, Connections
  <2>3. Same(j)
    BY <2>1 DEF ClientCalm, NoHandshake, Gone
  <2>. QED BY <2>1, <2>2, <2>3 DEF InStage, Same, ClientStages
<1>2. phase' = "dialing" => \A c \in Carriers : cPath'[c] = NoConn /\ ~cUsed'[c]
  BY DEF TryInv, ClientCalm, ClientUpCalm
<1>3. UNCHANGED <<cUsed, cSpent, cPath>>
  BY DEF ClientCalm, ClientUpCalm
<1>4. ASSUME NEW c \in Carriers, NEW j \in Conns, NEW k \in Conns, InStage(j, c)'
      PROVE  /\ cPath'[c] = NoConn
             /\ InStage(k, c)' => j = k
             /\ cUsed'[c] /\ cSpent'[c] => conn'[j].generation = LastGeneration
  BY <1>1, <1>3, <1>4 DEF TryInv
<1>. QED BY <1>2, <1>4 DEF TryInv

LEMMA TryConnect ==
  ASSUME TypeOK, TryInv, NEW k \in Conns, NEW c \in Carriers, NEW g, NEW b,
         Connect(k, c, g, b), ~Trying(c), cPath[c] = NoConn,
         UNCHANGED <<phase, cUsed, cPath>>,
         \A d \in Carriers : d # c => cSpent'[d] = cSpent[d],
         cUsed[c] /\ cSpent'[c] => g = LastGeneration
  PROVE  TryInv'
<1>1. /\ conn'[k] = [carrier |-> c, generation |-> g, create |-> b,
                     client |-> "init", server |-> "init"]
      /\ \A j \in Conns : j # k => conn'[j] = conn[j]
  BY OneConnects
<1>2. conn'[k].carrier = c /\ conn'[k].generation = g
  BY <1>1
<1>3. ASSUME NEW j \in Conns, NEW d \in Carriers, InStage(j, d)'
      PROVE  \/ j = k /\ d = c
             \/ j # k /\ d # c /\ InStage(j, d) /\ conn'[j] = conn[j]
  <2>1. CASE j = k
    BY <2>1, <1>2, <1>3 DEF InStage
  <2>2. CASE j # k
    BY <2>2, <1>1, <1>3 DEF InStage, Trying
  <2>. QED BY <2>1, <2>2
<1>4. phase' = "dialing" => \A d \in Carriers : cPath'[d] = NoConn /\ ~cUsed'[d]
  BY DEF TryInv
<1>5. ASSUME NEW d \in Carriers, NEW i \in Conns, NEW j \in Conns, InStage(i, d)'
      PROVE  /\ cPath'[d] = NoConn
             /\ InStage(j, d)' => i = j
             /\ cUsed'[d] /\ cSpent'[d] => conn'[i].generation = LastGeneration
  <2>1. CASE i = k /\ d = c
    BY <2>1, <1>2, <1>3
  <2>2. CASE i # k /\ d # c /\ InStage(i, d) /\ conn'[i] = conn[i]
    BY <2>2, <1>3 DEF TryInv
  <2>. QED BY <1>3, <1>5, <2>1, <2>2
<1>. QED BY <1>4, <1>5 DEF TryInv

LEMMA TryAttach ==
  ASSUME TypeOK, TryInv, NEW k \in Conns, ClientAttaches(k) PROVE TryInv'
<1> DEFINE c == conn[k].carrier
<1>1. /\ c \in Carriers /\ InStage(k, c)
      /\ conn' = [conn EXCEPT ![k].client = "up"]
      /\ phase' # "dialing"
  BY DEF ClientAttaches, TypeOK, Connections, InStage
<1>2. \A d \in Carriers : d # c => /\ cPath'[d] = cPath[d] /\ cUsed'[d] = cUsed[d]
                                   /\ cSpent'[d] = cSpent[d]
  BY DEF ClientAttaches, TypeOK
<1> HIDE DEF c
<1>3. \A j \in Conns : /\ j # k => conn'[j] = conn[j]
                       /\ conn'[k].client = "up"
  BY <1>1, OneStage, ZenonT(60)
<1>4. ASSUME NEW j \in Conns, NEW d \in Carriers, InStage(j, d)'
      PROVE  d # c /\ InStage(j, d) /\ conn'[j] = conn[j]
  <2>1. j # k
    BY <1>3, <1>4 DEF InStage
  <2>2. conn'[j] = conn[j] /\ InStage(j, d)
    BY <2>1, <1>3, <1>4 DEF InStage
  <2>. QED BY <2>1, <2>2, <1>1 DEF TryInv
<1>5. ASSUME NEW d \in Carriers, NEW i \in Conns, NEW j \in Conns, InStage(i, d)'
      PROVE  /\ cPath'[d] = NoConn
             /\ InStage(j, d)' => i = j
             /\ cUsed'[d] /\ cSpent'[d] => conn'[i].generation = LastGeneration
  BY <1>2, <1>4, <1>5 DEF TryInv
<1>. QED BY <1>1, <1>5 DEF TryInv

LEMMA TryFewer ==
  ASSUME TypeOK, TryInv,
         \A j \in Conns : conn'[j].client \in Gone \/ conn'[j] = conn[j],
         \A c \in Carriers : cPath'[c] \in {cPath[c], NoConn},
         UNCHANGED <<cUsed, cSpent>>, phase' = "dialing" => phase = "dialing"
  PROVE  TryInv'
<1>1. ASSUME NEW j \in Conns, NEW d \in Carriers, InStage(j, d)'
      PROVE  InStage(j, d) /\ conn'[j] = conn[j]
  BY <1>1 DEF InStage, Gone
<1>2. ASSUME NEW d \in Carriers, NEW i \in Conns, NEW j \in Conns, InStage(i, d)'
      PROVE  /\ cPath'[d] = NoConn
             /\ InStage(j, d)' => i = j
             /\ cUsed'[d] /\ cSpent'[d] => conn'[i].generation = LastGeneration
  BY <1>1, <1>2 DEF TryInv
<1>3. phase' = "dialing" => \A d \in Carriers : cPath'[d] = NoConn /\ ~cUsed'[d]
  BY DEF TryInv
<1>. QED BY <1>2, <1>3 DEF TryInv

LEMMA TryStep ==
  ASSUME TypeOK, TypeOK', ClientPaths, TryInv, Next PROVE TryInv'
<1>1. ASSUME NEW k \in Conns, Dial(k) PROVE TryInv'
  <2>1. /\ turn \in Carriers /\ Connect(k, turn, 0, TRUE) /\ ~Trying(turn)
        /\ UNCHANGED <<phase, cUsed, cPath, cSpent>> /\ phase = "dialing"
    BY <1>1 DEF Dial, clientVars, TypeOK
  <2>2. cPath[turn] = NoConn /\ ~cUsed[turn]
    BY <2>1 DEF TryInv
  <2>. QED BY <2>1, <2>2, TryConnect
<1>2. ASSUME NEW k \in Conns, NEW c \in Carriers, Maintain(k, c) PROVE TryInv'
  <2>1. /\ Connect(k, c, Candidate(c), FALSE) /\ ~Trying(c) /\ cPath[c] = NoConn
        /\ UNCHANGED <<phase, cUsed, cPath>>
    BY <1>2 DEF Maintain
  <2>2. \A d \in Carriers : d # c => cSpent'[d] = cSpent[d]
    BY <1>2 DEF Maintain, TypeOK
  <2>3. cUsed[c] /\ cSpent'[c] => Candidate(c) = LastGeneration
    BY <1>2 DEF Maintain, TypeOK, Exhausted
  <2>. QED BY <2>1, <2>2, <2>3, TryConnect
<1>3. ASSUME NEW c \in Carriers, ClientLoses(c) PROVE TryInv'
  <2>1. /\ cPath[c] \in Conns /\ conn' = [conn EXCEPT ![cPath[c]] = ClientGoes(@)]
        /\ UNCHANGED <<phase, cUsed, cSpent>>
    BY <1>3 DEF ClientLoses, TypeOK
  <2>2. \A j \in Conns : conn'[j].client \in Gone \/ conn'[j] = conn[j]
    BY <2>1, OneGoes
  <2>3. \A d \in Carriers : cPath'[d] \in {cPath[d], NoConn}
    BY <1>3 DEF ClientLoses, TypeOK
  <2>. QED BY <2>1, <2>2, <2>3, TryFewer
<1>4. CASE ClientStops
  <2>1. \A j \in Conns : conn[j] \in Connections /\ conn'[j] = ClientGoes(conn[j])
    BY <1>4 DEF ClientStops, TypeOK
  <2>2. \A j \in Conns : conn'[j].client \in Gone
    BY <2>1, ClientGoesFacts
  <2>3. /\ \A d \in Carriers : cPath'[d] \in {cPath[d], NoConn}
        /\ UNCHANGED <<cUsed, cSpent>> /\ phase' # "dialing"
    BY <1>4 DEF ClientStops
  <2>. QED BY <2>2, <2>3, TryFewer
<1>. QED BY <1>1, <1>2, <1>3, <1>4, TryAttach, TryCalm, ClientActs

-----------------------------------------------------------------------------
(* Generations.                                                            *)

BelowNext(c, g) ==
  IF cUsed'[c] THEN cSpent'[c] \/ g <= cHighest'[c] \/ g < cNext'[c] ELSE g = 0

(* What the server takes for the highest generation of a Carrier.          *)
Source(c) ==
  \/ sHighest'[c] = sHighest[c]
  \/ sHighest'[c] = 0
  \/ \E k \in Conns : conn[k].carrier = c /\ sHighest'[c] = conn[k].generation

LEMMA GenMove ==
  ASSUME TypeOK, TypeOK', GenInv,
         \A c \in Carriers, g \in Generations : Below(c, g) => BelowNext(c, g),
         \A k \in Conns : \/ conn'[k] = NoHandshake \/ Same(k)
                          \/ BelowNext(conn'[k].carrier, conn'[k].generation),
         \A c \in Carriers : Source(c),
         \A c \in Carriers : cUsed'[c] /\ cHighest'[c] = LastGeneration => cSpent'[c]
  PROVE  GenInv'
<1>1. ASSUME NEW c \in Carriers PROVE BelowNext(c, 0)
  <2>1. cHighest'[c] \in Nat
    BY Numbers DEF TypeOK
  <2>. QED BY <2>1 DEF BelowNext
<1>2. ASSUME NEW k \in Conns PROVE BelowNext(conn'[k].carrier, conn'[k].generation)
  <2>1. CASE conn'[k] = NoHandshake
    <3>1. conn'[k].carrier = 1 /\ conn'[k].generation = 0
      BY <2>1 DEF NoHandshake
    <3>. QED BY <3>1, <1>1, Numbers
  <2>2. CASE Same(k)
    <3>1. conn[k].carrier \in Carriers /\ conn[k].generation \in Generations
      BY DEF TypeOK, Connections
    <3>2. Below(conn[k].carrier, conn[k].generation)
      BY DEF GenInv
    <3>. QED BY <2>2, <3>1, <3>2 DEF Same
  <2>. QED BY <2>1, <2>2
<1>3. ASSUME NEW c \in Carriers PROVE BelowNext(c, sHighest'[c])
  <2>1. CASE sHighest'[c] = sHighest[c]
    <3>1. sHighest[c] \in Generations
      BY DEF TypeOK
    <3>2. Below(c, sHighest[c])
      BY DEF GenInv
    <3>. QED BY <2>1, <3>1, <3>2
  <2>2. CASE sHighest'[c] = 0
    BY <2>2, <1>1
  <2>3. ASSUME NEW k \in Conns, conn[k].carrier = c, sHighest'[c] = conn[k].generation
        PROVE  BelowNext(c, sHighest'[c])
    <3>1. conn[k].generation \in Generations /\ Below(c, conn[k].generation)
      BY <2>3 DEF TypeOK, Connections, GenInv
    <3>. QED BY <2>3, <3>1
  <2>. QED BY <2>1, <2>2, <2>3 DEF Source
<1>. QED BY <1>2, <1>3 DEF GenInv, Below, BelowNext

LEMMA SourceStep ==
  ASSUME TypeOK, Next, NEW c \in Carriers PROVE Source(c)
<1> USE DEF Source
<1>1. ASSUME UNCHANGED serverVars PROVE Source(c)
  BY <1>1 DEF serverVars
<1>2. ASSUME UNCHANGED sHighest PROVE Source(c)
  BY <1>2
<1>c. ASSUME ClientStep PROVE Source(c)
  BY <1>c, <1>1 DEF ClientStep, Dial, Maintain, ClientFinishes, ClientAttaches, ClientFails,
     ClientLoses, ClientExpires, ClientStops
<1>s1. ASSUME NEW k \in Conns, ServerOffers(k) PROVE Source(c)
  BY <1>s1 DEF ServerOffers, Forget
<1>s4. ASSUME NEW k \in Conns, ServerAttaches(k) PROVE Source(c)
  <2>1. CASE UNCHANGED sHighest
    BY <2>1
  <2>2. CASE sHighest' = [sHighest EXCEPT ![conn[k].carrier] = conn[k].generation]
    <3>1. conn[k].carrier \in Carriers /\ sHighest \in [Carriers -> Generations]
      BY DEF TypeOK, Connections
    <3>. QED BY <2>2, <3>1
  <2>. QED BY <1>s4, <2>1, <2>2 DEF ServerAttaches, Raised
<1>s. ASSUME ServerStep, \A k \in Conns : ~ServerOffers(k) /\ ~ServerAttaches(k)
      PROVE  Source(c)
  BY <1>s, <1>1, <1>2 DEF ServerStep, ServerFinishes, ServerCommits, ServerFails, ServerLoses,
     ServerExpires, ServerStops, serverVars
<1>. QED BY <1>c, <1>s1, <1>s4, <1>s DEF Next

LEMMA GenConnect ==
  ASSUME TypeOK, NEW k \in Conns, NEW c, NEW g, Connect(k, c, g, TRUE) \/ Connect(k, c, g, FALSE),
         BelowNext(c, g)
  PROVE  \A j \in Conns : \/ conn'[j] = NoHandshake \/ Same(j)
                          \/ BelowNext(conn'[j].carrier, conn'[j].generation)
<1>1. /\ conn'[k].carrier = c /\ conn'[k].generation = g
      /\ \A j \in Conns : j # k => conn'[j] = conn[j]
  <2>1. ASSUME NEW b \in BOOLEAN, Connect(k, c, g, b)
        PROVE  /\ conn'[k].carrier = c /\ conn'[k].generation = g
               /\ \A j \in Conns : j # k => conn'[j] = conn[j]
    <3>1. /\ conn'[k] = [carrier |-> c, generation |-> g, create |-> b,
                         client |-> "init", server |-> "init"]
          /\ \A j \in Conns : j # k => conn'[j] = conn[j]
      BY <2>1, OneConnects
    <3>. QED BY <3>1
  <2>. QED BY <2>1
<1>. QED BY <1>1 DEF Same

LEMMA GenStep ==
  ASSUME TypeOK, TypeOK', TryInv, GenInv, Next PROVE GenInv'
<1>0. \A c \in Carriers : Source(c)
  BY SourceStep
<1>1. ASSUME UNCHANGED <<cUsed, cHighest, cNext, cSpent>>
      PROVE  /\ \A c \in Carriers, g \in Generations : Below(c, g) => BelowNext(c, g)
             /\ \A c \in Carriers : cUsed'[c] /\ cHighest'[c] = LastGeneration => cSpent'[c]
  <2>1. \A c \in Carriers, g \in Generations : Below(c, g) => BelowNext(c, g)
    BY <1>1 DEF Below, BelowNext
  <2>2. \A c \in Carriers : cUsed'[c] /\ cHighest'[c] = LastGeneration => cSpent'[c]
    BY <1>1 DEF GenInv
  <2>. QED BY <2>1, <2>2
<1>2. ASSUME UNCHANGED <<cUsed, cHighest, cNext, cSpent>>,
             \A k \in Conns : conn'[k] = NoHandshake \/ Same(k)
      PROVE  GenInv'
  BY <1>0, <1>1, <1>2, GenMove
<1>3. ASSUME NEW k \in Conns, Dial(k) PROVE GenInv'
  <2>1. /\ turn \in Carriers /\ Connect(k, turn, 0, TRUE)
        /\ UNCHANGED <<cUsed, cHighest, cNext, cSpent>> /\ phase = "dialing"
    BY <1>3 DEF Dial, clientVars, TypeOK
  <2>2. BelowNext(turn, 0)
    BY <2>1 DEF BelowNext, TryInv
  <2>3. \A j \in Conns : \/ conn'[j] = NoHandshake \/ Same(j)
                         \/ BelowNext(conn'[j].carrier, conn'[j].generation)
    BY <2>1, <2>2, GenConnect
  <2>. QED BY <1>0, <1>1, <2>1, <2>3, GenMove
<1>4. ASSUME NEW k \in Conns, NEW c \in Carriers, Maintain(k, c) PROVE GenInv'
  <2> DEFINE g == Candidate(c)
  <2>1. /\ Connect(k, c, g, FALSE) /\ ~Exhausted(c)
        /\ UNCHANGED <<cUsed, cHighest>>
        /\ cSpent' = [cSpent EXCEPT ![c] = @ \/ (cUsed[c] /\ g = LastGeneration)]
        /\ cNext' = [cNext EXCEPT ![c] = IF cUsed[c] /\ g < LastGeneration THEN g + 1 ELSE @]
    BY <1>4 DEF Maintain
  <2>2. /\ cHighest[c] \in Nat /\ cNext[c] \in Nat /\ g \in Generations /\ g \in 0..LastGeneration
        /\ LastGeneration \in Nat
    BY <2>1, CandidateType, Numbers DEF TypeOK, Generations
  <2>3. cUsed[c] => g > cHighest[c] /\ g >= cNext[c]
    BY <2>2 DEF Candidate
  <2>4. ~cUsed[c] => g = 0
    BY DEF Candidate
  <2> HIDE DEF g
  <2>5. /\ cSpent'[c] <=> (cSpent[c] \/ (cUsed[c] /\ g = LastGeneration))
        /\ cNext'[c] = IF cUsed[c] /\ g < LastGeneration THEN g + 1 ELSE cNext[c]
        /\ cUsed'[c] = cUsed[c] /\ cHighest'[c] = cHighest[c]
        /\ \A d \in Carriers : d # c =>
             /\ cSpent'[d] = cSpent[d] /\ cNext'[d] = cNext[d]
             /\ cUsed'[d] = cUsed[d] /\ cHighest'[d] = cHighest[d]
    BY <2>1 DEF TypeOK
  <2>6. BelowNext(c, g)
    BY <2>2, <2>4, <2>5 DEF BelowNext
  <2>7. ASSUME NEW d \in Carriers, NEW h \in Generations, Below(d, h) PROVE BelowNext(d, h)
    <3>1. CASE d # c
      BY <2>5, <2>7, <3>1 DEF Below, BelowNext
    <3>2. CASE d = c
      <4>1. h \in Nat
        BY Numbers
      <4>. QED BY <2>2, <2>3, <2>5, <2>7, <3>2, <4>1 DEF Below, BelowNext
    <3>. QED BY <3>1, <3>2
  <2>8. \A d \in Carriers : cUsed'[d] /\ cHighest'[d] = LastGeneration => cSpent'[d]
    <3>1. ASSUME NEW d \in Carriers, cUsed'[d], cHighest'[d] = LastGeneration PROVE cSpent'[d]
      <4>1. cSpent[d]
        BY <2>5, <3>1 DEF GenInv
      <4>. QED BY <2>5, <4>1
    <3>. QED BY <3>1
  <2>9. \A j \in Conns : \/ conn'[j] = NoHandshake \/ Same(j)
                         \/ BelowNext(conn'[j].carrier, conn'[j].generation)
    BY <2>1, <2>6, GenConnect
  <2>. QED BY <1>0, <2>7, <2>8, <2>9, GenMove
<1>5. ASSUME NEW k \in Conns, ClientAttaches(k) PROVE GenInv'
  <2> DEFINE c == conn[k].carrier
             g == conn[k].generation
  <2>1. /\ c \in Carriers /\ g \in Generations /\ InStage(k, c)
        /\ conn' = [conn EXCEPT ![k].client = "up"]
        /\ Admissible(cUsed[c], cHighest[c], g)
    BY <1>5 DEF ClientAttaches, TypeOK, Connections, InStage
  <2>2. /\ cUsed'[c] /\ cHighest'[c] = g
        /\ cSpent'[c] <=> g = LastGeneration
        /\ g # LastGeneration => cNext'[c] = IF cNext[c] <= g THEN g + 1 ELSE cNext[c]
        /\ \A d \in Carriers : d # c =>
             /\ cSpent'[d] = cSpent[d] /\ cNext'[d] = cNext[d]
             /\ cUsed'[d] = cUsed[d] /\ cHighest'[d] = cHighest[d]
    BY <1>5 DEF ClientAttaches, TypeOK, Connections, Raised
  <2>3. cUsed[c] /\ cSpent[c] => g = LastGeneration
    BY <2>1 DEF TryInv
  <2> HIDE DEF c, g
  <2>4. ASSUME NEW d \in Carriers, NEW h \in Generations, Below(d, h) PROVE BelowNext(d, h)
    <3>1. CASE d # c
      BY <2>2, <2>4, <3>1 DEF Below, BelowNext
    <3>2. CASE d = c
      <4>1. /\ h \in Nat /\ h <= LastGeneration /\ g \in Nat /\ LastGeneration \in Nat
            /\ cHighest[c] \in Nat /\ cNext[c] \in Nat
        BY <2>1, Numbers DEF TypeOK, Generations
      <4>2. CASE g = LastGeneration
        BY <2>2, <3>2, <4>2 DEF BelowNext
      <4>3. CASE g # LastGeneration
        BY <2>1, <2>2, <2>3, <2>4, <3>2, <4>1, <4>3 DEF Below, BelowNext, Admissible
      <4>. QED BY <4>2, <4>3
    <3>. QED BY <3>1, <3>2
  <2>5. \A d \in Carriers : cUsed'[d] /\ cHighest'[d] = LastGeneration => cSpent'[d]
    <3>1. ASSUME NEW d \in Carriers, d # c, cUsed'[d], cHighest'[d] = LastGeneration
          PROVE  cSpent'[d]
      <4>1. cSpent[d]
        BY <2>2, <3>1 DEF GenInv
      <4>. QED BY <2>2, <3>1, <4>1
    <3>. QED BY <2>2, <3>1
  <2>6. \A j \in Conns : Same(j)
    BY <2>1, OneStage
  <2>. QED BY <1>0, <2>4, <2>5, <2>6, GenMove
<1>6. ASSUME NEW c \in Carriers, ClientLoses(c) PROVE GenInv'
  <2>1. /\ cPath[c] \in Conns /\ conn' = [conn EXCEPT ![cPath[c]] = ClientGoes(@)]
        /\ UNCHANGED <<cUsed, cHighest, cNext, cSpent>>
    BY <1>6 DEF ClientLoses, TypeOK
  <2>2. \A j \in Conns : conn'[j] = NoHandshake \/ Same(j)
    BY <2>1, OneGoes
  <2>. QED BY <2>1, <2>2, <1>2
<1>7. CASE ClientStops
  <2>1. \A j \in Conns : conn[j] \in Connections /\ conn'[j] = ClientGoes(conn[j])
    BY <1>7 DEF ClientStops, TypeOK
  <2>2. \A j \in Conns : conn'[j] = NoHandshake \/ Same(j)
    BY <2>1, ClientGoesFacts DEF Same
  <2>3. UNCHANGED <<cUsed, cHighest, cNext, cSpent>>
    BY <1>7 DEF ClientStops
  <2>. QED BY <2>2, <2>3, <1>2
<1>8. CASE ClientCalm
  BY <1>8, <1>2 DEF ClientCalm, ClientUpCalm
<1>. QED BY <1>3, <1>4, <1>5, <1>6, <1>7, <1>8, ClientActs

-----------------------------------------------------------------------------
(* The server's Session.                                                   *)

(* A step after which the Session has no more than before.                 *)
SessCalm ==
  sess' # "open" =>
    /\ sess # "open"
    /\ \A c \in Carriers : sPath'[c] \in {sPath[c], NoConn}
    /\ \A k \in Conns : conn'[k].server = "attach" => conn[k].server = "attach"

LEMMA SessKeep ==
  ASSUME UNCHANGED <<sess, sPath>>,
         \A k \in Conns : conn'[k].server = "attach" => conn[k].server = "attach"
  PROVE  SessCalm
BY DEF SessCalm

LEMMA SessGoes ==
  ASSUME TypeOK, NEW k \in Conns,
         \/ conn' = [conn EXCEPT ![k] = ClientGoes(@)]
         \/ conn' = [conn EXCEPT ![k] = ServerGoes(@)]
  PROVE  \A j \in Conns : conn'[j].server = "attach" => conn[j].server = "attach"
<1>1. ASSUME conn' = [conn EXCEPT ![k] = ClientGoes(@)], NEW j \in Conns,
             conn'[j].server = "attach"
      PROVE  conn[j].server = "attach"
  <2>1. ServerEndStays(j)
    BY <1>1, OneGoes
  <2>. QED BY <1>1, <2>1 DEF ServerEndStays, Gone
<1>2. ASSUME conn' = [conn EXCEPT ![k] = ServerGoes(@)], NEW j \in Conns,
             conn'[j].server = "attach"
      PROVE  conn[j].server = "attach"
  <2>1. conn'[k].server \in Gone /\ (j # k => conn'[j] = conn[j])
    BY <1>2, OneGoes
  <2>. QED BY <1>2, <2>1 DEF Gone
<1>. QED BY <1>1, <1>2

LEMMA SessStep ==
  ASSUME TypeOK, TypeOK', SessInv, Next PROVE SessInv'
<1>0. ASSUME SessCalm PROVE SessInv'
  BY <1>0 DEF SessInv, SessCalm, NoPaths
<1>1. ASSUME NEW k \in Conns, NEW s, s # "attach", UNCHANGED <<sess, sPath>>,
             \/ conn' = [conn EXCEPT ![k].client = s]
             \/ conn' = [conn EXCEPT ![k].server = s]
      PROVE  SessInv'
  <2>1. CASE conn' = [conn EXCEPT ![k].client = s]
    <3>1. \A j \in Conns : conn'[j].server = conn[j].server
      BY <2>1, OneStage
    <3>. QED BY <1>0, <1>1, <3>1, SessKeep
  <2>2. CASE conn' = [conn EXCEPT ![k].server = s]
    <3>1. \A j \in Conns : (j # k => conn'[j] = conn[j]) /\ conn'[k].server = s
      BY <2>2, OneStage, ZenonT(60)
    <3>. QED BY <1>0, <1>1, <3>1, SessKeep
  <2>. QED BY <1>1, <2>1, <2>2
<1>2. ASSUME NEW k \in Conns, NEW c, NEW g, NEW b, Connect(k, c, g, b), UNCHANGED <<sess, sPath>>
      PROVE  SessInv'
  <2>1. /\ conn'[k] = [carrier |-> c, generation |-> g, create |-> b,
                       client |-> "init", server |-> "init"]
        /\ \A j \in Conns : j # k => conn'[j] = conn[j]
    BY <1>2, OneConnects
  <2>2. \A j \in Conns : conn'[j].server = "attach" => conn[j].server = "attach"
    BY <2>1
  <2>. QED BY <1>0, <1>2, <2>2, SessKeep
<1>3. ASSUME NEW k \in Conns, UNCHANGED <<sess, sPath>>,
             \/ conn' = [conn EXCEPT ![k] = ClientGoes(@)]
             \/ conn' = [conn EXCEPT ![k] = ServerGoes(@)]
      PROVE  SessInv'
  BY <1>0, <1>3, SessGoes, SessKeep
<1>c1. ASSUME NEW k \in Conns, Dial(k) PROVE SessInv'
  BY <1>c1, <1>2 DEF Dial, serverVars
<1>c2. ASSUME NEW k \in Conns, NEW c \in Carriers, Maintain(k, c) PROVE SessInv'
  BY <1>c2, <1>2 DEF Maintain, serverVars
<1>c3. ASSUME NEW k \in Conns, ClientFinishes(k) PROVE SessInv'
  BY <1>c3, <1>1 DEF ClientFinishes, serverVars
<1>c4. ASSUME NEW k \in Conns, ClientAttaches(k) PROVE SessInv'
  BY <1>c4, <1>1 DEF ClientAttaches, serverVars
<1>c5. ASSUME NEW k \in Conns, ClientFails(k) PROVE SessInv'
  BY <1>c5, <1>3 DEF ClientFails, serverVars
<1>c6. ASSUME NEW c \in Carriers, ClientLoses(c) PROVE SessInv'
  BY <1>c6, <1>3 DEF ClientLoses, serverVars, TypeOK
<1>c7. CASE ClientExpires
  BY <1>c7 DEF ClientExpires, serverVars, SessInv, NoPaths
<1>c8. CASE ClientStops
  <2>1. ASSUME NEW j \in Conns, conn'[j].server = "attach" PROVE conn[j].server = "attach"
    <3>1. conn[j] \in Connections /\ conn'[j] = ClientGoes(conn[j])
      BY <1>c8 DEF ClientStops, TypeOK
    <3>. QED BY <2>1, <3>1, ClientGoesFacts DEF NoHandshake
  <2>. QED BY <1>0, <1>c8, <2>1, SessKeep DEF ClientStops, serverVars
<1>s1. ASSUME NEW k \in Conns, ServerOffers(k) PROVE SessInv'
  <2>1. UNCHANGED sPath /\ (sess' # "open" => sess # "open")
    BY <1>s1 DEF ServerOffers, Forget
  <2>2. \A j \in Conns : conn'[j].server = "attach" => conn[j].server = "attach"
    <3>1. CASE conn' = [conn EXCEPT ![k].server = "offer"]
      <4>1. \A j \in Conns : (j # k => conn'[j] = conn[j]) /\ conn'[k].server = "offer"
        BY <3>1, OneStage, ZenonT(60)
      <4>. QED BY <4>1
    <3>2. CASE conn' = [conn EXCEPT ![k] = ServerGoes(@)]
      BY <3>2, SessGoes
    <3>. QED BY <1>s1, <3>1, <3>2 DEF ServerOffers
  <2>. QED BY <1>0, <2>1, <2>2 DEF SessCalm
<1>s2. ASSUME NEW k \in Conns, ServerFinishes(k) PROVE SessInv'
  BY <1>s2, <1>1 DEF ServerFinishes, serverVars
<1>s3. ASSUME NEW k \in Conns, ServerCommits(k) PROVE SessInv'
  <2>1. CASE sess' = "open"
    BY <2>1 DEF SessInv
  <2>2. CASE conn' = [conn EXCEPT ![k] = ServerGoes(@)] /\ UNCHANGED sess
    BY <1>s3, <1>3, <2>2 DEF ServerCommits
  <2>. QED BY <1>s3, <2>1, <2>2 DEF ServerCommits
<1>s4. ASSUME NEW k \in Conns, ServerAttaches(k) PROVE SessInv'
  <2>1. sess = "open" /\ sess' = sess
    BY <1>s4 DEF ServerAttaches, SessInv
  <2>. QED BY <2>1 DEF SessInv
<1>s5. ASSUME NEW k \in Conns, ServerFails(k) PROVE SessInv'
  BY <1>s5, <1>3 DEF ServerFails, serverVars
<1>s6. ASSUME NEW c \in Carriers, ServerLoses(c) PROVE SessInv'
  <2>1. sPath[c] \in Conns /\ conn' = [conn EXCEPT ![sPath[c]] = ServerGoes(@)] /\ UNCHANGED sess
    BY <1>s6 DEF ServerLoses, TypeOK
  <2>2. \A d \in Carriers : sPath'[d] \in {sPath[d], NoConn}
    BY <1>s6 DEF ServerLoses, TypeOK
  <2>3. \A j \in Conns : conn'[j].server = "attach" => conn[j].server = "attach"
    BY <2>1, SessGoes
  <2>. QED BY <1>0, <2>1, <2>2, <2>3 DEF SessCalm
<1>s7. CASE ServerExpires
  BY <1>s7 DEF ServerExpires, SessInv, NoPaths
<1>s8. CASE ServerStops
  <2>1. ASSUME NEW j \in Conns PROVE conn'[j].server # "attach"
    <3>1. conn[j] \in Connections
      BY DEF TypeOK
    <3>2. \/ conn'[j] = ServerGoes(conn[j])
          \/ conn'[j] = conn[j] /\ conn[j].server # "attach"
      BY <1>s8 DEF ServerStops
    <3>. QED BY <3>1, <3>2, ServerGoesFacts DEF Gone
  <2>. QED BY <1>s8, <2>1 DEF ServerStops, SessInv, NoPaths
<1>. QED BY <1>c1, <1>c2, <1>c3, <1>c4, <1>c5, <1>c6, <1>c7, <1>c8,
            <1>s1, <1>s2, <1>s3, <1>s4, <1>s5, <1>s6, <1>s7, <1>s8
     DEF Next, ClientStep, ServerStep

-----------------------------------------------------------------------------
(* The inductive invariant.                                                *)

LEMMA InvInit == Init => IInv
<1> SUFFICES ASSUME Init PROVE IInv
  OBVIOUS
<1>1. TypeOK
  BY TypeInit
<1>2. \A k \in Conns : conn[k] = NoHandshake /\ k # NoConn
  BY CarriersAssumption DEF Init
<1>3. \A c \in Carriers : /\ cPath[c] = NoConn /\ sPath[c] = NoConn /\ ~cUsed[c]
                          /\ cHighest[c] = 0 /\ sHighest[c] = 0
  BY DEF Init
<1>4. /\ NoHandshake.carrier = 1 /\ NoHandshake.generation = 0
      /\ NoHandshake.client = "gone" /\ NoHandshake.server = "gone"
  BY DEF NoHandshake
<1>5. ClientPaths /\ ServerPaths
  BY <1>2, <1>3, <1>4, Numbers DEF ClientPaths, ServerPaths
<1>6. TryInv
  BY <1>2, <1>3, <1>4 DEF TryInv, InStage
<1>7. GenInv
  BY <1>2, <1>3, <1>4, Numbers DEF GenInv, Below
<1>8. SessInv
  BY <1>2, <1>3, <1>4 DEF SessInv, NoPaths
<1>. QED BY <1>1, <1>5, <1>6, <1>7, <1>8 DEF IInv

LEMMA InvStep == IInv /\ [Next]_vars => IInv'
<1> SUFFICES ASSUME IInv, [Next]_vars PROVE IInv'
  OBVIOUS
<1>0. TypeOK'
  BY TypeStep DEF IInv
<1>1. CASE UNCHANGED vars
  BY <1>1 DEF vars, clientVars, serverVars, IInv, TypeOK, ClientPaths, ServerPaths, TryInv,
     InStage, GenInv, Below, SessInv, NoPaths
<1>2. CASE Next
  BY <1>0, <1>2, ClientPathsStep, ServerPathsStep, TryStep, GenStep, SessStep DEF IInv
<1>. QED BY <1>1, <1>2

(* The inductive invariant: what is on its way, and what the server has    *)
(* accepted, stays below the client's next candidate.                      *)
THEOREM CarriersInductive == Spec => []IInv
BY InvInit, InvStep, PTL DEF Spec

(* addCarrier and detachLocked: the connections an endpoint schedules on   *)
(* are those it has attached and not lost, one per Carrier ID.             *)
THEOREM ScheduledOnes == Spec => []Scheduled
<1>1. IInv => Scheduled
  BY DEF IInv, ClientPaths, ServerPaths, Scheduled
<1>. QED BY <1>1, CarriersInductive, PTL

(* nextCarrierCandidateGenerationLocked: no candidate for a Carrier that   *)
(* both ends have used is refused for its generation.                      *)
THEOREM CandidatesAbove == Spec => []CandidateAboveServer
<1>1. ASSUME IInv, NEW c \in Carriers, cUsed[c], ~cSpent[c]
      PROVE  Candidate(c) > sHighest[c]
  <2>0. TypeOK
    BY <1>1 DEF IInv
  <2>1. cHighest[c] \in Nat /\ cNext[c] \in Nat /\ sHighest[c] \in Nat
    BY <2>0, Numbers DEF TypeOK
  <2>2. sHighest[c] <= cHighest[c] \/ sHighest[c] < cNext[c]
    BY <1>1 DEF IInv, GenInv, Below
  <2>. QED BY <1>1, <2>1, <2>2 DEF Candidate
<1>2. IInv => CandidateAboveServer
  BY <1>1 DEF CandidateAboveServer
<1>. QED BY <1>2, CarriersInductive, PTL

-----------------------------------------------------------------------------
(* Both endpoints keep the history of Incarnations.                        *)

LEMMA HistoryValue ==
  ASSUME NEW used, NEW highest, NEW c \in Carriers
  PROVE  History(used, highest)[c] = IF used[c] THEN highest[c] ELSE -1
BY DEF History

LEMMA AdmissibleHistory ==
  ASSUME NEW used \in [Carriers -> BOOLEAN], NEW highest \in [Carriers -> Generations],
         NEW c \in Carriers, NEW g, Admissible(used[c], highest[c], g)
  PROVE  IF History(used, highest)[c] = -1 THEN g = 0 ELSE g > History(used, highest)[c]
<1>1. highest[c] \in Nat
  BY Numbers
<1>2. CASE used[c]
  <2>1. History(used, highest)[c] = highest[c]
    BY <1>2 DEF History
  <2>2. g > highest[c]
    BY <1>2 DEF Admissible
  <2>. QED BY <1>1, <2>1, <2>2
<1>3. CASE ~used[c]
  BY <1>3 DEF Admissible, History
<1>. QED BY <1>2, <1>3

LEMMA ClientHistoryInit == Init => Client!Init
<1> SUFFICES ASSUME Init PROVE Client!Init
  OBVIOUS
<1>1. History(cUsed, cHighest) = [c \in Carriers |-> -1]
  BY DEF Init, History
<1>2. Live(cPath) = [c \in Carriers |-> -1]
  BY DEF Init, Live
<1>. QED BY <1>1, <1>2 DEF Client!Init, Client!Nothing

LEMMA ClientHistoryStep ==
  ASSUME IInv, IInv', Next
  PROVE  \/ Client!Next
         \/ UNCHANGED <<History(cUsed, cHighest), Live(cPath)>>
<1>0. TypeOK /\ ClientPaths /\ TypeOK' /\ ClientPaths'
  BY DEF IInv
<1>1. ASSUME NEW k \in Conns, ClientAttaches(k) PROVE Client!Next
  <2> DEFINE c == conn[k].carrier
             g == conn[k].generation
  <2>1. /\ c \in Carriers /\ g \in Generations /\ conn[k].client = "finished"
        /\ Admissible(cUsed[c], cHighest[c], g)
        /\ cUsed' = [cUsed EXCEPT ![c] = TRUE]
        /\ cHighest' = [cHighest EXCEPT ![c] = g]
        /\ cPath' = [cPath EXCEPT ![c] = k]
        /\ conn' = [conn EXCEPT ![k].client = "up"]
    BY <1>0, <1>1 DEF ClientAttaches, TypeOK, Connections, Raised
  <2>2. /\ conn'[k].generation = g
        /\ \A j \in Conns : conn'[j].generation = conn[j].generation
    BY <1>0, <2>1, OneStage DEF Same
  <2> HIDE DEF c, g
  <2>3. History(cUsed, cHighest)' = [History(cUsed, cHighest) EXCEPT ![c] = g]
    <3>1. cUsed \in [Carriers -> BOOLEAN] /\ cHighest \in [Carriers -> Generations]
      BY <1>0 DEF TypeOK
    <3>2. \A d \in Carriers : /\ cUsed'[d] <=> (d = c \/ cUsed[d])
                              /\ cHighest'[d] = IF d = c THEN g ELSE cHighest[d]
      <4>1. cUsed' = [cUsed EXCEPT ![c] = TRUE] /\ cHighest' = [cHighest EXCEPT ![c] = g]
        BY <2>1
      <4>. QED BY <3>1, <4>1
    <3>3. c \in Carriers
      BY <1>0, <2>1
    <3>4. History(cUsed, cHighest)' = [d \in Carriers |-> IF cUsed'[d] THEN cHighest'[d] ELSE -1]
      BY DEF History
    <3>5. History(cUsed, cHighest) = [d \in Carriers |-> IF cUsed[d] THEN cHighest[d] ELSE -1]
      BY DEF History
    <3>. QED BY <3>2, <3>3, <3>4, <3>5
  <2>4. Live(cPath)' = [Live(cPath) EXCEPT ![c] = g]
    <3>1. k # NoConn /\ cPath \in [Carriers -> Conns \cup {NoConn}]
      BY <1>0, CarriersAssumption DEF TypeOK
    <3>2. \A d \in Carriers : cPath'[d] = IF d = c THEN k ELSE cPath[d]
      BY <2>1, <3>1
    <3>3. Live(cPath)' = [d \in Carriers |-> IF cPath'[d] = NoConn THEN -1
                                           ELSE conn'[cPath'[d]].generation]
      BY DEF Live
    <3>4. \A d \in Carriers : d # c /\ cPath[d] # NoConn =>
            conn'[cPath[d]].generation = conn[cPath[d]].generation
      BY <2>2, <3>1
    <3>. QED BY <2>2, <3>1, <3>2, <3>3, <3>4 DEF Live
  <2>5. IF History(cUsed, cHighest)[c] = -1 THEN g = 0 ELSE g > History(cUsed, cHighest)[c]
    BY <1>0, <2>1, AdmissibleHistory DEF TypeOK
  <2>6. Client!Accept(c, g)
    BY <2>3, <2>4, <2>5 DEF Client!Accept
  <2>. QED BY <2>1, <2>6 DEF Client!Next
<1>2. ASSUME NEW c \in Carriers, ClientLoses(c) PROVE Client!Next
  <2>1. /\ cPath[c] \in Conns /\ conn' = [conn EXCEPT ![cPath[c]] = ClientGoes(@)]
        /\ cPath' = [cPath EXCEPT ![c] = NoConn] /\ UNCHANGED <<cUsed, cHighest>>
    BY <1>0, <1>2 DEF ClientLoses, TypeOK
  <2>2. \A d \in Carriers : d # c /\ cPath[d] # NoConn =>
          cPath[d] \in Conns /\ cPath[d] # cPath[c]
    BY <1>0, <2>1, CarriersAssumption DEF ClientPaths, TypeOK
  <2>3. \A j \in Conns : j # cPath[c] => conn'[j] = conn[j]
    BY <1>0, <2>1, OneGoes
  <2>4. \A d \in Carriers : cPath'[d] = IF d = c THEN NoConn ELSE cPath[d]
    BY <1>0, <2>1 DEF TypeOK
  <2>5. Live(cPath)' = [d \in Carriers |-> IF d \in {c} THEN -1 ELSE Live(cPath)[d]]
    BY <2>2, <2>3, <2>4 DEF Live
  <2>6. History(cUsed, cHighest)' = History(cUsed, cHighest)
    BY <2>1 DEF History
  <2>7. Client!Lose({c})
    BY <2>5, <2>6 DEF Client!Lose
  <2>. QED BY <2>7 DEF Client!Next
<1>3. ASSUME ClientStops PROVE Client!Next
  <2>1. Live(cPath)' = [d \in Carriers |-> IF d \in Carriers THEN -1 ELSE Live(cPath)[d]]
    BY <1>3 DEF ClientStops, Live
  <2>2. History(cUsed, cHighest)' = History(cUsed, cHighest)
    BY <1>3 DEF ClientStops, History
  <2>3. Client!Lose(Carriers)
    BY <2>1, <2>2 DEF Client!Lose
  <2>. QED BY <2>3 DEF Client!Next
<1>4. ASSUME ClientUpCalm PROVE UNCHANGED <<History(cUsed, cHighest), Live(cPath)>>
  <2>1. \A d \in Carriers : cPath[d] # NoConn =>
          cPath[d] \in Conns /\ conn[cPath[d]].client = "up"
    BY <1>0 DEF ClientPaths, TypeOK
  <2>2. \A d \in Carriers : cPath[d] # NoConn =>
          conn'[cPath[d]].generation = conn[cPath[d]].generation
    BY <1>4, <2>1 DEF ClientUpCalm, Same
  <2>3. Live(cPath)' = Live(cPath)
    BY <1>4, <2>2 DEF ClientUpCalm, Live
  <2>4. History(cUsed, cHighest)' = History(cUsed, cHighest)
    BY <1>4 DEF ClientUpCalm, History
  <2>. QED BY <2>3, <2>4
<1>. QED BY <1>0, <1>1, <1>2, <1>3, <1>4, ClientUpActs

(* The client keeps the history of incarnations the protocol asks for.     *)
THEOREM ClientHistory == Spec => ClientKeepsHistory
<1>1. ASSUME IInv, IInv', [Next]_vars
      PROVE  [Client!Next]_<<History(cUsed, cHighest), Live(cPath)>>
  <2>1. CASE UNCHANGED vars
    BY <2>1 DEF vars, clientVars, serverVars, History, Live
  <2>. QED BY <1>1, <2>1, ClientHistoryStep
<1>. QED BY <1>1, ClientHistoryInit, CarriersInductive, PTL DEF Spec, ClientKeepsHistory, Client!Spec

LEMMA ServerHistoryInit == Init => Server!Init
<1> SUFFICES ASSUME Init PROVE Server!Init
  OBVIOUS
<1>1. History(sUsed, sHighest) = [c \in Carriers |-> -1]
  BY DEF Init, History
<1>2. Live(sPath) = [c \in Carriers |-> -1]
  BY DEF Init, Live
<1>. QED BY <1>1, <1>2 DEF Server!Init, Server!Nothing

(* The steps of the server's history that are none of its connections.     *)
LEMMA ServerHistoryKept ==
  ASSUME Next, \A k \in Conns : ~ServerAttaches(k)
  PROVE  UNCHANGED <<sUsed, sHighest>> \/ (sess = "closed" /\ Forget)
<1>1. ASSUME ClientStep PROVE UNCHANGED <<sUsed, sHighest>>
  BY <1>1 DEF ClientStep, Dial, Maintain, ClientFinishes, ClientAttaches, ClientFails,
     ClientLoses, ClientExpires, ClientStops, serverVars
<1>2. ASSUME NEW k \in Conns, ServerOffers(k)
      PROVE  UNCHANGED <<sUsed, sHighest>> \/ (sess = "closed" /\ Forget)
  BY <1>2 DEF ServerOffers
<1>3. ASSUME ServerStep, \A k \in Conns : ~ServerOffers(k)
      PROVE  UNCHANGED <<sUsed, sHighest>>
  BY <1>3 DEF ServerStep, ServerFinishes, ServerCommits, ServerFails, ServerLoses,
     ServerExpires, ServerStops, serverVars
<1>. QED BY <1>1, <1>2, <1>3 DEF Next

LEMMA ServerHistoryAttach ==
  ASSUME IInv, IInv', NEW k \in Conns, ServerAttaches(k)
  PROVE  \/ Server!Next
         \/ UNCHANGED <<History(sUsed, sHighest), Live(sPath)>>
<1> DEFINE c == conn[k].carrier
           g == conn[k].generation
<1>0. /\ TypeOK /\ ServerPaths /\ c \in Carriers /\ g \in Generations
      /\ conn[k].server = "attach" /\ c = conn[k].carrier /\ k # NoConn
      /\ sUsed \in [Carriers -> BOOLEAN] /\ sHighest \in [Carriers -> Generations]
      /\ sPath \in [Carriers -> Conns \cup {NoConn}]
  BY CarriersAssumption DEF IInv, TypeOK, Connections, ServerAttaches
<1>1. CASE Admissible(sUsed[c], sHighest[c], g)
  <2>1. /\ sUsed' = [sUsed EXCEPT ![c] = TRUE]
        /\ sHighest' = [sHighest EXCEPT ![c] = g]
        /\ sPath' = [sPath EXCEPT ![c] = k]
        /\ conn' = Supersede(k, sPath[c])
    BY <1>1 DEF ServerAttaches, Raised
  <2>2. conn'[k].generation = g
    <3>1. Same(k)
      BY <1>0, <2>1, SupersedeFacts
    <3>. QED BY <3>1 DEF Same
  <2> HIDE DEF c, g
  <2>3. History(sUsed, sHighest)' = [History(sUsed, sHighest) EXCEPT ![c] = g]
    <3>1. sUsed \in [Carriers -> BOOLEAN] /\ sHighest \in [Carriers -> Generations]
      BY <1>0 DEF TypeOK
    <3>2. \A d \in Carriers : /\ sUsed'[d] <=> (d = c \/ sUsed[d])
                              /\ sHighest'[d] = IF d = c THEN g ELSE sHighest[d]
      <4>1. sUsed' = [sUsed EXCEPT ![c] = TRUE] /\ sHighest' = [sHighest EXCEPT ![c] = g]
        BY <2>1
      <4>. QED BY <3>1, <4>1
    <3>3. c \in Carriers
      BY <1>0, <2>1
    <3>4. History(sUsed, sHighest)' = [d \in Carriers |-> IF sUsed'[d] THEN sHighest'[d] ELSE -1]
      BY DEF History
    <3>5. History(sUsed, sHighest) = [d \in Carriers |-> IF sUsed[d] THEN sHighest[d] ELSE -1]
      BY DEF History
    <3>. QED BY <3>2, <3>3, <3>4, <3>5
  <2>4. Live(sPath)' = [Live(sPath) EXCEPT ![c] = g]
    <3>1. \A d \in Carriers : sPath'[d] = IF d = c THEN k ELSE sPath[d]
      BY <1>0, <2>1
    <3>2. \A d \in Carriers : d # c /\ sPath[d] # NoConn =>
            conn'[sPath[d]].generation = conn[sPath[d]].generation
      <4>1. ASSUME NEW d \in Carriers, d # c, sPath[d] # NoConn
            PROVE  conn'[sPath[d]] = conn[sPath[d]]
        <5>1. sPath[d] \in Conns /\ sPath[d] # sPath[c]
          BY <1>0, <4>1 DEF ServerPaths
        <5>2. sPath[d] # k
          BY <1>0, <2>1, SupersedeFacts
        <5>. QED BY <1>0, <2>1, <5>1, <5>2, SupersedeFacts
      <4>. QED BY <4>1
    <3>3. Live(sPath)' = [d \in Carriers |-> IF sPath'[d] = NoConn THEN -1
                                           ELSE conn'[sPath'[d]].generation]
      BY DEF Live
    <3>. QED BY <1>0, <2>2, <3>1, <3>2, <3>3, ZenonT(60) DEF Live
  <2>5. IF History(sUsed, sHighest)[c] = -1 THEN g = 0 ELSE g > History(sUsed, sHighest)[c]
    BY <1>0, <1>1, AdmissibleHistory
  <2>6. Server!Accept(c, g)
    BY <2>3, <2>4, <2>5 DEF Server!Accept
  <2>. QED BY <1>0, <2>6 DEF Server!Next
<1>2. CASE ~Admissible(sUsed[c], sHighest[c], g)
  <2>1. conn' = [conn EXCEPT ![k] = ServerGoes(@)] /\ UNCHANGED <<sUsed, sHighest, sPath>>
    BY <1>2 DEF ServerAttaches
  <2>2. \A d \in Carriers : sPath[d] # NoConn => sPath[d] \in Conns /\ sPath[d] # k
    BY <1>0 DEF ServerPaths
  <2>3. \A j \in Conns : j # k => conn'[j] = conn[j]
    BY <1>0, <2>1, OneGoes
  <2>4. Live(sPath)' = Live(sPath)
    BY <2>1, <2>2, <2>3 DEF Live
  <2>5. History(sUsed, sHighest)' = History(sUsed, sHighest)
    BY <2>1 DEF History
  <2>. QED BY <2>4, <2>5
<1>. QED BY <1>1, <1>2

LEMMA ServerHistoryStep ==
  ASSUME IInv, IInv', Next
  PROVE  \/ Server!Next
         \/ UNCHANGED <<History(sUsed, sHighest), Live(sPath)>>
<1>0. TypeOK /\ ServerPaths /\ TypeOK' /\ SessInv
  BY DEF IInv
<1>1. ASSUME NEW c \in Carriers, ServerLoses(c) PROVE Server!Next
  <2>1. /\ sPath[c] \in Conns /\ conn' = [conn EXCEPT ![sPath[c]] = ServerGoes(@)]
        /\ sPath' = [sPath EXCEPT ![c] = NoConn] /\ UNCHANGED <<sUsed, sHighest>>
    BY <1>0, <1>1 DEF ServerLoses, TypeOK
  <2>2. \A d \in Carriers : d # c /\ sPath[d] # NoConn =>
          sPath[d] \in Conns /\ sPath[d] # sPath[c]
    BY <1>0, <2>1, CarriersAssumption DEF ServerPaths, TypeOK
  <2>3. \A j \in Conns : j # sPath[c] => conn'[j] = conn[j]
    BY <1>0, <2>1, OneGoes
  <2>4. \A d \in Carriers : sPath'[d] = IF d = c THEN NoConn ELSE sPath[d]
    BY <1>0, <2>1 DEF TypeOK
  <2>5. Live(sPath)' = [d \in Carriers |-> IF d \in {c} THEN -1 ELSE Live(sPath)[d]]
    BY <2>2, <2>3, <2>4 DEF Live
  <2>6. History(sUsed, sHighest)' = History(sUsed, sHighest)
    BY <2>1 DEF History
  <2>7. Server!Lose({c})
    BY <2>5, <2>6 DEF Server!Lose
  <2>. QED BY <2>7 DEF Server!Next
<1>2. ASSUME ServerStops PROVE Server!Next
  <2>1. Live(sPath)' = [d \in Carriers |-> IF d \in Carriers THEN -1 ELSE Live(sPath)[d]]
    BY <1>2 DEF ServerStops, Live
  <2>2. History(sUsed, sHighest)' = History(sUsed, sHighest)
    BY <1>2 DEF ServerStops, History
  <2>3. Server!Lose(Carriers)
    BY <2>1, <2>2 DEF Server!Lose
  <2>. QED BY <2>3 DEF Server!Next
<1>3. ASSUME ServerCalm PROVE Live(sPath)' = Live(sPath)
  <2>1. \A d \in Carriers : sPath[d] # NoConn =>
          sPath[d] \in Conns /\ conn[sPath[d]].server = "up"
    BY <1>0 DEF ServerPaths, TypeOK
  <2>2. \A d \in Carriers : sPath[d] # NoConn =>
          conn'[sPath[d]].generation = conn[sPath[d]].generation
    BY <1>3, <2>1 DEF ServerCalm, Same
  <2>. QED BY <1>3, <2>2 DEF ServerCalm, Live
<1>4. ASSUME ServerCalm, \A k \in Conns : ~ServerAttaches(k)
      PROVE  \/ Server!Next
             \/ UNCHANGED <<History(sUsed, sHighest), Live(sPath)>>
  <2>1. CASE UNCHANGED <<sUsed, sHighest>>
    BY <1>3, <1>4, <2>1 DEF History
  <2>2. CASE sess = "closed" /\ Forget
    <3>1. Live(sPath) = [c \in Carriers |-> -1]
      BY <1>0, <2>2 DEF SessInv, NoPaths, Live
    <3>2. History(sUsed, sHighest)' = [c \in Carriers |-> -1]
      BY <2>2 DEF Forget, History
    <3>3. Server!Renew
      BY <1>3, <1>4, <3>1, <3>2 DEF Server!Renew, Server!Nothing
    <3>. QED BY <3>3 DEF Server!Next
  <2>. QED BY <1>4, <2>1, <2>2, ServerHistoryKept
<1>. QED BY <1>0, <1>1, <1>2, <1>4, ServerActs, ServerHistoryAttach

(* The server keeps the history of incarnations the protocol asks for.     *)
THEOREM ServerHistory == Spec => ServerKeepsHistory
<1>1. ASSUME IInv, IInv', [Next]_vars
      PROVE  [Server!Next]_<<History(sUsed, sHighest), Live(sPath)>>
  <2>1. CASE UNCHANGED vars
    BY <2>1 DEF vars, clientVars, serverVars, History, Live
  <2>. QED BY <1>1, <2>1, ServerHistoryStep
<1>. QED BY <1>1, ServerHistoryInit, CarriersInductive, PTL DEF Spec, ServerKeepsHistory, Server!Spec

(* Both endpoints keep the history of incarnations (addCarrier and         *)
(* commitCarrierGenerationLocked at either end).                           *)
THEOREM BothHistories == Spec => HistoriesKept
BY ClientHistory, ServerHistory DEF HistoriesKept
-----------------------------------------------------------------------------
(* The server accepts what the client was told it accepted.                *)

(* A CREATE is of the address DialClient tries, or of one before; the      *)
(* client has finished with all but the last, and the server with all of   *)
(* them when it gives a Session up.                                        *)
CreatesKept ==
  /\ \A k \in Conns : conn[k].create =>
       /\ conn[k].generation = 0 /\ conn[k].carrier <= turn
       /\ conn[k].client \in {"init", "finished"} => phase = "dialing" /\ conn[k].carrier = turn
       /\ conn[k].carrier = turn =>
            /\ phase = "dialing" => conn[k].client \in {"init", "finished"}
            /\ phase = "open" => conn[k].server \notin {"init", "offer"}
       /\ conn[k].server \in {"offer", "commit", "attach"} => sess # "closed" /\ ~sExpired
  /\ \A j, k \in Conns :
       conn[j].create /\ conn[k].create /\ conn[j].carrier = conn[k].carrier => j = k

(* The other connections are made by an open client; those of the Carrier  *)
(* it was opened with are never the first.                                 *)
OthersKept ==
  \A k \in Conns : ~conn[k].create =>
    /\ phase = "dialing" => conn[k] = NoHandshake
    /\ conn[k].client \in {"init", "finished"} => phase = "open"
    /\ conn[k].server \in {"init", "offer", "commit", "attach"} /\ conn[k].carrier = turn =>
         conn[k].generation > 0

HistoryKept ==
  /\ phase = "open" => cUsed[turn]
  /\ sess # "open" => ~sExpired
  /\ sess = "none" => \A c \in Carriers : ~sUsed[c]
  /\ \A c \in Carriers : sPath[c] # NoConn => sUsed[c]

TurnAt(stage) ==
  \E k \in Conns : conn[k].create /\ conn[k].carrier = turn /\ conn[k].server = stage

(* Before the CREATE of an open client makes its Session, nothing else     *)
(* can have been answered.                                                 *)
NothingBefore ==
  phase = "open" /\ sess = "none" /\ TurnAt("commit") =>
    /\ \A c \in Carriers : cUsed[c] => c = turn
    /\ \A k \in Conns : ~conn[k].create => conn[k].server \in {"init", "gone"}

(* The Session was made by the CREATE for which DialClient succeeded.      *)
Joined == phase = "open" /\ sess = "open" /\ (sUsed[turn] \/ TurnAt("attach"))

(* The handler of a connection that will be accepted.                      *)
Accepts(k) ==
  \/ ~conn[k].create /\ conn[k].server \in {"commit", "attach"}
  \/ conn[k].create /\ conn[k].server = "attach"

JoinedKept ==
  Joined =>
    /\ \A c \in Carriers : cUsed[c] => sUsed[c] \/ \E k \in Conns : conn[k].carrier = c /\ Accepts(k)
    /\ \A k \in Conns : ~conn[k].create =>
         /\ conn[k].generation > 0 /\ conn[k].server \in {"offer", "commit", "attach"} =>
              sUsed[conn[k].carrier]
         /\ conn[k].client = "finished" /\ conn[k].server = "left" => sUsed[conn[k].carrier]

AcceptInv == CreatesKept /\ OthersKept /\ HistoryKept /\ NothingBefore /\ JoinedKept

AcceptVars == <<phase, turn, cUsed, cPath, sess, sUsed, sPath, sExpired>>

LEMMA NoHandshakeFields ==
  /\ NoHandshake.carrier = 1 /\ NoHandshake.generation = 0 /\ NoHandshake.create = FALSE
  /\ NoHandshake.client = "gone" /\ NoHandshake.server = "gone"
BY DEF NoHandshake

SameKey(j) ==
  /\ conn'[j].carrier = conn[j].carrier /\ conn'[j].generation = conn[j].generation
  /\ conn'[j].create = conn[j].create

(* What becomes of a connection that an end leaves.                        *)
ClientLeft(j) ==
  \/ conn'[j] = NoHandshake /\ conn[j].server \in Gone
  \/ SameKey(j) /\ conn'[j].server = conn[j].server /\ conn'[j].client \in Gone
ServerLeft(j) ==
  \/ conn'[j] = NoHandshake /\ conn[j].client \in Gone
  \/ /\ SameKey(j) /\ conn'[j].client = conn[j].client
     /\ conn'[j].server = IF conn[j].server \in {"commit", "attach", "up", "left"} THEN "left" ELSE "gone"

LEMMA ClientLeaving ==
  ASSUME TypeOK, NEW j \in Conns, conn'[j] = ClientGoes(conn[j])
  PROVE  ClientLeft(j)
<1> DEFINE r == conn[j]
           q == [r EXCEPT !.client = Leaves(@, {"finished", "up"})]
<1>1. r \in Connections
  BY DEF TypeOK
<1>2. q.client \in Gone
  BY <1>1 DEF Connections, ClientStages, Leaves, Gone
<1>3. /\ q.carrier = r.carrier /\ q.generation = r.generation /\ q.server = r.server
      /\ q.create = r.create
  BY <1>1 DEF Connections, ClientStages
<1>4. conn'[j] = IF r.server \in Gone THEN NoHandshake ELSE q
  BY <1>2, <1>3 DEF ClientGoes, Tidy
<1> HIDE DEF q
<1>. QED BY <1>2, <1>3, <1>4 DEF ClientLeft, SameKey

LEMMA ServerLeaving ==
  ASSUME TypeOK, NEW j \in Conns, conn'[j] = ServerGoes(conn[j])
  PROVE  ServerLeft(j)
<1> DEFINE r == conn[j]
           q == [r EXCEPT !.server = Leaves(@, {"commit", "attach", "up"})]
<1>1. r \in Connections
  BY DEF TypeOK
<1>2. q.server = IF r.server \in {"commit", "attach", "up", "left"} THEN "left" ELSE "gone"
  BY <1>1 DEF Connections, ServerStages, Leaves, Gone
<1>3. /\ q.carrier = r.carrier /\ q.generation = r.generation /\ q.client = r.client
      /\ q.create = r.create
  BY <1>1 DEF Connections, ServerStages
<1>4. conn'[j] = IF r.client \in Gone THEN NoHandshake ELSE q
  <2>1. q.server \in Gone
    BY <1>2 DEF Gone
  <2>. QED BY <1>3, <2>1 DEF ServerGoes, Tidy
<1> HIDE DEF q
<1>. QED BY <1>2, <1>3, <1>4 DEF ServerLeft, SameKey

LEMMA StageMoves ==
  ASSUME TypeOK, NEW k \in Conns, NEW s
  PROVE  /\ conn' = [conn EXCEPT ![k].client = s] =>
              \A j \in Conns : /\ j # k => conn'[j] = conn[j]
                               /\ SameKey(j) /\ conn'[k].client = s
                               /\ conn'[j].server = conn[j].server
         /\ conn' = [conn EXCEPT ![k].server = s] =>
              \A j \in Conns : /\ j # k => conn'[j] = conn[j]
                               /\ SameKey(j) /\ conn'[k].server = s
                               /\ conn'[j].client = conn[j].client
BY DEF TypeOK, Connections, SameKey

(* The client makes a connection.                                          *)
LEMMA AcceptDial ==
  ASSUME TypeOK, TryInv, AcceptInv, NEW k \in Conns, Dial(k)
  PROVE  AcceptInv'
<1>1. /\ phase = "dialing" /\ ~Trying(turn) /\ UNCHANGED AcceptVars
      /\ turn \in Nat /\ turn \in Carriers
  BY Numbers DEF Dial, clientVars, serverVars, AcceptVars, TypeOK
<1>2. /\ conn[k] = NoHandshake
      /\ conn'[k] = [carrier |-> turn, generation |-> 0, create |-> TRUE,
                     client |-> "init", server |-> "init"]
      /\ \A j \in Conns : j # k => conn'[j] = conn[j]
  BY OneConnects DEF Dial
<1>3. /\ conn'[k].carrier = turn /\ conn'[k].generation = 0 /\ conn'[k].create = TRUE
      /\ conn'[k].client = "init" /\ conn'[k].server = "init"
  BY <1>2
<1>4. ASSUME NEW j \in Conns, conn[j].create PROVE conn[j].carrier # turn
  BY <1>1, <1>4 DEF AcceptInv, CreatesKept, Trying
<1>5. CreatesKept'
  BY <1>1, <1>2, <1>3, <1>4 DEF AcceptInv, CreatesKept, AcceptVars
<1>6. OthersKept'
  BY <1>1, <1>2, <1>3 DEF AcceptInv, OthersKept, AcceptVars
<1>7. HistoryKept' /\ NothingBefore' /\ JoinedKept'
  BY <1>1 DEF AcceptInv, HistoryKept, NothingBefore, JoinedKept, Joined, AcceptVars
<1>. QED BY <1>5, <1>6, <1>7 DEF AcceptInv

LEMMA AcceptMaintain ==
  ASSUME TypeOK, AcceptInv, NEW k \in Conns, NEW c \in Carriers, Maintain(k, c)
  PROVE  AcceptInv'
<1> DEFINE g == Candidate(c)
<1>1. /\ phase = "open" /\ UNCHANGED AcceptVars /\ Connect(k, c, g, FALSE)
  BY DEF Maintain, serverVars, AcceptVars
<1>2. c = turn => g > 0
  <2>1. cNext[c] \in Nat /\ cHighest[c] \in Nat
    BY Numbers DEF TypeOK
  <2>. QED BY <1>1, <2>1 DEF Candidate, AcceptInv, HistoryKept
<1> HIDE DEF g
<1>3. /\ conn[k] = NoHandshake
      /\ conn'[k] = [carrier |-> c, generation |-> g, create |-> FALSE,
                     client |-> "init", server |-> "init"]
      /\ \A j \in Conns : j # k => conn'[j] = conn[j]
  BY <1>1, OneConnects
<1>4. /\ conn'[k].carrier = c /\ conn'[k].generation = g /\ conn'[k].create = FALSE
      /\ conn'[k].client = "init" /\ conn'[k].server = "init"
      /\ conn[k].create = FALSE /\ conn[k].client = "gone" /\ conn[k].server = "gone"
  BY <1>3, NoHandshakeFields
<1>5. CreatesKept'
  BY <1>1, <1>3, <1>4 DEF AcceptInv, CreatesKept, AcceptVars
<1>6. OthersKept'
  BY <1>1, <1>2, <1>3, <1>4 DEF AcceptInv, OthersKept, AcceptVars
<1>7. HistoryKept'
  BY <1>1 DEF AcceptInv, HistoryKept, AcceptVars
<1>8. \A s : TurnAt(s)' <=> TurnAt(s)
  BY <1>1, <1>3, <1>4 DEF TurnAt, AcceptVars
<1>9. NothingBefore'
  BY <1>1, <1>3, <1>4, <1>8 DEF AcceptInv, NothingBefore, AcceptVars
<1>10. JoinedKept'
  <2>1. Joined' => Joined
    BY <1>1, <1>8 DEF Joined, AcceptVars
  <2>2. \A j \in Conns : Accepts(j) => conn'[j] = conn[j]
    BY <1>3, <1>4 DEF Accepts
  <2>. QED BY <1>1, <1>3, <1>4, <2>1, <2>2 DEF AcceptInv, JoinedKept, Accepts, AcceptVars
<1>. QED BY <1>5, <1>6, <1>7, <1>9, <1>10 DEF AcceptInv

LEMMA AcceptFinishes ==
  ASSUME TypeOK, AcceptInv, NEW k \in Conns, ClientFinishes(k)
  PROVE  AcceptInv'
<1>1. /\ UNCHANGED AcceptVars /\ conn[k].client = "init" /\ conn[k].server = "offer"
      /\ \A j \in Conns : /\ j # k => conn'[j] = conn[j]
                          /\ SameKey(j) /\ conn'[k].client = "finished"
                          /\ conn'[j].server = conn[j].server
  BY StageMoves DEF ClientFinishes, clientVars, serverVars, AcceptVars
<1>2. CreatesKept'
  BY <1>1 DEF AcceptInv, CreatesKept, AcceptVars, SameKey
<1>3. OthersKept'
  BY <1>1, NoHandshakeFields DEF AcceptInv, OthersKept, AcceptVars, SameKey
<1>4. HistoryKept'
  BY <1>1 DEF AcceptInv, HistoryKept, AcceptVars
<1>5. \A s : TurnAt(s)' <=> TurnAt(s)
  BY <1>1 DEF TurnAt, AcceptVars, SameKey
<1>6. NothingBefore'
  BY <1>1, <1>5 DEF AcceptInv, NothingBefore, AcceptVars, SameKey
<1>7. JoinedKept'
  <2>1. Joined' => Joined
    BY <1>1, <1>5 DEF Joined, AcceptVars
  <2>. QED BY <1>1, <2>1 DEF AcceptInv, JoinedKept, Accepts, AcceptVars, SameKey
<1>. QED BY <1>2, <1>3, <1>4, <1>6, <1>7 DEF AcceptInv

(* DialClient succeeds with the CREATE of the address it tries.            *)
LEMMA AcceptOpens ==
  ASSUME TypeOK, TryInv, AcceptInv, NEW k \in Conns, ClientAttaches(k), phase = "dialing"
  PROVE  AcceptInv'
<1>1. /\ UNCHANGED <<turn, sess, sUsed, sPath, sExpired>> /\ phase' = "open"
      /\ conn[k].client = "finished" /\ conn[k].server \in {"commit", "attach", "up", "left"}
      /\ \A j \in Conns : /\ j # k => conn'[j] = conn[j]
                          /\ SameKey(j) /\ conn'[k].client = "up"
                          /\ conn'[j].server = conn[j].server
  BY StageMoves DEF ClientAttaches, serverVars, Answered
<1>2. /\ conn[k].create /\ conn[k].carrier = turn
      /\ \A j \in Conns : conn[j].create /\ conn[j].carrier = turn => j = k
  BY <1>1, NoHandshakeFields DEF AcceptInv, CreatesKept, OthersKept
<1>3. \A c \in Carriers : cUsed'[c] <=> c = turn
  <2>1. cUsed' = [cUsed EXCEPT ![turn] = TRUE] /\ \A c \in Carriers : ~cUsed[c]
    BY <1>2 DEF ClientAttaches, TryInv
  <2>. QED BY <2>1 DEF TypeOK
<1>4. \A j \in Conns : ~conn[j].create => conn'[j] = NoHandshake
  BY <1>1, <1>2 DEF AcceptInv, OthersKept
<1>5. CreatesKept'
  BY <1>1, <1>2 DEF AcceptInv, CreatesKept, SameKey
<1>6. OthersKept'
  BY <1>1, <1>4, NoHandshakeFields DEF OthersKept, SameKey
<1>7. HistoryKept'
  <2>1. turn \in Carriers
    BY DEF TypeOK
  <2>. QED BY <1>1, <1>3, <2>1 DEF AcceptInv, HistoryKept
<1>8. NothingBefore'
  BY <1>1, <1>3, <1>4, NoHandshakeFields DEF NothingBefore, SameKey
<1>9. JoinedKept'
  BY <1>1, <1>3, <1>4, NoHandshakeFields DEF JoinedKept, Joined, TurnAt, Accepts, SameKey
<1>. QED BY <1>5, <1>6, <1>7, <1>8, <1>9 DEF AcceptInv

LEMMA AcceptReturns ==
  ASSUME TypeOK, ServerPaths, AcceptInv, NEW k \in Conns, ClientAttaches(k), phase # "dialing"
  PROVE  AcceptInv'
<1> DEFINE c == conn[k].carrier
<1>0. c \in Carriers
  BY DEF TypeOK, Connections
<1>1. /\ UNCHANGED <<turn, sess, sUsed, sPath, sExpired>> /\ phase' = "open"
      /\ conn[k].client = "finished" /\ conn[k].server \in {"commit", "attach", "up", "left"}
      /\ \A j \in Conns : /\ j # k => conn'[j] = conn[j]
                          /\ SameKey(j) /\ conn'[k].client = "up"
                          /\ conn'[j].server = conn[j].server
  BY StageMoves DEF ClientAttaches, serverVars, Answered
<1>2. ~conn[k].create /\ phase = "open" /\ phase' = phase
  BY <1>1 DEF AcceptInv, CreatesKept, OthersKept
<1>3. \A d \in Carriers : cUsed'[d] <=> (d = c \/ cUsed[d])
  BY DEF ClientAttaches, TypeOK
<1> HIDE DEF c
<1>4. CreatesKept'
  BY <1>1, <1>2 DEF AcceptInv, CreatesKept, SameKey
<1>5. OthersKept'
  BY <1>1, <1>2 DEF AcceptInv, OthersKept, SameKey
<1>6. HistoryKept'
  <2>1. turn \in Carriers
    BY DEF TypeOK
  <2>. QED BY <1>1, <1>2, <1>3, <2>1 DEF AcceptInv, HistoryKept
<1>7. \A s : TurnAt(s)' <=> TurnAt(s)
  BY <1>1 DEF TurnAt, SameKey
<1>8. NothingBefore'
  <2>1. ~(sess = "none" /\ TurnAt("commit"))
    BY <1>1, <1>2 DEF AcceptInv, NothingBefore
  <2>. QED BY <1>1, <1>7, <2>1 DEF NothingBefore
<1>9. JoinedKept'
  <2>1. Joined' => Joined
    BY <1>1, <1>2, <1>7 DEF Joined
  <2>2. ASSUME Joined PROVE sUsed[c] \/ Accepts(k)
    <3>1. CASE conn[k].server \in {"commit", "attach"}
      BY <1>2, <3>1 DEF Accepts
    <3>2. CASE conn[k].server = "up"
      BY <1>0, <3>2, CarriersAssumption DEF ServerPaths, AcceptInv, HistoryKept, c
    <3>3. CASE conn[k].server = "left"
      BY <1>1, <1>2, <2>2, <3>3 DEF AcceptInv, JoinedKept, c
    <3>. QED BY <1>1, <3>1, <3>2, <3>3
  <2>3. \A j \in Conns : Accepts(j) => Accepts(j)'
    BY <1>1 DEF Accepts, SameKey
  <2>4. ASSUME Joined', NEW d \in Carriers, cUsed'[d]
        PROVE  sUsed'[d] \/ \E j \in Conns : conn'[j].carrier = d /\ Accepts(j)'
    <3>1. CASE d = c
      BY <1>1, <2>1, <2>2, <2>3, <2>4, <3>1 DEF SameKey, c
    <3>2. CASE cUsed[d]
      BY <1>1, <2>1, <2>3, <2>4, <3>2 DEF AcceptInv, JoinedKept, SameKey
    <3>. QED BY <1>3, <2>4, <3>1, <3>2
  <2>5. ASSUME Joined', NEW j \in Conns, ~conn'[j].create
        PROVE  /\ conn'[j].generation > 0 /\ conn'[j].server \in {"offer", "commit", "attach"} =>
                    sUsed'[conn'[j].carrier]
               /\ conn'[j].client = "finished" /\ conn'[j].server = "left" => sUsed'[conn'[j].carrier]
    BY <1>1, <2>1, <2>5 DEF AcceptInv, JoinedKept, SameKey
  <2>. QED BY <2>4, <2>5 DEF JoinedKept
<1>. QED BY <1>4, <1>5, <1>6, <1>8, <1>9 DEF AcceptInv

(* The client leaves connections.                                          *)
LEMMA AcceptClientLeaves ==
  ASSUME TypeOK, AcceptInv, UNCHANGED <<turn, cUsed, sess, sUsed, sPath, sExpired>>,
         \A j \in Conns : conn'[j] = conn[j] \/ ClientLeft(j),
         \/ phase' = phase /\ phase # "dialing"
         \/ phase' \notin {"dialing", "open"} /\ \A j \in Conns : conn'[j].client \in Gone
  PROVE  AcceptInv'
<1>1. \A j \in Conns :
        \/ conn'[j] = NoHandshake /\ conn[j].server \in Gone
        \/ /\ SameKey(j) /\ conn'[j].server = conn[j].server
           /\ conn'[j].client = conn[j].client \/ conn'[j].client \in Gone
  BY DEF ClientLeft, SameKey
<1>2. "init" \notin Gone /\ "finished" \notin Gone /\ "commit" \notin Gone /\ "attach" \notin Gone
  BY DEF Gone
<1>3. CreatesKept'
  BY <1>1, <1>2, NoHandshakeFields DEF AcceptInv, CreatesKept, SameKey
<1>4. OthersKept'
  BY <1>1, <1>2, NoHandshakeFields DEF AcceptInv, OthersKept, SameKey
<1>5. HistoryKept'
  BY DEF AcceptInv, HistoryKept
<1>6. ASSUME phase' = phase
      PROVE  NothingBefore' /\ JoinedKept'
  <2>1. /\ TurnAt("commit")' <=> TurnAt("commit")
        /\ TurnAt("attach")' <=> TurnAt("attach")
    BY <1>1, <1>2, NoHandshakeFields DEF TurnAt, SameKey
  <2>2. NothingBefore'
    BY <1>1, <1>6, <2>1, NoHandshakeFields DEF AcceptInv, NothingBefore, SameKey
  <2>3. Joined' => Joined
    BY <1>6, <2>1 DEF Joined
  <2>4. ASSUME Joined', NEW d \in Carriers, cUsed'[d]
        PROVE  sUsed'[d] \/ \E j \in Conns : conn'[j].carrier = d /\ Accepts(j)'
    <3>1. \A j \in Conns : Accepts(j) => Accepts(j)' /\ conn'[j].carrier = conn[j].carrier
      BY <1>1, <1>2 DEF Accepts, SameKey
    <3>. QED BY <2>3, <2>4, <3>1 DEF AcceptInv, JoinedKept
  <2>5. ASSUME Joined', NEW j \in Conns, ~conn'[j].create
        PROVE  /\ conn'[j].generation > 0 /\ conn'[j].server \in {"offer", "commit", "attach"} =>
                    sUsed'[conn'[j].carrier]
               /\ conn'[j].client = "finished" /\ conn'[j].server = "left" => sUsed'[conn'[j].carrier]
    BY <1>1, <1>2, <2>3, <2>5, NoHandshakeFields DEF AcceptInv, JoinedKept, SameKey
  <2>. QED BY <2>2, <2>4, <2>5 DEF JoinedKept
<1>7. CASE phase' # "open"
  BY <1>3, <1>4, <1>5, <1>7 DEF AcceptInv, NothingBefore, JoinedKept, Joined
<1>. QED BY <1>3, <1>4, <1>5, <1>6, <1>7 DEF AcceptInv

(* DialClient goes on to the next address, or gives up.                    *)
LEMMA AcceptFails ==
  ASSUME TypeOK, AcceptInv, NEW k \in Conns, ClientFails(k)
  PROVE  AcceptInv'
<1>1. /\ conn[k].client \in {"init", "finished"}
      /\ UNCHANGED <<cUsed, sess, sUsed, sPath, sExpired>>
      /\ conn' = [conn EXCEPT ![k] = ClientGoes(@)]
  BY DEF ClientFails, serverVars
<1>2. ClientLeft(k) /\ \A j \in Conns : j # k => conn'[j] = conn[j]
  <2>1. conn'[k] = ClientGoes(conn[k]) /\ \A j \in Conns : j # k => conn'[j] = conn[j]
    BY <1>1 DEF TypeOK
  <2>. QED BY <2>1, ClientLeaving
<1>3. CASE phase # "dialing"
  <2>1. UNCHANGED <<phase, turn>>
    BY <1>3 DEF ClientFails
  <2>. QED BY <1>1, <1>2, <1>3, <2>1, AcceptClientLeaves
<1>4. CASE phase = "dialing"
  <2>1. /\ conn[k].create /\ conn[k].carrier = turn
        /\ \A j \in Conns : conn[j].create /\ conn[j].carrier = turn => j = k
        /\ \A j \in Conns : ~conn[j].create => conn[j] = NoHandshake
    BY <1>1, <1>4, NoHandshakeFields DEF AcceptInv, CreatesKept, OthersKept
  <2>2. \/ phase' = "dialing" /\ turn' = turn + 1
        \/ phase' = "failed" /\ turn' = turn
    BY <1>4 DEF ClientFails
  <2>3. turn \in Nat
    BY Numbers DEF TypeOK
  <2>4. \A j \in Conns : /\ conn'[j].create => conn[j].create /\ SameKey(j) /\ conn'[j].server = conn[j].server
                         /\ ~conn'[j].create => conn'[j] = NoHandshake
                         /\ conn'[j].client \notin {"init", "finished"}
    <3>1. ASSUME NEW j \in Conns, j # k
          PROVE  /\ conn'[j].create => conn[j].create /\ SameKey(j) /\ conn'[j].server = conn[j].server
                 /\ ~conn'[j].create => conn'[j] = NoHandshake
                 /\ conn'[j].client \notin {"init", "finished"}
      BY <1>2, <2>1, <3>1, NoHandshakeFields DEF AcceptInv, CreatesKept, SameKey
    <3>2. /\ conn'[k].create => conn[k].create /\ SameKey(k) /\ conn'[k].server = conn[k].server
          /\ ~conn'[k].create => conn'[k] = NoHandshake
          /\ conn'[k].client \notin {"init", "finished"}
      BY <1>2, <2>1, NoHandshakeFields DEF ClientLeft, SameKey, Gone
    <3>. QED BY <3>1, <3>2
  <2>5. CreatesKept'
    <3>1. \A j \in Conns : conn[j].create => conn[j].carrier \in Nat /\ conn[j].carrier <= turn
      BY Numbers DEF AcceptInv, CreatesKept, TypeOK, Connections
    <3>. QED BY <1>1, <2>2, <2>3, <2>4, <3>1 DEF AcceptInv, CreatesKept, SameKey
  <2>6. OthersKept'
    BY <2>4, NoHandshakeFields DEF OthersKept
  <2>7. HistoryKept' /\ NothingBefore' /\ JoinedKept'
    BY <1>1, <2>2 DEF AcceptInv, HistoryKept, NothingBefore, JoinedKept, Joined
  <2>. QED BY <2>5, <2>6, <2>7 DEF AcceptInv
<1>. QED BY <1>3, <1>4

LEMMA AcceptClientGoes ==
  ASSUME TypeOK, TryInv, AcceptInv,
         ClientStops \/ ClientExpires \/ \E c \in Carriers : ClientLoses(c)
  PROVE  AcceptInv'
<1>1. CASE ClientStops
  <2>1. \A j \in Conns : conn'[j] = ClientGoes(conn[j]) /\ conn[j] \in Connections
    BY <1>1 DEF ClientStops, TypeOK
  <2>2. \A j \in Conns : ClientLeft(j) /\ conn'[j].client \in Gone
    BY <2>1, ClientLeaving, ClientGoesFacts
  <2>3. phase' = "closed" /\ UNCHANGED <<turn, cUsed, sess, sUsed, sPath, sExpired>>
    BY <1>1 DEF ClientStops, serverVars
  <2>. QED BY <2>2, <2>3, AcceptClientLeaves
<1>2. CASE ClientExpires
  <2>1. UNCHANGED <<conn, phase, turn, cUsed, sess, sUsed, sPath, sExpired>> /\ phase # "dialing"
    BY <1>2 DEF ClientExpires, serverVars
  <2>. QED BY <2>1, AcceptClientLeaves
<1>3. ASSUME NEW c \in Carriers, ClientLoses(c) PROVE AcceptInv'
  <2>1. /\ cPath[c] \in Conns /\ conn' = [conn EXCEPT ![cPath[c]] = ClientGoes(@)]
        /\ UNCHANGED <<phase, turn, cUsed, sess, sUsed, sPath, sExpired>> /\ phase # "dialing"
    BY <1>3 DEF ClientLoses, TypeOK, serverVars, TryInv
  <2>2. PICK k \in Conns : k = cPath[c]
    BY <2>1
  <2>3. conn'[k] = ClientGoes(conn[k]) /\ \A j \in Conns : j # k => conn'[j] = conn[j]
    BY <2>1, <2>2 DEF TypeOK
  <2>4. \A j \in Conns : conn'[j] = conn[j] \/ ClientLeft(j)
    BY <2>3, ClientLeaving
  <2>. QED BY <2>1, <2>4, AcceptClientLeaves
<1>. QED BY <1>1, <1>2, <1>3

(* The server has done with a connection: it has left it, or attached it.  *)
ServerDone(j) ==
  /\ conn[j].server # "gone"
  /\ \/ ServerLeft(j)
     \/ /\ SameKey(j) /\ conn'[j].client = conn[j].client /\ conn'[j].server = "up"
        /\ sess = "open"
  /\ Joined /\ (Accepts(j) \/ (~conn[j].create /\ conn[j].server \in {"up", "left"})) =>
       sUsed'[conn[j].carrier]

LEMMA AcceptServerDone ==
  ASSUME TypeOK, AcceptInv, UNCHANGED <<phase, turn, cUsed, sess, sExpired>>,
         \A j \in Conns : conn'[j] = conn[j] \/ ServerDone(j),
         \A c \in Carriers : sUsed[c] => sUsed'[c],
         \A c \in Carriers : sPath'[c] # NoConn => sUsed'[c],
         sess = "none" => \A c \in Carriers : ~sUsed'[c],
         phase = "open" /\ sUsed'[turn] => Joined \/ sUsed[turn]
  PROVE  AcceptInv'
<1>1. \A j \in Conns :
        \/ conn'[j] = conn[j]
        \/ conn'[j] = NoHandshake /\ conn[j].client \in Gone
        \/ /\ SameKey(j) /\ conn'[j].client = conn[j].client
           /\ conn'[j].server \in {"left", "gone", "up"}
  BY DEF ServerDone, ServerLeft
<1>2. "init" \notin Gone /\ "finished" \notin Gone
  BY DEF Gone
<1>3. CreatesKept'
  BY <1>1, <1>2, NoHandshakeFields DEF AcceptInv, CreatesKept, SameKey
<1>4. OthersKept'
  <2>1. ASSUME phase = "dialing", NEW j \in Conns, ~conn'[j].create
        PROVE  conn'[j] = NoHandshake
    <3>1. CASE conn'[j] = conn[j]
      BY <2>1, <3>1 DEF AcceptInv, OthersKept
    <3>2. CASE ServerDone(j) /\ conn'[j] # NoHandshake
      <4>1. ~conn[j].create /\ conn[j].server # "gone"
        BY <2>1, <3>2 DEF ServerDone, ServerLeft, SameKey
      <4>. QED BY <2>1, <4>1, NoHandshakeFields DEF AcceptInv, OthersKept
    <3>. QED BY <3>1, <3>2
  <2>. QED BY <1>1, <1>2, <2>1, NoHandshakeFields DEF AcceptInv, OthersKept, SameKey
<1>5. HistoryKept'
  BY DEF AcceptInv, HistoryKept
<1>6. /\ TurnAt("commit")' => TurnAt("commit")
      /\ TurnAt("attach")' => TurnAt("attach")
  BY <1>1, NoHandshakeFields DEF TurnAt, SameKey
<1>7. NothingBefore'
  <2>1. ASSUME sess = "none", NEW j \in Conns, conn[j].server \in {"init", "gone"}
        PROVE  conn'[j].server \in {"init", "gone"}
    BY <2>1, NoHandshakeFields DEF ServerDone, ServerLeft
  <2>2. ASSUME phase' = "open", sess' = "none", TurnAt("commit")'
        PROVE  /\ \A c \in Carriers : cUsed'[c] => c = turn'
               /\ \A k \in Conns : ~conn'[k].create => conn'[k].server \in {"init", "gone"}
    <3>1. /\ \A c \in Carriers : cUsed[c] => c = turn
          /\ \A k \in Conns : ~conn[k].create => conn[k].server \in {"init", "gone"}
      BY <1>6, <2>2 DEF AcceptInv, NothingBefore
    <3>2. ASSUME NEW k \in Conns, ~conn'[k].create PROVE conn'[k].server \in {"init", "gone"}
      BY <1>1, <2>1, <2>2, <3>1, <3>2, NoHandshakeFields DEF SameKey
    <3>. QED BY <3>1, <3>2
  <2>. QED BY <2>2 DEF NothingBefore
<1>8. Joined' => Joined
  BY <1>6 DEF Joined
<1>9. JoinedKept'
  <2>1. ASSUME Joined', NEW d \in Carriers, cUsed'[d]
        PROVE  sUsed'[d] \/ \E j \in Conns : conn'[j].carrier = d /\ Accepts(j)'
    <3>1. CASE sUsed[d]
      BY <3>1
    <3>2. ASSUME NEW j \in Conns, conn[j].carrier = d, Accepts(j)
          PROVE  sUsed'[d] \/ \E i \in Conns : conn'[i].carrier = d /\ Accepts(i)'
      <4>1. CASE conn'[j] = conn[j]
        BY <3>2, <4>1 DEF Accepts
      <4>2. CASE ServerDone(j)
        BY <1>8, <2>1, <3>2, <4>2 DEF ServerDone
      <4>. QED BY <4>1, <4>2
    <3>. QED BY <1>8, <2>1, <3>1, <3>2 DEF AcceptInv, JoinedKept
  <2>2. ASSUME Joined', NEW j \in Conns, ~conn'[j].create
        PROVE  /\ conn'[j].generation > 0 /\ conn'[j].server \in {"offer", "commit", "attach"} =>
                    sUsed'[conn'[j].carrier]
               /\ conn'[j].client = "finished" /\ conn'[j].server = "left" => sUsed'[conn'[j].carrier]
    <3>0. conn[j].carrier \in Carriers
      BY DEF TypeOK, Connections
    <3>1. CASE conn'[j] = conn[j]
      BY <1>8, <2>2, <3>0, <3>1 DEF AcceptInv, JoinedKept
    <3>2. CASE ServerDone(j)
      <4>1. CASE conn'[j] = NoHandshake
        BY <4>1, NoHandshakeFields
      <4>2. CASE conn'[j] # NoHandshake
        <5>1. SameKey(j) /\ conn'[j].server \notin {"offer", "commit", "attach"}
          BY <3>2, <4>2 DEF ServerDone, ServerLeft
        <5>2. ASSUME conn'[j].client = "finished", conn'[j].server = "left"
              PROVE  sUsed'[conn'[j].carrier]
          <6>1. conn[j].server \in {"commit", "attach", "up", "left"} /\ ~conn[j].create
            BY <2>2, <3>2, <4>2, <5>1, <5>2 DEF ServerDone, ServerLeft, SameKey
          <6>2. Accepts(j) \/ conn[j].server \in {"up", "left"}
            BY <6>1 DEF Accepts
          <6>. QED BY <1>8, <2>2, <3>2, <5>1, <6>1, <6>2 DEF ServerDone, SameKey
        <5>. QED BY <5>1, <5>2
      <4>. QED BY <4>1, <4>2
    <3>. QED BY <3>1, <3>2
  <2>. QED BY <2>1, <2>2 DEF JoinedKept
<1>. QED BY <1>3, <1>4, <1>5, <1>7, <1>9 DEF AcceptInv

(* The server refuses a connection, or fails before it answers.            *)
LEMMA AcceptRefuses ==
  ASSUME TypeOK, AcceptInv, NEW k \in Conns,
         UNCHANGED <<phase, turn, cUsed, sess, sExpired, sUsed, sPath>>,
         conn[k].server # "gone", conn' = [conn EXCEPT ![k] = ServerGoes(@)],
         Joined /\ (Accepts(k) \/ (~conn[k].create /\ conn[k].server \in {"up", "left"})) =>
           sUsed[conn[k].carrier]
  PROVE  AcceptInv'
<1>1. conn'[k] = ServerGoes(conn[k]) /\ \A j \in Conns : j # k => conn'[j] = conn[j]
  BY DEF TypeOK
<1>2. ServerDone(k)
  BY <1>1, ServerLeaving DEF ServerDone
<1>3. /\ \A c \in Carriers : sPath'[c] # NoConn => sUsed'[c]
      /\ sess = "none" => \A c \in Carriers : ~sUsed'[c]
  BY DEF AcceptInv, HistoryKept
<1>. QED BY <1>1, <1>2, <1>3, AcceptServerDone

LEMMA AcceptOffers ==
  ASSUME TypeOK, SessInv, AcceptInv, NEW k \in Conns, ServerOffers(k)
  PROVE  AcceptInv'
<1>1. conn[k].server = "init" /\ UNCHANGED <<phase, turn, cUsed, sPath, sExpired>>
  BY DEF ServerOffers, clientVars
<1>2. conn[k].generation \in Nat /\ conn[k].carrier \in Carriers
  BY Numbers DEF TypeOK, Connections
<1>3. CASE UNCHANGED <<sess, sUsed>> /\ conn' = [conn EXCEPT ![k] = ServerGoes(@)]
  BY <1>1, <1>3, AcceptRefuses DEF Accepts
<1>4. CASE UNCHANGED <<sess, sUsed>> /\ Welcome(k, sess) /\ conn' = [conn EXCEPT ![k].server = "offer"]
  <2>1. \A j \in Conns : /\ j # k => conn'[j] = conn[j]
                         /\ SameKey(j) /\ conn'[k].server = "offer"
                         /\ conn'[j].client = conn[j].client
    BY <1>4, StageMoves
  <2>2. /\ conn[k].create => sess = "none"
        /\ ~conn[k].create => sess = "open" /\ (conn[k].generation > 0 => sUsed[conn[k].carrier])
    BY <1>2, <1>4 DEF Welcome, Admissible
  <2>3. CreatesKept'
    BY <1>1, <1>4, <2>1, <2>2 DEF AcceptInv, CreatesKept, HistoryKept, SameKey
  <2>4. OthersKept'
    BY <1>1, <2>1, <2>2, NoHandshakeFields DEF AcceptInv, OthersKept, SameKey
  <2>5. HistoryKept'
    BY <1>1, <1>4 DEF AcceptInv, HistoryKept
  <2>6. /\ TurnAt("commit")' => TurnAt("commit")
        /\ TurnAt("attach")' => TurnAt("attach")
    BY <1>1, <2>1 DEF TurnAt, SameKey
  <2>7. NothingBefore'
    BY <1>1, <1>4, <2>1, <2>2, <2>6 DEF AcceptInv, NothingBefore, SameKey
  <2>8. Joined' => Joined
    BY <1>1, <1>4, <2>6 DEF Joined
  <2>9. \A j \in Conns : Accepts(j) => Accepts(j)' /\ conn'[j].carrier = conn[j].carrier
    BY <1>1, <2>1 DEF Accepts, SameKey
  <2>10. JoinedKept'
    BY <1>1, <1>4, <2>1, <2>2, <2>8, <2>9 DEF AcceptInv, JoinedKept, SameKey
  <2>. QED BY <2>3, <2>4, <2>5, <2>7, <2>10 DEF AcceptInv
<1>5. CASE /\ sess = "closed" /\ Forget
           /\ \/ conn' = [conn EXCEPT ![k] = ServerGoes(@)]
              \/ Welcome(k, "none") /\ conn' = [conn EXCEPT ![k].server = "offer"]
  <2>1. /\ sess' = "none" /\ \A c \in Carriers : ~sUsed'[c] /\ sPath'[c] = NoConn
        /\ ~sExpired'
    BY <1>1, <1>5 DEF Forget, SessInv, NoPaths, AcceptInv, HistoryKept
  <2>2. \A j \in Conns : j # k => conn'[j] = conn[j]
    BY <1>5 DEF TypeOK
  <2>3. \/ conn'[k] = NoHandshake /\ conn[k].client \in Gone
        \/ /\ SameKey(k) /\ conn'[k].client = conn[k].client
           /\ conn'[k].server \in {"gone", "offer"}
           /\ conn'[k].server = "offer" => conn[k].create
    <3>1. CASE conn' = [conn EXCEPT ![k] = ServerGoes(@)]
      <4>1. conn'[k] = ServerGoes(conn[k])
        BY <3>1 DEF TypeOK
      <4>2. ServerLeft(k)
        BY <4>1, ServerLeaving
      <4>. QED BY <1>1, <4>2 DEF ServerLeft
    <3>2. CASE Welcome(k, "none") /\ conn' = [conn EXCEPT ![k].server = "offer"]
      <4>1. SameKey(k) /\ conn'[k].server = "offer" /\ conn'[k].client = conn[k].client
        BY <3>2, StageMoves
      <4>. QED BY <3>2, <4>1 DEF Welcome
    <3>. QED BY <1>5, <3>1, <3>2
  <2>4. "init" \notin Gone /\ "finished" \notin Gone
    BY DEF Gone
  <2>5. CreatesKept'
    BY <1>1, <2>1, <2>2, <2>3, <2>4, NoHandshakeFields DEF AcceptInv, CreatesKept, SameKey
  <2>6. OthersKept'
    BY <1>1, <2>2, <2>3, <2>4, NoHandshakeFields DEF AcceptInv, OthersKept, SameKey
  <2>7. HistoryKept'
    BY <1>1, <2>1 DEF AcceptInv, HistoryKept
  <2>8. ~TurnAt("commit")'
    <3>1. ASSUME NEW j \in Conns, conn'[j].create PROVE conn'[j].server # "commit"
      <4>1. CASE j = k
        BY <2>3, <3>1, <4>1, NoHandshakeFields
      <4>2. CASE j # k
        BY <1>5, <2>2, <3>1, <4>2 DEF AcceptInv, CreatesKept
      <4>. QED BY <4>1, <4>2
    <3>. QED BY <3>1 DEF TurnAt
  <2>9. NothingBefore' /\ JoinedKept'
    BY <2>1, <2>8 DEF NothingBefore, JoinedKept, Joined
  <2>. QED BY <2>5, <2>6, <2>7, <2>9 DEF AcceptInv
<1>6. \/ UNCHANGED <<sess, sUsed>> /\ conn' = [conn EXCEPT ![k] = ServerGoes(@)]
      \/ UNCHANGED <<sess, sUsed>> /\ Welcome(k, sess) /\ conn' = [conn EXCEPT ![k].server = "offer"]
      \/ /\ sess = "closed" /\ Forget
         /\ \/ conn' = [conn EXCEPT ![k] = ServerGoes(@)]
            \/ Welcome(k, "none") /\ conn' = [conn EXCEPT ![k].server = "offer"]
  <2>1. \/ sess = "closed" /\ Forget /\ sess' = "none"
        \/ UNCHANGED <<sess, sUsed>>
    BY DEF ServerOffers, Forget
  <2>2. \/ Welcome(k, sess') /\ conn' = [conn EXCEPT ![k].server = "offer"]
        \/ conn' = [conn EXCEPT ![k] = ServerGoes(@)]
    BY DEF ServerOffers
  <2>3. CASE sess' = "none"
    BY <2>1, <2>2, <2>3
  <2>4. CASE UNCHANGED <<sess, sUsed>>
    <3>1. sess' = sess
      BY <2>4
    <3>. QED BY <2>2, <2>4, <3>1
  <2>. QED BY <2>1, <2>3, <2>4
<1>. QED BY <1>3, <1>4, <1>5, <1>6

LEMMA AcceptAnswers ==
  ASSUME TypeOK, AcceptInv, NEW k \in Conns, ServerFinishes(k)
  PROVE  AcceptInv'
<1>1. /\ UNCHANGED AcceptVars /\ conn[k].server = "offer"
      /\ \A j \in Conns : /\ j # k => conn'[j] = conn[j]
                          /\ SameKey(j) /\ conn'[k].server = "commit"
                          /\ conn'[j].client = conn[j].client
  BY StageMoves DEF ServerFinishes, clientVars, serverVars, AcceptVars
<1>2. CreatesKept'
  BY <1>1 DEF AcceptInv, CreatesKept, AcceptVars, SameKey
<1>3. OthersKept'
  BY <1>1, NoHandshakeFields DEF AcceptInv, OthersKept, AcceptVars, SameKey
<1>4. HistoryKept'
  BY <1>1 DEF AcceptInv, HistoryKept, AcceptVars
<1>5. phase = "open" => (TurnAt("commit")' => TurnAt("commit"))
  BY <1>1 DEF AcceptInv, CreatesKept, TurnAt, AcceptVars, SameKey
<1>6. NothingBefore'
  BY <1>1, <1>5 DEF AcceptInv, NothingBefore, AcceptVars, SameKey
<1>7. JoinedKept'
  <2>1. Joined' => Joined
    BY <1>1 DEF Joined, TurnAt, AcceptVars, SameKey
  <2>2. \A j \in Conns : Accepts(j) => Accepts(j)' /\ conn'[j].carrier = conn[j].carrier
    BY <1>1 DEF Accepts, SameKey
  <2>. QED BY <1>1, <2>1, <2>2 DEF AcceptInv, JoinedKept, AcceptVars, SameKey
<1>. QED BY <1>2, <1>3, <1>4, <1>6, <1>7 DEF AcceptInv

LEMMA AcceptCommits ==
  ASSUME TypeOK, SessInv, AcceptInv, NEW k \in Conns, ServerCommits(k)
  PROVE  AcceptInv'
<1>1. conn[k].server = "commit" /\ UNCHANGED <<phase, turn, cUsed, sUsed, sPath, sExpired>>
  BY DEF ServerCommits, clientVars
<1>2. CASE conn' = [conn EXCEPT ![k].server = "attach"] /\ sess' = "open"
           /\ (IF conn[k].create THEN sess = "none" ELSE sess = "open")
  <2>1. \A j \in Conns : /\ j # k => conn'[j] = conn[j]
                         /\ SameKey(j) /\ conn'[k].server = "attach"
                         /\ conn'[j].client = conn[j].client
    BY <1>2, StageMoves
  <2>2. CreatesKept'
    BY <1>1, <1>2, <2>1 DEF AcceptInv, CreatesKept, SameKey
  <2>3. OthersKept'
    BY <1>1, <2>1, NoHandshakeFields DEF AcceptInv, OthersKept, SameKey
  <2>4. HistoryKept'
    BY <1>1, <1>2 DEF AcceptInv, HistoryKept
  <2>5. NothingBefore'
    BY <1>2 DEF NothingBefore
  <2>6. \A j \in Conns : Accepts(j) => Accepts(j)' /\ conn'[j].carrier = conn[j].carrier
    BY <1>1, <2>1 DEF Accepts, SameKey
  <2>7. JoinedKept'
    <3>1. CASE conn[k].create
      <4>1. sess = "none" /\ ~TurnAt("attach") /\ ~sUsed[turn]
        BY <1>2, <3>1 DEF SessInv, TurnAt, AcceptInv, HistoryKept, TypeOK
      <4>2. ASSUME Joined'
            PROVE  phase = "open" /\ conn[k].carrier = turn
        BY <1>1, <2>1, <4>1, <4>2 DEF Joined, TurnAt, SameKey
      <4>3. ASSUME Joined'
            PROVE  /\ \A c \in Carriers : cUsed[c] => c = turn
                   /\ \A j \in Conns : ~conn[j].create => conn[j].server \in {"init", "gone"}
        <5>1. TurnAt("commit")
          BY <1>1, <3>1, <4>2, <4>3 DEF TurnAt
        <5>. QED BY <4>1, <4>2, <4>3, <5>1 DEF AcceptInv, NothingBefore
      <4>4. Accepts(k)'
        BY <2>1, <3>1 DEF Accepts, SameKey
      <4>5. ASSUME Joined', NEW j \in Conns, ~conn'[j].create
            PROVE  conn'[j].server \in {"init", "gone"}
        BY <2>1, <3>1, <4>3, <4>5 DEF SameKey
      <4>6. ASSUME Joined', NEW c \in Carriers, cUsed'[c]
            PROVE  conn'[k].carrier = c /\ Accepts(k)'
        BY <1>1, <2>1, <4>2, <4>3, <4>4, <4>6 DEF SameKey
      <4>. QED BY <4>5, <4>6 DEF JoinedKept
    <3>2. CASE ~conn[k].create
      <4>1. Joined' => Joined
        BY <1>1, <1>2, <2>1, <3>2 DEF Joined, TurnAt, SameKey
      <4>. QED BY <1>1, <2>1, <2>6, <4>1 DEF AcceptInv, JoinedKept, SameKey
    <3>. QED BY <3>1, <3>2
  <2>. QED BY <2>2, <2>3, <2>4, <2>5, <2>7 DEF AcceptInv
<1>3. CASE conn' = [conn EXCEPT ![k] = ServerGoes(@)] /\ UNCHANGED sess
           /\ (~conn[k].create => sess # "open")
  BY <1>1, <1>3, AcceptRefuses DEF Accepts, Joined
<1>. QED BY <1>2, <1>3 DEF ServerCommits

LEMMA AcceptAttaches ==
  ASSUME TypeOK, ServerPaths, SessInv, AcceptInv, NEW k \in Conns, ServerAttaches(k)
  PROVE  AcceptInv'
<1>1. /\ conn[k].server = "attach" /\ UNCHANGED <<phase, turn, cUsed, sess, sExpired>>
      /\ sess = "open"
  BY DEF ServerAttaches, clientVars, SessInv
<1>2. PICK c \in Carriers : c = conn[k].carrier
  BY DEF TypeOK, Connections
<1>3. conn[k].generation \in Nat
  BY Numbers DEF TypeOK, Connections
<1>4. CASE /\ Admissible(sUsed[c], sHighest[c], conn[k].generation)
           /\ sUsed' = [sUsed EXCEPT ![c] = TRUE]
           /\ sPath' = [sPath EXCEPT ![c] = k]
           /\ conn' = Supersede(k, sPath[c])
  <2>1. sUsed'[c] /\ \A d \in Carriers : d # c => sUsed'[d] = sUsed[d] /\ sPath'[d] = sPath[d]
    BY <1>4 DEF TypeOK
  <2>2. \A j \in Conns : conn'[j] = IF j = k THEN [conn[k] EXCEPT !.server = "up"]
                                    ELSE IF j = sPath[c] THEN ServerGoes(conn[j]) ELSE conn[j]
    BY <1>4 DEF Supersede
  <2>3. ServerDone(k)
    <3>1. conn[k] \in Connections /\ conn'[k] = [conn[k] EXCEPT !.server = "up"]
      BY <2>2 DEF TypeOK
    <3>2. SameKey(k) /\ conn'[k].client = conn[k].client /\ conn'[k].server = "up"
      BY <3>1 DEF Connections, SameKey
    <3>. QED BY <1>1, <1>2, <2>1, <3>2 DEF ServerDone
  <2>4. ASSUME NEW j \in Conns, j # k, j = sPath[c] PROVE ServerDone(j)
    <3>1. conn[j].server = "up" /\ conn[j].carrier = c
      <4>1. j # NoConn
        BY CarriersAssumption
      <4>. QED BY <2>4, <4>1 DEF ServerPaths
    <3>2. ServerLeft(j)
      BY <2>2, <2>4, ServerLeaving
    <3>. QED BY <2>1, <3>1, <3>2 DEF ServerDone
  <2>5. ASSUME phase = "open", sUsed'[turn] PROVE Joined \/ sUsed[turn]
    <3>1. CASE ~sUsed[turn]
      <4>0. turn \in Carriers
        BY DEF TypeOK
      <4>1. c = turn
        BY <2>1, <2>5, <3>1, <4>0
      <4>2. conn[k].generation = 0
        BY <1>4, <3>1, <4>1 DEF Admissible
      <4>3. ~conn[k].create => conn[k].generation > 0
        BY <1>1, <1>2, <4>1 DEF AcceptInv, OthersKept
      <4>4. ~(0 > 0)
        OBVIOUS
      <4>5. conn[k].create
        BY <4>2, <4>3, <4>4
      <4>. QED BY <1>1, <1>2, <2>5, <4>1, <4>5 DEF Joined, TurnAt
    <3>. QED BY <3>1
  <2>6. /\ \A j \in Conns : conn'[j] = conn[j] \/ ServerDone(j)
        /\ \A d \in Carriers : sUsed[d] => sUsed'[d]
        /\ \A d \in Carriers : sPath'[d] # NoConn => sUsed'[d]
        /\ sess = "none" => \A d \in Carriers : ~sUsed'[d]
    BY <1>1, <2>1, <2>2, <2>3, <2>4 DEF AcceptInv, HistoryKept
  <2>. QED BY <1>1, <2>5, <2>6, AcceptServerDone
<1>5. CASE /\ ~Admissible(sUsed[c], sHighest[c], conn[k].generation)
           /\ conn' = [conn EXCEPT ![k] = ServerGoes(@)]
           /\ UNCHANGED <<sUsed, sPath>>
  <2>1. ASSUME Joined, ~sUsed[c] PROVE FALSE
    <3>1. conn[k].generation > 0
      BY <1>3, <1>5, <2>1 DEF Admissible
    <3>2. ~conn[k].create
      BY <1>3, <3>1 DEF AcceptInv, CreatesKept
    <3>. QED BY <1>1, <1>2, <2>1, <3>1, <3>2 DEF AcceptInv, JoinedKept
  <2>. QED BY <1>1, <1>2, <1>5, <2>1, AcceptRefuses
<1>. QED BY <1>2, <1>4, <1>5 DEF ServerAttaches

LEMMA AcceptServerGoes ==
  ASSUME TypeOK, ServerPaths, SessInv, AcceptInv,
         \/ \E k \in Conns : ServerFails(k)
         \/ \E c \in Carriers : ServerLoses(c)
         \/ ServerExpires \/ ServerStops
  PROVE  AcceptInv'
<1>1. ASSUME NEW k \in Conns, ServerFails(k) PROVE AcceptInv'
  <2>1. /\ conn[k].server \in {"init", "offer"} /\ conn' = [conn EXCEPT ![k] = ServerGoes(@)]
        /\ UNCHANGED <<phase, turn, cUsed, sess, sExpired, sUsed, sPath>>
    BY <1>1 DEF ServerFails, clientVars, serverVars
  <2>. QED BY <2>1, AcceptRefuses DEF Accepts
<1>2. ASSUME NEW c \in Carriers, ServerLoses(c) PROVE AcceptInv'
  <2>1. /\ sPath[c] # NoConn /\ sPath[c] \in Conns
        /\ conn' = [conn EXCEPT ![sPath[c]] = ServerGoes(@)]
        /\ sPath' = [sPath EXCEPT ![c] = NoConn]
        /\ UNCHANGED <<phase, turn, cUsed, sess, sExpired, sUsed>>
    BY <1>2 DEF ServerLoses, TypeOK, clientVars
  <2>2. PICK k \in Conns : k = sPath[c]
    BY <2>1
  <2>3. conn'[k] = ServerGoes(conn[k]) /\ \A j \in Conns : j # k => conn'[j] = conn[j]
    BY <2>1, <2>2 DEF TypeOK
  <2>4. conn[k].server = "up" /\ conn[k].carrier = c /\ sUsed[c]
    BY <2>1, <2>2 DEF ServerPaths, AcceptInv, HistoryKept
  <2>5. ServerDone(k)
    BY <2>1, <2>3, <2>4, ServerLeaving DEF ServerDone
  <2>6. \A d \in Carriers : sPath'[d] # NoConn => sPath[d] # NoConn
    BY <2>1 DEF TypeOK
  <2>7. /\ \A d \in Carriers : sPath'[d] # NoConn => sUsed'[d]
        /\ sess = "none" => \A d \in Carriers : ~sUsed'[d]
    BY <2>1, <2>6 DEF AcceptInv, HistoryKept
  <2>. QED BY <2>1, <2>3, <2>5, <2>7, AcceptServerDone
<1>3. CASE ServerExpires
  <2>1. /\ UNCHANGED <<phase, turn, cUsed, sess, sUsed, sPath, conn>> /\ sess = "open"
        /\ \A k \in Conns : conn[k].create => conn[k].server \notin {"offer", "commit", "attach"}
    BY <1>3 DEF ServerExpires, clientVars, Gone
  <2>2. CreatesKept'
    BY <2>1 DEF AcceptInv, CreatesKept
  <2>3. OthersKept' /\ HistoryKept'
    BY <2>1 DEF AcceptInv, OthersKept, HistoryKept
  <2>4. NothingBefore' /\ JoinedKept'
    BY <2>1 DEF AcceptInv, NothingBefore, JoinedKept, Joined, TurnAt, Accepts
  <2>. QED BY <2>2, <2>3, <2>4 DEF AcceptInv
<1>4. CASE ServerStops
  <2>1. /\ UNCHANGED <<phase, turn, cUsed, sUsed>> /\ sExpired /\ sess' = "closed" /\ ~sExpired'
        /\ \A d \in Carriers : sPath'[d] = NoConn
    BY <1>4 DEF ServerStops, clientVars
  <2>2. ASSUME NEW j \in Conns
        PROVE  \/ conn'[j] = conn[j] /\ conn[j].server \notin {"attach", "up"}
               \/ conn'[j] = NoHandshake /\ conn[j].server # "gone"
               \/ /\ SameKey(j) /\ conn'[j].client = conn[j].client
                  /\ conn'[j].server = "left" /\ conn[j].server # "gone"
    <3>1. CASE conn[j].server \in {"attach", "up"}
      <4>1. conn'[j] = ServerGoes(conn[j])
        BY <1>4, <3>1 DEF ServerStops
      <4>2. ServerLeft(j)
        BY <4>1, ServerLeaving
      <4>. QED BY <3>1, <4>2 DEF ServerLeft
    <3>2. CASE conn[j].server \notin {"attach", "up"}
      BY <1>4, <3>2 DEF ServerStops
    <3>. QED BY <3>1, <3>2
  <2>3. ASSUME NEW j \in Conns, conn'[j].create
        PROVE  conn'[j].server \notin {"offer", "commit", "attach"}
    BY <2>1, <2>2, <2>3, NoHandshakeFields DEF AcceptInv, CreatesKept, SameKey
  <2>4. CreatesKept'
    BY <2>1, <2>2, <2>3, NoHandshakeFields DEF AcceptInv, CreatesKept, SameKey
  <2>5. OthersKept'
    BY <2>1, <2>2, NoHandshakeFields DEF AcceptInv, OthersKept, SameKey
  <2>6. HistoryKept'
    BY <2>1 DEF AcceptInv, HistoryKept
  <2>7. NothingBefore' /\ JoinedKept'
    BY <2>1 DEF NothingBefore, JoinedKept, Joined
  <2>. QED BY <2>4, <2>5, <2>6, <2>7 DEF AcceptInv
<1>. QED BY <1>1, <1>2, <1>3, <1>4

LEMMA AcceptInit == Init => AcceptInv
<1> SUFFICES ASSUME Init PROVE AcceptInv
  OBVIOUS
<1>1. /\ phase = "dialing" /\ sess = "none" /\ ~sExpired
      /\ \A k \in Conns : conn[k] = NoHandshake
      /\ \A c \in Carriers : ~sUsed[c] /\ sPath[c] = NoConn
  BY DEF Init
<1>2. CreatesKept /\ OthersKept
  BY <1>1, NoHandshakeFields DEF CreatesKept, OthersKept
<1>3. HistoryKept /\ NothingBefore /\ JoinedKept
  BY <1>1 DEF HistoryKept, NothingBefore, JoinedKept, Joined
<1>. QED BY <1>2, <1>3 DEF AcceptInv

LEMMA AcceptStep == IInv /\ AcceptInv /\ [Next]_vars => AcceptInv'
<1> SUFFICES ASSUME IInv, AcceptInv, [Next]_vars PROVE AcceptInv'
  OBVIOUS
<1>0. TypeOK /\ TryInv /\ ServerPaths /\ SessInv
  BY DEF IInv
<1>1. CASE UNCHANGED vars
  <2>1. UNCHANGED AcceptVars /\ UNCHANGED conn
    BY <1>1 DEF vars, clientVars, serverVars, AcceptVars
  <2>2. CreatesKept' /\ OthersKept' /\ HistoryKept'
    BY <2>1 DEF AcceptVars, AcceptInv, CreatesKept, OthersKept, HistoryKept
  <2>3. NothingBefore' /\ JoinedKept'
    BY <2>1 DEF AcceptVars, AcceptInv, NothingBefore, JoinedKept, Joined, TurnAt, Accepts
  <2>. QED BY <2>2, <2>3 DEF AcceptInv
<1>2. CASE ClientStep
  <2>1. ASSUME NEW k \in Conns, ClientAttaches(k) PROVE AcceptInv'
    BY <1>0, <2>1, AcceptOpens, AcceptReturns
  <2>2. ASSUME NEW k \in Conns, ClientFails(k) PROVE AcceptInv'
    BY <1>0, <2>2, AcceptFails
  <2>3. ASSUME NEW k \in Conns, Dial(k) \/ ClientFinishes(k) PROVE AcceptInv'
    BY <1>0, <2>3, AcceptDial, AcceptFinishes
  <2>4. ASSUME NEW k \in Conns, NEW c \in Carriers, Maintain(k, c) PROVE AcceptInv'
    BY <1>0, <2>4, AcceptMaintain
  <2>. QED BY <1>0, <1>2, <2>1, <2>2, <2>3, <2>4, AcceptClientGoes DEF ClientStep
<1>3. CASE ServerStep
  BY <1>0, <1>3, AcceptOffers, AcceptAnswers, AcceptCommits, AcceptAttaches, AcceptServerGoes
     DEF ServerStep
<1>. QED BY <1>1, <1>2, <1>3 DEF Next

(* clientHandshake and addCarrier against attach and the registry: every   *)
(* Carrier the client takes for accepted is accepted by the server, or its *)
(* handler is about to.                                                    *)
THEOREM AcceptedOnes == Spec => []AcceptedByServer
<1>1. AcceptInv => AcceptedByServer
  <2>1. ASSUME NEW k \in Conns, Accepts(k) PROVE conn[k].server \in {"commit", "attach"}
    BY <2>1 DEF Accepts
  <2>. QED BY <2>1 DEF AcceptInv, JoinedKept, Joined, AcceptedByServer, Handled
<1>2. Init => IInv /\ AcceptInv
  BY InvInit, AcceptInit
<1>3. IInv /\ AcceptInv /\ [Next]_vars => IInv' /\ AcceptInv'
  BY InvStep, AcceptStep
<1>. QED BY <1>1, <1>2, <1>3, PTL DEF Spec
=============================================================================

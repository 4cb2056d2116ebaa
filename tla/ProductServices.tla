--------------------------- MODULE ProductServices ---------------------------
(***************************************************************************)
(* Product services over one Session (product_service.go): the pool of     *)
(* Streams the client opens ahead of need, requests that take one of them  *)
(* (or open their own) and name a service on it, and the Landing's handler *)
(* of each Stream with its count of UoT flows.                             *)
(*                                                                         *)
(* A Stream is a number, in the order of opening; it carries the request   *)
(* and the reply in order, until either end closes it (Credit, StreamEnds).*)
(***************************************************************************)
EXTENDS Integers, Sequences, FiniteSets

CONSTANTS
  Requests,       \* calls of OpenTCP, of the UoT client, or of its probe
  PoolSize,       \* productPreopenPoolSize
  MaxUOTFlows,    \* productMaxUOTFlows
  MaxStreams,     \* bound: Streams opened
  MaxFailures     \* bound: opens and dials that fail

VARIABLES
  pool,       \* productPool
  opening,    \* productPoolOpening
  openers,    \* goroutines of openProductPoolStream in Open
  opened,     \* Streams of openProductPoolStream between Open and the lock
  open,       \* Streams not closed at the client
  age,        \* per Stream: 0, 1 from productPreopenMaxAge, 2 from the server's limit
  ended,      \* Session.closed
  call,       \* per request, where openProductService stands
  asked,      \* per Stream, the service requested on it
  answer,     \* per Stream, the status the server replied
  handler,    \* per Stream, where openProductBackend stands
  uotActive,  \* uotActiveFlows
  next,       \* Streams opened so far
  failures

poolVars == <<pool, opening, openers, opened, age>>
serverVars == <<answer, handler, uotActive>>
serviceVars == <<poolVars, serverVars, open, ended, call, asked, next, failures>>

Streams == 1..MaxStreams
Kinds == {"tcp", "uot", "probe"}
Idle == [at |-> "idle"]
Elements(s) == {s[i] : i \in DOMAIN s}
(* What is left of a sequence when only some places of it are kept.        *)
Keeping(s, places) ==
  [k \in 1..Cardinality(places) |-> s[CHOOSE i \in places : Cardinality({j \in places : j <= i}) = k]]
Spare(s) == Keeping(s, {i \in DOMAIN s : s[i] \in open /\ age[s[i]] = 0})

Init ==
  /\ pool = <<>> /\ opening = 0 /\ openers = 0 /\ opened = {} /\ open = {} /\ ended = FALSE
  /\ age = [s \in Streams |-> 0]
  /\ call = [r \in Requests |-> Idle]
  /\ asked = [s \in Streams |-> "none"] /\ answer = [s \in Streams |-> "none"]
  /\ handler = [s \in Streams |-> "none"] /\ uotActive = 0
  /\ next = 0 /\ failures = 0

-----------------------------------------------------------------------------
(* Opening and closing.                                                    *)

(* Open returns a Stream the server has accepted: its handler waits there. *)
Opens ==
  /\ next < MaxStreams /\ ~ended
  /\ next' = next + 1 /\ open' = open \cup {next'}
  /\ handler' = [handler EXCEPT ![next'] = "waiting"]
Fails == failures < MaxFailures /\ failures' = failures + 1

(* Everything the Session has is closed with it.                           *)
SessionEnds ==
  /\ ~ended /\ ended' = TRUE /\ open' = {}
  /\ UNCHANGED <<poolVars, serverVars, call, asked, next, failures>>

-----------------------------------------------------------------------------
(* The pool.                                                               *)

(* Mutant: the Streams being opened are not counted.                       *)
MissingOpened == IF PoolSize > Len(Spare(pool)) THEN PoolSize - Len(Spare(pool)) ELSE 0
Missing ==
  LET m == PoolSize - Len(Spare(pool)) - opening IN IF m > 0 THEN m ELSE 0

(* refillProductStreamPool, on a kick or on the tick; the stale ones are   *)
(* closed after the lock, when nobody can find them any more.              *)
Refill ==
  /\ ~ended /\ (Missing > 0 \/ Spare(pool) # pool)
  /\ pool' = Spare(pool) /\ opening' = opening + Missing /\ openers' = openers + Missing
  /\ open' = open \ (Elements(pool) \ Elements(Spare(pool)))
  /\ UNCHANGED <<opened, age, serverVars, ended, call, asked, next, failures>>

PoolOpens ==
  /\ openers > 0 /\ openers' = openers - 1
  /\ Opens /\ opened' = opened \cup {next'}
  /\ UNCHANGED <<pool, opening, age, answer, uotActive, ended, call, asked, failures>>

(* Mutant: an open that fails keeps its place.                             *)
GivenUpKept == opening
GivenUp == IF opening > 0 THEN opening - 1 ELSE 0

PoolFails ==
  /\ openers > 0 /\ openers' = openers - 1
  /\ \/ ended /\ UNCHANGED failures
     \/ Fails
  /\ opening' = GivenUp
  /\ UNCHANGED <<pool, opened, age, serverVars, open, ended, call, asked, next>>

(* The second half of openProductPoolStream: keep the Stream or close it.  *)
PoolKeeps(s) ==
  LET keep == ~ended /\ s \in open /\ Len(pool) < PoolSize
  IN /\ s \in opened /\ opened' = opened \ {s}
     /\ opening' = IF opening > 0 THEN opening - 1 ELSE 0
     /\ pool' = IF keep THEN Append(pool, s) ELSE pool
     /\ open' = IF keep THEN open ELSE open \ {s}
     /\ UNCHANGED <<openers, age, serverVars, ended, call, asked, next, failures>>

(* productPreopenMaxAge, and after it productServiceSelectTimeout.         *)
Ages(s) ==
  /\ s \in Elements(pool) /\ failures < MaxFailures
  /\ \E a \in {1, 2} : a > age[s] /\ age' = [age EXCEPT ![s] = a]
  /\ failures' = failures + 1
  /\ UNCHANGED <<pool, opening, openers, opened, serverVars, open, ended, call, asked, next>>

-----------------------------------------------------------------------------
(* A request.                                                              *)

Becomes(r, c) == call' = [call EXCEPT ![r] = c]

(* Mutant: the Stream stays in the pool until it has been used.            *)
LeftWhole == pool
Left == Tail(pool)

(* takeProductStream: one turn of its loop.                                *)
Take(r, kind) ==
  /\ \/ call[r].at = "idle"
     \/ call[r].at = "looking" /\ call[r].kind = kind
  /\ IF pool = <<>>
     THEN Becomes(r, [at |-> "opening", kind |-> kind]) /\ UNCHANGED <<pool, open>>
     ELSE /\ pool' = Left
          /\ IF Head(pool) \in open /\ age[Head(pool)] = 0
             THEN Becomes(r, [at |-> "has", kind |-> kind, stream |-> Head(pool)]) /\ UNCHANGED open
             ELSE Becomes(r, [at |-> "looking", kind |-> kind]) /\ open' = open \ {Head(pool)}
  /\ UNCHANGED <<opening, openers, opened, age, serverVars, ended, asked, next, failures>>

OpensOwn(r) ==
  /\ call[r].at = "opening"
  /\ \/ Opens /\ Becomes(r, [at |-> "has", kind |-> call[r].kind, stream |-> next']) /\ UNCHANGED failures
     \/ /\ \/ Fails
           \/ ended /\ UNCHANGED failures
        /\ Becomes(r, [at |-> "failed"]) /\ UNCHANGED <<open, handler, next>>
  /\ UNCHANGED <<poolVars, answer, uotActive, ended, asked>>

(* The request is written; the Stream may have been closed meanwhile.      *)
Ask(r) ==
  LET c == call[r]
  IN /\ c.at = "has"
     /\ IF c.stream \in open
        THEN asked' = [asked EXCEPT ![c.stream] = c.kind] /\ Becomes(r, [c EXCEPT !.at = "asked"])
        ELSE Becomes(r, [at |-> "failed"]) /\ UNCHANGED asked
     /\ UNCHANGED <<poolVars, serverVars, open, ended, next, failures>>

(* productServiceResponseError.  Mutant: any answer will do.               *)
AcceptsAny(status) == status # "none"
Accepts(status) == status = "ok"

(* consumeProductReplyLocked: on the first Read, or by the probe itself.   *)
ReadReply(r) ==
  LET c == call[r]
  IN /\ c.at = "asked"
     /\ IF c.stream \in open
        THEN /\ answer[c.stream] # "none"
             /\ IF Accepts(answer[c.stream]) /\ c.kind # "probe"
                THEN Becomes(r, [c EXCEPT !.at = "served"]) /\ UNCHANGED open
                ELSE /\ Becomes(r, [at |-> IF Accepts(answer[c.stream]) THEN "capable" ELSE "failed"])
                     /\ open' = open \ {c.stream}
        ELSE Becomes(r, [at |-> "failed"]) /\ UNCHANGED open
     /\ UNCHANGED <<poolVars, serverVars, ended, asked, next, failures>>

(* The application closes what it was given, answered or not.              *)
Finish(r) ==
  /\ call[r].at \in {"asked", "served"}
  /\ open' = open \ {call[r].stream} /\ Becomes(r, [at |-> "done"])
  /\ UNCHANGED <<poolVars, serverVars, ended, asked, next, failures>>

-----------------------------------------------------------------------------
(* openProductBackend.                                                     *)

Handles(s, h) == handler' = [handler EXCEPT ![s] = h]
Replies(s, status) == answer' = [answer EXCEPT ![s] = status]

(* The request is read within productServiceSelectTimeout, and while the   *)
(* Stream is open.                                                         *)
Select(s) ==
  /\ handler[s] = "waiting"
  /\ \/ asked[s] = "tcp" /\ Handles(s, "dialTCP") /\ UNCHANGED <<answer, uotActive>>
     \/ /\ asked[s] = "probe" /\ Handles(s, "finishing") /\ UNCHANGED uotActive
        /\ \E status \in {"ok", "unsupported"} : Replies(s, status)
     \/ /\ asked[s] = "uot"
        /\ IF uotActive >= MaxUOTFlows
           THEN Handles(s, "finishing") /\ Replies(s, "full") /\ UNCHANGED uotActive
           ELSE Handles(s, "dialUOT") /\ uotActive' = uotActive + 1 /\ UNCHANGED answer
     \/ /\ asked[s] = "none" /\ (s \notin open \/ age[s] = 2)
        /\ Handles(s, "gone") /\ UNCHANGED <<answer, uotActive>>
  /\ UNCHANGED <<poolVars, open, ended, call, asked, next, failures>>

(* A dial that fails is answered too, and its slot is held until the       *)
(* client has read the answer.                                             *)
Dial(s) ==
  LET uot == handler[s] = "dialUOT"
  IN /\ handler[s] \in {"dialTCP", "dialUOT"}
     /\ \/ Handles(s, IF uot THEN "UOT" ELSE "TCP") /\ Replies(s, "ok") /\ UNCHANGED failures
        \/ Fails /\ Handles(s, IF uot THEN "leaveUOT" ELSE "finishing") /\ Replies(s, "noBackend")
     /\ UNCHANGED <<poolVars, uotActive, open, ended, call, asked, next>>

(* Mutant: only a flow that was served gives its slot back.                *)
SlotsIfServed(s) == IF answer[s] = "ok" THEN uotActive - 1 ELSE uotActive
Slots(s) == uotActive - 1

(* The Stream ends: by the client, or by the server's own idle time.       *)
HandlerEnds(s) ==
  /\ handler[s] \in {"TCP", "UOT", "leaveUOT", "finishing"} /\ s \notin open
  /\ Handles(s, "gone")
  /\ uotActive' = IF handler[s] \in {"UOT", "leaveUOT"} THEN Slots(s) ELSE uotActive
  /\ UNCHANGED <<poolVars, answer, open, ended, call, asked, next, failures>>

(* The server closes a Stream: the client learns it.                       *)
ServerCloses(s) ==
  /\ s \in open
  /\ \/ handler[s] = "gone" /\ UNCHANGED failures
     \/ handler[s] \in {"TCP", "UOT"} /\ Fails
  /\ open' = open \ {s}
  /\ UNCHANGED <<poolVars, serverVars, ended, call, asked, next>>

Next ==
  \/ SessionEnds \/ Refill \/ PoolOpens \/ PoolFails
  \/ \E s \in Streams : \/ PoolKeeps(s) \/ Ages(s)
                        \/ Select(s) \/ Dial(s) \/ HandlerEnds(s) \/ ServerCloses(s)
  \/ \E r \in Requests : \/ \E kind \in Kinds : Take(r, kind)
                         \/ OpensOwn(r) \/ Ask(r) \/ ReadReply(r) \/ Finish(r)

(* The pool's loop ticks every 5 seconds, and its openers and handlers run.*)
Fairness ==
  /\ WF_serviceVars(Refill) /\ WF_serviceVars(PoolOpens)
  /\ \A s \in Streams : WF_serviceVars(PoolKeeps(s))

ServiceSpec == Init /\ [][Next]_serviceVars /\ Fairness

-----------------------------------------------------------------------------

TypeOK ==
  /\ pool \in Seq(Streams) /\ opening \in 0..PoolSize /\ opened \subseteq Streams
  /\ open \subseteq Streams /\ age \in [Streams -> 0..2] /\ next \in 0..MaxStreams
  /\ asked \in [Streams -> Kinds \cup {"none"}]
  /\ answer \in [Streams -> {"none", "ok", "full", "unsupported", "noBackend"}]
  /\ uotActive \in 0..MaxUOTFlows

(* Refills, kicks, takes and late opens never make more spare Streams than *)
(* the pool is for, in it or on their way to it.                           *)
PoolBounded == Len(pool) + opening <= PoolSize

Owners(s) ==
  {r \in Requests : call[r].at \in {"has", "asked", "served"} /\ call[r].stream = s}
Places(s) == Cardinality(Owners(s)) + Cardinality({i \in DOMAIN pool : pool[i] = s})
               + (IF s \in opened THEN 1 ELSE 0)

(* A Stream is in one place: in the pool, with the goroutine that opens    *)
(* it, or with one request; and one that is open is somewhere, so that no  *)
(* Stream is used twice or forgotten.                                      *)
OneOwner ==
  \A s \in Streams : Places(s) <= 1 /\ (s \in open => Places(s) = 1)

(* The count of UoT flows is that of the handlers that hold a slot.        *)
SlotsAgree ==
  uotActive = Cardinality({s \in Streams : handler[s] \in {"dialUOT", "UOT", "leaveUOT"}})

(* The service on a Stream is the one its owner asked for.                 *)
ServedAsAsked ==
  \A r \in Requests :
    call[r].at = "served" =>
      handler[call[r].stream] \in (IF call[r].kind = "tcp" THEN {"TCP", "gone"} ELSE {"UOT", "gone"})

(* The pool fills up again, whatever failed, grew old or was taken.        *)
PoolFills ==
  [](<>(ended \/ next = MaxStreams \/ Len(pool) = PoolSize))
=============================================================================

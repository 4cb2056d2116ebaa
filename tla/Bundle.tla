-------------------------------- MODULE Bundle --------------------------------
(***************************************************************************)
(* A parallel Bundle of the engine (macos/engine/main.go,                  *)
(* runParallelBundleWithLauncherRetry): one supervising goroutine per      *)
(* Profile, which launches the Profile's child process again whenever it   *)
(* ends, and the loop that learns of it through two channels - lifecycle   *)
(* and events - and keeps what the Bundle reports of each Profile.  select *)
(* takes from either channel, so the two are ordered only in themselves.   *)
(***************************************************************************)
EXTENDS Naturals, Sequences

CONSTANTS
  Profiles,
  ChannelSize,   \* capacity of each channel, 256 in the code
  Delays,        \* len(bundleProfileRetrySchedule)
  MaxGeneration  \* bound: launches of a Profile

VARIABLES
  sup,         \* the goroutine of a Profile: where it is, generation, failures
  child,       \* the Profile's process: none, or what it said last
  lifecycle, events,
  known,       \* currentGeneration
  active,      \* runtimeActive
  ready, retrying,
  cancelled

bundleVars == <<sup, child, lifecycle, events, known, active, ready, retrying, cancelled>>
loopVars == <<known, active, ready, retrying>>

Init ==
  /\ sup = [p \in Profiles |-> [at |-> "launch", generation |-> 0, failures |-> 0]]
  /\ child = [p \in Profiles |-> "none"]
  /\ lifecycle = <<>> /\ events = <<>>
  /\ known = [p \in Profiles |-> 0]
  /\ active = [p \in Profiles |-> FALSE]
  /\ ready = {} /\ retrying = {} /\ cancelled = FALSE

Item(p, kind) == [profile |-> p, generation |-> sup[p].generation, kind |-> kind]

(* A send waits for room in the channel; a cancelled context ends it.      *)
SendLifecycle(p, kind) ==
  Len(lifecycle) < ChannelSize /\ lifecycle' = Append(lifecycle, Item(p, kind))
SendEvent(p, kind) ==
  Len(events) < ChannelSize /\ events' = Append(events, Item(p, kind))

At(p, place) == sup' = [sup EXCEPT ![p].at = place]

-----------------------------------------------------------------------------
(* superviseParallelBundleProfile.                                         *)

Launch(p) ==
  /\ sup[p].at = "launch" /\ ~cancelled /\ sup[p].generation < MaxGeneration
  /\ \/ /\ child' = [child EXCEPT ![p] = "started"]
        /\ sup' = [sup EXCEPT ![p].at = "tellStarted", ![p].generation = @ + 1]
     \/ /\ UNCHANGED child
        /\ sup' = [sup EXCEPT ![p].at = "tellRetrying", ![p].generation = @ + 1]
  /\ UNCHANGED <<lifecycle, events, loopVars, cancelled>>

TellStarted(p) ==
  /\ sup[p].at = "tellStarted" /\ SendLifecycle(p, "started") /\ At(p, "scan")
  /\ UNCHANGED <<child, events, loopVars, cancelled>>

(* The child says that it connects, that it listens.                       *)
Says(p, kind) ==
  /\ sup[p].at = "scan" /\ ~cancelled
  /\ child[p] \in IF kind = "connecting" THEN {"started"} ELSE {"started", "connecting"}
  /\ SendEvent(p, kind)
  /\ child' = [child EXCEPT ![p] = kind]
  /\ sup' = [sup EXCEPT ![p].failures = IF kind = "listening" THEN 0 ELSE @]
  /\ UNCHANGED <<lifecycle, loopVars, cancelled>>

(* The child ends, or is killed for what it wrote, and is waited for.      *)
Exits(p) ==
  /\ sup[p].at = "scan" /\ ~cancelled
  /\ child' = [child EXCEPT ![p] = "none"] /\ At(p, "tellRetrying")
  /\ UNCHANGED <<lifecycle, events, loopVars, cancelled>>

(* Mutant: the position in the schedule of delays has no end.              *)
LongerAny(failures) == failures + 1
Longer(failures) == IF failures < Delays THEN failures + 1 ELSE failures

TellRetrying(p) ==
  /\ sup[p].at = "tellRetrying" /\ SendLifecycle(p, "retrying")
  /\ sup' = [sup EXCEPT ![p].at = "wait", ![p].failures = Longer(@)]
  /\ UNCHANGED <<child, events, loopVars, cancelled>>

(* Mutant: the Profile is given up when the schedule of delays is used up. *)
RetryDueWhile(p) ==
  /\ sup[p].at = "wait" /\ ~cancelled /\ sup[p].failures < Delays /\ At(p, "launch")
  /\ UNCHANGED <<child, lifecycle, events, loopVars, cancelled>>

RetryDue(p) ==
  /\ sup[p].at = "wait" /\ ~cancelled /\ At(p, "launch")
  /\ UNCHANGED <<child, lifecycle, events, loopVars, cancelled>>

(* Every wait of the goroutine ends with the context, and takes the child  *)
(* with it.                                                                *)
SupervisorEnds(p) ==
  /\ cancelled /\ sup[p].at # "ended"
  /\ child' = [child EXCEPT ![p] = "none"] /\ At(p, "ended")
  /\ UNCHANGED <<lifecycle, events, loopVars, cancelled>>

-----------------------------------------------------------------------------
(* The loop.                                                               *)

(* Mutant: an item of an earlier launch is taken for the current one.      *)
NeverStale(item) == FALSE

Stale(item) == item.generation < known[item.profile]

TakeLifecycle ==
  /\ lifecycle # <<>> /\ ~cancelled /\ lifecycle' = Tail(lifecycle)
  /\ LET item == Head(lifecycle)  p == item.profile
     IN IF Stale(item)
        THEN UNCHANGED loopVars
        ELSE /\ known' = [known EXCEPT ![p] = item.generation]
             /\ active' = [active EXCEPT ![p] = item.kind = "started"]
             /\ ready' = ready \ {p}
             /\ retrying' = IF item.kind = "started" THEN retrying \ {p} ELSE retrying \cup {p}
  /\ UNCHANGED <<sup, child, events, cancelled>>

(* An event may be the first news of its launch.                           *)
TakeEvent ==
  /\ events # <<>> /\ ~cancelled /\ events' = Tail(events)
  /\ LET item == Head(events)  p == item.profile
         news == item.generation > known[p]
     IN IF Stale(item) \/ (~news /\ ~active[p])
        THEN UNCHANGED loopVars
        ELSE /\ known' = [known EXCEPT ![p] = item.generation]
             /\ active' = [active EXCEPT ![p] = TRUE]
             /\ ready' = IF item.kind = "listening" THEN ready \cup {p} ELSE ready
             /\ retrying' = IF news \/ item.kind = "listening" THEN retrying \ {p} ELSE retrying
  /\ UNCHANGED <<sup, child, lifecycle, cancelled>>

Cancel ==
  /\ ~cancelled /\ cancelled' = TRUE
  /\ UNCHANGED <<sup, child, lifecycle, events, loopVars>>

Next ==
  \/ \E p \in Profiles :
       \/ Launch(p) \/ TellStarted(p) \/ Exits(p) \/ TellRetrying(p) \/ RetryDue(p)
       \/ Says(p, "connecting") \/ Says(p, "listening") \/ SupervisorEnds(p)
  \/ TakeLifecycle \/ TakeEvent \/ Cancel

(* Goroutines and timers go on.                                            *)
Fairness ==
  /\ WF_bundleVars(TakeLifecycle) /\ WF_bundleVars(TakeEvent)
  /\ \A p \in Profiles :
       /\ WF_bundleVars(Launch(p)) /\ SF_bundleVars(TellStarted(p))
       /\ SF_bundleVars(TellRetrying(p)) /\ WF_bundleVars(RetryDue(p))
       /\ WF_bundleVars(SupervisorEnds(p))

BundleSpec == Init /\ [][Next]_bundleVars /\ Fairness

-----------------------------------------------------------------------------

TypeOK ==
  /\ sup \in [Profiles -> [at : {"launch", "tellStarted", "scan", "tellRetrying", "wait", "ended"},
                           generation : 0..MaxGeneration, failures : 0..Delays]]
  /\ child \in [Profiles -> {"none", "started", "connecting", "listening"}]
  /\ known \in [Profiles -> 0..MaxGeneration] /\ active \in [Profiles -> BOOLEAN]
  /\ ready \subseteq Profiles /\ retrying \subseteq Profiles

Heard(p) ==
  /\ \A i \in DOMAIN lifecycle : lifecycle[i].profile # p
  /\ \A i \in DOMAIN events : events[i].profile # p

(* Once its news is heard, a Profile that waits to be launched again is    *)
(* reported as reconnecting and not as available, and one that runs as     *)
(* running: items of an earlier launch never win over those of the latest, *)
(* in whatever order the two channels are read.                            *)
ReportsTheLatest ==
  \A p \in Profiles : Heard(p) /\ ~cancelled =>
    /\ sup[p].at = "wait" => ~active[p] /\ p \in retrying /\ p \notin ready
    /\ sup[p].at = "scan" => active[p] /\ p \notin retrying /\ (p \in ready => child[p] = "listening")

(* A Profile whose process ended is launched again, however full the       *)
(* channels are and whatever the other Profiles do.                        *)
Reconnects ==
  \A p \in Profiles :
    sup[p].at \in {"tellRetrying", "wait"} ~>
      cancelled \/ sup[p].at = "tellStarted" \/ sup[p].generation = MaxGeneration
=============================================================================

---------------------------- MODULE DeviceControl ----------------------------
(***************************************************************************)
(* Remote management of devices: the store of the provisioning server      *)
(* (provisioning/device_control.go), in memory and on disk, its long poll, *)
(* and the loop of a client that polls it (windows/remote.go).             *)
(*                                                                         *)
(* A save may fail after the record in memory has changed, the server may  *)
(* crash and load the file again, an answer may be lost, and the client    *)
(* may crash between recording a request and carrying it out.  A restart,  *)
(* a synchronisation and an update are requested by a generation each;     *)
(* one of them stands for the three.                                       *)
(***************************************************************************)
EXTENDS Integers, FiniteSets

CONSTANTS
  Devices,       \* IDs of records
  NoDevice,
  MaxCommands,   \* bound: operations of the administrator
  MaxSecrets,    \* bound: pairings
  MaxFaults      \* bound: saves that fail and crashes

VARIABLES
  mem,           \* deviceStore.records
  disk,          \* the file
  poll,          \* the handler of devicePoll that serves the client
  client,        \* the remote settings of the client
  todo,          \* what applyRemoteDesired has recorded and not carried out
  secrets,       \* secrets handed out so far
  acked,         \* history: per record, the newest revision an answer confirmed
  dead,          \* history: secrets a confirmed operation has withdrawn
  done,          \* history: per secret, the newest generation carried out
  commands, faults

deviceVars == <<mem, disk, poll, client, todo, secrets, acked, dead, done, commands, faults>>

Absent == [present |-> FALSE, revision |-> 0, desired |-> "stopped", generation |-> 0,
           secret |-> 0, code |-> "none"]
Unpaired == [device |-> NoDevice, secret |-> 0, revision |-> 0, generation |-> 0, applied |-> "stopped"]
Idle == [pc |-> "idle", secret |-> 0, desired |-> "none", generation |-> 0]

(* What devicePoll answers: of a record, or of the zero record.            *)
View(r) == [revision |-> r.revision, desired |-> r.desired, generation |-> r.generation]
ZeroView == [revision |-> 0, desired |-> "none", generation |-> 0]
NoPoll == [pc |-> "none", device |-> NoDevice, secret |-> 0, since |-> 0, woken |-> FALSE,
           view |-> ZeroView]

Init ==
  /\ mem = [d \in Devices |-> Absent] /\ disk = mem
  /\ poll = NoPoll /\ client = Unpaired /\ todo = Idle
  /\ secrets = 0 /\ acked = [d \in Devices |-> 0] /\ dead = {}
  /\ done = [s \in 1..MaxSecrets |-> 0]
  /\ commands = 0 /\ faults = 0

-----------------------------------------------------------------------------
(* The store.                                                              *)

Woken == IF poll.pc = "none" THEN poll ELSE [poll EXCEPT !.woken = TRUE]

SaveFails == faults < MaxFaults /\ faults' = faults + 1

(* Mutant: the handlers that wait are not told.                            *)
CommitQuietly(d, r, withdrawn) ==
  /\ mem' = [mem EXCEPT ![d] = r]
  /\ \/ /\ disk' = mem'
        /\ acked' = [acked EXCEPT ![d] = r.revision]
        /\ dead' = dead \cup withdrawn
        /\ UNCHANGED <<poll, faults>>
     \/ SaveFails /\ UNCHANGED <<disk, poll, acked, dead>>

(* Mutant: the answer before the save.                                     *)
CommitUnsaved(d, r, withdrawn) ==
  /\ mem' = [mem EXCEPT ![d] = r]
  /\ poll' = Woken
  /\ acked' = [acked EXCEPT ![d] = r.revision]
  /\ dead' = dead \cup withdrawn
  /\ \/ disk' = mem' /\ UNCHANGED faults
     \/ SaveFails /\ UNCHANGED disk

(* The record changes in memory; it is saved, signalled and confirmed, or  *)
(* the save fails and the caller is told so.                               *)
Commit(d, r, withdrawn) ==
  /\ mem' = [mem EXCEPT ![d] = r]
  /\ \/ /\ disk' = mem' /\ poll' = Woken
        /\ acked' = [acked EXCEPT ![d] = r.revision]
        /\ dead' = dead \cup withdrawn
        /\ UNCHANGED faults
     \/ SaveFails /\ UNCHANGED <<disk, poll, acked, dead>>

Held(d) == IF mem[d].secret = 0 THEN {} ELSE {mem[d].secret}
Command == commands < MaxCommands /\ commands' = commands + 1

(* deviceStore.create: the only operation that undoes a failed save.       *)
Create(d) ==
  LET r == [Absent EXCEPT !.present = TRUE, !.revision = 1, !.code = "given"] IN
  /\ Command /\ ~mem[d].present /\ mem[d].revision = 0
  /\ \/ Commit(d, r, {}) /\ disk' = mem'
     \/ SaveFails /\ UNCHANGED <<mem, disk, poll, acked, dead>>
  /\ UNCHANGED <<client, todo, secrets, done>>

(* deviceStore.update.                                                     *)
Update(d, state) ==
  /\ Command /\ mem[d].present /\ mem[d].desired # state
  /\ Commit(d, [mem[d] EXCEPT !.desired = state, !.revision = @ + 1], {})
  /\ UNCHANGED <<client, todo, secrets, done>>

(* bumpRestart, bumpSync, bumpUpdate.                                      *)
Bump(d) ==
  /\ Command /\ mem[d].present
  /\ Commit(d, [mem[d] EXCEPT !.generation = @ + 1, !.revision = @ + 1], {})
  /\ UNCHANGED <<client, todo, secrets, done>>

(* Mutant: the secret outlives the new pairing code.                       *)
RotatedLate(r) == [r EXCEPT !.revision = @ + 1]

Rotated(r) == [r EXCEPT !.secret = 0, !.revision = @ + 1]

(* newPairing: nobody learns the code when the save fails.                 *)
NewPairing(d) ==
  /\ Command /\ mem[d].present
  /\ \E code \in {"given", "unknown"} :
       /\ Commit(d, [Rotated(mem[d]) EXCEPT !.code = code], Held(d))
       /\ (code = "given") <=> (disk' = mem')
  /\ UNCHANGED <<client, todo, secrets, done>>

Delete(d) ==
  /\ Command /\ mem[d].present
  /\ Commit(d, [Absent EXCEPT !.revision = mem[d].revision], Held(d))
  /\ UNCHANGED <<client, todo, secrets, done>>

(* touch, where it does save: LastSeen and Observed.                       *)
Touched == disk' \in {disk, mem} /\ UNCHANGED faults

Crash ==
  /\ SaveFails
  /\ mem' = disk /\ poll' = NoPoll
  /\ UNCHANGED <<disk, client, todo, secrets, acked, dead, done, commands>>

-----------------------------------------------------------------------------
(* Pairing.                                                                *)

(* pair, called by PairRemoteManagement: the generations the client knows  *)
(* stay, and the loop of the earlier credential is cancelled.  The answer  *)
(* may be lost.                                                            *)
Pair(d) ==
  LET r == [mem[d] EXCEPT !.secret = secrets + 1, !.code = "none", !.revision = @ + 1] IN
  /\ secrets < MaxSecrets /\ secrets' = secrets + 1
  /\ mem[d].present /\ mem[d].code = "given"
  /\ mem' = [mem EXCEPT ![d] = r]
  /\ \/ /\ disk' = mem' /\ acked' = [acked EXCEPT ![d] = r.revision]
        /\ dead' = dead \cup Held(d) /\ UNCHANGED faults
        /\ \/ /\ client' = [client EXCEPT !.device = d, !.secret = r.secret, !.revision = r.revision]
              /\ poll' = NoPoll
           \/ poll' = Woken /\ UNCHANGED client
     \/ SaveFails /\ UNCHANGED <<disk, acked, dead, poll, client>>
  /\ UNCHANGED <<todo, done, commands>>

Authentic(d, s) == mem[d].present /\ s # 0 /\ mem[d].secret = s

(* UnpairRemoteManagement, and deviceUnpair unless its request is lost.    *)
Unpair ==
  LET d == client.device
      r == [Rotated(mem[d]) EXCEPT !.code = "none"] IN
  /\ d # NoDevice
  /\ client' = [Unpaired EXCEPT !.applied = client.applied]
  /\ \/ /\ Authentic(d, client.secret)
        /\ mem' = [mem EXCEPT ![d] = r]
        /\ \/ /\ disk' = mem' /\ acked' = [acked EXCEPT ![d] = r.revision]
              /\ dead' = dead \cup Held(d) /\ UNCHANGED faults
           \/ SaveFails /\ UNCHANGED <<disk, acked, dead>>
     \/ UNCHANGED <<mem, disk, acked, dead, faults>>
  /\ poll' = NoPoll
  /\ UNCHANGED <<todo, secrets, done, commands>>

-----------------------------------------------------------------------------
(* The long poll.                                                          *)

(* The loop asks; the handler takes the wake-up channel before it reads.   *)
PollArrives ==
  /\ poll.pc = "none" /\ todo.pc = "idle" /\ client.device # NoDevice
  /\ poll' = [pc |-> "asked", device |-> client.device, secret |-> client.secret,
              since |-> client.revision, woken |-> FALSE, view |-> ZeroView]
  /\ UNCHANGED <<mem, disk, client, todo, secrets, acked, dead, done, commands, faults>>

Answered == [poll EXCEPT !.pc = "answer", !.view = View(mem[poll.device])]

(* authenticateDevice and touch.  A touch that fails yields the zero       *)
(* record, whose revision makes the handler wait.                          *)
PollReads ==
  /\ poll.pc = "asked"
  /\ IF Authentic(poll.device, poll.secret)
     THEN \/ Touched /\ poll' = IF mem[poll.device].revision <= poll.since
                                 THEN [poll EXCEPT !.pc = "waiting"] ELSE Answered
          \/ SaveFails /\ poll' = [poll EXCEPT !.pc = "blind"] /\ UNCHANGED disk
     ELSE poll' = NoPoll /\ UNCHANGED <<disk, faults>>
  /\ UNCHANGED <<mem, client, todo, secrets, acked, dead, done, commands>>

(* The channel is closed, or 25 seconds have passed.                       *)
PollWakes ==
  /\ poll.pc \in {"waiting", "blind"}
  /\ IF Authentic(poll.device, poll.secret)
     THEN \/ Touched /\ poll' = Answered
          \/ SaveFails /\ poll' = [poll EXCEPT !.pc = "answer"] /\ UNCHANGED disk
     ELSE poll' = NoPoll /\ UNCHANGED <<disk, faults>>
  /\ UNCHANGED <<mem, client, todo, secrets, acked, dead, done, commands>>

(* remoteLoop gives up a request and asks again after a delay.             *)
PollLost ==
  /\ poll.pc # "none" /\ faults < MaxFaults /\ faults' = faults + 1
  /\ poll' = NoPoll
  /\ UNCHANGED <<mem, disk, client, todo, secrets, acked, dead, done, commands>>

-----------------------------------------------------------------------------
(* applyRemoteDesired.                                                     *)

(* Mutant: a generation that is known counts again.                        *)
NewerOrSame(v) == v.generation > 0 /\ v.generation >= client.generation

Newer(v) == v.generation > client.generation

(* Mutant: only what is newer than the last revision.                      *)
AppliesChange(v) == IF v.revision > client.revision THEN v.desired ELSE "none"

(* What of an answer is carried out: its state, whatever its revision.     *)
Applies(v) == v.desired

ClientHears ==
  LET v == poll.view IN
  /\ poll.pc = "answer"
  /\ poll' = NoPoll
  /\ client' = [client EXCEPT !.revision = IF v.revision >= @ THEN v.revision ELSE @,
                              !.generation = IF Newer(v) THEN v.generation ELSE @]
  /\ todo' = [pc |-> "apply", secret |-> poll.secret, desired |-> Applies(v),
              generation |-> IF Newer(v) THEN v.generation ELSE 0]
  /\ UNCHANGED <<mem, disk, secrets, acked, dead, done, commands, faults>>

ClientApplies ==
  /\ todo.pc = "apply" /\ todo' = Idle
  /\ client' = [client EXCEPT !.applied = IF todo.desired = "none" THEN @ ELSE todo.desired]
  /\ done' = IF todo.generation = 0 THEN done ELSE [done EXCEPT ![todo.secret] = todo.generation]
  /\ UNCHANGED <<mem, disk, poll, secrets, acked, dead, commands, faults>>

ClientCrash ==
  /\ SaveFails
  /\ todo' = Idle /\ poll' = NoPoll
  /\ UNCHANGED <<mem, disk, client, secrets, acked, dead, done, commands>>

-----------------------------------------------------------------------------

Next ==
  \/ \E d \in Devices : \/ Create(d) \/ Bump(d) \/ NewPairing(d) \/ Delete(d) \/ Pair(d)
                        \/ \E state \in {"running", "stopped"} : Update(d, state)
  \/ Crash \/ Unpair \/ PollArrives \/ PollReads \/ PollWakes \/ PollLost
  \/ ClientHears \/ ClientApplies \/ ClientCrash

(* The loop of the client polls, the server answers.                       *)
Fairness == WF_deviceVars(PollArrives) /\ WF_deviceVars(PollReads) /\ WF_deviceVars(PollWakes)
            /\ WF_deviceVars(ClientHears) /\ WF_deviceVars(ClientApplies)

DeviceSpec == Init /\ [][Next]_deviceVars /\ Fairness

-----------------------------------------------------------------------------
(* Properties.                                                             *)

TypeOK ==
  /\ \A r \in {mem[d] : d \in Devices} \cup {disk[d] : d \in Devices} :
       /\ r.present \in BOOLEAN /\ r.revision \in Nat /\ r.generation \in Nat
       /\ r.desired \in {"running", "stopped"}
       /\ r.secret \in 0..secrets /\ r.code \in {"none", "given", "unknown"}
  /\ poll.pc \in {"none", "asked", "waiting", "blind", "answer"}
  /\ client.secret \in 0..secrets /\ todo.secret \in 0..secrets
  /\ client.applied \in {"running", "stopped"}

(* A handler of devicePoll that sleeps has seen every change confirmed so  *)
(* far, or its channel is closed: the order of waitChannel and the read    *)
(* loses no wake-up (device_control.go, devicePoll and signalLocked).      *)
NoLostWakeUp ==
  poll.pc = "waiting" /\ ~poll.woken => acked[poll.device] <= poll.since

(* What the store confirmed is in the file: a crash takes back only what   *)
(* was answered with an error (saveLocked before every answer).            *)
ConfirmedIsDurable == \A d \in Devices : acked[d] <= disk[d].revision

(* A secret that a confirmed rotation, deletion, pairing or unpairing has  *)
(* withdrawn authenticates nobody, after any crash and any failed save     *)
(* (newPairing, delete, pair, revokeFromDevice, authenticate).             *)
WithdrawnStaysDead == \A d \in Devices : mem[d].secret \notin dead /\ disk[d].secret \notin dead

(* Under one pairing the client carries out each requested generation at   *)
(* most once, whatever is lost or comes again (applyRemoteDesired).        *)
AtMostOnce == todo.generation # 0 => todo.generation > done[todo.secret]

(* While a client stays paired, it ends up in the state the record asks    *)
(* for, even where a failed save and a crash have taken a revision back:   *)
(* an answer is applied whatever its revision (devicePoll's timeout,       *)
(* applyRemoteDesired).                                                    *)
Follows ==
  <>[](client.device # NoDevice /\ Authentic(client.device, client.secret)
         => client.applied = mem[client.device].desired)
=============================================================================

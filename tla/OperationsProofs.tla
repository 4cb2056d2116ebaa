--------------------------- MODULE OperationsProofs ---------------------------
(***************************************************************************)
(* Theorems about the programs that install, configure, start and stop     *)
(* engines, for any number of devices, processes, Profiles, Bundles,       *)
(* versions and requests.  A step of one part leaves the variables of the  *)
(* others alone, so an invariant of a part is one of the whole.            *)
(***************************************************************************)
EXTENDS MCOperations, Sequences, FiniteSetTheorems, TLAPS

-----------------------------------------------------------------------------
(* DeviceControl: the records, the poll and the loop of the client.        *)

DeviceRecords ==
  [present : BOOLEAN, revision : Nat, desired : {"running", "stopped"}, generation : Nat,
   secret : 0..secrets, code : {"none", "given", "unknown"}]
Views ==
  [revision : Nat, desired : {"running", "stopped", "none"}, generation : Nat]
Polls ==
  [pc : {"none", "asked", "waiting", "blind", "answer"}, device : Devices \cup {NoDevice},
   secret : 0..secrets, since : Nat, woken : BOOLEAN, view : Views]
Remotes ==
  [device : Devices \cup {NoDevice}, secret : 0..secrets, revision : Nat, generation : Nat,
   applied : {"running", "stopped"}]
Todos ==
  [pc : {"idle", "apply"}, secret : 0..secrets, desired : {"running", "stopped", "none"},
   generation : Nat]

DeviceTypes ==
  /\ secrets \in 0..MaxSecrets
  /\ mem \in [Devices -> DeviceRecords] /\ disk \in [Devices -> DeviceRecords]
  /\ poll \in Polls /\ remote \in Remotes /\ todo \in Todos
  /\ acked \in [Devices -> Nat] /\ dead \subseteq 1..secrets
  /\ done \in [1..MaxSecrets -> Nat]

(* What was confirmed is in memory and in the file.                        *)
Confirmed == \A d \in Devices : acked[d] <= mem[d].revision /\ acked[d] <= disk[d].revision

(* A secret is of one record, and of none once it is withdrawn.            *)
Separate(records) ==
  /\ \A d \in Devices : records[d].secret \notin dead
  /\ \A d, e \in Devices : records[d].secret = records[e].secret /\ records[d].secret # 0 => d = e

(* There is one loop, of the current credential; what it has recorded it   *)
(* carries out before it asks again.                                       *)
LoopKept ==
  /\ remote.device # NoDevice => remote.secret # 0 /\ done[remote.secret] <= remote.generation
  /\ poll.pc # "none" =>
       remote.device # NoDevice /\ poll.device = remote.device /\ poll.secret = remote.secret
  /\ todo.pc = "apply" =>
       /\ poll.pc = "none" /\ todo.secret # 0
       /\ todo.secret = remote.secret => todo.generation <= remote.generation
       /\ todo.generation # 0 => todo.generation > done[todo.secret]
  /\ todo.pc = "idle" => todo.generation = 0
  /\ \A s \in 1..MaxSecrets : s > secrets => done[s] = 0

DeviceInv ==
  /\ DeviceTypes /\ Confirmed /\ Separate(mem) /\ Separate(disk) /\ LoopKept
  /\ Device!NoLostWakeUp

LEMMA Bounds ==
  /\ MaxSecrets \in Nat /\ MaxCommands \in Nat /\ MaxDeviceFaults \in Nat
  /\ NoDevice \notin Devices
BY OperationsAssumption

LEMMA RecordsGrow ==
  ASSUME secrets \in Nat, secrets' \in Nat, secrets <= secrets'
  PROVE  /\ DeviceRecords \subseteq DeviceRecords' /\ Polls \subseteq Polls'
         /\ Remotes \subseteq Remotes' /\ Todos \subseteq Todos'
         /\ 1..secrets \subseteq 1..secrets'
<1>1. 0..secrets \subseteq 0..secrets' /\ 1..secrets \subseteq 1..secrets'
  OBVIOUS
<1>2. Views' = Views
  BY DEF Views
<1>. QED BY <1>1, <1>2 DEF DeviceRecords, Polls, Remotes, Todos

LEMMA DeviceInit == Device!Init => DeviceInv
<1> SUFFICES ASSUME Device!Init PROVE DeviceInv
  OBVIOUS
<1>0. \A d \in Devices : d # NoDevice
  BY Bounds
<1>1. /\ \A d \in Devices : mem[d] = Device!Absent /\ disk[d] = Device!Absent /\ acked[d] = 0
      /\ poll.pc = "none" /\ todo.pc = "idle" /\ todo.generation = 0 /\ remote.device = NoDevice
      /\ secrets = 0 /\ dead = {} /\ done = [s \in 1..MaxSecrets |-> 0]
  BY DEF Device!Init, Device!NoPoll, Device!Idle, Device!Unpaired
<1>2. Device!Absent.revision = 0 /\ Device!Absent.secret = 0
  BY DEF Device!Absent
<1>3. DeviceTypes
  <2>1. Device!Absent \in DeviceRecords
    BY <1>1 DEF Device!Absent, DeviceRecords
  <2>2. mem \in [Devices -> DeviceRecords] /\ disk \in [Devices -> DeviceRecords]
    BY <2>1 DEF Device!Init
  <2>3. poll \in Polls /\ remote \in Remotes /\ todo \in Todos
    BY <1>1 DEF Device!Init, Device!NoPoll, Device!ZeroView, Device!Unpaired, Device!Idle, Polls, Views,
       Remotes, Todos
  <2>4. acked \in [Devices -> Nat]
    BY DEF Device!Init
  <2>. QED BY <1>1, <2>2, <2>3, <2>4, Bounds DEF DeviceTypes
<1>4. Confirmed /\ Separate(mem) /\ Separate(disk)
  BY <1>1, <1>2 DEF Confirmed, Separate
<1>5. LoopKept /\ Device!NoLostWakeUp
  BY <1>1 DEF LoopKept, Device!NoLostWakeUp
<1>. QED BY <1>3, <1>4, <1>5 DEF DeviceInv

(* A record changes: what it holds is never older, and its secret is the   *)
(* old one, none, or one that was never used.                              *)
Withdraws(d, r, withdrawn) ==
  /\ r.revision >= mem[d].revision
  /\ withdrawn \subseteq {mem[d].secret} \ {0}
  /\ \/ r.secret \in {0, mem[d].secret} /\ UNCHANGED secrets
     \/ r.secret = secrets + 1 /\ secrets' = secrets + 1
  /\ r.secret \notin withdrawn

LEMMA RecordChanges ==
  ASSUME DeviceInv, NEW d \in Devices, NEW withdrawn, NEW r \in DeviceRecords',
         Withdraws(d, r, withdrawn), mem' = [mem EXCEPT ![d] = r],
         \/ /\ disk' = mem' /\ acked' = [acked EXCEPT ![d] = r.revision]
            /\ dead' = dead \cup withdrawn
         \/ UNCHANGED <<disk, acked, dead>>
  PROVE  /\ Confirmed' /\ Separate(mem)' /\ Separate(disk)'
         /\ mem' \in [Devices -> DeviceRecords'] /\ disk' \in [Devices -> DeviceRecords']
         /\ acked' \in [Devices -> Nat] /\ dead' \subseteq 1..secrets'
<1>0. DeviceTypes /\ Confirmed /\ Separate(mem) /\ Separate(disk)
  BY DEF DeviceInv
<1>1. /\ secrets \in Nat /\ secrets' \in Nat /\ secrets <= secrets'
      /\ mem \in [Devices -> DeviceRecords] /\ disk \in [Devices -> DeviceRecords]
      /\ acked \in [Devices -> Nat] /\ dead \subseteq 1..secrets
  BY <1>0 DEF DeviceTypes, Withdraws
<1>2. DeviceRecords \subseteq DeviceRecords' /\ 1..secrets \subseteq 1..secrets'
  BY <1>1, RecordsGrow
<1>3. \A e \in Devices : /\ mem[e].revision \in Nat /\ mem[e].secret \in 0..secrets
                         /\ disk[e].revision \in Nat /\ disk[e].secret \in 0..secrets
  BY <1>1 DEF DeviceRecords
<1>4. r.revision \in Nat
  BY DEF DeviceRecords
<1>5. mem'[d] = r /\ \A e \in Devices : e # d => mem'[e] = mem[e]
  BY <1>1
<1>6. mem' \in [Devices -> DeviceRecords'] /\ disk' \in [Devices -> DeviceRecords']
  BY <1>1, <1>2
<1>7. acked' \in [Devices -> Nat]
  BY <1>1, <1>4
<1>8. dead' \subseteq 1..secrets'
  <2>1. withdrawn \subseteq 1..secrets
    BY <1>3 DEF Withdraws
  <2>. QED BY <1>1, <1>2, <2>1
<1>9. Confirmed'
  <2>1. ASSUME NEW e \in Devices PROVE acked'[e] <= mem'[e].revision
    <3>1. CASE acked' = acked
      BY <1>0, <1>1, <1>3, <1>4, <1>5, <3>1 DEF Confirmed, Withdraws
    <3>2. CASE acked' = [acked EXCEPT ![d] = r.revision]
      BY <1>0, <1>1, <1>3, <1>4, <1>5, <3>2 DEF Confirmed
    <3>. QED BY <3>1, <3>2
  <2>. QED BY <1>0, <2>1 DEF Confirmed
<1>10. ASSUME NEW e \in Devices PROVE mem'[e].secret \notin dead'
  <2>0. mem[e].secret \notin dead /\ mem[d].secret \notin dead
    BY <1>0 DEF Separate
  <2>1. mem'[e].secret \notin dead
    <3>1. CASE e = d
      <4>1. 0 \notin dead /\ secrets + 1 \notin dead
        BY <1>1
      <4>. QED BY <1>5, <2>0, <3>1, <4>1 DEF Withdraws
    <3>. QED BY <1>5, <2>0, <3>1
  <2>2. mem'[e].secret \notin withdrawn
    <3>1. CASE e # d
      <4>1. mem[e].secret # mem[d].secret \/ mem[d].secret = 0
        BY <1>0, <3>1 DEF Separate
      <4>. QED BY <1>5, <3>1, <4>1 DEF Withdraws
    <3>. QED BY <1>5, <3>1 DEF Withdraws
  <2>. QED BY <2>1, <2>2
<1>11. ASSUME NEW e \in Devices, NEW f \in Devices, mem'[e].secret = mem'[f].secret,
              mem'[e].secret # 0
       PROVE  e = f
  <2>1. \A g \in Devices : mem[g].secret # secrets + 1
    BY <1>1, <1>3
  <2>2. \A g, h \in Devices : mem[g].secret = mem[h].secret /\ mem[g].secret # 0 => g = h
    BY <1>0 DEF Separate
  <2>3. CASE r.secret \in {0, mem[d].secret}
    BY <1>5, <1>11, <2>2, <2>3
  <2>4. CASE r.secret = secrets + 1
    BY <1>5, <1>11, <2>1, <2>2, <2>4
  <2>. QED BY <2>3, <2>4 DEF Withdraws
<1>12. Separate(mem)'
  BY <1>10, <1>11 DEF Separate
<1>13. Separate(disk)'
  <2>1. CASE disk' = mem'
    BY <1>12, <2>1 DEF Separate
  <2>2. CASE UNCHANGED <<disk, dead>>
    BY <1>0, <2>2 DEF Separate
  <2>. QED BY <2>1, <2>2
<1>. QED BY <1>6, <1>7, <1>8, <1>9, <1>12, <1>13

(* The poll is told, or stays as it is.                                    *)
LEMMA WokenPoll ==
  ASSUME poll \in Polls
  PROVE  /\ Device!Woken \in Polls
         /\ Device!Woken.pc = poll.pc /\ Device!Woken.device = poll.device
         /\ Device!Woken.secret = poll.secret /\ Device!Woken.since = poll.since
         /\ poll.pc # "none" => Device!Woken.woken
BY DEF Device!Woken, Polls

(* An operation of the administrator.                                      *)
LEMMA DeviceCommits ==
  ASSUME DeviceInv, NEW d \in Devices, NEW withdrawn, NEW r \in DeviceRecords,
         Device!Commit(d, r, withdrawn), Withdraws(d, r, withdrawn),
         UNCHANGED <<remote, todo, secrets, done>>
  PROVE  DeviceInv'
<1>0. DeviceTypes /\ LoopKept /\ Device!NoLostWakeUp /\ secrets \in Nat
  BY DEF DeviceInv, DeviceTypes
<1>1. /\ mem' = [mem EXCEPT ![d] = r]
      /\ \/ /\ disk' = mem' /\ acked' = [acked EXCEPT ![d] = r.revision]
            /\ dead' = dead \cup withdrawn /\ poll' = Device!Woken
         \/ UNCHANGED <<disk, acked, dead, poll>>
  BY DEF Device!Commit
<1>2. r \in DeviceRecords'
  BY DEF DeviceRecords
<1>3. /\ Confirmed' /\ Separate(mem)' /\ Separate(disk)'
      /\ mem' \in [Devices -> DeviceRecords'] /\ disk' \in [Devices -> DeviceRecords']
      /\ acked' \in [Devices -> Nat] /\ dead' \subseteq 1..secrets'
  BY <1>1, <1>2, RecordChanges
<1>4. /\ poll' \in Polls /\ poll'.pc = poll.pc /\ poll'.device = poll.device
      /\ poll'.secret = poll.secret /\ poll'.since = poll.since
      /\ UNCHANGED <<poll, acked>> \/ (poll.pc # "none" => poll'.woken)
  BY <1>0, <1>1, WokenPoll DEF DeviceTypes
<1>5. DeviceTypes'
  BY <1>0, <1>3, <1>4, RecordsGrow DEF DeviceTypes
<1>6. LoopKept'
  BY <1>0, <1>4 DEF LoopKept
<1>7. Device!NoLostWakeUp'
  BY <1>0, <1>4 DEF Device!NoLostWakeUp
<1>. QED BY <1>3, <1>5, <1>6, <1>7 DEF DeviceInv

(* Everything but the poll, the loop and the file stays.                   *)
LEMMA LoopMoves ==
  ASSUME DeviceInv, UNCHANGED <<secrets, acked, dead>>,
         \/ UNCHANGED <<mem, disk>>
         \/ UNCHANGED mem /\ disk' = mem
         \/ UNCHANGED disk /\ mem' = disk,
         poll' \in Polls, remote' \in Remotes, todo' \in Todos, done' \in [1..MaxSecrets -> Nat],
         LoopKept', Device!NoLostWakeUp'
  PROVE  DeviceInv'
<1>0. DeviceTypes /\ Confirmed /\ Separate(mem) /\ Separate(disk) /\ secrets \in Nat
  BY DEF DeviceInv, DeviceTypes
<1>1. DeviceTypes'
  BY <1>0, RecordsGrow DEF DeviceTypes
<1>2. Confirmed'
  BY <1>0 DEF Confirmed
<1>3. Separate(mem)' /\ Separate(disk)'
  BY <1>0 DEF Separate
<1>. QED BY <1>1, <1>2, <1>3 DEF DeviceInv

LEMMA DeviceUnchanged ==
  ASSUME DeviceInv, UNCHANGED <<mem, disk, poll, remote, todo, secrets, acked, dead, done>>
  PROVE  DeviceInv'
<1>1. /\ poll' \in Polls /\ remote' \in Remotes /\ todo' \in Todos
      /\ done' \in [1..MaxSecrets -> Nat]
  BY DEF DeviceInv, DeviceTypes
<1>2. LoopKept' /\ Device!NoLostWakeUp'
  BY DEF DeviceInv, LoopKept, Device!NoLostWakeUp
<1>. QED BY <1>1, <1>2, LoopMoves

LEMMA RecordFields ==
  ASSUME DeviceInv, NEW d \in Devices
  PROVE  /\ mem[d] \in DeviceRecords /\ mem[d].revision \in Nat /\ mem[d].generation \in Nat
         /\ mem[d].secret \in 0..secrets /\ secrets \in Nat /\ mem[d].present \in BOOLEAN
BY DEF DeviceInv, DeviceTypes, DeviceRecords

(* The revisions of a record.                                              *)
Created(r, x, c) == [r EXCEPT !.present = TRUE, !.revision = x, !.code = c]
Bumped(r, x, y) == [r EXCEPT !.generation = x, !.revision = y]
Paired(r, s, x) == [r EXCEPT !.secret = s, !.code = "none", !.revision = x]
Coded(r, c) == [r EXCEPT !.code = c]
Renumbered(r, x) == [r EXCEPT !.revision = x]
Wanted(r, state, x) == [r EXCEPT !.desired = state, !.revision = x]

(* What a revision of a record keeps.                                      *)
LEMMA CreatedRecord ==
  ASSUME NEW r \in DeviceRecords, NEW x \in Nat, NEW c \in {"none", "given", "unknown"}
  PROVE  /\ Created(r, x, c) \in DeviceRecords
         /\ Created(r, x, c).revision = x
         /\ Created(r, x, c).secret = r.secret
BY DEF DeviceRecords, Created

LEMMA BumpedRecord ==
  ASSUME NEW r \in DeviceRecords, NEW x \in Nat, NEW y \in Nat
  PROVE  /\ Bumped(r, x, y) \in DeviceRecords
         /\ Bumped(r, x, y).revision = y
         /\ Bumped(r, x, y).secret = r.secret
BY DEF DeviceRecords, Bumped

LEMMA PairedRecord ==
  ASSUME NEW r \in DeviceRecords, NEW s \in Nat, NEW x \in Nat
  PROVE  /\ Paired(r, s, x)
              \in [present : BOOLEAN, revision : Nat, desired : {"running", "stopped"}, generation : Nat,
                   secret : 0..s, code : {"none", "given", "unknown"}]
         /\ Paired(r, s, x).revision = x
         /\ Paired(r, s, x).secret = s
<1>1. s \in 0..s
  OBVIOUS
<1>. QED BY <1>1 DEF DeviceRecords, Paired

LEMMA CodedRecord ==
  ASSUME NEW r \in DeviceRecords, NEW c \in {"none", "given", "unknown"}
  PROVE  /\ Coded(r, c) \in DeviceRecords
         /\ Coded(r, c).revision = r.revision
         /\ Coded(r, c).secret = r.secret
BY DEF DeviceRecords, Coded

LEMMA RenumberedRecord ==
  ASSUME NEW r \in DeviceRecords, NEW x \in Nat
  PROVE  /\ Renumbered(r, x) \in DeviceRecords
         /\ Renumbered(r, x).revision = x
         /\ Renumbered(r, x).secret = r.secret
BY DEF DeviceRecords, Renumbered

LEMMA WantedRecord ==
  ASSUME NEW r \in DeviceRecords, NEW state \in {"running", "stopped"}, NEW x \in Nat
  PROVE  /\ Wanted(r, state, x) \in DeviceRecords
         /\ Wanted(r, state, x).revision = x
         /\ Wanted(r, state, x).secret = r.secret
BY DEF DeviceRecords, Wanted

LEMMA AbsentRecord ==
  secrets \in Nat => /\ Device!Absent \in DeviceRecords
                     /\ Device!Absent.revision = 0 /\ Device!Absent.secret = 0
BY DEF Device!Absent, DeviceRecords

LEMMA RotatedRecord ==
  ASSUME secrets \in Nat, NEW r \in DeviceRecords
  PROVE  /\ Device!Rotated(r) \in DeviceRecords /\ Device!Rotated(r).secret = 0
         /\ Device!Rotated(r).revision = r.revision + 1
<1>1. r.revision + 1 \in Nat /\ 0 \in 0..secrets
  BY DEF DeviceRecords
<1>2. PICK x \in Nat, s \in 0..secrets : x = r.revision + 1 /\ s = 0
  BY <1>1
<1>3. Device!Rotated(r) = [r EXCEPT !.secret = s, !.revision = x]
  BY <1>2 DEF Device!Rotated
<1>4. [r EXCEPT !.secret = s, !.revision = x] \in DeviceRecords
  BY DEF DeviceRecords
<1>5. /\ [r EXCEPT !.secret = s, !.revision = x].secret = s
      /\ [r EXCEPT !.secret = s, !.revision = x].revision = x
  BY DEF DeviceRecords
<1>. QED BY <1>2, <1>3, <1>4, <1>5

LEMMA AdministratorActs ==
  ASSUME DeviceInv, NEW d \in Devices,
         \/ Device!Create(d) \/ Device!Bump(d) \/ Device!NewPairing(d) \/ Device!Delete(d)
         \/ \E state \in {"running", "stopped"} : Device!Update(d, state)
  PROVE  DeviceInv'
<1>0. /\ mem[d] \in DeviceRecords /\ mem[d].revision \in Nat /\ mem[d].generation \in Nat
      /\ mem[d].secret \in 0..secrets /\ secrets \in Nat
  BY RecordFields
<1>1. Device!Held(d) = {mem[d].secret} \ {0}
  BY <1>0 DEF Device!Held
<1>2. CASE Device!Create(d)
  <2> DEFINE r == [Device!Absent EXCEPT !.present = TRUE, !.revision = 1, !.code = "given"]
  <2>1. mem[d].revision = 0 /\ UNCHANGED <<remote, todo, secrets, done>>
    BY <1>2 DEF Device!Create
  <2>2. Device!Commit(d, r, {}) \/ UNCHANGED <<mem, disk, poll, acked, dead>>
    BY <1>2 DEF Device!Create
  <2>3. r \in DeviceRecords /\ r.revision = 1 /\ r.secret = 0
    <3>1. Device!Absent \in DeviceRecords /\ Device!Absent.secret = 0
      BY <1>0, AbsentRecord
    <3>2. r = Created(Device!Absent, 1, "given")
      BY DEF Created
    <3>. QED BY <3>1, <3>2, CreatedRecord
  <2>4. Withdraws(d, r, {})
    BY <2>1, <2>3 DEF Withdraws
  <2>. QED BY <2>1, <2>2, <2>3, <2>4, DeviceCommits, DeviceUnchanged
<1>3. CASE Device!Bump(d)
  <2> DEFINE r == [mem[d] EXCEPT !.generation = @ + 1, !.revision = @ + 1]
  <2>1. Device!Commit(d, r, {}) /\ UNCHANGED <<remote, todo, secrets, done>>
    BY <1>3 DEF Device!Bump
  <2>2. r \in DeviceRecords /\ r.revision = mem[d].revision + 1 /\ r.secret = mem[d].secret
    <3>1. mem[d].generation + 1 \in Nat /\ mem[d].revision + 1 \in Nat
      BY <1>0
    <3>2. PICK q \in DeviceRecords, g \in Nat, x \in Nat :
            q = mem[d] /\ g = mem[d].generation + 1 /\ x = mem[d].revision + 1
      BY <1>0, <3>1
    <3>3. r = Bumped(q, g, x)
      BY <3>2 DEF Bumped
    <3>4. /\ Bumped(q, g, x) \in DeviceRecords
          /\ Bumped(q, g, x).revision = x
          /\ Bumped(q, g, x).secret = q.secret
      BY BumpedRecord
    <3>. QED BY <3>2, <3>3, <3>4
  <2> HIDE DEF r
  <2>3. Withdraws(d, r, {})
    BY <1>0, <2>1, <2>2 DEF Withdraws
  <2>. QED BY <2>1, <2>2, <2>3, DeviceCommits
<1>4. CASE Device!NewPairing(d)
  <2>1. PICK code \in {"given", "unknown"} :
          Device!Commit(d, [Device!Rotated(mem[d]) EXCEPT !.code = code], Device!Held(d))
    BY <1>4 DEF Device!NewPairing
  <2> DEFINE r == [Device!Rotated(mem[d]) EXCEPT !.code = code]
  <2>2. r \in DeviceRecords /\ r.revision = mem[d].revision + 1 /\ r.secret = 0
    <3>1. mem[d].revision + 1 \in Nat
      BY <1>0
    <3>2. /\ Device!Rotated(mem[d]) \in DeviceRecords /\ Device!Rotated(mem[d]).secret = 0
          /\ Device!Rotated(mem[d]).revision = mem[d].revision + 1
      BY <1>0, RotatedRecord
    <3>3. r = Coded(Device!Rotated(mem[d]), code)
      BY DEF Coded
    <3>. QED BY <3>2, <3>3, CodedRecord
  <2>3. UNCHANGED <<remote, todo, secrets, done>>
    BY <1>4 DEF Device!NewPairing
  <2>4. Withdraws(d, r, Device!Held(d))
    BY <1>0, <1>1, <2>2, <2>3 DEF Withdraws
  <2>. QED BY <2>1, <2>2, <2>3, <2>4, DeviceCommits
<1>5. CASE Device!Delete(d)
  <2> DEFINE r == [Device!Absent EXCEPT !.revision = mem[d].revision]
  <2>1. Device!Commit(d, r, Device!Held(d)) /\ UNCHANGED <<remote, todo, secrets, done>>
    BY <1>5 DEF Device!Delete
  <2>2. r \in DeviceRecords /\ r.revision = mem[d].revision /\ r.secret = 0
    <3>1. Device!Absent \in DeviceRecords /\ Device!Absent.secret = 0
      BY <1>0, AbsentRecord
    <3>2. r = Renumbered(Device!Absent, mem[d].revision)
      BY DEF Renumbered
    <3>. QED BY <1>0, <3>1, <3>2, RenumberedRecord
  <2>3. Withdraws(d, r, Device!Held(d))
    BY <1>0, <1>1, <2>1, <2>2 DEF Withdraws
  <2>. QED BY <2>1, <2>2, <2>3, DeviceCommits
<1>6. ASSUME NEW state \in {"running", "stopped"}, Device!Update(d, state) PROVE DeviceInv'
  <2> DEFINE r == [mem[d] EXCEPT !.desired = state, !.revision = @ + 1]
  <2>1. Device!Commit(d, r, {}) /\ UNCHANGED <<remote, todo, secrets, done>>
    BY <1>6 DEF Device!Update
  <2>2. r \in DeviceRecords /\ r.revision = mem[d].revision + 1 /\ r.secret = mem[d].secret
    <3>1. mem[d].revision + 1 \in Nat
      BY <1>0
    <3>2. PICK q \in DeviceRecords, x \in Nat : q = mem[d] /\ x = mem[d].revision + 1
      BY <1>0, <3>1
    <3>3. r = Wanted(q, state, x)
      BY <3>2 DEF Wanted
    <3>4. /\ Wanted(q, state, x) \in DeviceRecords
          /\ Wanted(q, state, x).revision = x
          /\ Wanted(q, state, x).secret = q.secret
      BY <1>6, WantedRecord
    <3>. QED BY <3>2, <3>3, <3>4
  <2>3. Withdraws(d, r, {})
    BY <1>0, <2>1, <2>2 DEF Withdraws
  <2>. QED BY <2>1, <2>2, <2>3, DeviceCommits
<1>. QED BY <1>2, <1>3, <1>4, <1>5, <1>6

LEMMA NoPollFields ==
  /\ Device!NoPoll.pc = "none"
  /\ secrets \in Nat => Device!NoPoll \in Polls /\ Device!Idle \in Todos
  /\ Device!Idle.pc = "idle" /\ Device!Idle.generation = 0
BY DEF Device!NoPoll, Device!Idle, Device!ZeroView, Polls, Views, Todos

LEMMA DevicePairs ==
  ASSUME DeviceInv, NEW d \in Devices, Device!Pair(d) PROVE DeviceInv'
<1>0. /\ mem[d] \in DeviceRecords /\ mem[d].revision \in Nat /\ mem[d].secret \in 0..secrets
      /\ secrets \in Nat /\ DeviceTypes /\ LoopKept /\ Device!NoLostWakeUp /\ d # NoDevice
  BY RecordFields, Bounds DEF DeviceInv
<1>1. Device!Held(d) = {mem[d].secret} \ {0}
  BY <1>0 DEF Device!Held
<1> DEFINE r == [mem[d] EXCEPT !.secret = secrets + 1, !.code = "none", !.revision = @ + 1]
<1>2. /\ r \in [present : BOOLEAN, revision : Nat, desired : {"running", "stopped"}, generation : Nat,
                secret : 0..(secrets + 1), code : {"none", "given", "unknown"}]
      /\ r.revision = mem[d].revision + 1 /\ r.secret = secrets + 1
  <2>1. mem[d].revision + 1 \in Nat /\ secrets + 1 \in Nat
    BY <1>0
  <2>2. PICK q \in DeviceRecords, s \in Nat, x \in Nat :
          q = mem[d] /\ s = secrets + 1 /\ x = mem[d].revision + 1
    BY <1>0, <2>1
  <2>3. r = Paired(q, s, x)
    BY <2>2 DEF Paired
  <2>4. /\ Paired(q, s, x) \in
             [present : BOOLEAN, revision : Nat, desired : {"running", "stopped"}, generation : Nat,
              secret : 0..s, code : {"none", "given", "unknown"}]
        /\ Paired(q, s, x).revision = x
        /\ Paired(q, s, x).secret = s
    BY PairedRecord
  <2>. QED BY <2>2, <2>3, <2>4
<1>3. /\ secrets' = secrets + 1 /\ secrets' \in 0..MaxSecrets
      /\ mem' = [mem EXCEPT ![d] = r] /\ UNCHANGED <<todo, done>>
      /\ \/ /\ disk' = mem' /\ acked' = [acked EXCEPT ![d] = r.revision]
            /\ dead' = dead \cup Device!Held(d)
         \/ UNCHANGED <<disk, acked, dead>>
      /\ \/ poll' = Device!Woken /\ UNCHANGED remote
         \/ UNCHANGED <<poll, remote, acked>>
         \/ /\ remote' = [remote EXCEPT !.device = d, !.secret = r.secret, !.revision = r.revision]
            /\ poll' = Device!NoPoll
  BY <1>0, Bounds DEF Device!Pair, DeviceTypes
<1>4. r \in DeviceRecords' /\ Withdraws(d, r, Device!Held(d))
  BY <1>0, <1>1, <1>2, <1>3 DEF DeviceRecords, Withdraws
<1> HIDE DEF r
<1>5. /\ Confirmed' /\ Separate(mem)' /\ Separate(disk)'
      /\ mem' \in [Devices -> DeviceRecords'] /\ disk' \in [Devices -> DeviceRecords']
      /\ acked' \in [Devices -> Nat] /\ dead' \subseteq 1..secrets'
  BY <1>3, <1>4, RecordChanges
<1>6. /\ Polls \subseteq Polls' /\ Remotes \subseteq Remotes' /\ Todos \subseteq Todos'
      /\ secrets' \in Nat
  BY <1>0, <1>3, RecordsGrow
<1>7. /\ poll \in Polls /\ remote \in Remotes /\ todo \in Todos
      /\ done \in [1..MaxSecrets -> Nat]
  BY <1>0 DEF DeviceTypes
<1>8. CASE \/ poll' = Device!Woken /\ UNCHANGED remote
           \/ UNCHANGED <<poll, remote, acked>>
  <2>1. /\ poll' \in Polls /\ poll'.pc = poll.pc /\ poll'.device = poll.device
        /\ poll'.secret = poll.secret /\ poll'.since = poll.since
        /\ UNCHANGED <<poll, acked>> \/ (poll.pc # "none" => poll'.woken)
    BY <1>7, <1>8, WokenPoll
  <2>2. DeviceTypes'
    BY <1>3, <1>5, <1>6, <1>7, <1>8, <2>1 DEF DeviceTypes
  <2>3. LoopKept'
    BY <1>0, <1>3, <1>8, <2>1 DEF LoopKept
  <2>4. Device!NoLostWakeUp'
    BY <1>0, <2>1 DEF Device!NoLostWakeUp
  <2>. QED BY <1>5, <2>2, <2>3, <2>4 DEF DeviceInv
<1>9. CASE /\ remote' = [remote EXCEPT !.device = d, !.secret = r.secret, !.revision = r.revision]
           /\ poll' = Device!NoPoll
  <2>1. /\ remote' \in Remotes' /\ remote'.device = d /\ remote'.secret = secrets + 1
        /\ remote'.generation = remote.generation /\ remote.generation \in Nat
    BY <1>0, <1>2, <1>3, <1>7, <1>9 DEF Remotes
  <2>2. poll' \in Polls' /\ poll'.pc = "none"
    BY <1>0, <1>6, <1>9, NoPollFields
  <2>3. DeviceTypes'
    BY <1>3, <1>5, <1>6, <1>7, <2>1, <2>2 DEF DeviceTypes
  <2>4. todo.secret \in 0..secrets /\ secrets + 1 \in 1..MaxSecrets /\ done[secrets + 1] = 0
    BY <1>0, <1>3, <1>7 DEF Todos, LoopKept
  <2>5. LoopKept'
    BY <1>0, <1>3, <2>1, <2>2, <2>4 DEF LoopKept
  <2>6. Device!NoLostWakeUp'
    BY <2>2 DEF Device!NoLostWakeUp
  <2>. QED BY <1>5, <2>3, <2>5, <2>6 DEF DeviceInv
<1>. QED BY <1>3, <1>8, <1>9

LEMMA DeviceUnpairs ==
  ASSUME DeviceInv, Device!Unpair PROVE DeviceInv'
<1>0. /\ DeviceTypes /\ LoopKept /\ secrets \in Nat /\ UNCHANGED <<todo, secrets, done>>
      /\ poll' = Device!NoPoll
  BY DEF DeviceInv, DeviceTypes, Device!Unpair
<1>1. remote.device \in Devices /\ remote.applied \in {"running", "stopped"}
  BY <1>0 DEF Device!Unpair, DeviceTypes, Remotes
<1>2. PICK d \in Devices : d = remote.device
  BY <1>1
<1>3. /\ remote' \in Remotes /\ remote'.device = NoDevice /\ remote'.secret = 0
      /\ remote'.generation = 0
  <2>1. PICK a \in {"running", "stopped"} : a = remote.applied
    BY <1>1
  <2>2. remote' = [Device!Unpaired EXCEPT !.applied = a]
    BY <2>1 DEF Device!Unpair
  <2>3. Device!Unpaired \in Remotes
    BY <1>0 DEF Device!Unpaired, Remotes
  <2>4. remote' \in Remotes
    BY <2>2, <2>3 DEF Remotes
  <2>5. /\ Device!Unpaired.device = NoDevice /\ Device!Unpaired.secret = 0
        /\ Device!Unpaired.generation = 0
    BY DEF Device!Unpaired
  <2>. QED BY <2>2, <2>3, <2>4, <2>5 DEF Remotes
<1>4. poll' \in Polls /\ poll'.pc = "none" /\ todo \in Todos /\ done \in [1..MaxSecrets -> Nat]
  BY <1>0, NoPollFields DEF DeviceTypes
<1>5. LoopKept'
  BY <1>0, <1>3, <1>4 DEF LoopKept
<1>6. Device!NoLostWakeUp'
  BY <1>4 DEF Device!NoLostWakeUp
<1>7. CASE UNCHANGED <<mem, disk, acked, dead>>
  BY <1>0, <1>3, <1>4, <1>5, <1>6, <1>7, LoopMoves
<1>8. ASSUME ~UNCHANGED <<mem, disk, acked, dead>> PROVE DeviceInv'
  <2>1. mem[d] \in DeviceRecords /\ mem[d].revision \in Nat /\ mem[d].secret \in 0..secrets
    BY RecordFields
  <2>2. Device!Held(d) = {mem[d].secret} \ {0}
    BY <2>1 DEF Device!Held
  <2> DEFINE r == [Device!Rotated(mem[d]) EXCEPT !.code = "none"]
  <2>3. r \in DeviceRecords /\ r.revision = mem[d].revision + 1 /\ r.secret = 0
    <3>1. PICK q \in DeviceRecords : q = Device!Rotated(mem[d])
      BY <1>0, <2>1, RotatedRecord
    <3>2. q.secret = 0 /\ q.revision = mem[d].revision + 1
      BY <1>0, <2>1, <3>1, RotatedRecord
    <3>3. [q EXCEPT !.code = "none"] \in DeviceRecords
      BY DEF DeviceRecords
    <3>4. /\ [q EXCEPT !.code = "none"].secret = q.secret
          /\ [q EXCEPT !.code = "none"].revision = q.revision
      BY DEF DeviceRecords
    <3>. QED BY <3>1, <3>2, <3>3, <3>4
  <2>4. /\ mem' = [mem EXCEPT ![d] = r]
        /\ \/ /\ disk' = mem' /\ acked' = [acked EXCEPT ![d] = r.revision]
              /\ dead' = dead \cup Device!Held(d)
           \/ UNCHANGED <<disk, acked, dead>>
    BY <1>2, <1>8 DEF Device!Unpair
  <2> HIDE DEF r
  <2>5. r \in DeviceRecords' /\ DeviceRecords' = DeviceRecords
    BY <1>0, <2>3 DEF DeviceRecords
  <2>6. Withdraws(d, r, Device!Held(d))
    BY <1>0, <2>1, <2>2, <2>3 DEF Withdraws
  <2>7. /\ Confirmed' /\ Separate(mem)' /\ Separate(disk)'
        /\ mem' \in [Devices -> DeviceRecords'] /\ disk' \in [Devices -> DeviceRecords']
        /\ acked' \in [Devices -> Nat] /\ dead' \subseteq 1..secrets'
    BY <2>4, <2>5, <2>6, RecordChanges
  <2>8. DeviceTypes'
    BY <1>0, <1>3, <1>4, <2>7, RecordsGrow DEF DeviceTypes
  <2>. QED BY <1>5, <1>6, <2>7, <2>8 DEF DeviceInv
<1>. QED BY <1>7, <1>8

(* The long poll: the handler and the loop, and the server's crash.        *)
LEMMA ServerCrashes ==
  ASSUME DeviceInv, Device!Crash \/ Device!PollLost \/ Device!ClientCrash PROVE DeviceInv'
<1>0. /\ DeviceTypes /\ LoopKept /\ secrets \in Nat /\ todo \in Todos /\ remote \in Remotes
      /\ done \in [1..MaxSecrets -> Nat]
  BY DEF DeviceInv, DeviceTypes
<1>1. /\ UNCHANGED <<remote, secrets, acked, dead, done, disk>> /\ poll' = Device!NoPoll
      /\ mem' \in {mem, disk} /\ todo' \in {todo, Device!Idle}
  BY DEF Device!Crash, Device!PollLost, Device!ClientCrash
<1>2. /\ poll' \in Polls /\ poll'.pc = "none" /\ Device!Idle \in Todos
      /\ Device!Idle.pc = "idle" /\ Device!Idle.generation = 0
  BY <1>0, <1>1, NoPollFields
<1>3. LoopKept'
  BY <1>0, <1>1, <1>2 DEF LoopKept
<1>4. Device!NoLostWakeUp'
  BY <1>2 DEF Device!NoLostWakeUp
<1>. QED BY <1>0, <1>1, <1>2, <1>3, <1>4, LoopMoves

LEMMA DeviceAsks ==
  ASSUME DeviceInv, Device!PollArrives PROVE DeviceInv'
<1>0. /\ DeviceTypes /\ LoopKept /\ todo \in Todos /\ remote \in Remotes /\ secrets \in Nat
      /\ done \in [1..MaxSecrets -> Nat]
  BY DEF DeviceInv, DeviceTypes
<1>1. /\ UNCHANGED <<mem, disk, remote, todo, secrets, acked, dead, done>>
      /\ todo.pc = "idle" /\ remote.device # NoDevice
      /\ poll' = [pc |-> "asked", device |-> remote.device, secret |-> remote.secret,
                  since |-> remote.revision, woken |-> FALSE, view |-> Device!ZeroView]
  BY DEF Device!PollArrives
<1>2. Device!ZeroView \in Views
  BY DEF Device!ZeroView, Views
<1>3. poll' \in Polls
  BY <1>0, <1>1, <1>2 DEF Remotes, Polls
<1>4. poll'.pc = "asked" /\ poll'.device = remote.device /\ poll'.secret = remote.secret
  BY <1>1
<1>5. LoopKept'
  BY <1>0, <1>1, <1>4 DEF LoopKept
<1>6. Device!NoLostWakeUp'
  BY <1>4 DEF Device!NoLostWakeUp
<1>. QED BY <1>0, <1>1, <1>3, <1>5, <1>6, LoopMoves

LEMMA PollStages ==
  ASSUME secrets \in Nat, NEW p \in Polls, NEW stage \in {"waiting", "blind", "answer"}
  PROVE  /\ [p EXCEPT !.pc = stage] \in Polls /\ [p EXCEPT !.pc = stage].pc = stage
         /\ [p EXCEPT !.pc = stage].device = p.device /\ [p EXCEPT !.pc = stage].secret = p.secret
         /\ [p EXCEPT !.pc = stage].since = p.since
<1>1. [p EXCEPT !.pc = stage] \in Polls
  BY DEF Polls
<1>2. /\ [p EXCEPT !.pc = stage].pc = stage
      /\ [p EXCEPT !.pc = stage].device = p.device /\ [p EXCEPT !.pc = stage].secret = p.secret
      /\ [p EXCEPT !.pc = stage].since = p.since
  BY DEF Polls
<1>. QED BY <1>1, <1>2

LEMMA PollAnswered ==
  ASSUME secrets \in Nat, NEW p \in Polls, NEW view \in Views
  PROVE  /\ [p EXCEPT !.pc = "answer", !.view = view] \in Polls
         /\ [p EXCEPT !.pc = "answer", !.view = view].pc = "answer"
         /\ [p EXCEPT !.pc = "answer", !.view = view].device = p.device
         /\ [p EXCEPT !.pc = "answer", !.view = view].secret = p.secret
<1>1. [p EXCEPT !.pc = "answer", !.view = view] \in Polls
  BY DEF Polls
<1>2. /\ [p EXCEPT !.pc = "answer", !.view = view].pc = "answer"
      /\ [p EXCEPT !.pc = "answer", !.view = view].device = p.device
      /\ [p EXCEPT !.pc = "answer", !.view = view].secret = p.secret
  BY DEF Polls
<1>. QED BY <1>1, <1>2

LEMMA DeviceAnswers ==
  ASSUME DeviceInv, Device!PollReads \/ Device!PollWakes PROVE DeviceInv'
<1>0. /\ DeviceTypes /\ LoopKept /\ secrets \in Nat /\ poll \in Polls /\ todo \in Todos
      /\ remote \in Remotes /\ done \in [1..MaxSecrets -> Nat] /\ Confirmed
  BY DEF DeviceInv, DeviceTypes
<1>1. /\ UNCHANGED <<mem, remote, todo, secrets, acked, dead, done>> /\ disk' \in {disk, mem}
      /\ poll.pc # "none"
  BY DEF Device!PollReads, Device!PollWakes, Device!Touched
<1>2. poll.device \in Devices
  BY <1>0, <1>1 DEF LoopKept, Remotes
<1>3. Device!View(mem[poll.device]) \in Views
  BY <1>0, <1>2 DEF Device!View, Views, DeviceTypes, DeviceRecords
<1>4. \/ poll' = Device!NoPoll
      \/ poll' = [poll EXCEPT !.pc = "waiting"] /\ mem[poll.device].revision <= poll.since
      \/ poll' = [poll EXCEPT !.pc = "blind"]
      \/ poll' = [poll EXCEPT !.pc = "answer"]
      \/ poll' = [poll EXCEPT !.pc = "answer", !.view = Device!View(mem[poll.device])]
  BY DEF Device!PollReads, Device!PollWakes, Device!Answered
<1>5. /\ poll' \in Polls
      /\ \/ poll'.pc = "none"
         \/ poll'.device = poll.device /\ poll'.secret = poll.secret
      /\ poll'.pc = "waiting" =>
           /\ poll'.since = poll.since /\ mem[poll.device].revision <= poll.since
           /\ poll'.device = poll.device
  <2>1. CASE poll' = Device!NoPoll
    BY <1>0, <2>1, NoPollFields
  <2>2. CASE poll' = [poll EXCEPT !.pc = "waiting"] /\ mem[poll.device].revision <= poll.since
    BY <1>0, <1>3, <2>2, PollStages
  <2>3. CASE poll' = [poll EXCEPT !.pc = "blind"]
    BY <1>0, <2>3, PollStages
  <2>5. CASE poll' = [poll EXCEPT !.pc = "answer"]
    BY <1>0, <2>5, PollStages
  <2>4. CASE poll' = [poll EXCEPT !.pc = "answer", !.view = Device!View(mem[poll.device])]
    BY <1>0, <1>3, <2>4, PollAnswered
  <2>. QED BY <1>4, <2>1, <2>2, <2>3, <2>4, <2>5
<1>6. LoopKept'
  BY <1>0, <1>1, <1>5 DEF LoopKept
<1>7. Device!NoLostWakeUp'
  <2>1. /\ acked[poll.device] \in Nat /\ mem[poll.device].revision \in Nat /\ poll.since \in Nat
        /\ acked[poll.device] <= mem[poll.device].revision
    BY <1>0, <1>2 DEF DeviceTypes, DeviceRecords, Polls, Confirmed
  <2>. QED BY <1>1, <1>5, <2>1 DEF Device!NoLostWakeUp
<1>. QED BY <1>0, <1>1, <1>5, <1>6, <1>7, LoopMoves

LEMMA DeviceHears ==
  ASSUME DeviceInv, Device!ClientHears PROVE DeviceInv'
<1> DEFINE v == poll.view
           g == IF v.generation > remote.generation THEN v.generation ELSE 0
<1>0. /\ DeviceTypes /\ LoopKept /\ secrets \in Nat /\ poll \in Polls /\ todo \in Todos
      /\ remote \in Remotes /\ done \in [1..MaxSecrets -> Nat] /\ secrets <= MaxSecrets
  BY Bounds DEF DeviceInv, DeviceTypes
<1>1. v \in Views /\ v.generation \in Nat /\ v.revision \in Nat
      /\ v.desired \in {"running", "stopped", "none"}
      /\ remote.generation \in Nat /\ remote.revision \in Nat
  BY <1>0 DEF Polls, Views, Remotes
<1>2. /\ UNCHANGED <<mem, disk, secrets, acked, dead, done>> /\ poll.pc # "none"
      /\ poll' = Device!NoPoll
      /\ todo' = [pc |-> "apply", secret |-> poll.secret, desired |-> v.desired, generation |-> g]
  BY DEF Device!ClientHears, Device!Newer, Device!Applies
<1>3. PICK x \in Nat, y \in Nat :
        /\ remote' = [remote EXCEPT !.revision = x, !.generation = y]
        /\ y = IF v.generation > remote.generation THEN v.generation ELSE remote.generation
  <2>1. remote' = [remote EXCEPT
           !.revision = IF v.revision >= remote.revision THEN v.revision ELSE remote.revision,
           !.generation = IF v.generation > remote.generation THEN v.generation
                          ELSE remote.generation]
    BY DEF Device!ClientHears, Device!Newer
  <2>. QED BY <1>1, <2>1
<1>4. /\ remote' \in Remotes /\ remote'.device = remote.device /\ remote'.secret = remote.secret
      /\ remote'.generation = y
  <2>1. [remote EXCEPT !.revision = x, !.generation = y] \in Remotes
    BY <1>0 DEF Remotes
  <2>. QED BY <1>0, <1>3, <2>1 DEF Remotes
<1>5. /\ poll.secret = remote.secret /\ remote.secret # 0 /\ remote.secret \in 1..MaxSecrets
      /\ poll.secret \in 0..secrets /\ done[remote.secret] <= remote.generation
      /\ done[remote.secret] \in Nat
  <2>1. /\ poll.secret = remote.secret /\ remote.secret # 0
        /\ done[remote.secret] <= remote.generation
    BY <1>0, <1>2 DEF LoopKept
  <2>2. remote.secret \in 0..secrets
    BY <1>0 DEF Remotes
  <2>3. remote.secret \in 1..MaxSecrets
    BY <1>0, <2>1, <2>2, Bounds
  <2>. QED BY <1>0, <2>1, <2>2, <2>3
<1>6. poll' \in Polls /\ poll'.pc = "none"
  BY <1>0, <1>2, NoPollFields
<1>7. /\ todo' \in Todos /\ todo'.pc = "apply" /\ todo'.secret = remote.secret
      /\ todo'.generation = g
  BY <1>1, <1>2, <1>5 DEF Todos
<1>8. /\ g # 0 => g > done[remote.secret]
      /\ g <= y /\ done[remote.secret] <= y
  BY <1>1, <1>3, <1>5
<1> HIDE DEF g
<1>9. LoopKept'
  BY <1>0, <1>2, <1>4, <1>5, <1>6, <1>7, <1>8 DEF LoopKept
<1>10. Device!NoLostWakeUp'
  BY <1>6 DEF Device!NoLostWakeUp
<1>. QED BY <1>0, <1>2, <1>4, <1>6, <1>7, <1>9, <1>10, LoopMoves

LEMMA DeviceApplies ==
  ASSUME DeviceInv, Device!ClientApplies PROVE DeviceInv'
<1>0. /\ DeviceTypes /\ LoopKept /\ Device!NoLostWakeUp /\ secrets \in Nat /\ poll \in Polls
      /\ todo \in Todos /\ remote \in Remotes /\ done \in [1..MaxSecrets -> Nat]
      /\ secrets <= MaxSecrets
  BY Bounds DEF DeviceInv, DeviceTypes
<1>1. /\ UNCHANGED <<mem, disk, poll, secrets, acked, dead>> /\ todo.pc = "apply"
      /\ todo' = Device!Idle
      /\ done' = IF todo.generation = 0 THEN done ELSE [done EXCEPT ![todo.secret] = todo.generation]
  BY DEF Device!ClientApplies
<1>2. /\ todo' \in Todos /\ todo'.pc = "idle" /\ todo'.generation = 0
  BY <1>0, <1>1, NoPollFields
<1>3. /\ todo.generation \in Nat /\ todo.secret \in 1..MaxSecrets /\ todo.secret <= secrets
      /\ poll.pc = "none" /\ (todo.secret = remote.secret => todo.generation <= remote.generation)
  <2>1. /\ poll.pc = "none" /\ todo.secret # 0
        /\ todo.secret = remote.secret => todo.generation <= remote.generation
    BY <1>0, <1>1 DEF LoopKept
  <2>2. todo.generation \in Nat /\ todo.secret \in 0..secrets
    BY <1>0 DEF Todos
  <2>3. todo.secret \in 1..MaxSecrets /\ todo.secret <= secrets
    BY <1>0, <2>1, <2>2, Bounds
  <2>. QED BY <2>1, <2>2, <2>3
<1>4. /\ done' \in [1..MaxSecrets -> Nat]
      /\ \A s \in 1..MaxSecrets : done'[s] = done[s] \/ (s = todo.secret /\ done'[s] = todo.generation)
  BY <1>0, <1>1, <1>3
<1>5. /\ remote' \in Remotes /\ remote'.device = remote.device /\ remote'.secret = remote.secret
      /\ remote'.generation = remote.generation
  <2>1. PICK a \in {"running", "stopped"} : remote' = [remote EXCEPT !.applied = a]
    BY <1>0, <1>1 DEF Device!ClientApplies, Todos, Remotes
  <2>2. [remote EXCEPT !.applied = a] \in Remotes
    BY <1>0 DEF Remotes
  <2>. QED BY <1>0, <2>1, <2>2 DEF Remotes
<1>6. LoopKept'
  <2>1. remote.device # NoDevice => remote.secret \in 1..MaxSecrets
    <3>1. remote.device # NoDevice => remote.secret # 0
      BY <1>0 DEF LoopKept
    <3>2. remote.secret \in 0..secrets
      BY <1>0 DEF Remotes
    <3>. QED BY <1>0, <3>1, <3>2, Bounds
  <2>. QED BY <1>0, <1>1, <1>2, <1>3, <1>4, <1>5, <2>1 DEF LoopKept
<1>7. Device!NoLostWakeUp'
  BY <1>0, <1>1 DEF Device!NoLostWakeUp
<1>. QED BY <1>0, <1>1, <1>2, <1>4, <1>5, <1>6, <1>7, LoopMoves

LEMMA DeviceStep == DeviceInv /\ Device!Next => DeviceInv'
BY AdministratorActs, DevicePairs, DeviceUnpairs, ServerCrashes, DeviceAsks, DeviceAnswers,
   DeviceHears, DeviceApplies DEF Device!Next

(* devicePoll, deviceStore and applyRemoteDesired: no change is slept      *)
(* through, what was confirmed is in the file, a secret that was withdrawn *)
(* authenticates nobody, and a requested generation is carried out once at *)
(* most, however many devices, crashes and lost answers there are.         *)
THEOREM DevicesKept == Spec => []DevicesAgree
<1>1. Init => DeviceInv
  BY DeviceInit DEF Init
<1>2. DeviceInv /\ [Next]_vars => DeviceInv'
  <2> SUFFICES ASSUME DeviceInv, [Next]_vars PROVE DeviceInv'
    OBVIOUS
  <2>1. CASE OfDevice /\ Device!Next
    BY <2>1, DeviceStep
  <2>2. CASE UNCHANGED deviceVars
    BY <2>2, DeviceUnchanged DEF deviceVars
  <2>. QED BY <2>1, <2>2 DEF Next, vars, OfEngine, OfBundle, OfManager, OfProvision
<1>3. DeviceInv => DevicesAgree
  <2> SUFFICES ASSUME DeviceInv PROVE DevicesAgree
    OBVIOUS
  <2>1. DeviceTypes /\ Confirmed /\ Separate(mem) /\ Separate(disk) /\ LoopKept
    BY DEF DeviceInv
  <2>2. Device!TypeOK
    <3>1. secrets \in 0..MaxSecrets /\ secrets \in Nat
      BY <2>1, Bounds DEF DeviceTypes
    <3>2. \A d \in Devices : mem[d] \in DeviceRecords /\ disk[d] \in DeviceRecords
      BY <2>1 DEF DeviceTypes
    <3>3. \A r \in DeviceRecords : r.present \in BOOLEAN
      BY DEF DeviceRecords
    <3>4. \A d \in Devices : \A r \in {mem[d], disk[d]} : r.present \in BOOLEAN
      BY <3>2, <3>3, Zenon
    <3>5. \A d \in Devices : \A r \in {mem[d], disk[d]} :
            /\ r.revision \in Nat /\ r.generation \in Nat
            /\ r.desired \in {"running", "stopped"} /\ r.secret \in 0..secrets
            /\ r.code \in {"none", "given", "unknown"}
      BY <3>2 DEF DeviceRecords
    <3>6. poll \in Polls /\ remote \in Remotes /\ todo \in Todos /\ dead \subseteq 1..secrets
      BY <2>1 DEF DeviceTypes
    <3>7. /\ poll.pc \in {"none", "asked", "waiting", "blind", "answer"}
          /\ poll.device \in Devices \cup {NoDevice}
      BY <3>6 DEF Polls
    <3>8. todo.pc \in {"idle", "apply"}
      BY <3>6 DEF Todos
    <3>9. /\ remote.secret \in 0..secrets /\ todo.secret \in 0..secrets
          /\ remote.applied \in {"running", "stopped"}
      BY <3>6 DEF Remotes, Todos
    <3>10. \A r \in {mem[d] : d \in Devices} \cup {disk[d] : d \in Devices} :
             \E d \in Devices : r \in {mem[d], disk[d]}
      OBVIOUS
    <3>. QED BY <3>4, <3>5, <3>7, <3>9, <3>10, Zenon DEF Device!TypeOK
  <2>3. Device!ConfirmedIsDurable /\ Device!WithdrawnStaysDead
    BY <2>1 DEF Device!ConfirmedIsDurable, Device!WithdrawnStaysDead, Confirmed, Separate
  <2>4. Device!AtMostOnce
    BY <2>1 DEF Device!AtMostOnce, LoopKept, DeviceTypes, Todos
  <2>. QED BY <2>2, <2>3, <2>4 DEF DeviceInv, DevicesAgree
<1>. QED BY <1>1, <1>2, <1>3, PTL DEF Spec
-----------------------------------------------------------------------------
(* Provisioning: the records of a store s, and what stands on them.        *)

AllModes == {"", "parallel", "single_select", "profile"}
Writings == AllModes \cup {" parallel"}
StoreRecords ==
  [present : BOOLEAN, alias : Aliases, token : Nat, port : Ports \cup {0}, mode : AllModes,
   written : Writings, members : SUBSET Profiles]
Stores == [Provision!Ids -> StoreRecords]
Requests == [kind : {"create", "update", "delete"}, id : Provision!Ids, new : StoreRecords]

(* What a Bundle would be made of stands, with ports of their own if its   *)
(* mode was compared as it was written.                                    *)
Stands(s, r) ==
  /\ r.members # {} /\ r.mode \in {"parallel", "single_select"}
  /\ \A p \in r.members : s[p].present
  /\ r.written = "parallel" =>
       /\ r.mode = "parallel"
       /\ \A p, q \in r.members : s[p].port = s[q].port => p = q
Sound(s) == \A b \in Bundles : s[b].present => Stands(s, s[b])

(* The port may be given to Profile p.                                     *)
Allows(s, p, port) ==
  \A b \in Bundles : s[b].present /\ s[b].written = "parallel" /\ p \in s[b].members =>
    \A q \in s[b].members : q # p => s[q].port # port

(* What a request has checked.                                             *)
Permits(s, x) ==
  /\ x.id \in Bundles => x.kind # "delete" /\ Stands(s, x.new)
  /\ x.id \in Profiles =>
       /\ x.kind # "create"
       /\ x.kind = "delete" => \A b \in Bundles : s[b].present => x.id \notin s[b].members
       /\ x.kind = "update" => Allows(s, x.id, x.new.port)

(* A URL is of one record, and of none once it is in g: those withdrawn.   *)
UrlsOf(s, g) ==
  /\ \A i \in Provision!Ids : s[i].present => Provision!Url(s[i]) \notin g
  /\ \A i, j \in Provision!Ids : s[i].present /\ s[j].present /\ s[i].token = s[j].token => i = j
  /\ \A i, j \in Provision!Ids :
       s[i].present /\ s[j].present /\ Provision!KindOf(i) = Provision!KindOf(j)
         /\ s[i].alias # NoAlias /\ s[i].alias = s[j].alias => i = j

StoreTypes ==
  /\ store \in Stores /\ file = store
  /\ tokens \in Nat /\ \A i \in Provision!Ids : store[i].token <= tokens
  /\ admin \subseteq Requests /\ \A x, y \in admin : x = y
  /\ \A u \in gone : u[2] \in Nat /\ u[2] <= tokens

StoreInv ==
  /\ StoreTypes /\ UrlsOf(store, gone) /\ Sound(store)
  /\ \A x \in admin : Permits(store, x)

LEMMA StoreBounds ==
  /\ IsFiniteSet(Profiles) /\ IsFiniteSet(Bundles) /\ Profiles \cap Bundles = {}
  /\ Ports \subseteq Nat /\ NoAlias \in Aliases /\ FirstProfile \in Profiles
  /\ Modes \subseteq {"parallel", " parallel", "single_select"}
BY OperationsAssumption

(* The store changes outside mutationMu: Profiles stay as they are or      *)
(* appear, and Bundles stay or go.                                         *)
LEMMA LaterStands ==
  ASSUME NEW s \in Stores, NEW t \in Stores, Sound(s),
         \A p \in Profiles : s[p].present => t[p].present /\ t[p].port = s[p].port,
         \A b \in Bundles : t[b].present =>
           /\ s[b].present /\ t[b].mode = s[b].mode /\ t[b].written = s[b].written
           /\ t[b].members = s[b].members
  PROVE  /\ Sound(t)
         /\ \A x \in Requests : Permits(s, x) => Permits(t, x)
<1>0. Profiles \subseteq Provision!Ids /\ Bundles \subseteq Provision!Ids
  BY DEF Provision!Ids
<1>1. \A r \in StoreRecords : Stands(s, r) => Stands(t, r)
  BY DEF Stands, StoreRecords
<1>2. \A b \in Bundles : s[b] \in StoreRecords /\ t[b] \in StoreRecords
  BY <1>0 DEF Stores
<1>3. Sound(t)
  <2> SUFFICES ASSUME NEW b \in Bundles, t[b].present PROVE Stands(t, t[b])
    BY DEF Sound
  <2>1. Stands(t, s[b])
    BY <1>1, <1>2 DEF Sound
  <2>. QED BY <2>1 DEF Stands
<1>4. ASSUME NEW p \in Profiles, NEW port, Allows(s, p, port) PROVE Allows(t, p, port)
  <2> SUFFICES ASSUME NEW b \in Bundles, t[b].present, t[b].written = "parallel",
                      p \in t[b].members, NEW q \in t[b].members, q # p
               PROVE  t[q].port # port
    BY DEF Allows
  <2>1. s[b].present /\ s[b].written = "parallel" /\ s[b].members = t[b].members
    OBVIOUS
  <2>2. s[q].port # port
    BY <1>4, <2>1 DEF Allows
  <2>3. q \in Profiles /\ s[q].present
    BY <1>2, <2>1 DEF Sound, Stands, StoreRecords
  <2>. QED BY <2>2, <2>3
<1>5. ASSUME NEW x \in Requests, Permits(s, x) PROVE Permits(t, x)
  <2>1. x.new \in StoreRecords
    BY DEF Requests
  <2>. QED BY <1>1, <1>4, <1>5, <2>1 DEF Permits
<1>. QED BY <1>3, <1>5

(* A change of a Profile, or of a Bundle, that was checked.                *)
LEMMA BundleStands ==
  ASSUME NEW s \in Stores, Sound(s), NEW b \in Bundles, NEW r \in StoreRecords,
         r.present => Stands(s, r)
  PROVE  Sound([s EXCEPT ![b] = r])
<1> DEFINE t == [s EXCEPT ![b] = r]
<1>0. Profiles \subseteq Provision!Ids /\ Bundles \subseteq Provision!Ids
  BY DEF Provision!Ids
<1>1. t[b] = r /\ \A i \in Provision!Ids : i # b => t[i] = s[i]
  BY <1>0 DEF Stores
<1>2. \A p \in Profiles : t[p] = s[p]
  BY <1>0, <1>1, StoreBounds
<1> HIDE DEF t
<1>3. ASSUME NEW v \in StoreRecords, Stands(s, v) PROVE Stands(t, v)
  BY <1>2, <1>3 DEF Stands, StoreRecords
<1>4. \A c \in Bundles : t[c] \in StoreRecords /\ (t[c].present => Stands(s, t[c]))
  BY <1>0, <1>1 DEF Sound, Stores
<1>5. Sound(t)
  BY <1>3, <1>4 DEF Sound
<1>. QED BY <1>5 DEF t

LEMMA ProfileStands ==
  ASSUME NEW s \in Stores, Sound(s), NEW p \in Profiles, NEW r \in StoreRecords,
         \/ \A b \in Bundles : s[b].present => p \notin s[b].members
         \/ r.present /\ Allows(s, p, r.port)
  PROVE  Sound([s EXCEPT ![p] = r])
<1> DEFINE t == [s EXCEPT ![p] = r]
<1>0. Profiles \subseteq Provision!Ids /\ Bundles \subseteq Provision!Ids
  BY DEF Provision!Ids
<1>1. t[p] = r /\ \A i \in Provision!Ids : i # p => t[i] = s[i]
  BY <1>0 DEF Stores
<1>2. \A b \in Bundles : t[b] = s[b] /\ s[b] \in StoreRecords
  BY <1>0, <1>1, StoreBounds DEF Stores
<1> HIDE DEF t
<1>3. ASSUME NEW b \in Bundles, s[b].present PROVE Stands(t, s[b])
  <2>1. Stands(s, s[b]) /\ s[b].members \subseteq Profiles
    BY <1>2, <1>3 DEF Sound, StoreRecords
  <2>2. \A q \in s[b].members : q # p => t[q] = s[q]
    BY <1>0, <1>1, <2>1
  <2>3. CASE p \notin s[b].members
    BY <2>1, <2>2, <2>3 DEF Stands
  <2>4. CASE p \in s[b].members
    <3>1. r.present /\ Allows(s, p, r.port)
      BY <1>3, <2>4
    <3>2. \A q \in s[b].members : t[q].present
      BY <1>1, <2>1, <2>2, <3>1 DEF Stands
    <3>3. ASSUME s[b].written = "parallel" PROVE \A q \in s[b].members : q # p => t[q].port # t[p].port
      BY <1>1, <1>3, <2>2, <2>4, <3>1, <3>3 DEF Allows
    <3>4. ASSUME s[b].written = "parallel"
          PROVE  \A q, o \in s[b].members : t[q].port = t[o].port => q = o
      BY <2>1, <2>2, <3>3, <3>4 DEF Stands
    <3>. QED BY <2>1, <3>2, <3>4 DEF Stands
  <2>. QED BY <2>3, <2>4
<1>4. Sound(t)
  BY <1>2, <1>3 DEF Sound
<1>. QED BY <1>4 DEF t

(* A record changes: it keeps its URL or has a token never used, and no    *)
(* other record has its alias.                                             *)
LEMMA UrlsChange ==
  ASSUME NEW s \in Stores, NEW g, UrlsOf(s, g), NEW id \in Provision!Ids, NEW r \in StoreRecords,
         NEW n \in Nat, \A i \in Provision!Ids : s[i].token <= n,
         \A u \in g : u[2] \in Nat /\ u[2] <= n,
         r.present =>
           \/ r.token = n + 1
           \/ s[id].present /\ r.token = s[id].token /\ r.alias = s[id].alias,
         r.present /\ r.alias # NoAlias =>
           \A i \in Provision!KindOf(id) \ {id} : ~(s[i].present /\ s[i].alias = r.alias)
  PROVE  UrlsOf([s EXCEPT ![id] = r],
                g \cup (IF s[id].present /\ Provision!Url(r) # Provision!Url(s[id])
                        THEN {Provision!Url(s[id])} ELSE {}))
<1> DEFINE t == [s EXCEPT ![id] = r]
           h == g \cup (IF s[id].present /\ Provision!Url(r) # Provision!Url(s[id])
                        THEN {Provision!Url(s[id])} ELSE {})
<1>1. t[id] = r /\ \A i \in Provision!Ids : i # id => t[i] = s[i]
  BY DEF Stores
<1>2. \A i \in Provision!Ids : s[i] \in StoreRecords /\ s[i].token \in Nat /\ s[i].token <= n
  BY DEF Stores, StoreRecords
<1>3. r.token \in Nat
  BY DEF StoreRecords
<1>4. \A u \in h : u \in g \/ (s[id].present /\ u = Provision!Url(s[id]) /\ Provision!Url(r) # u)
  OBVIOUS
<1>5. \A v \in StoreRecords : Provision!Url(v)[2] = v.token
  BY DEF Provision!Url
<1>6. ASSUME NEW i \in Provision!Ids, t[i].present PROVE Provision!Url(t[i]) \notin h
  <2>1. CASE i # id
    <3>1. t[i] = s[i] /\ Provision!Url(s[i]) \notin g
      BY <1>1, <1>6, <2>1 DEF UrlsOf
    <3>2. s[id].present => s[i].token # s[id].token
      BY <1>6, <2>1, <3>1 DEF UrlsOf
    <3>. QED BY <1>2, <1>4, <1>5, <3>1, <3>2
  <2>2. CASE i = id
    <3>1. t[i] = r /\ r.present
      BY <1>1, <1>6, <2>2
    <3>2. CASE r.token = n + 1
      BY <1>2, <1>4, <1>5, <3>1, <3>2
    <3>3. CASE s[id].present /\ r.token = s[id].token /\ r.alias = s[id].alias
      <4>1. Provision!Url(r) = Provision!Url(s[id]) /\ Provision!Url(s[id]) \notin g
        BY <3>3 DEF Provision!Url, UrlsOf
      <4>. QED BY <1>4, <3>1, <4>1
    <3>. QED BY <3>1, <3>2, <3>3
  <2>. QED BY <2>1, <2>2
<1>7. ASSUME NEW i \in Provision!Ids, NEW j \in Provision!Ids, t[i].present, t[j].present,
             t[i].token = t[j].token
      PROVE  i = j
  <2>1. ASSUME NEW k \in Provision!Ids, k # id, t[k].present, r.present PROVE t[k].token # r.token
    <3>1. t[k] = s[k]
      BY <1>1, <2>1
    <3>2. s[id].present => s[k].token # s[id].token
      BY <2>1, <3>1 DEF UrlsOf
    <3>. QED BY <1>2, <1>3, <2>1, <3>1, <3>2
  <2>2. CASE i # id /\ j # id
    BY <1>1, <1>7, <2>2 DEF UrlsOf
  <2>. QED BY <1>1, <1>7, <2>1, <2>2
<1>8. ASSUME NEW i \in Provision!Ids, NEW j \in Provision!Ids, t[i].present, t[j].present,
             Provision!KindOf(i) = Provision!KindOf(j), t[i].alias # NoAlias, t[i].alias = t[j].alias
      PROVE  i = j
  <2>1. \A k \in Provision!Ids : k \in Provision!KindOf(k)
    BY DEF Provision!KindOf, Provision!Ids
  <2>2. ASSUME NEW k \in Provision!Ids, k # id, Provision!KindOf(k) = Provision!KindOf(id),
               t[k].present, r.present, r.alias # NoAlias
        PROVE  t[k].alias # r.alias
    <3>1. t[k] = s[k] /\ k \in Provision!KindOf(id) \ {id}
      BY <1>1, <2>1, <2>2
    <3>. QED BY <2>2, <3>1
  <2>3. CASE i # id /\ j # id
    BY <1>1, <1>8, <2>3 DEF UrlsOf
  <2>. QED BY <1>1, <1>8, <2>2, <2>3
<1> HIDE DEF t, h
<1>9. UrlsOf(t, h)
  BY <1>6, <1>7, <1>8 DEF UrlsOf
<1>. QED BY <1>9 DEF t, h

-----------------------------------------------------------------------------
(* The steps of the stores.                                                *)

NewProfile(a, n, q) ==
  [Provision!Absent EXCEPT !.present = TRUE, !.alias = a, !.token = n, !.port = q]
NewBundle(a, n) == [Provision!Absent EXCEPT !.alias = a, !.token = n]
AskedProfile(a, q) == [Provision!Absent EXCEPT !.alias = a, !.port = q]
AskedBundle(a, m, w, ms) ==
  [Provision!Absent EXCEPT !.alias = a, !.mode = m, !.written = w, !.members = ms]
Filled(r, new) ==
  [r EXCEPT !.present = TRUE, !.port = new.port, !.mode = new.mode, !.written = new.written,
            !.members = new.members]

LEMMA AbsentStored ==
  Provision!Absent \in StoreRecords /\ ~Provision!Absent.present /\ Provision!Absent.token = 0
<1>0. /\ "" \in AllModes /\ "" \in Writings /\ 0 \in Nat /\ 0 \in Ports \cup {0} /\ {} \in SUBSET Profiles
      /\ NoAlias \in Aliases
  BY StoreBounds DEF AllModes, Writings
<1>1. Provision!Absent =
        [present |-> FALSE, alias |-> NoAlias, token |-> 0, port |-> 0, mode |-> "",
         written |-> "", members |-> {}]
  BY DEF Provision!Absent
<1>2. Provision!Absent \in StoreRecords
  BY <1>0, <1>1 DEF StoreRecords
<1>. QED BY <1>1, <1>2

LEMMA ProfileMade ==
  ASSUME NEW a \in Aliases, NEW n \in Nat, NEW q \in Ports \cup {0}
  PROVE  /\ NewProfile(a, n, q) \in StoreRecords /\ NewProfile(a, n, q).present
         /\ NewProfile(a, n, q).alias = a /\ NewProfile(a, n, q).token = n
<1>1. PICK f \in BOOLEAN, v \in StoreRecords : f = TRUE /\ v = Provision!Absent
  BY AbsentStored
<1> DEFINE r == [v EXCEPT !.present = f, !.alias = a, !.token = n, !.port = q]
<1>2. r \in StoreRecords
  BY DEF StoreRecords
<1>3. r.present = f /\ r.alias = a /\ r.token = n /\ r.port = q
  BY DEF StoreRecords
<1>. QED BY <1>1, <1>2, <1>3 DEF NewProfile

LEMMA BundleMade ==
  ASSUME NEW a \in Aliases, NEW n \in Nat
  PROVE  /\ NewBundle(a, n) \in StoreRecords
         /\ NewBundle(a, n).alias = a /\ NewBundle(a, n).token = n
<1>1. NewBundle(a, n) \in StoreRecords
  BY AbsentStored DEF NewBundle, StoreRecords
<1>2. NewBundle(a, n).alias = a /\ NewBundle(a, n).token = n
  BY AbsentStored DEF NewBundle, StoreRecords
<1>. QED BY <1>1, <1>2

LEMMA ProfileAskedFor ==
  ASSUME NEW a \in Aliases, NEW q \in Ports \cup {0}
  PROVE  AskedProfile(a, q) \in StoreRecords /\ AskedProfile(a, q).port = q
<1>1. AskedProfile(a, q) \in StoreRecords
  BY AbsentStored DEF AskedProfile, StoreRecords
<1>2. AskedProfile(a, q).port = q
  BY AbsentStored DEF AskedProfile, StoreRecords
<1>. QED BY <1>1, <1>2

LEMMA BundleAskedFor ==
  ASSUME NEW a \in Aliases, NEW m \in AllModes, NEW w \in Writings, NEW ms \in SUBSET Profiles
  PROVE  /\ AskedBundle(a, m, w, ms) \in StoreRecords
         /\ AskedBundle(a, m, w, ms).mode = m /\ AskedBundle(a, m, w, ms).written = w
         /\ AskedBundle(a, m, w, ms).members = ms
<1>1. AskedBundle(a, m, w, ms) \in StoreRecords
  BY AbsentStored DEF AskedBundle, StoreRecords
<1>2. /\ AskedBundle(a, m, w, ms).mode = m /\ AskedBundle(a, m, w, ms).written = w
      /\ AskedBundle(a, m, w, ms).members = ms
  BY AbsentStored DEF AskedBundle, StoreRecords
<1>. QED BY <1>1, <1>2

LEMMA RotatedUrl ==
  ASSUME NEW r \in StoreRecords, NEW n \in Nat
  PROVE  /\ [r EXCEPT !.token = n] \in StoreRecords /\ [r EXCEPT !.token = n].token = n
         /\ [r EXCEPT !.token = n].alias = r.alias /\ [r EXCEPT !.token = n].port = r.port
         /\ [r EXCEPT !.token = n].mode = r.mode /\ [r EXCEPT !.token = n].members = r.members
         /\ [r EXCEPT !.token = n].present = r.present
         /\ [r EXCEPT !.token = n].written = r.written
<1>1. [r EXCEPT !.token = n] \in StoreRecords
  BY DEF StoreRecords
<1>2. /\ [r EXCEPT !.token = n].token = n
      /\ [r EXCEPT !.token = n].alias = r.alias /\ [r EXCEPT !.token = n].port = r.port
      /\ [r EXCEPT !.token = n].mode = r.mode /\ [r EXCEPT !.token = n].members = r.members
      /\ [r EXCEPT !.token = n].present = r.present
      /\ [r EXCEPT !.token = n].written = r.written
  BY DEF StoreRecords
<1>. QED BY <1>1, <1>2

LEMMA RenamedUrl ==
  ASSUME StoreTypes, NEW r \in StoreRecords, NEW a \in Aliases
  PROVE  LET v == Provision!Renamed(r, a)
         IN /\ v \in StoreRecords /\ v.alias = a
            /\ v.token = tokens + 1 \/ (v.token = r.token /\ v.alias = r.alias)
<1>0. tokens + 1 \in Nat
  BY DEF StoreTypes
<1>1. PICK n \in Nat : n = tokens + 1
  BY <1>0
<1>2. CASE a = r.alias
  BY <1>2 DEF Provision!Renamed
<1>3. CASE a # r.alias
  <2>1. Provision!Renamed(r, a) = [r EXCEPT !.alias = a, !.token = n]
    BY <1>1, <1>3 DEF Provision!Renamed
  <2>2. [r EXCEPT !.alias = a, !.token = n] \in StoreRecords
    BY DEF StoreRecords
  <2>3. [r EXCEPT !.alias = a, !.token = n].alias = a /\ [r EXCEPT !.alias = a, !.token = n].token = n
    BY DEF StoreRecords
  <2>. QED BY <1>1, <2>1, <2>2, <2>3
<1>. QED BY <1>2, <1>3

LEMMA FilledRecord ==
  ASSUME NEW r \in StoreRecords, NEW new \in StoreRecords
  PROVE  /\ Filled(r, new) \in StoreRecords /\ Filled(r, new).present
         /\ Filled(r, new).alias = r.alias /\ Filled(r, new).token = r.token
         /\ Filled(r, new).port = new.port /\ Filled(r, new).mode = new.mode
         /\ Filled(r, new).written = new.written /\ Filled(r, new).members = new.members
<1>1. PICK q \in Ports \cup {0}, m \in AllModes, w \in Writings, ms \in SUBSET Profiles,
           f \in BOOLEAN :
        new.port = q /\ new.mode = m /\ new.written = w /\ new.members = ms /\ f = TRUE
  BY DEF StoreRecords
<1> DEFINE v == [r EXCEPT !.present = f, !.port = q, !.mode = m, !.written = w, !.members = ms]
<1>2. v \in StoreRecords
  BY DEF StoreRecords
<1>3. v.present = f /\ v.alias = r.alias /\ v.token = r.token /\ v.port = q /\ v.mode = m
      /\ v.written = w /\ v.members = ms
  BY DEF StoreRecords
<1>. QED BY <1>1, <1>2, <1>3 DEF Filled

(* saveLocked: the change is in the file and in memory, or in neither.     *)
LEMMA PutKeeps ==
  ASSUME StoreInv, NEW id \in Provision!Ids, NEW r \in StoreRecords, Provision!Put(id, r),
         tokens' \in Nat, tokens <= tokens',
         \/ ~r.present /\ r.token = 0
         \/ r.token = tokens + 1 /\ tokens' = tokens + 1
         \/ store[id].present /\ r.token = store[id].token /\ r.alias = store[id].alias,
         r.present => Provision!AliasFree(r.alias, id)
  PROVE  /\ store' \in Stores /\ file' = store' /\ store' \in {store, [store EXCEPT ![id] = r]}
         /\ \A i \in Provision!Ids : store'[i].token <= tokens'
         /\ \A u \in gone' : u[2] \in Nat /\ u[2] <= tokens'
         /\ UrlsOf(store', gone')
<1>1. /\ store \in Stores /\ file = store /\ tokens \in Nat /\ UrlsOf(store, gone)
      /\ \A i \in Provision!Ids : store[i].token <= tokens
      /\ \A u \in gone : u[2] \in Nat /\ u[2] <= tokens
  BY DEF StoreInv, StoreTypes
<1>2. \A i \in Provision!Ids : store[i] \in StoreRecords /\ store[i].token \in Nat
  BY <1>1 DEF Stores, StoreRecords
<1>3. CASE UNCHANGED <<store, file, gone>>
  BY <1>1, <1>2, <1>3
<1>4. CASE /\ store' = [store EXCEPT ![id] = r] /\ file' = [file EXCEPT ![id] = r]
           /\ gone' = gone \cup Provision!Withdrawn(id, r)
  <2>1. store' \in Stores /\ file' = store'
    BY <1>1, <1>4 DEF Stores
  <2>2. store'[id] = r /\ \A i \in Provision!Ids : i # id => store'[i] = store[i]
    BY <1>1, <1>4 DEF Stores
  <2>3. r.token <= tokens'
    BY <1>1, <1>2
  <2>4. \A i \in Provision!Ids : store'[i].token <= tokens'
    BY <1>1, <1>2, <2>2, <2>3
  <2>5. \A u \in gone' : u \in gone \/ u = Provision!Url(store[id])
    BY <1>4 DEF Provision!Withdrawn
  <2>6. Provision!Url(store[id])[2] = store[id].token
    BY DEF Provision!Url
  <2>7. \A u \in gone' : u[2] \in Nat /\ u[2] <= tokens'
    BY <1>1, <1>2, <2>5, <2>6
  <2>8. UrlsOf(store', gone')
    <3>1. r.present =>
            \/ r.token = tokens + 1
            \/ store[id].present /\ r.token = store[id].token /\ r.alias = store[id].alias
      OBVIOUS
    <3>2. r.present /\ r.alias # NoAlias =>
            \A i \in Provision!KindOf(id) \ {id} : ~(store[i].present /\ store[i].alias = r.alias)
      BY DEF Provision!AliasFree
    <3>3. UrlsOf([store EXCEPT ![id] = r],
                 gone \cup (IF store[id].present /\ Provision!Url(r) # Provision!Url(store[id])
                            THEN {Provision!Url(store[id])} ELSE {}))
      BY <1>1, <3>1, <3>2, UrlsChange
    <3>. QED BY <1>4, <3>3 DEF Provision!Withdrawn
  <2>. QED BY <1>4, <2>1, <2>4, <2>7, <2>8
<1>. QED BY <1>3, <1>4 DEF Provision!Put

LEMMA ClientLeavesStore == StoreInv /\ UNCHANGED Provision!adminVars => StoreInv'
BY DEF StoreInv, StoreTypes, Provision!adminVars

LEMMA RequestOf ==
  ASSUME StoreInv, NEW kind \in {"create", "update", "delete"}, NEW id \in Provision!Ids,
         NEW new \in StoreRecords, Provision!Asks(kind, id, new),
         Permits(store, [kind |-> kind, id |-> id, new |-> new])
  PROVE  StoreInv'
<1>1. /\ UNCHANGED <<store, file, tokens, gone>>
      /\ admin' = {[kind |-> kind, id |-> id, new |-> new]}
  BY DEF Provision!Asks, Provision!Lock
<1>2. [kind |-> kind, id |-> id, new |-> new] \in Requests
  BY DEF Requests
<1>. QED BY <1>1, <1>2 DEF StoreInv, StoreTypes

(* A change outside mutationMu.                                            *)
LEMMA PutOutside ==
  ASSUME StoreInv, NEW id \in Provision!Ids, NEW r \in StoreRecords, Provision!Put(id, r),
         tokens' \in Nat, tokens <= tokens', UNCHANGED admin,
         \/ ~r.present /\ r.token = 0
         \/ r.token = tokens + 1 /\ tokens' = tokens + 1,
         r.present => Provision!AliasFree(r.alias, id),
         id \in Profiles /\ store[id].present => r.present /\ r.port = store[id].port,
         id \in Bundles /\ r.present =>
           /\ store[id].present /\ r.mode = store[id].mode /\ r.written = store[id].written
           /\ r.members = store[id].members
  PROVE  StoreInv'
<1>1. /\ store \in Stores /\ Sound(store) /\ admin \subseteq Requests
      /\ \A x, y \in admin : x = y
      /\ \A x \in admin : Permits(store, x)
  BY DEF StoreInv, StoreTypes
<1>2. /\ store' \in Stores /\ file' = store' /\ store' \in {store, [store EXCEPT ![id] = r]}
      /\ \A i \in Provision!Ids : store'[i].token <= tokens'
      /\ \A u \in gone' : u[2] \in Nat /\ u[2] <= tokens'
      /\ UrlsOf(store', gone')
  BY PutKeeps
<1>3. \A i \in Provision!Ids : store'[i] = store[i] \/ (i = id /\ store'[i] = r)
  BY <1>1, <1>2 DEF Stores
<1>4. Profiles \subseteq Provision!Ids /\ Bundles \subseteq Provision!Ids
  BY DEF Provision!Ids
<1>5. /\ \A p \in Profiles : store[p].present => store'[p].present /\ store'[p].port = store[p].port
      /\ \A b \in Bundles : store'[b].present =>
           /\ store[b].present /\ store'[b].mode = store[b].mode
           /\ store'[b].written = store[b].written
           /\ store'[b].members = store[b].members
  BY <1>3, <1>4
<1>6. Sound(store') /\ \A x \in admin : Permits(store', x)
  BY <1>1, <1>2, <1>5, LaterStands
<1>. QED BY <1>1, <1>2, <1>6 DEF StoreInv, StoreTypes

LEMMA ProfileCreated ==
  ASSUME StoreInv, NEW p \in Profiles, NEW port \in Ports, NEW alias \in Aliases,
         Provision!CreateProfile(p, port, alias)
  PROVE  StoreInv'
<1>1. tokens \in Nat /\ tokens + 1 \in Nat /\ p \in Provision!Ids
  BY DEF StoreInv, StoreTypes, Provision!Ids
<1>2. PICK n \in Nat : n = tokens + 1
  BY <1>1
<1>3. PICK r \in StoreRecords : Provision!Put(p, r) /\ r.present /\ r.alias = alias /\ r.token = n
  <2>1. Provision!Put(p, NewProfile(alias, n, port)) /\ port \in Ports \cup {0}
    BY <1>2 DEF Provision!CreateProfile, NewProfile
  <2>. QED BY <2>1, ProfileMade
<1>4. /\ tokens' = n /\ UNCHANGED admin /\ ~store[p].present /\ Provision!AliasFree(alias, p)
  BY <1>2 DEF Provision!CreateProfile, Provision!Fresh
<1>5. p \notin Bundles
  BY StoreBounds
<1>6. tokens' \in Nat /\ tokens <= tokens' /\ r.token = tokens + 1 /\ tokens' = tokens + 1
  BY <1>1, <1>2, <1>3, <1>4
<1>7. Provision!AliasFree(r.alias, p)
  BY <1>3, <1>4
<1>. QED BY <1>1, <1>3, <1>4, <1>5, <1>6, <1>7, PutOutside

LEMMA Rotated ==
  ASSUME StoreInv, NEW i \in Provision!Ids, Provision!Rotate(i)
  PROVE  StoreInv'
<1>1. tokens \in Nat /\ tokens + 1 \in Nat /\ store[i] \in StoreRecords
  BY DEF StoreInv, StoreTypes, Stores
<1>2. PICK n \in Nat : n = tokens + 1
  BY <1>1
<1>3. PICK r \in StoreRecords :
        /\ r = [store[i] EXCEPT !.token = n] /\ r.token = n /\ r.alias = store[i].alias
        /\ r.port = store[i].port /\ r.mode = store[i].mode /\ r.members = store[i].members
        /\ r.present = store[i].present /\ r.written = store[i].written
  <2>1. PICK q \in StoreRecords : q = store[i]
    BY <1>1
  <2>2. PICK r \in StoreRecords :
          /\ r = [q EXCEPT !.token = n] /\ r.token = n /\ r.alias = q.alias
          /\ r.port = q.port /\ r.mode = q.mode /\ r.members = q.members
          /\ r.present = q.present /\ r.written = q.written
    BY RotatedUrl
  <2>. QED BY <2>1, <2>2
<1>4. /\ Provision!Put(i, r) /\ tokens' = n /\ UNCHANGED admin /\ store[i].present
  BY <1>2, <1>3 DEF Provision!Rotate, Provision!Fresh
<1>5. Provision!AliasFree(store[i].alias, i)
  <2>1. \A j \in Provision!KindOf(i) \ {i} :
          j \in Provision!Ids /\ Provision!KindOf(j) = Provision!KindOf(i)
    BY StoreBounds DEF Provision!KindOf, Provision!Ids
  <2>. QED BY <1>4, <2>1 DEF StoreInv, UrlsOf, Provision!AliasFree
<1>6. i \in Provision!Ids /\ tokens' \in Nat /\ tokens <= tokens'
      /\ r.token = tokens + 1 /\ tokens' = tokens + 1 /\ Provision!AliasFree(r.alias, i)
  BY <1>1, <1>2, <1>3, <1>4, <1>5
<1>. QED BY <1>3, <1>4, <1>6, PutOutside

LEMMA BundleDeleted ==
  ASSUME StoreInv, NEW b \in Bundles, Provision!DeleteBundle(b)
  PROVE  StoreInv'
<1>1. tokens \in Nat /\ b \in Provision!Ids /\ b \notin Profiles
  BY StoreBounds DEF StoreInv, StoreTypes, Provision!Ids
<1>2. /\ Provision!Absent \in StoreRecords /\ ~Provision!Absent.present
      /\ Provision!Absent.token = 0
  BY AbsentStored
<1>3. Provision!Put(b, Provision!Absent) /\ tokens' = tokens /\ UNCHANGED admin
  BY DEF Provision!DeleteBundle
<1>. QED BY <1>1, <1>2, <1>3, PutOutside

(* The four requests under mutationMu: their checks.                       *)
LEMMA ProfileAsked ==
  ASSUME StoreInv, NEW p \in Profiles, NEW port \in Ports, NEW alias \in Aliases,
         Provision!UpdateProfile(p, port, alias)
  PROVE  StoreInv'
<1>0. /\ p \in Provision!Ids /\ p \notin Bundles /\ store \in Stores
      /\ \A q \in Profiles : q \in Provision!Ids
      /\ \A b \in Bundles : b \in Provision!Ids
  BY StoreBounds DEF Provision!Ids, StoreInv, StoreTypes
<1>1. PICK new \in StoreRecords : new = AskedProfile(alias, port) /\ new.port = port
  <2>1. port \in Ports \cup {0}
    OBVIOUS
  <2>. QED BY <2>1, ProfileAskedFor
<1>3. Allows(store, p, port)
  <2> SUFFICES ASSUME NEW b \in Bundles, store[b].present, store[b].written = "parallel",
                      p \in store[b].members, NEW q \in store[b].members, q # p
               PROVE  store[q].port # port
    BY DEF Allows
  <2>1. store[b].members \subseteq Profiles /\ store[b].mode = "parallel"
    BY <1>0 DEF Stores, StoreRecords, StoreInv, Sound, Stands
  <2> DEFINE f == [Provision!PortOf(store) EXCEPT ![p] = port]
  <2>2. Provision!DistinctPorts(f, store[b].members)
    BY <2>1 DEF Provision!UpdateProfile, Provision!MutationValid
  <2>3. f[p] = port /\ f[q] = store[q].port
    BY <2>1 DEF Provision!PortOf
  <2> HIDE DEF f
  <2>4. f[p] = f[q] => p = q
    BY <2>2 DEF Provision!DistinctPorts
  <2>. QED BY <2>3, <2>4
<1>4. Permits(store, [kind |-> "update", id |-> p, new |-> new])
  BY <1>0, <1>1, <1>3 DEF Permits
<1>5. Provision!Asks("update", p, new)
  BY <1>1 DEF Provision!UpdateProfile, AskedProfile
<1>. QED BY <1>0, <1>4, <1>5, RequestOf

LEMMA DeletionAsked ==
  ASSUME StoreInv, NEW p \in Profiles, Provision!DeleteProfile(p)
  PROVE  StoreInv'
<1>1. p \in Provision!Ids /\ p \notin Bundles
  BY StoreBounds DEF Provision!Ids
<1>2. Permits(store, [kind |-> "delete", id |-> p, new |-> Provision!Absent])
  BY <1>1 DEF Permits, Provision!DeleteProfile, Provision!Referenced
<1>. QED BY <1>1, <1>2, AbsentStored, RequestOf DEF Provision!DeleteProfile

LEMMA BundleAsked ==
  ASSUME StoreInv, NEW b \in Bundles, NEW mode \in Modes, NEW ids \in (SUBSET Profiles) \ {{}},
         NEW alias \in Aliases,
         Provision!CreateBundle(b, mode, ids, alias) \/ Provision!UpdateBundle(b, mode, ids, alias)
  PROVE  StoreInv'
<1>1. b \in Provision!Ids /\ b \notin Profiles
  BY StoreBounds DEF Provision!Ids
<1>2. PICK trimmed \in AllModes :
        /\ trimmed = Provision!Trimmed(mode) /\ trimmed \in {"parallel", "single_select"}
        /\ mode \in Writings /\ (mode = "parallel" => trimmed = mode)
  BY StoreBounds DEF Provision!Trimmed, AllModes, Writings
<1>3. PICK new \in StoreRecords :
        /\ new = AskedBundle(alias, trimmed, mode, ids) /\ new.mode = trimmed
        /\ new.written = mode /\ new.members = ids
  <2>1. ids \in SUBSET Profiles
    OBVIOUS
  <2>. QED BY <1>2, <2>1, BundleAskedFor
<1>4. /\ Provision!BundleValid(mode, ids)
      /\ Provision!Asks("create", b, new) \/ Provision!Asks("update", b, new)
  BY <1>2, <1>3 DEF Provision!CreateBundle, Provision!UpdateBundle, AskedBundle
<1>5. Stands(store, new)
  <2>1. \A p \in ids : store[p].present
    BY <1>4 DEF Provision!BundleValid, Provision!Present
  <2>2. mode = "parallel" => \A p, q \in ids : store[p].port = store[q].port => p = q
    BY <1>4 DEF Provision!BundleValid, Provision!DistinctPorts, Provision!PortOf
  <2>. QED BY <1>2, <1>3, <2>1, <2>2 DEF Stands
<1>6. /\ Permits(store, [kind |-> "create", id |-> b, new |-> new])
      /\ Permits(store, [kind |-> "update", id |-> b, new |-> new])
  BY <1>1, <1>5 DEF Permits
<1>7. CASE Provision!Asks("create", b, new)
  BY <1>1, <1>3, <1>6, <1>7, RequestOf
<1>8. CASE Provision!Asks("update", b, new)
  BY <1>1, <1>3, <1>6, <1>8, RequestOf
<1>. QED BY <1>4, <1>7, <1>8

(* The change of a request: what it has checked holds still.               *)
LEMMA RequestChanges ==
  ASSUME StoreInv, NEW x \in admin, Provision!Change(x)
  PROVE  StoreInv'
<1>1. /\ store \in Stores /\ Sound(store) /\ tokens \in Nat /\ tokens + 1 \in Nat
      /\ x \in Requests /\ Permits(store, x) /\ admin' = {}
  BY DEF StoreInv, StoreTypes, Provision!Change
<1>2. x.id \in Provision!Ids /\ x.new \in StoreRecords /\ x.kind \in {"create", "update", "delete"}
  BY <1>1 DEF Requests
<1>3. PICK id \in Provision!Ids, new \in StoreRecords, a \in Aliases :
        id = x.id /\ new = x.new /\ a = new.alias
  BY <1>2 DEF StoreRecords
<1>4. store[id] \in StoreRecords
  BY <1>1 DEF Stores
<1>5. \/ UNCHANGED <<store, file, tokens, gone>>
      \/ /\ x.kind = "delete" /\ Provision!Put(id, Provision!Absent) /\ tokens' = tokens
      \/ /\ x.kind = "create" /\ Provision!AliasFree(a, id) /\ tokens' = tokens + 1
         /\ Provision!Put(id, Filled(NewBundle(a, tokens + 1), new))
      \/ /\ x.kind = "update" /\ Provision!AliasFree(a, id) /\ tokens' = tokens + 1
         /\ store[id].present /\ Provision!Put(id, Filled(Provision!Renamed(store[id], a), new))
  BY <1>3 DEF Provision!Change, Provision!Fresh, Filled, NewBundle
<1>6. ASSUME NEW r \in StoreRecords, Provision!Put(id, r), tokens' \in {tokens, tokens + 1},
             \/ ~r.present /\ r.token = 0
             \/ r.token = tokens + 1 /\ tokens' = tokens + 1
             \/ store[id].present /\ r.token = store[id].token /\ r.alias = store[id].alias,
             r.present => Provision!AliasFree(r.alias, id),
             Sound([store EXCEPT ![id] = r])
      PROVE  StoreInv'
  <2>1. tokens' \in Nat /\ tokens <= tokens'
    BY <1>1, <1>6
  <2>2. /\ store' \in Stores /\ file' = store' /\ store' \in {store, [store EXCEPT ![id] = r]}
        /\ \A i \in Provision!Ids : store'[i].token <= tokens'
        /\ \A u \in gone' : u[2] \in Nat /\ u[2] <= tokens'
        /\ UrlsOf(store', gone')
    BY <1>6, <2>1, PutKeeps
  <2>3. Sound(store')
    BY <1>1, <1>6, <2>2
  <2>. QED BY <1>1, <2>1, <2>2, <2>3 DEF StoreInv, StoreTypes
<1>7. id \in Profiles \/ (id \in Bundles /\ id \notin Profiles)
  BY StoreBounds DEF Provision!Ids
<1>8. CASE UNCHANGED <<store, file, tokens, gone>>
  BY <1>1, <1>8 DEF StoreInv, StoreTypes
<1>9. CASE /\ x.kind = "delete" /\ Provision!Put(id, Provision!Absent) /\ tokens' = tokens
  <2>1. /\ Provision!Absent \in StoreRecords /\ ~Provision!Absent.present
        /\ Provision!Absent.token = 0
    BY AbsentStored
  <2>2. id \in Profiles /\ \A b \in Bundles : store[b].present => id \notin store[b].members
    BY <1>1, <1>3, <1>7, <1>9 DEF Permits
  <2>3. Sound([store EXCEPT ![id] = Provision!Absent])
    BY <1>1, <2>1, <2>2, ProfileStands
  <2>. QED BY <1>6, <1>9, <2>1, <2>3
<1>10. ASSUME NEW r \in StoreRecords, r.present, r.port = new.port, r.mode = new.mode,
              r.written = new.written, r.members = new.members, x.kind # "delete"
       PROVE  Sound([store EXCEPT ![id] = r])
  <2>1. CASE id \in Profiles
    <3>1. Allows(store, id, new.port)
      BY <1>1, <1>2, <1>3, <1>10, <2>1 DEF Permits
    <3>. QED BY <1>1, <1>10, <2>1, <3>1, ProfileStands
  <2>2. CASE id \in Bundles
    <3>1. Stands(store, new)
      BY <1>1, <1>3, <2>2 DEF Permits
    <3>2. Stands(store, r)
      BY <1>10, <3>1 DEF Stands
    <3>. QED BY <1>1, <1>10, <2>2, <3>2, BundleStands
  <2>. QED BY <1>7, <2>1, <2>2
<1>11. CASE /\ x.kind = "create" /\ Provision!AliasFree(a, id) /\ tokens' = tokens + 1
            /\ Provision!Put(id, Filled(NewBundle(a, tokens + 1), new))
  <2>1. PICK n \in Nat : n = tokens + 1
    BY <1>1
  <2>2. PICK v \in StoreRecords :
          v = NewBundle(a, n) /\ v.alias = a /\ v.token = n
    BY BundleMade
  <2>3. PICK r \in StoreRecords :
          /\ r = Filled(v, new) /\ r.present /\ r.alias = a /\ r.token = n
          /\ r.port = new.port /\ r.mode = new.mode /\ r.written = new.written
          /\ r.members = new.members
    BY <2>2, FilledRecord
  <2>4. Provision!Put(id, r)
    BY <1>11, <2>1, <2>2, <2>3
  <2>. QED BY <1>6, <1>10, <1>11, <2>1, <2>3, <2>4
<1>12. CASE /\ x.kind = "update" /\ Provision!AliasFree(a, id) /\ tokens' = tokens + 1
            /\ store[id].present /\ Provision!Put(id, Filled(Provision!Renamed(store[id], a), new))
  <2>1. PICK v \in StoreRecords :
          /\ v = Provision!Renamed(store[id], a) /\ v.alias = a
          /\ v.token = tokens + 1 \/ (v.token = store[id].token /\ v.alias = store[id].alias)
    BY <1>4, RenamedUrl DEF StoreInv
  <2>2. PICK r \in StoreRecords :
          /\ r = Filled(v, new) /\ r.present /\ r.alias = a /\ r.token = v.token
          /\ r.port = new.port /\ r.mode = new.mode /\ r.written = new.written
          /\ r.members = new.members
    BY <2>1, FilledRecord
  <2>3. Provision!Put(id, r)
    BY <1>12, <2>1, <2>2
  <2>. QED BY <1>6, <1>10, <1>12, <2>1, <2>2, <2>3
<1>. QED BY <1>5, <1>8, <1>9, <1>11, <1>12

LEMMA StoreStep == StoreInv /\ Provision!Next => StoreInv'
<1> SUFFICES ASSUME StoreInv, Provision!Next PROVE StoreInv'
  OBVIOUS
<1>0. /\ Profiles \subseteq Provision!Ids /\ Bundles \subseteq Provision!Ids
      /\ \A i \in Provision!Ids : Provision!Names(i) \subseteq Aliases
  BY StoreBounds DEF Provision!Ids, Provision!Names
<1>1. CASE \E p \in Profiles, port \in Ports, alias \in Aliases :
             Provision!CreateProfile(p, port, alias) \/ Provision!UpdateProfile(p, port, alias)
  BY <1>1, ProfileCreated, ProfileAsked
<1>2. CASE \E p \in Profiles : Provision!DeleteProfile(p)
  BY <1>2, DeletionAsked
<1>3. CASE \E i \in Provision!Ids : Provision!Rotate(i)
  BY <1>3, Rotated
<1>4. CASE \E b \in Bundles : Provision!DeleteBundle(b)
  BY <1>4, BundleDeleted
<1>5. CASE \E b \in Bundles, mode \in Modes, ids \in (SUBSET Profiles) \ {{}}, alias \in Aliases :
             Provision!CreateBundle(b, mode, ids, alias) \/ Provision!UpdateBundle(b, mode, ids, alias)
  BY <1>5, BundleAsked
<1>6. CASE \E x \in admin : Provision!Change(x)
  BY <1>6, RequestChanges
<1>7. CASE Provision!Restart
  BY <1>7 DEF Provision!Restart, StoreInv, StoreTypes
<1>8. ASSUME UNCHANGED Provision!adminVars PROVE StoreInv'
  BY <1>8, ClientLeavesStore
<1>9. \/ \E p \in Profiles, port \in Ports, alias \in Aliases :
           Provision!CreateProfile(p, port, alias) \/ Provision!UpdateProfile(p, port, alias)
      \/ \E p \in Profiles : Provision!DeleteProfile(p)
      \/ \E i \in Provision!Ids : Provision!Rotate(i)
      \/ \E b \in Bundles : Provision!DeleteBundle(b)
      \/ \E b \in Bundles, mode \in Modes, ids \in (SUBSET Profiles) \ {{}}, alias \in Aliases :
           Provision!CreateBundle(b, mode, ids, alias) \/ Provision!UpdateBundle(b, mode, ids, alias)
      \/ \E x \in admin : Provision!Change(x)
      \/ Provision!Restart \/ UNCHANGED Provision!adminVars
  <2>1. CASE \/ Provision!Sync \/ Provision!Finds \/ Provision!Reads \/ Provision!Validates
             \/ Provision!Hears \/ Provision!FetchLost \/ Provision!Reopen
             \/ \E url \in {Provision!Url(store[i]) : i \in Provision!Present(store)} \cup {Provision!NoUrl} :
                  Provision!SetUrl(url)
             \/ \E ids \in SUBSET Profiles : Provision!Select(ids)
    BY <2>1 DEF Provision!Sync, Provision!Finds, Provision!Reads, Provision!Validates,
       Provision!Hears, Provision!FetchLost, Provision!Reopen, Provision!SetUrl, Provision!Select
  <2>2. CASE \E p \in Profiles : \E port \in Ports, alias \in Provision!Names(p) :
               Provision!CreateProfile(p, port, alias) \/ Provision!UpdateProfile(p, port, alias)
    BY <1>0, <2>2
  <2>3. CASE \E b \in Bundles :
             \E mode \in Modes, ids \in (SUBSET Profiles) \ {{}}, alias \in Provision!Names(b) :
               Provision!CreateBundle(b, mode, ids, alias) \/ Provision!UpdateBundle(b, mode, ids, alias)
    BY <1>0, <2>3
  <2>. QED BY <2>1, <2>2, <2>3 DEF Provision!Next
<1>. QED BY <1>1, <1>2, <1>3, <1>4, <1>5, <1>6, <1>7, <1>8, <1>9

(* Tokens of their own for the first records.                              *)
LEMMA FirstTokens ==
  /\ Provision!Cardinality(Provision!Ids) \in Nat
  /\ Provision!Token \in [Provision!Ids -> 1..Provision!Cardinality(Provision!Ids)]
  /\ \A i, j \in Provision!Ids : Provision!Token[i] = Provision!Token[j] => i = j
<1> DEFINE S == Profiles \cup Bundles
           n == Cardinality(S)
<1>0. Provision!Ids = S /\ Provision!Cardinality(S) = n
  BY DEF Provision!Ids, Provision!Cardinality, Cardinality
<1>1. IsFiniteSet(S)
  BY StoreBounds, FS_Union
<1>2. n \in Nat /\ ExistsBijection(1..n, S)
  BY <1>1, FS_CardinalityType
<1> HIDE DEF n, S
<1>3. PICK f \in Bijection(1..n, S) : TRUE
  BY <1>2 DEF ExistsBijection
<1>4. f \in [1..n -> S] /\ \A i \in S : \E k \in 1..n : f[k] = i
  BY <1>3 DEF Bijection, Surjection
<1> DEFINE g == [i \in S |-> CHOOSE k \in 1..n : f[k] = i]
<1>5. \A i \in S : g[i] \in 1..n /\ f[g[i]] = i
  BY <1>4
<1>6. g \in [S -> 1..n] /\ \A i, j \in S : g[i] = g[j] => i = j
  BY <1>5
<1>7. \E h \in [S -> 1..n] : \A i, j \in S : h[i] = h[j] => i = j
  BY <1>6
<1>. QED BY <1>0, <1>2, <1>7 DEF Provision!Token

FirstRecord(n, q) == [Provision!Absent EXCEPT !.present = TRUE, !.token = n, !.port = q]
FirstBundle(n, m) ==
  [Provision!Absent EXCEPT !.present = TRUE, !.token = n, !.mode = m, !.written = m,
                           !.members = Profiles]

LEMMA FirstRecords ==
  ASSUME NEW n \in Nat
  PROVE  /\ \A q \in Ports :
              /\ FirstRecord(n, q) \in StoreRecords /\ FirstRecord(n, q).token = n
              /\ FirstRecord(n, q).alias = NoAlias
         /\ \A m \in AllModes :
              /\ FirstBundle(n, m) \in StoreRecords /\ FirstBundle(n, m).token = n
              /\ FirstBundle(n, m).alias = NoAlias /\ FirstBundle(n, m).mode = m
              /\ FirstBundle(n, m).written = m /\ FirstBundle(n, m).members = Profiles
<1>1. PICK f \in BOOLEAN, v \in StoreRecords : f = TRUE /\ v = Provision!Absent /\ v.alias = NoAlias
  BY AbsentStored DEF Provision!Absent
<1>2. ASSUME NEW q \in Ports
      PROVE  /\ FirstRecord(n, q) \in StoreRecords /\ FirstRecord(n, q).token = n
             /\ FirstRecord(n, q).alias = NoAlias
  <2> DEFINE r == [v EXCEPT !.present = f, !.token = n, !.port = q]
  <2>1. r \in StoreRecords
    BY DEF StoreRecords
  <2>2. r.token = n /\ r.alias = NoAlias
    BY <1>1 DEF StoreRecords
  <2>. QED BY <1>1, <2>1, <2>2 DEF FirstRecord
<1>3. ASSUME NEW m \in AllModes
      PROVE  /\ FirstBundle(n, m) \in StoreRecords /\ FirstBundle(n, m).token = n
             /\ FirstBundle(n, m).alias = NoAlias /\ FirstBundle(n, m).mode = m
             /\ FirstBundle(n, m).written = m /\ FirstBundle(n, m).members = Profiles
  <2>1. PICK ms \in SUBSET Profiles, w \in Writings : ms = Profiles /\ w = m
    BY DEF Writings
  <2> DEFINE r == [v EXCEPT !.present = f, !.token = n, !.mode = m, !.written = w, !.members = ms]
  <2>2. r \in StoreRecords
    BY DEF StoreRecords
  <2>3. r.token = n /\ r.alias = NoAlias /\ r.mode = m /\ r.written = w /\ r.members = ms
    BY <1>1 DEF StoreRecords
  <2>. QED BY <1>1, <2>1, <2>2, <2>3 DEF FirstBundle
<1>. QED BY <1>2, <1>3

LEMMA FirstPresent ==
  ASSUME NEW n \in Nat, NEW q \in Ports PROVE FirstRecord(n, q).present
BY DEF FirstRecord, Provision!Absent

LEMMA StoreBegins ==
  ASSUME Provision!Init, \A b \in Bundles : store[b].mode = "single_select"
  PROVE  StoreInv
<1>0. /\ file = store /\ gone = {} /\ admin = {}
      /\ tokens = Provision!Cardinality(Provision!Ids) /\ FirstProfile \in Profiles
  <2>1. /\ file = store /\ gone = {} /\ admin = {}
        /\ tokens = Provision!Cardinality(Provision!Ids)
    BY Zenon DEF Provision!Init
  <2>. QED BY <2>1, StoreBounds
<1>1. PICK port \in [Profiles -> Ports], mode \in {"parallel", "single_select"} :
        store = [i \in Provision!Ids |-> IF i \in Profiles
                                        THEN FirstRecord(Provision!Token[i], port[i])
                                        ELSE FirstBundle(Provision!Token[i], mode)]
  BY DEF Provision!Init, FirstRecord, FirstBundle
<1>2. \A i \in Provision!Ids :
        Provision!Token[i] \in Nat /\ Provision!Token[i] <= tokens /\ tokens \in Nat
  BY <1>0, FirstTokens
<1>3. \A i \in Provision!Ids : (i \in Profiles \/ i \in Bundles) /\ (i \in Bundles => i \notin Profiles)
  BY StoreBounds DEF Provision!Ids
<1>4. ASSUME NEW i \in Provision!Ids
      PROVE  store[i] \in StoreRecords /\ store[i].token = Provision!Token[i] /\ store[i].alias = NoAlias
  <2>1. mode \in AllModes
    BY DEF AllModes
  <2>. QED BY <1>1, <1>2, <2>1, FirstRecords
<1>5. store \in Stores
  BY <1>1, <1>4 DEF Stores
<1>6. StoreTypes
  BY <1>0, <1>2, <1>4, <1>5, FirstTokens DEF StoreTypes
<1>7. UrlsOf(store, gone)
  BY <1>0, <1>4, FirstTokens DEF UrlsOf
<1>8. ASSUME NEW b \in Bundles, store[b].present PROVE Stands(store, store[b])
  <2>1. b \in Provision!Ids /\ b \notin Profiles /\ mode \in AllModes
    BY <1>3 DEF Provision!Ids, AllModes
  <2>2. store[b].members = Profiles /\ store[b].written = store[b].mode
    BY <1>1, <1>2, <2>1, FirstRecords
  <2>3. \A p \in Profiles : store[p].present
    BY <1>1, <1>2, FirstPresent DEF Provision!Ids
  <2>. QED BY <1>0, <2>2, <2>3 DEF Stands
<1>. QED BY <1>0, <1>6, <1>7, <1>8 DEF StoreInv, Sound

-----------------------------------------------------------------------------
(* Provisioning: the client.                                               *)

Urls == Aliases \X Nat
Items == Profiles \X StoreRecords
Docs == [source : Urls, mode : AllModes, items : SUBSET Items]
Clients == [url : Urls, doc : Docs, cache : Docs, selected : SUBSET Profiles]
Fetches ==
  [at : {"idle", "asked", "validate", "collect", "answer"}, url : Urls, mode : AllModes,
   ids : SUBSET Profiles, left : SUBSET Profiles, read : SUBSET Items]

(* A fetch is of the current URL or of one that was overtaken; it has read *)
(* or will read each of the Profiles it found.                             *)
FetchKept ==
  /\ fetch \in Fetches
  /\ fetch.at # "idle" => fetch.url \in {client.url} \cup overtaken
  /\ fetch.at \in {"validate", "collect", "answer"} =>
       /\ fetch.ids # {} /\ fetch.mode # ""
       /\ \A p \in fetch.ids : p \in fetch.left \/ p \in {item[1] : item \in fetch.read}

(* A document names Profiles; what is selected is of the document.         *)
Document(doc) ==
  doc # Provision!NoDoc => doc.mode # "" /\ Provision!Named(doc) # {}
Fits(doc, selected) ==
  doc # Provision!NoDoc =>
    /\ selected # {} /\ selected \subseteq Provision!Named(doc)
    /\ doc.mode # "parallel" => \E p \in Profiles : selected = {p}

ClientKept ==
  /\ client \in Clients /\ Document(client.doc) /\ Document(client.cache)
  /\ Fits(client.doc, client.selected) /\ Provision!OwnOrOvertaken

ClientInv == FetchKept /\ ClientKept

LEMMA NothingHeld ==
  /\ Provision!NoUrl \in Urls /\ Provision!NoDoc \in Docs /\ Provision!NoFetch \in Fetches
  /\ Provision!NoFetch.at = "idle"
  /\ Document(Provision!NoDoc) /\ \A selected : Fits(Provision!NoDoc, selected)
<1>1. Provision!NoUrl \in Urls
  BY StoreBounds DEF Provision!NoUrl, Urls
<1>2. "" \in AllModes /\ {} \in SUBSET Profiles /\ {} \in SUBSET Items
  BY DEF AllModes
<1>3. Provision!NoDoc \in Docs
  BY <1>1, <1>2 DEF Provision!NoDoc, Docs
<1>4. Provision!NoFetch \in Fetches /\ Provision!NoFetch.at = "idle"
  BY <1>1, <1>2 DEF Provision!NoFetch, Fetches
<1>. QED BY <1>1, <1>3, <1>4 DEF Document, Fits

LEMMA NamedOf ==
  ASSUME NEW doc \in Docs
  PROVE  Provision!Named(doc) \subseteq Profiles
BY DEF Docs, Provision!Named, Items

(* reconcileManagedSelectionLocked: a selection of the new document.       *)
LEMMA ReconciledFits ==
  ASSUME NEW doc \in Docs, Provision!Named(doc) # {}, NEW old,
         NEW selected \in Provision!Reconciled(doc, old)
  PROVE  selected \in SUBSET Profiles /\ Fits(doc, selected)
<1> DEFINE kept == old \cap Provision!Named(doc)
           base == IF kept = {} THEN Provision!Named(doc) ELSE kept
<1>1. base # {} /\ base \subseteq Provision!Named(doc) /\ Provision!Named(doc) \subseteq Profiles
  BY NamedOf
<1>2. selected \in IF doc.mode = "parallel" THEN {base} ELSE {{p} : p \in base}
  BY DEF Provision!Reconciled
<1> HIDE DEF base
<1>3. CASE doc.mode = "parallel"
  BY <1>1, <1>2, <1>3 DEF Fits
<1>4. CASE doc.mode # "parallel"
  <2>1. PICK p \in base : selected = {p}
    BY <1>2, <1>4
  <2>. QED BY <1>1, <1>4, <2>1 DEF Fits
<1>. QED BY <1>3, <1>4

(* What the client and a fetch become.                                     *)
Uses(c, doc, selected) == [c EXCEPT !.doc = doc, !.selected = selected]
Takes(c, doc, selected) == [c EXCEPT !.doc = doc, !.cache = doc, !.selected = selected]
FoundBundle(f, m, ids) == [f EXCEPT !.at = "validate", !.mode = m, !.ids = ids, !.left = ids]
FoundProfile(f, m, ids, read) == [f EXCEPT !.at = "answer", !.mode = m, !.ids = ids, !.read = read]
HasRead(f, left, read) == [f EXCEPT !.left = left, !.read = read]

LEMMA ClientFields ==
  ASSUME NEW c \in Clients, NEW doc \in Docs, NEW selected \in SUBSET Profiles
  PROVE  /\ Uses(c, doc, selected) \in Clients /\ Uses(c, doc, selected).url = c.url
         /\ Uses(c, doc, selected).doc = doc /\ Uses(c, doc, selected).cache = c.cache
         /\ Uses(c, doc, selected).selected = selected
<1>1. Uses(c, doc, selected) \in Clients
  BY DEF Clients, Uses
<1>2. /\ Uses(c, doc, selected).url = c.url
      /\ Uses(c, doc, selected).doc = doc /\ Uses(c, doc, selected).cache = c.cache
      /\ Uses(c, doc, selected).selected = selected
  BY DEF Clients, Uses
<1>. QED BY <1>1, <1>2

LEMMA ClientTakes ==
  ASSUME NEW c \in Clients, NEW doc \in Docs, NEW selected \in SUBSET Profiles
  PROVE  /\ Takes(c, doc, selected) \in Clients /\ Takes(c, doc, selected).url = c.url
         /\ Takes(c, doc, selected).doc = doc /\ Takes(c, doc, selected).cache = doc
         /\ Takes(c, doc, selected).selected = selected
<1>1. Takes(c, doc, selected) \in Clients
  BY DEF Clients, Takes
<1>2. /\ Takes(c, doc, selected).url = c.url
      /\ Takes(c, doc, selected).doc = doc /\ Takes(c, doc, selected).cache = doc
      /\ Takes(c, doc, selected).selected = selected
  BY DEF Clients, Takes
<1>. QED BY <1>1, <1>2

LEMMA ClientNew ==
  ASSUME NEW url \in Urls, NEW d, d = [Provision!NoClient EXCEPT !.url = url]
  PROVE  /\ d \in Clients /\ d.url = url /\ d.doc = Provision!NoDoc /\ d.cache = Provision!NoDoc
<1>1. d = [url |-> url, doc |-> Provision!NoDoc, cache |-> Provision!NoDoc, selected |-> {}]
  BY DEF Provision!NoClient
<1>2. PICK doc \in Docs, none \in SUBSET Profiles : doc = Provision!NoDoc /\ none = {}
  BY NothingHeld
<1> DEFINE c == [url |-> url, doc |-> doc, cache |-> doc, selected |-> none]
<1>3. c \in Clients
  BY DEF Clients
<1>4. c.url = url /\ c.doc = doc /\ c.cache = doc
  OBVIOUS
<1>. QED BY <1>1, <1>2, <1>3, <1>4

LEMMA ClientUnmoved ==
  ASSUME ClientInv, UNCHANGED <<client, overtaken>>,
         fetch' \in Fetches,
         fetch'.at # "idle" => fetch.at # "idle" /\ fetch'.url = fetch.url,
         fetch'.at \in {"validate", "collect", "answer"} =>
           /\ fetch'.ids # {} /\ fetch'.mode # ""
           /\ \A p \in fetch'.ids : p \in fetch'.left \/ p \in {item[1] : item \in fetch'.read}
  PROVE  ClientInv'
<1>1. FetchKept'
  BY DEF ClientInv, FetchKept
<1>2. ClientKept'
  BY DEF ClientInv, ClientKept, Provision!OwnOrOvertaken
<1>. QED BY <1>1, <1>2 DEF ClientInv

LEMMA FetchAsks == ClientInv /\ Provision!Sync => ClientInv'
<1> SUFFICES ASSUME ClientInv, Provision!Sync PROVE ClientInv'
  OBVIOUS
<1>0. client.url \in Urls
  BY DEF ClientInv, ClientKept, Clients
<1>1. /\ fetch' = [Provision!NoFetch EXCEPT !.at = "asked", !.url = client.url]
      /\ UNCHANGED <<client, overtaken>>
  BY DEF Provision!Sync
<1>2. fetch' = [at |-> "asked", url |-> client.url, mode |-> "", ids |-> {}, left |-> {}, read |-> {}]
  BY <1>1 DEF Provision!NoFetch
<1>3. PICK m \in AllModes, o \in SUBSET Profiles, r \in SUBSET Items :
        m = "" /\ o = {} /\ r = {}
  BY DEF AllModes
<1>4. fetch' = [at |-> "asked", url |-> client.url, mode |-> m, ids |-> o, left |-> o, read |-> r]
  BY <1>2, <1>3
<1>5. fetch' \in Fetches /\ fetch'.at = "asked" /\ fetch'.url = client.url
  BY <1>0, <1>4 DEF Fetches
<1>6. FetchKept'
  BY <1>0, <1>1, <1>5 DEF FetchKept
<1>7. ClientKept'
  BY <1>1 DEF ClientInv, ClientKept, Provision!OwnOrOvertaken
<1>. QED BY <1>6, <1>7 DEF ClientInv

LEMMA FoundBundleFields ==
  ASSUME NEW f \in Fetches, NEW m \in AllModes, NEW ids \in SUBSET Profiles
  PROVE  /\ FoundBundle(f, m, ids) \in Fetches /\ FoundBundle(f, m, ids).at = "validate"
         /\ FoundBundle(f, m, ids).url = f.url /\ FoundBundle(f, m, ids).mode = m
         /\ FoundBundle(f, m, ids).ids = ids /\ FoundBundle(f, m, ids).left = ids
<1>1. FoundBundle(f, m, ids) \in Fetches
  BY DEF Fetches, FoundBundle
<1>2. /\ FoundBundle(f, m, ids).at = "validate"
      /\ FoundBundle(f, m, ids).url = f.url /\ FoundBundle(f, m, ids).mode = m
      /\ FoundBundle(f, m, ids).ids = ids /\ FoundBundle(f, m, ids).left = ids
  BY DEF Fetches, FoundBundle
<1>. QED BY <1>1, <1>2

LEMMA FoundProfileFields ==
  ASSUME NEW f \in Fetches, NEW m \in AllModes, NEW ids \in SUBSET Profiles,
         NEW read \in SUBSET Items
  PROVE  /\ FoundProfile(f, m, ids, read) \in Fetches /\ FoundProfile(f, m, ids, read).at = "answer"
         /\ FoundProfile(f, m, ids, read).url = f.url /\ FoundProfile(f, m, ids, read).mode = m
         /\ FoundProfile(f, m, ids, read).ids = ids /\ FoundProfile(f, m, ids, read).read = read
<1>1. FoundProfile(f, m, ids, read) \in Fetches
  BY DEF Fetches, FoundProfile
<1>2. /\ FoundProfile(f, m, ids, read).at = "answer"
      /\ FoundProfile(f, m, ids, read).url = f.url /\ FoundProfile(f, m, ids, read).mode = m
      /\ FoundProfile(f, m, ids, read).ids = ids /\ FoundProfile(f, m, ids, read).read = read
  BY DEF Fetches, FoundProfile
<1>. QED BY <1>1, <1>2

LEMMA ReadFields ==
  ASSUME NEW f \in Fetches, NEW left \in SUBSET Profiles, NEW read \in SUBSET Items
  PROVE  /\ HasRead(f, left, read) \in Fetches /\ HasRead(f, left, read).at = f.at
         /\ HasRead(f, left, read).url = f.url /\ HasRead(f, left, read).mode = f.mode
         /\ HasRead(f, left, read).ids = f.ids
         /\ HasRead(f, left, read).left = left /\ HasRead(f, left, read).read = read
<1>1. HasRead(f, left, read) \in Fetches
  BY DEF Fetches, HasRead
<1>2. /\ HasRead(f, left, read).at = f.at
      /\ HasRead(f, left, read).url = f.url /\ HasRead(f, left, read).mode = f.mode
      /\ HasRead(f, left, read).ids = f.ids
      /\ HasRead(f, left, read).left = left /\ HasRead(f, left, read).read = read
  BY DEF Fetches, HasRead
<1>. QED BY <1>1, <1>2

LEMMA CollectFields ==
  ASSUME NEW f \in Fetches, NEW g,
         g = [f EXCEPT !.at = "collect", !.left = f.ids, !.read = {}]
  PROVE  /\ g \in Fetches /\ g.at = "collect" /\ g.url = f.url /\ g.mode = f.mode /\ g.ids = f.ids
         /\ g.left = f.ids
<1>1. PICK at \in {"idle", "asked", "validate", "collect", "answer"}, ids \in SUBSET Profiles,
           read \in SUBSET Items : at = "collect" /\ ids = f.ids /\ read = {}
  BY DEF Fetches
<1>2. g = [f EXCEPT !.at = at, !.left = ids, !.read = read]
  BY <1>1
<1>3. g \in Fetches
  BY <1>2 DEF Fetches
<1>4. g.at = at /\ g.url = f.url /\ g.mode = f.mode /\ g.ids = f.ids /\ g.left = ids
  BY <1>2 DEF Fetches
<1>. QED BY <1>1, <1>3, <1>4

LEMMA FetchFinds == StoreInv /\ ClientInv /\ Provision!Finds => ClientInv'
<1> SUFFICES ASSUME StoreInv, ClientInv, Provision!Finds PROVE ClientInv'
  OBVIOUS
<1>0. fetch \in Fetches /\ fetch.at = "asked" /\ UNCHANGED <<client, overtaken>>
  BY DEF ClientInv, FetchKept, Provision!Finds
<1>1. CASE fetch' = Provision!NoFetch
  BY <1>0, <1>1, NothingHeld, ClientUnmoved
<1>2. CASE \E b \in Provision!Found(fetch.url) \cap Bundles :
             fetch' = [fetch EXCEPT !.at = "validate", !.mode = store[b].mode,
                                    !.ids = store[b].members, !.left = store[b].members]
  <2>1. PICK b \in Provision!Found(fetch.url) \cap Bundles :
          fetch' = [fetch EXCEPT !.at = "validate", !.mode = store[b].mode,
                                 !.ids = store[b].members, !.left = store[b].members]
    BY <1>2
  <2>2. /\ store[b].present /\ Stands(store, store[b]) /\ store[b] \in StoreRecords
    BY DEF StoreInv, StoreTypes, Stores, Sound, Provision!Found, Provision!Ids
  <2>3. PICK m \in AllModes, ids \in SUBSET Profiles : m = store[b].mode /\ ids = store[b].members
    BY <2>2 DEF StoreRecords
  <2>4. m # "" /\ ids # {}
    BY <2>2, <2>3 DEF Stands
  <2>5. /\ fetch' \in Fetches /\ fetch'.at = "validate" /\ fetch'.url = fetch.url /\ fetch'.mode = m
        /\ fetch'.ids = ids /\ fetch'.left = ids
    <3>1. fetch' = FoundBundle(fetch, m, ids)
      BY <2>1, <2>3 DEF FoundBundle
    <3>. QED BY <1>0, <3>1, FoundBundleFields
  <2>. QED BY <1>0, <2>4, <2>5, ClientUnmoved
<1>3. CASE \E p \in Provision!Found(fetch.url) \cap Profiles :
             fetch' = [fetch EXCEPT !.at = "answer", !.mode = "profile",
                                    !.ids = {p}, !.read = {<<p, store[p]>>}]
  <2>1. PICK p \in Provision!Found(fetch.url) \cap Profiles :
             fetch' = [fetch EXCEPT !.at = "answer", !.mode = "profile",
                                    !.ids = {p}, !.read = {<<p, store[p]>>}]
    BY <1>3
  <2>2. store[p] \in StoreRecords
    BY DEF StoreInv, StoreTypes, Stores, Provision!Ids
  <2>3. PICK m \in AllModes, ids \in SUBSET Profiles, read \in SUBSET Items :
          m = "profile" /\ ids = {p} /\ read = {<<p, store[p]>>}
    <3>1. /\ {<<p, store[p]>>} \in SUBSET Items /\ {p} \in SUBSET Profiles
          /\ "profile" \in AllModes
      BY <2>2 DEF AllModes, Items
    <3>. QED BY <3>1
  <2>4. /\ fetch' \in Fetches /\ fetch'.at = "answer" /\ fetch'.url = fetch.url /\ fetch'.mode = m
        /\ fetch'.ids = ids /\ fetch'.read = read
    <3>1. fetch' = FoundProfile(fetch, m, ids, read)
      BY <2>1, <2>3 DEF FoundProfile
    <3>. QED BY <1>0, <3>1, FoundProfileFields
  <2>5. \A q \in ids : q \in {item[1] : item \in read}
    BY <2>3
  <2>. QED BY <1>0, <2>3, <2>4, <2>5, ClientUnmoved
<1>. QED BY <1>1, <1>2, <1>3 DEF Provision!Finds

LEMMA FetchReads == StoreInv /\ ClientInv /\ Provision!Reads => ClientInv'
<1> SUFFICES ASSUME StoreInv, ClientInv, Provision!Reads PROVE ClientInv'
  OBVIOUS
<1>0. /\ fetch \in Fetches /\ fetch.at \in {"validate", "collect"} /\ UNCHANGED <<client, overtaken>>
      /\ fetch.ids # {} /\ fetch.mode # ""
      /\ \A q \in fetch.ids : q \in fetch.left \/ q \in {item[1] : item \in fetch.read}
      /\ fetch.left \subseteq Profiles /\ fetch.read \subseteq Items
  BY DEF ClientInv, FetchKept, Provision!Reads, Fetches
<1>1. PICK p \in fetch.left :
        fetch' = [fetch EXCEPT !.left = fetch.left \ {p}, !.read = fetch.read \cup {<<p, store[p]>>}]
  BY DEF Provision!Reads
<1>2. p \in Profiles /\ store[p] \in StoreRecords
  BY <1>0 DEF StoreInv, StoreTypes, Stores, Provision!Ids
<1>3. PICK left \in SUBSET Profiles, read \in SUBSET Items :
        left = fetch.left \ {p} /\ read = fetch.read \cup {<<p, store[p]>>}
  <2>1. fetch.left \ {p} \in SUBSET Profiles
    BY <1>0
  <2>2. <<p, store[p]>> \in Items
    BY <1>2 DEF Items
  <2>3. fetch.read \cup {<<p, store[p]>>} \in SUBSET Items
    BY <1>0, <2>2
  <2>. QED BY <2>1, <2>3
<1>4. /\ fetch' \in Fetches /\ fetch'.at = fetch.at /\ fetch'.url = fetch.url
      /\ fetch'.mode = fetch.mode /\ fetch'.ids = fetch.ids /\ fetch'.left = left /\ fetch'.read = read
  <2>1. fetch' = HasRead(fetch, left, read)
    BY <1>1, <1>3 DEF HasRead
  <2>2. fetch \in Fetches
    BY <1>0
  <2>3. /\ HasRead(fetch, left, read) \in Fetches /\ HasRead(fetch, left, read).at = fetch.at
        /\ HasRead(fetch, left, read).url = fetch.url /\ HasRead(fetch, left, read).mode = fetch.mode
        /\ HasRead(fetch, left, read).ids = fetch.ids
        /\ HasRead(fetch, left, read).left = left /\ HasRead(fetch, left, read).read = read
    BY <2>2, ReadFields
  <2>. QED BY <2>1, <2>3
<1>5. \A q \in fetch.ids : q \in left \/ q \in {item[1] : item \in read}
  BY <1>0, <1>3
<1>. QED BY <1>0, <1>4, <1>5, ClientUnmoved

LEMMA FetchValidates == ClientInv /\ Provision!Validates => ClientInv'
<1> SUFFICES ASSUME ClientInv, Provision!Validates PROVE ClientInv'
  OBVIOUS
<1>0. /\ fetch \in Fetches /\ fetch.at = "validate" /\ UNCHANGED <<client, overtaken>>
      /\ fetch.ids # {} /\ fetch.mode # ""
  BY DEF ClientInv, FetchKept, Provision!Validates
<1>1. CASE fetch' = Provision!NoFetch
  BY <1>0, <1>1, NothingHeld, ClientUnmoved
<1>2. CASE fetch' = [fetch EXCEPT !.at = "collect", !.left = fetch.ids, !.read = {}]
  <2>1. /\ fetch' \in Fetches /\ fetch'.at = "collect" /\ fetch'.url = fetch.url
        /\ fetch'.mode = fetch.mode /\ fetch'.ids = fetch.ids /\ fetch'.left = fetch.ids
    BY <1>0, <1>2, CollectFields
  <2>. QED BY <1>0, <2>1, ClientUnmoved
<1>. QED BY <1>1, <1>2 DEF Provision!Validates

LEMMA FetchEnds ==
  ClientInv /\ (Provision!FetchLost \/ Provision!Restart) => ClientInv'
<1> SUFFICES ASSUME ClientInv, Provision!FetchLost \/ Provision!Restart PROVE ClientInv'
  OBVIOUS
<1>1. fetch' = Provision!NoFetch /\ UNCHANGED <<client, overtaken>>
  BY DEF Provision!FetchLost, Provision!Restart
<1>. QED BY <1>1, NothingHeld, ClientUnmoved

LEMMA DocumentHeard == ClientInv /\ Provision!Hears => ClientInv'
<1> SUFFICES ASSUME ClientInv, Provision!Hears PROVE ClientInv'
  OBVIOUS
<1> DEFINE heard == [source |-> fetch.url, mode |-> fetch.mode, items |-> fetch.read]
<1>0. /\ fetch \in Fetches /\ fetch.at \in {"collect", "answer"} /\ fetch' = Provision!NoFetch
      /\ fetch.left = {} /\ fetch.ids # {} /\ fetch.mode # ""
      /\ \A q \in fetch.ids : q \in {item[1] : item \in fetch.read}
      /\ client \in Clients /\ fetch.url \in {client.url} \cup overtaken
  BY DEF ClientInv, FetchKept, ClientKept, Provision!Hears
<1>1. CASE UNCHANGED <<client, overtaken>>
  BY <1>0, <1>1, NothingHeld, ClientUnmoved
<1>2. CASE /\ overtaken' = IF fetch.url = client.url THEN {} ELSE overtaken
           /\ \E selected \in Provision!Reconciled(heard, client.selected) :
                client' = [client EXCEPT !.doc = heard, !.cache = heard, !.selected = selected]
  <2>1. PICK doc \in Docs :
          /\ doc = heard /\ doc.source = fetch.url /\ doc.mode # "" /\ doc.items = fetch.read
    <3>1. fetch.url \in Urls /\ fetch.mode \in AllModes /\ fetch.read \in SUBSET Items
      BY <1>0 DEF Fetches
    <3>2. heard \in Docs
      BY <3>1 DEF Docs
    <3>3. heard.source = fetch.url /\ heard.mode = fetch.mode /\ heard.items = fetch.read
      OBVIOUS
    <3>. QED BY <1>0, <3>2, <3>3
  <2>2. Provision!Named(doc) # {}
    BY <1>0, <2>1 DEF Provision!Named
  <2>3. PICK selected \in Provision!Reconciled(doc, client.selected) :
          client' = [client EXCEPT !.doc = doc, !.cache = doc, !.selected = selected]
    BY <1>2, <2>1
  <2>4. selected \in SUBSET Profiles /\ Fits(doc, selected)
    BY <2>2, ReconciledFits
  <2>5. /\ client' \in Clients /\ client'.url = client.url /\ client'.doc = doc /\ client'.cache = doc
        /\ client'.selected = selected
    <3>1. client' = Takes(client, doc, selected)
      BY <2>3 DEF Takes
    <3>2. client \in Clients /\ selected \in SUBSET Profiles
      BY <1>0, <2>4
    <3>3. /\ Takes(client, doc, selected) \in Clients /\ Takes(client, doc, selected).url = client.url
          /\ Takes(client, doc, selected).doc = doc /\ Takes(client, doc, selected).cache = doc
          /\ Takes(client, doc, selected).selected = selected
      BY <3>2, ClientTakes
    <3>. QED BY <3>1, <3>3
  <2>6. Document(doc)
    BY <2>1, <2>2 DEF Document
  <2>7. ClientKept'
    BY <1>0, <1>2, <2>1, <2>4, <2>5, <2>6 DEF ClientKept, Provision!OwnOrOvertaken
  <2>8. FetchKept'
    BY <1>0, NothingHeld DEF FetchKept
  <2>. QED BY <2>7, <2>8 DEF ClientInv
<1>. QED BY <1>1, <1>2 DEF Provision!Hears

LEMMA UrlChanged ==
  ASSUME ClientInv, NEW url \in Urls, Provision!SetUrl(url)
  PROVE  ClientInv'
<1>0. /\ fetch \in Fetches /\ UNCHANGED fetch /\ client' = [Provision!NoClient EXCEPT !.url = url]
      /\ fetch.at # "idle" => overtaken' = {fetch.url}
  BY DEF ClientInv, FetchKept, Provision!SetUrl, Provision!WithUrl
<1>1. /\ client' \in Clients /\ client'.doc = Provision!NoDoc /\ client'.cache = Provision!NoDoc
  BY <1>0, ClientNew
<1>2. FetchKept'
  BY <1>0 DEF ClientInv, FetchKept
<1>3. ClientKept'
  BY <1>1, NothingHeld DEF ClientKept, Provision!OwnOrOvertaken
<1>. QED BY <1>2, <1>3 DEF ClientInv

LEMMA ClientSelects ==
  ASSUME ClientInv, NEW ids \in SUBSET Profiles, Provision!Select(ids)
  PROVE  ClientInv'
<1>0. /\ UNCHANGED <<fetch, overtaken>> /\ client \in Clients
      /\ client' = [client EXCEPT !.selected = ids] /\ ids \subseteq Provision!Named(client.doc)
      /\ ids # {} /\ client.doc.mode # "profile"
      /\ client.doc.mode = "single_select" => Provision!Cardinality(ids) = 1
      /\ client.doc \in Docs
  BY DEF ClientInv, ClientKept, Clients, Provision!Select
<1>1. client' \in Clients
  BY <1>0 DEF Clients
<1>2. /\ client'.url = client.url /\ client'.doc = client.doc /\ client'.cache = client.cache
      /\ client'.selected = ids
  BY <1>0 DEF Clients
<1>3. Fits(client.doc, ids)
  <2>1. client.doc # Provision!NoDoc => client.doc.mode # ""
    BY DEF ClientInv, ClientKept, Document
  <2>2. client.doc.mode \in AllModes
    BY <1>0 DEF Docs
  <2>3. ASSUME Provision!Cardinality(ids) = 1 PROVE \E p \in Profiles : ids = {p}
    <3>1. Cardinality(ids) = 1
      BY <2>3 DEF Provision!Cardinality, Cardinality
    <3>2. IsFiniteSet(ids)
      BY StoreBounds, FS_Subset
    <3>. QED BY <3>1, <3>2, FS_Singleton
  <2>. QED BY <1>0, <2>1, <2>2, <2>3 DEF Fits, AllModes
<1>4. ClientKept'
  BY <1>0, <1>1, <1>2, <1>3 DEF ClientInv, ClientKept, Provision!OwnOrOvertaken
<1>5. FetchKept'
  BY <1>0, <1>2 DEF ClientInv, FetchKept
<1>. QED BY <1>4, <1>5 DEF ClientInv

LEMMA ClientReopens == ClientInv /\ Provision!Reopen => ClientInv'
<1> SUFFICES ASSUME ClientInv, Provision!Reopen PROVE ClientInv'
  OBVIOUS
<1>0. /\ fetch' = Provision!NoFetch /\ client \in Clients
      /\ client.cache \in Docs /\ client.selected \in SUBSET Profiles /\ Document(client.cache)
  BY DEF ClientInv, ClientKept, Clients, Provision!Reopen
<1>1. FetchKept'
  BY <1>0, NothingHeld DEF FetchKept
<1>2. CASE Provision!CacheMatches
  <2>1. client.cache # Provision!NoDoc /\ client.cache.source = client.url
    BY <1>2 DEF Provision!CacheMatches
  <2>2. PICK selected \in Provision!Reconciled(client.cache, client.selected) :
          client' = [client EXCEPT !.doc = client.cache, !.selected = selected]
    BY <1>2 DEF Provision!Reopen
  <2>3. selected \in SUBSET Profiles /\ Fits(client.cache, selected)
    BY <1>0, <2>1, ReconciledFits DEF Document
  <2>4. PICK doc \in Docs : doc = client.cache
    BY <1>0
  <2>5. /\ client' \in Clients /\ client'.url = client.url /\ client'.doc = doc /\ client'.cache = doc
        /\ client'.selected = selected
    <3>1. client' = Uses(client, doc, selected)
      BY <2>2, <2>4 DEF Uses
    <3>. QED BY <1>0, <2>3, <2>4, <3>1, ClientFields
  <2>6. ClientKept'
    BY <1>0, <2>1, <2>3, <2>4, <2>5 DEF ClientKept, Provision!OwnOrOvertaken
  <2>. QED BY <1>1, <2>6 DEF ClientInv
<1>3. CASE ~Provision!CacheMatches
  <2>1. client' = [client EXCEPT !.doc = Provision!NoDoc]
    BY <1>3 DEF Provision!Reopen
  <2>2. PICK doc \in Docs : doc = Provision!NoDoc
    BY NothingHeld
  <2>3. client' \in Clients
    BY <1>0, <2>1, <2>2 DEF Clients
  <2>4. client'.doc = doc /\ client'.cache = client.cache
    BY <1>0, <2>1, <2>2 DEF Clients
  <2>5. ClientKept'
    BY <1>0, <2>2, <2>3, <2>4, NothingHeld DEF ClientKept, Provision!OwnOrOvertaken
  <2>. QED BY <1>1, <2>5 DEF ClientInv
<1>. QED BY <1>2, <1>3

LEMMA ClientStep == StoreInv /\ ClientInv /\ Provision!Next => ClientInv'
<1> SUFFICES ASSUME StoreInv, ClientInv, Provision!Next PROVE ClientInv'
  OBVIOUS
<1>1. CASE UNCHANGED Provision!clientVars
  <2>1. UNCHANGED <<fetch, client, overtaken>>
    BY <1>1 DEF Provision!clientVars
  <2>. QED BY <2>1 DEF ClientInv, FetchKept, ClientKept, Provision!OwnOrOvertaken
<1>2. CASE \/ Provision!Restart \/ Provision!Sync \/ Provision!Finds \/ Provision!Reads
           \/ Provision!Validates \/ Provision!Hears \/ Provision!FetchLost \/ Provision!Reopen
  BY <1>2, FetchAsks, FetchFinds, FetchReads, FetchValidates, FetchEnds, DocumentHeard, ClientReopens
<1>3. CASE \E url \in Urls : Provision!SetUrl(url)
  BY <1>3, UrlChanged
<1>4. CASE \E ids \in SUBSET Profiles : Provision!Select(ids)
  BY <1>4, ClientSelects
<1>5. ASSUME NEW i \in Provision!Present(store) PROVE Provision!Url(store[i]) \in Urls
  <2>1. store[i] \in StoreRecords
    BY DEF Provision!Present, StoreInv, StoreTypes, Stores
  <2>. QED BY <2>1 DEF Provision!Url, Urls, StoreRecords
<1>6. \/ UNCHANGED Provision!clientVars
      \/ Provision!Restart \/ Provision!Sync \/ Provision!Finds \/ Provision!Reads
      \/ Provision!Validates \/ Provision!Hears \/ Provision!FetchLost \/ Provision!Reopen
      \/ \E url \in Urls : Provision!SetUrl(url)
      \/ \E ids \in SUBSET Profiles : Provision!Select(ids)
  <2>1. ASSUME NEW p \in Profiles, NEW port, NEW alias,
               Provision!CreateProfile(p, port, alias) \/ Provision!UpdateProfile(p, port, alias)
        PROVE  UNCHANGED Provision!clientVars
    BY <2>1 DEF Provision!CreateProfile, Provision!UpdateProfile, Provision!Asks
  <2>2. ASSUME NEW b \in Bundles, NEW mode, NEW ids, NEW alias,
               \/ Provision!CreateBundle(b, mode, ids, alias)
               \/ Provision!UpdateBundle(b, mode, ids, alias)
        PROVE  UNCHANGED Provision!clientVars
    BY <2>2 DEF Provision!CreateBundle, Provision!UpdateBundle, Provision!Asks
  <2>3. ASSUME NEW i, Provision!Rotate(i) \/ Provision!DeleteBundle(i) \/ Provision!DeleteProfile(i)
        PROVE  UNCHANGED Provision!clientVars
    BY <2>3 DEF Provision!Rotate, Provision!DeleteBundle, Provision!DeleteProfile, Provision!Asks
  <2>4. ASSUME NEW x \in admin, Provision!Change(x) PROVE UNCHANGED Provision!clientVars
    BY <2>4 DEF Provision!Change
  <2>5. Provision!NoUrl \in Urls
    BY NothingHeld
  <2>. QED BY <1>5, <2>1, <2>2, <2>3, <2>4, <2>5 DEF Provision!Next
<1>. QED BY <1>1, <1>2, <1>3, <1>4, <1>6

LEMMA ClientBegins == StoreInv /\ Provision!Init => ClientInv
<1> SUFFICES ASSUME StoreInv, Provision!Init PROVE ClientInv
  OBVIOUS
<1>1. PICK url \in {Provision!NoUrl} \cup {Provision!Url(store[i]) : i \in Provision!Ids} :
        client = [Provision!NoClient EXCEPT !.url = url]
  BY DEF Provision!Init
<1>2. url \in Urls
  <2>1. ASSUME NEW i \in Provision!Ids PROVE Provision!Url(store[i]) \in Urls
    <3>1. store[i] \in StoreRecords
      BY DEF StoreInv, StoreTypes, Stores
    <3>. QED BY <3>1 DEF Provision!Url, Urls, StoreRecords
  <2>. QED BY <2>1, NothingHeld
<1>3. client \in Clients /\ client.doc = Provision!NoDoc /\ client.cache = Provision!NoDoc
  BY <1>1, <1>2, ClientNew
<1>4. fetch = Provision!NoFetch
  BY DEF Provision!Init
<1>. QED BY <1>3, <1>4, NothingHeld DEF ClientInv, FetchKept, ClientKept, Provision!OwnOrOvertaken

LEMMA StoreShows == StoreInv /\ ClientInv => StoreAgrees /\ ClientAgrees
<1> SUFFICES ASSUME StoreInv, ClientInv PROVE StoreAgrees /\ ClientAgrees
  OBVIOUS
<1>0. /\ StoreTypes /\ UrlsOf(store, gone) /\ Sound(store) /\ store \in Stores /\ file = store
      /\ tokens \in Nat /\ admin \subseteq Requests
  BY DEF StoreInv, StoreTypes
<1>1. \A i \in Provision!Ids :
        /\ store[i].token \in 0..tokens /\ store[i].port \in Ports \cup {0}
        /\ store[i].alias \in Aliases /\ store[i].members \subseteq Profiles
  BY <1>0 DEF StoreTypes, Stores, StoreRecords
<1>2. Provision!CheckedBundlesStand
  <2>1. \A b \in Bundles : store[b].members \subseteq Profiles
    BY <1>1 DEF Provision!Ids
  <2>. QED BY <1>0, <2>1 DEF Sound, Stands, Provision!CheckedBundlesStand, Provision!Present, Provision!Ids,
       Provision!DistinctPorts, Provision!PortOf
<1>3. Provision!WithdrawnUrlsStayDead
  BY <1>0 DEF UrlsOf, Provision!WithdrawnUrlsStayDead, Provision!Present
<1>4. Provision!SavedIsServed
  BY <1>0 DEF UrlsOf, Provision!SavedIsServed, Provision!Present
<1>5. \A x \in admin : x.kind \in {"create", "update", "delete"} /\ x.id \in Provision!Ids
  BY <1>0 DEF Requests
<1>6. /\ fetch.at \in {"idle", "asked", "validate", "collect", "answer"}
      /\ client.selected \subseteq Profiles /\ client \in Clients
  BY DEF ClientInv, FetchKept, ClientKept, Fetches, Clients
<1>7. Provision!TypeOK
  BY <1>1, <1>5, <1>6 DEF Provision!TypeOK
<1>8. Provision!OwnOrOvertaken /\ Fits(client.doc, client.selected)
  BY DEF ClientInv, ClientKept
<1>9. ASSUME NEW p \in Profiles PROVE Provision!Cardinality({p}) = 1
  <2>1. Cardinality({p}) = 1
    BY FS_Singleton
  <2>. QED BY <2>1 DEF Provision!Cardinality, Cardinality
<1>10. Provision!SelectionFits
  BY <1>8, <1>9 DEF Fits, Provision!SelectionFits
<1>. QED BY <1>2, <1>3, <1>4, <1>7, <1>8, <1>10 DEF StoreAgrees, ClientAgrees

LEMMA ProvisionKept == Spec => [](StoreInv /\ ClientInv)
<1>1. Init => StoreInv /\ ClientInv
  BY StoreBegins, ClientBegins DEF Init
<1>2. StoreInv /\ ClientInv /\ [Next]_vars => (StoreInv /\ ClientInv)'
  <2> SUFFICES ASSUME StoreInv, ClientInv, [Next]_vars PROVE (StoreInv /\ ClientInv)'
    OBVIOUS
  <2>1. CASE Provision!Next
    BY <2>1, StoreStep, ClientStep
  <2>2. CASE UNCHANGED provisionVars
    <3>1. UNCHANGED <<store, file, admin, tokens, gone, fetch, client, overtaken>>
      BY <2>2 DEF provisionVars
    <3>. QED BY <3>1 DEF StoreInv, StoreTypes, ClientInv, FetchKept, ClientKept, Provision!OwnOrOvertaken
  <2>. QED BY <2>1, <2>2 DEF Next, vars, OfDevice, OfEngine, OfBundle, OfManager, OfProvision
<1>. QED BY <1>1, <1>2, PTL DEF Spec

(* profileStore, bundleStore and mutationMu: whatever requests run at once *)
(* and whatever saves fail, every Bundle stands on Profiles that exist and *)
(* a parallel one on ports of their own, a URL that was withdrawn serves   *)
(* nothing ever again, and what is served is what is saved and can be      *)
(* loaded.                                                                 *)
THEOREM StoresKept == Spec => []StoreAgrees
<1>1. StoreInv /\ ClientInv => StoreAgrees
  BY StoreShows
<1>. QED BY <1>1, ProvisionKept, PTL

(* SyncProvisioning, SetProvisioningURL and the cache: the client uses a   *)
(* document of the URL it has, and what is selected to run is of that      *)
(* document, never empty, and one Profile when one is run at a time.       *)
THEOREM ClientKeepsItsDocument == Spec => []ClientAgrees
<1>1. StoreInv /\ ClientInv => ClientAgrees
  BY StoreShows
<1>. QED BY <1>1, ProvisionKept, PTL
-----------------------------------------------------------------------------
(* Landing: the files, and the changes of an operation.                    *)

(* The record of the earlier installation: one of the history, or of a     *)
(* binary that an upgrade found in the place of the program's.             *)
Earlier(r) == (r \cap (Versions \X Configs)) \cup ({Foreign} \X Configs) \cup {Nil}
Manifests(r) == [installed : BOOLEAN, bin : Versions, prev : Earlier(r)]
Data(n, r) ==
  CASE n \in {"bin", "backup"} -> Versions \cup {Nil, Foreign}
    [] n = "unit" -> {Nil, "text"}
    [] n = "manifest" -> Manifests(r) \cup {Nil}
    [] OTHER -> Configs \cup {Nil}
Contents(r) ==
  {f \in [Manager!Names -> UNION {Data(n, r) : n \in Manager!Names}] :
     \A n \in Manager!Names : f[n] \in Data(n, r)}
Edits(r) == UNION {[name : {n}, data : Data(n, r)] : n \in Manager!Names}
Restarts == {"config", "upgrade", "rollback"}
Changing == {"install", "uninstall"} \cup Restarts
Operations(r) ==
  [kind : {"none", "service"} \cup Changing,
   at : {"idle", "checked", "planned", "write", "undo", "undoThenAgain", "done", "failed"},
   plan : Seq(Edits(r)), todo : Seq(Edits(r)), saved : Contents(r) \cup {Nil}, active : BOOLEAN]

In(s) == {s[i] : i \in 1..Len(s)}
Working == {"write", "undo", "undoThenAgain"}
Installs(f) == f.manifest # Nil /\ f.manifest.installed

LandingTypes ==
  /\ faults \in Nat /\ crashed \in BOOLEAN /\ respawned \in BOOLEAN /\ slipped \in BOOLEAN
  /\ files \in Contents(ran) /\ op \in Operations(ran)
  /\ op.at \in Working \cup {"failed"} => op.saved \in Contents(ran)
  /\ op.at \in {"planned"} \cup Working => op.kind \in Changing
  /\ up.state \in {"off", "pending", "on"}
  /\ Manager!Owned => Manager!Pair \in ran

(* What an operation has checked still holds, but for the binary.          *)
CheckKept ==
  op.at \in {"checked", "planned"} =>
    /\ op.kind = "install" => ~Installs(files)
    /\ op.kind = "uninstall" => files.manifest # Nil
    /\ op.kind \in Restarts \cup {"service"} =>
         Manager!Owned \/ (slipped /\ Installs(files) /\ files.bin = Foreign)

(* A file is as it was found, or the operation changes it.                 *)
WriteKept ==
  /\ op.at \in {"planned", "write"} => In(op.todo) \subseteq In(op.plan)
  /\ op.at = "write" /\ faults = 0 =>
       \A n \in Manager!Names : files[n] = op.saved[n] \/ \E c \in In(op.plan) : c.name = n

(* A file is as it was found, or will be put back.                         *)
UndoKept ==
  /\ op.at \in {"undo", "undoThenAgain", "failed"} => faults >= 1
  /\ op.at \in {"undo", "undoThenAgain"} =>
       /\ \A c \in In(op.todo) :
            c.data = op.saved[c.name] /\ \E e \in In(op.plan) : e.name = c.name
       /\ faults <= 1 =>
            \A n \in Manager!Names : files[n] = op.saved[n] \/ \E c \in In(op.todo) : c.name = n
  /\ op.at = "failed" /\ faults <= 1 => files = op.saved

(* An operation that changes the binary has found one of the program, and  *)
(* puts one of the program in its place, whatever somebody puts there.     *)
ForeignKept ==
  /\ op.at = "checked" /\ ~slipped =>
       files.bin # Foreign \/ (op.kind = "uninstall" /\ ~Installs(files))
  /\ op.at \in {"planned"} \cup Working /\ (\E c \in In(op.plan) : c.name = "bin") =>
       /\ ~slipped => files.bin # Foreign
       /\ ~slipped /\ op.at # "planned" => op.saved.bin # Foreign
       /\ \A c \in In(op.plan) : c.name = "bin" => c.data # Foreign

(* The service runs only what is installed; until something fails it is    *)
(* what is installed now, or what an operation found.                      *)
SavedPair == <<op.saved.bin, op.saved.config>>
IdleService ==
  /\ op.at \notin Working /\ up.state # "off" => Installs(files)
  /\ faults = 0 => /\ up.state # "pending" /\ ~respawned
                   /\ op.at \notin Working /\ up.state = "on" => up.pair = Manager!Pair
  /\ op.at = "done" /\ up.state = "on" /\ ~respawned => up.pair = Manager!Pair
WrittenService ==
  op.at \in {"planned", "write"} =>
    /\ op.kind \in {"install", "uninstall"} => up.state = "off"
    /\ op.kind \in Restarts => Installs(files) /\ (op.at = "write" => Installs(op.saved))
    /\ op.kind = "install" => Installs(files) \/ \E c \in In(op.todo) : c.name = "manifest"
    /\ op.kind # "uninstall" =>
         \A c \in In(op.todo) : c.name = "manifest" => c.data # Nil /\ c.data.installed
    /\ up.state = "on" /\ ~respawned => op.active
    /\ faults = 0 /\ op.at = "write" /\ up.state = "on" => up.pair = SavedPair
UndoneService ==
  /\ op.at \in {"undo", "undoThenAgain", "failed"} => up.state # "pending"
  /\ op.at = "undo" /\ up.state = "on" => up.pair = SavedPair /\ Installs(op.saved)
  /\ op.at = "undoThenAgain" => Installs(op.saved)
  /\ op.at = "failed" /\ up.state = "on" => up.pair = Manager!Pair

LandingInv ==
  /\ LandingTypes /\ CheckKept /\ WriteKept /\ UndoKept /\ ForeignKept
  /\ faults <= 1 /\ ~crashed => IdleService /\ WrittenService /\ UndoneService

LEMMA LandingBounds ==
  /\ Nil \notin Versions /\ Nil \notin Configs /\ Foreign \notin Versions /\ Foreign # Nil
  /\ Nil \notin Versions \X Configs
  /\ Nil \notin [installed : BOOLEAN, bin : Versions,
                  prev : ((Versions \cup {Foreign}) \X Configs) \cup {Nil}]
BY OperationsAssumption

LEMMA FileNames ==
  Manager!Names = {"bin", "backup", "config", "configBak", "editBak", "unit", "manifest"}
BY DEF Manager!Names

LEMMA DataGrows ==
  ASSUME NEW r, NEW t, r \subseteq t
  PROVE  /\ \A n : Data(n, r) \subseteq Data(n, t)
         /\ Contents(r) \subseteq Contents(t) /\ Edits(r) \subseteq Edits(t)
         /\ Operations(r) \subseteq Operations(t)
<1>1. Manifests(r) \subseteq Manifests(t)
  BY DEF Manifests, Earlier
<1>2. \A n : Data(n, r) \subseteq Data(n, t)
  BY <1>1 DEF Data
<1>3. Contents(r) \subseteq Contents(t)
  BY <1>2 DEF Contents
<1>4. Edits(r) \subseteq Edits(t)
  <2> SUFFICES ASSUME NEW c \in Edits(r) PROVE c \in Edits(t)
    OBVIOUS
  <2>1. PICK n \in Manager!Names : c \in [name : {n}, data : Data(n, r)]
    BY DEF Edits
  <2>2. c \in [name : {n}, data : Data(n, t)]
    BY <1>2, <2>1
  <2>. QED BY <2>2 DEF Edits
<1>5. \A s \in Seq(Edits(r)) : s \in Seq(Edits(t))
  BY <1>4
<1>6. Operations(r) \subseteq Operations(t)
  BY <1>3, <1>5 DEF Operations
<1>. QED BY <1>2, <1>3, <1>4, <1>6

LEMMA EditFields ==
  ASSUME NEW r
  PROVE  /\ \A c \in Edits(r) : c.name \in Manager!Names /\ c.data \in Data(c.name, r)
         /\ \A n \in Manager!Names : \A d \in Data(n, r) :
              /\ Manager!Change(n, d) \in Edits(r)
              /\ Manager!Change(n, d).name = n /\ Manager!Change(n, d).data = d
<1>1. ASSUME NEW c \in Edits(r) PROVE c.name \in Manager!Names /\ c.data \in Data(c.name, r)
  <2>1. PICK n \in Manager!Names : c \in [name : {n}, data : Data(n, r)]
    BY DEF Edits
  <2>. QED BY <2>1
<1>2. ASSUME NEW n \in Manager!Names, NEW d \in Data(n, r)
      PROVE  /\ Manager!Change(n, d) \in Edits(r)
             /\ Manager!Change(n, d).name = n /\ Manager!Change(n, d).data = d
  <2>1. Manager!Change(n, d) \in [name : {n}, data : Data(n, r)]
    BY DEF Manager!Change
  <2>2. Manager!Change(n, d) \in Edits(r)
    BY <2>1 DEF Edits
  <2>. QED BY <2>2 DEF Manager!Change
<1>. QED BY <1>1, <1>2

LEMMA FileTypes ==
  ASSUME NEW r, NEW f \in Contents(r)
  PROVE  /\ \A n \in Manager!Names : f[n] \in Data(n, r)
         /\ f.bin \in Versions \cup {Nil, Foreign} /\ f.backup \in Versions \cup {Nil, Foreign}
         /\ f.config \in Configs \cup {Nil} /\ f.configBak \in Configs \cup {Nil}
         /\ f.editBak \in Configs \cup {Nil} /\ f.manifest \in Manifests(r) \cup {Nil}
         /\ f.manifest # Nil => f.manifest \in Manifests(r)
<1>1. \A n \in Manager!Names : f[n] \in Data(n, r)
  BY DEF Contents
<1>2. /\ f["bin"] \in Data("bin", r) /\ f["backup"] \in Data("backup", r)
      /\ f["config"] \in Data("config", r) /\ f["configBak"] \in Data("configBak", r)
      /\ f["editBak"] \in Data("editBak", r) /\ f["manifest"] \in Data("manifest", r)
  BY <1>1, FileNames
<1>. QED BY <1>1, <1>2 DEF Data

(* One change of a file.                                                   *)
PutIn(f, c) == [f EXCEPT ![c.name] = c.data]

LEMMA FileChanged ==
  ASSUME NEW r, NEW f \in Contents(r), NEW c \in Edits(r)
  PROVE  /\ PutIn(f, c) \in Contents(r) /\ PutIn(f, c)[c.name] = c.data
         /\ \A n \in Manager!Names : n # c.name => PutIn(f, c)[n] = f[n]
<1>1. c.name \in Manager!Names /\ c.data \in Data(c.name, r)
  BY EditFields
<1>2. f \in [Manager!Names -> UNION {Data(n, r) : n \in Manager!Names}]
  BY DEF Contents
<1>3. c.data \in UNION {Data(n, r) : n \in Manager!Names}
  BY <1>1
<1>4. [f EXCEPT ![c.name] = c.data] \in [Manager!Names -> UNION {Data(n, r) : n \in Manager!Names}]
  BY <1>2, <1>3
<1>5. /\ [f EXCEPT ![c.name] = c.data][c.name] = c.data
      /\ \A n \in Manager!Names : n # c.name => [f EXCEPT ![c.name] = c.data][n] = f[n]
  BY <1>1, <1>2
<1>6. \A n \in Manager!Names : [f EXCEPT ![c.name] = c.data][n] \in Data(n, r)
  BY <1>1, <1>5, FileTypes
<1>. QED BY <1>4, <1>5, <1>6 DEF Contents, PutIn

LEMMA SameFiles ==
  ASSUME NEW r, NEW f \in Contents(r), NEW g \in Contents(r), \A n \in Manager!Names : f[n] = g[n]
  PROVE  f = g
BY DEF Contents

(* What is in a list.                                                      *)
LEMMA InTail ==
  ASSUME NEW S, NEW s \in Seq(S), s # <<>>
  PROVE  /\ Head(s) \in S /\ Tail(s) \in Seq(S) /\ Head(s) \in In(s)
         /\ In(Tail(s)) \subseteq In(s) /\ \A c \in In(s) : c = Head(s) \/ c \in In(Tail(s))
<1>1. /\ Len(s) \in Nat /\ Len(s) >= 1 /\ Head(s) = s[1] /\ Tail(s) \in Seq(S)
      /\ Len(Tail(s)) = Len(s) - 1 /\ \A i \in 1..Len(s) - 1 : Tail(s)[i] = s[i + 1]
      /\ \A i \in 1..Len(s) : s[i] \in S
  OBVIOUS
<1>2. Head(s) \in S /\ Head(s) \in In(s)
  BY <1>1 DEF In
<1>3. In(Tail(s)) \subseteq In(s)
  BY <1>1 DEF In
<1>4. ASSUME NEW c \in In(s) PROVE c = Head(s) \/ c \in In(Tail(s))
  <2>1. PICK i \in 1..Len(s) : c = s[i]
    BY DEF In
  <2>2. CASE i # 1
    <3>1. i - 1 \in 1..Len(s) - 1 /\ Tail(s)[i - 1] = s[i]
      BY <1>1, <2>2
    <3>. QED BY <1>1, <2>1, <3>1 DEF In
  <2>. QED BY <1>1, <2>1, <2>2
<1>. QED BY <1>1, <1>2, <1>3, <1>4

LEMMA InNone == In(<<>>) = {}
BY DEF In

LEMMA InSeq ==
  ASSUME NEW S, NEW s \in Seq(S)
  PROVE  In(s) \subseteq S
BY DEF In

(* Undoing: every file of the plan is put back.                            *)
PutBack(plan, saved) ==
  Manager!Reverse([i \in DOMAIN plan |-> Manager!Change(plan[i].name, saved[plan[i].name])])

LEMMA PutsBack ==
  ASSUME NEW r, NEW plan \in Seq(Edits(r)), NEW saved \in Contents(r)
  PROVE  /\ PutBack(plan, saved) \in Seq(Edits(r))
         /\ \A c \in In(PutBack(plan, saved)) :
              c.data = saved[c.name] /\ \E e \in In(plan) : e.name = c.name
         /\ \A e \in In(plan) : \E c \in In(PutBack(plan, saved)) : c.name = e.name
<1> DEFINE there == [i \in DOMAIN plan |-> Manager!Change(plan[i].name, saved[plan[i].name])]
<1>1. Len(plan) \in Nat /\ DOMAIN plan = 1..Len(plan) /\ \A i \in 1..Len(plan) : plan[i] \in Edits(r)
  OBVIOUS
<1>2. \A i \in 1..Len(plan) :
        /\ there[i] \in Edits(r) /\ there[i].name = plan[i].name
        /\ there[i].data = saved[there[i].name]
  <2> SUFFICES ASSUME NEW i \in 1..Len(plan)
               PROVE  /\ there[i] \in Edits(r) /\ there[i].name = plan[i].name
                      /\ there[i].data = saved[there[i].name]
    OBVIOUS
  <2>1. plan[i].name \in Manager!Names
    BY <1>1, EditFields
  <2>2. PICK n \in Manager!Names : n = plan[i].name
    BY <2>1
  <2>5. PICK d \in Data(n, r) : d = saved[n]
    BY FileTypes
  <2>3. there[i] = Manager!Change(n, d)
    BY <1>1, <2>2, <2>5
  <2>. QED BY <2>2, <2>3, <2>5, EditFields
<1>3. there \in Seq(Edits(r)) /\ Len(there) = Len(plan)
  BY <1>1, <1>2
<1> HIDE DEF there
<1>4. /\ Manager!Reverse(there) \in Seq(Edits(r)) /\ Len(Manager!Reverse(there)) = Len(plan)
      /\ \A i \in 1..Len(plan) : Manager!Reverse(there)[i] = there[Len(plan) - i + 1]
  BY <1>1, <1>3 DEF Manager!Reverse
<1>5. \A i \in 1..Len(plan) : Len(plan) - i + 1 \in 1..Len(plan)
  BY <1>1
<1>6. \A c \in In(Manager!Reverse(there)) : \E i \in 1..Len(plan) : c = there[i]
  BY <1>4, <1>5 DEF In
<1>7. \A i \in 1..Len(plan) : there[i] \in In(Manager!Reverse(there))
  <2> SUFFICES ASSUME NEW i \in 1..Len(plan) PROVE there[i] \in In(Manager!Reverse(there))
    OBVIOUS
  <2>1. PICK j \in 1..Len(plan) : j = Len(plan) - i + 1
    BY <1>5
  <2>2. i = Len(plan) - j + 1
    BY <1>1, <2>1
  <2>. QED BY <1>4, <2>1, <2>2 DEF In
<1>8. \A c \in In(Manager!Reverse(there)) :
        c.data = saved[c.name] /\ \E e \in In(plan) : e.name = c.name
  <2> SUFFICES ASSUME NEW c \in In(Manager!Reverse(there))
               PROVE  c.data = saved[c.name] /\ \E e \in In(plan) : e.name = c.name
    OBVIOUS
  <2>1. PICK i \in 1..Len(plan) : c = there[i]
    BY <1>6
  <2>2. c.data = saved[c.name] /\ plan[i].name = c.name
    BY <1>2, <2>1
  <2>. QED BY <2>2 DEF In
<1>9. \A e \in In(plan) : \E c \in In(Manager!Reverse(there)) : c.name = e.name
  BY <1>2, <1>7 DEF In
<1>. QED BY <1>4, <1>8, <1>9 DEF PutBack, there

(* The steps of the record of the operation.                               *)
WithTodo(o, list) == [o EXCEPT !.todo = list]
WithAt(o, at) == [o EXCEPT !.at = at]
Turned(o, at, list) == [o EXCEPT !.at = at, !.todo = list]

LEMMA TodoFields ==
  ASSUME NEW r, NEW o \in Operations(r), NEW list \in Seq(Edits(r))
  PROVE  /\ WithTodo(o, list) \in Operations(r) /\ WithTodo(o, list).kind = o.kind
         /\ WithTodo(o, list).at = o.at /\ WithTodo(o, list).plan = o.plan
         /\ WithTodo(o, list).todo = list /\ WithTodo(o, list).saved = o.saved
         /\ WithTodo(o, list).active = o.active
<1>1. WithTodo(o, list) \in Operations(r)
  BY DEF Operations, WithTodo
<1>2. /\ WithTodo(o, list).kind = o.kind
      /\ WithTodo(o, list).at = o.at /\ WithTodo(o, list).plan = o.plan
      /\ WithTodo(o, list).todo = list /\ WithTodo(o, list).saved = o.saved
      /\ WithTodo(o, list).active = o.active
  BY DEF Operations, WithTodo
<1>. QED BY <1>1, <1>2

LEMMA AtFields ==
  ASSUME NEW r, NEW o \in Operations(r),
         NEW at \in {"idle", "checked", "planned", "write", "undo", "undoThenAgain", "done", "failed"}
  PROVE  /\ WithAt(o, at) \in Operations(r) /\ WithAt(o, at).kind = o.kind
         /\ WithAt(o, at).at = at /\ WithAt(o, at).plan = o.plan
         /\ WithAt(o, at).todo = o.todo /\ WithAt(o, at).saved = o.saved
         /\ WithAt(o, at).active = o.active
<1>1. WithAt(o, at) \in Operations(r)
  BY DEF Operations, WithAt
<1>2. /\ WithAt(o, at).kind = o.kind
      /\ WithAt(o, at).at = at /\ WithAt(o, at).plan = o.plan
      /\ WithAt(o, at).todo = o.todo /\ WithAt(o, at).saved = o.saved
      /\ WithAt(o, at).active = o.active
  BY DEF Operations, WithAt
<1>. QED BY <1>1, <1>2

LEMMA TurnedFields ==
  ASSUME NEW r, NEW o \in Operations(r), NEW at \in {"undo", "undoThenAgain"},
         NEW list \in Seq(Edits(r))
  PROVE  /\ Turned(o, at, list) \in Operations(r) /\ Turned(o, at, list).kind = o.kind
         /\ Turned(o, at, list).at = at /\ Turned(o, at, list).plan = o.plan
         /\ Turned(o, at, list).todo = list /\ Turned(o, at, list).saved = o.saved
<1>1. Turned(o, at, list) \in Operations(r)
  BY DEF Operations, Turned
<1>2. /\ Turned(o, at, list).kind = o.kind
      /\ Turned(o, at, list).at = at /\ Turned(o, at, list).plan = o.plan
      /\ Turned(o, at, list).todo = list /\ Turned(o, at, list).saved = o.saved
  BY DEF Operations, Turned
<1>. QED BY <1>1, <1>2

LEMMA Idles ==
  /\ \A r : Manager!NoOp \in Operations(r)
  /\ Manager!NoOp.at = "idle" /\ [Manager!NoOp EXCEPT !.at = "idle"] = Manager!NoOp
<1>1. ASSUME NEW r PROVE Manager!NoOp \in Operations(r)
  <2>1. <<>> \in Seq(Edits(r))
    OBVIOUS
  <2>. QED BY <2>1 DEF Manager!NoOp, Operations
<1>2. Manager!NoOp.at = "idle"
  BY DEF Manager!NoOp
<1>3. ASSUME NEW o \in Operations({}), o.at = "idle" PROVE [o EXCEPT !.at = "idle"] = o
  BY <1>3 DEF Operations
<1>4. [Manager!NoOp EXCEPT !.at = "idle"] = Manager!NoOp
  BY <1>1, <1>2, <1>3
<1>. QED BY <1>1, <1>2, <1>4

LEMMA InstallsAre ==
  ASSUME files \in Contents(ran)
  PROVE  /\ Manager!Installed <=> Installs(files)
         /\ Manager!Owned => /\ Installs(files) /\ files.bin = files.manifest.bin
                             /\ files.bin \in Versions /\ files.unit # Nil
         /\ Manager!Owned /\ files.config # Nil => Manager!Pair \in Versions \X Configs
<1>1. Manager!Installed <=> Installs(files)
  BY DEF Manager!Installed, Installs
<1>2. files.manifest # Nil => files.manifest.bin \in Versions
  BY FileTypes DEF Manifests
<1>3. files.config \in Configs \cup {Nil}
  BY FileTypes
<1>4. Manager!Owned => /\ Installs(files) /\ files.bin = files.manifest.bin
                       /\ files.bin \in Versions /\ files.unit # Nil
  BY <1>1, <1>2 DEF Manager!Owned, Installs
<1>. QED BY <1>1, <1>3, <1>4 DEF Manager!Pair

LEMMA RestartsAre == Manager!Restarting = Restarts
BY DEF Manager!Restarting, Restarts

(* An operation begins: what it has found of the files.                    *)
LEMMA ChecksStep ==
  ASSUME LandingInv, NEW kind \in {"service"} \cup Changing, NEW accepted \in BOOLEAN,
         Manager!Checks(kind, accepted),
         kind = "install" => ~Installs(files) /\ files.bin # Foreign,
         kind \in Restarts \cup {"service"} => Manager!Owned,
         kind = "uninstall" => files.manifest # Nil /\ (Installs(files) => Manager!Owned)
  PROVE  LandingInv'
<1>1. /\ LandingTypes /\ faults \in Nat /\ files \in Contents(ran) /\ op \in Operations(ran)
      /\ Manager!Idle /\ UNCHANGED <<files, up, ran, crashed, faults>>
      /\ respawned' = FALSE /\ slipped' = FALSE
      /\ op' = [Manager!NoOp EXCEPT !.kind = kind, !.at = "checked"]
      /\ faults <= 1 /\ ~crashed => IdleService
  BY DEF LandingInv, LandingTypes, Manager!Checks
<1>2. op' = [kind |-> kind, at |-> "checked", plan |-> <<>>, todo |-> <<>>, saved |-> Nil, active |-> FALSE]
  BY <1>1 DEF Manager!NoOp
<1>3. op' \in Operations(ran)
  <2>1. <<>> \in Seq(Edits(ran))
    OBVIOUS
  <2>. QED BY <1>2, <2>1 DEF Operations
<1>4. op'.kind = kind /\ op'.at = "checked"
  BY <1>2
<1>5. op.at \notin Working
  BY <1>1 DEF Manager!Idle, Working
<1>6. LandingTypes'
  BY <1>1, <1>3, <1>4 DEF LandingTypes, Working, Manager!Owned, Manager!Installed, Manager!Pair
<1>7. CheckKept'
  <2>1. Installs(files)' = Installs(files) /\ Manager!Owned' = Manager!Owned
    BY <1>1 DEF Installs, Manager!Owned, Manager!Installed
  <2>. QED BY <1>1, <1>4, <2>1 DEF CheckKept, Restarts
<1>8. WriteKept' /\ UndoKept'
  BY <1>4 DEF WriteKept, UndoKept
<1>9. ForeignKept'
  <2>1. Manager!Owned => files.bin # Foreign
    BY <1>1, InstallsAre, LandingBounds
  <2>2. files.bin # Foreign \/ (kind = "uninstall" /\ ~Installs(files))
    BY <2>1 DEF Changing
  <2>3. Installs(files)' = Installs(files)
    BY <1>1 DEF Installs
  <2>. QED BY <1>1, <1>4, <2>2, <2>3 DEF ForeignKept, Working
<1>10. ASSUME faults <= 1, ~crashed PROVE IdleService' /\ WrittenService' /\ UndoneService'
  <2>1. Installs(files)' = Installs(files) /\ Manager!Pair' = Manager!Pair
    BY <1>1 DEF Installs, Manager!Pair
  <2>2. IdleService'
    BY <1>1, <1>4, <1>5, <1>10, <2>1 DEF IdleService
  <2>. QED BY <1>4, <2>2 DEF WrittenService, UndoneService
<1>. QED BY <1>1, <1>6, <1>7, <1>8, <1>9, <1>10 DEF LandingInv

LEMMA BeginStep ==
  ASSUME LandingInv, Manager!Begin
  PROVE  LandingInv'
<1>1. files \in Contents(ran) /\ (Manager!Installed <=> Installs(files))
  BY InstallsAre DEF LandingInv, LandingTypes
<1>2. CASE Manager!Checks("install", Manager!Vacant)
  <2>1. ~Installs(files) /\ files.bin # Foreign /\ Manager!Vacant
    BY <1>1, <1>2, LandingBounds DEF Manager!Checks, Manager!Vacant
  <2>2. PICK k \in {"service"} \cup Changing : k = "install"
    BY DEF Changing
  <2>3. PICK b \in BOOLEAN : b = Manager!Vacant
    BY <2>1
  <2>. QED BY <1>2, <2>1, <2>2, <2>3, ChecksStep DEF Restarts
<1>3. ASSUME NEW kind \in Restarts \cup {"service"}, Manager!Checks(kind, Manager!Owned)
      PROVE  LandingInv'
  <2>1. Manager!Owned
    BY <1>3 DEF Manager!Checks
  <2>2. kind \in {"service"} \cup Changing
    BY DEF Changing
  <2>3. PICK b \in BOOLEAN : b = Manager!Owned
    BY <2>1
  <2>. QED BY <1>3, <2>1, <2>2, <2>3, ChecksStep DEF Restarts
<1>4. CASE Manager!Checks("uninstall",
             files.manifest # Nil /\ (Manager!Installed => Manager!Owned))
  <2>1. files.manifest # Nil /\ (Installs(files) => Manager!Owned)
    BY <1>1, <1>4 DEF Manager!Checks
  <2>2. PICK k \in {"service"} \cup Changing : k = "uninstall"
    BY DEF Changing
  <2>3. PICK b \in BOOLEAN : b = (files.manifest # Nil /\ (Manager!Installed => Manager!Owned))
    BY <1>1, <2>1
  <2>. QED BY <1>4, <2>1, <2>2, <2>3, ChecksStep DEF Restarts
<1>. QED BY <1>2, <1>3, <1>4, RestartsAre DEF Manager!Begin

(* It has decided on its changes.                                          *)
LEMMA Plans ==
  ASSUME LandingInv, NEW kind \in Changing, NEW list \in Seq(Edits(ran)),
         Manager!Goes(kind), Manager!Plan(list),
         up' = up \/ (kind = "uninstall" /\ up' = Manager!Off),
         (\E c \in In(list) : c.name = "bin") => slipped \/ files.bin # Foreign,
         \A c \in In(list) : c.name = "bin" => c.data # Foreign,
         kind = "install" => \E c \in In(list) : c.name = "manifest",
         kind = "uninstall" => up' = Manager!Off \/ ~Installs(files),
         kind # "uninstall" =>
           \A c \in In(list) : c.name = "manifest" => c.data # Nil /\ c.data.installed
  PROVE  LandingInv'
<1>0. /\ LandingTypes /\ CheckKept /\ faults \in Nat /\ files \in Contents(ran)
      /\ op \in Operations(ran) /\ slipped \in BOOLEAN
      /\ faults <= 1 /\ ~crashed => IdleService
      /\ up.state \in {"off", "pending", "on"}
      /\ op.at = "checked" /\ op.kind = kind
      /\ UNCHANGED <<files, ran, crashed, respawned, slipped, faults>>
  BY DEF LandingInv, LandingTypes, Manager!Goes
<1>1. PICK a \in BOOLEAN : a = (up.state = "on")
  OBVIOUS
<1>2. op' = [op EXCEPT !.at = "planned", !.plan = list, !.todo = list, !.active = a]
  BY <1>1 DEF Manager!Plan
<1>3. op' \in Operations(ran)
  BY <1>0, <1>2 DEF Operations
<1>4. /\ op'.kind = kind /\ op'.at = "planned" /\ op'.plan = list /\ op'.todo = list
      /\ op'.active = a
  BY <1>0, <1>2 DEF Operations
<1>5. Manager!Off.state = "off" /\ op.at \notin Working
  BY <1>0 DEF Manager!Off, Working
<1>6. up'.state \in {"off", "pending", "on"} /\ (up'.state # "off" => up' = up)
  BY <1>0, <1>5
<1>7. LandingTypes'
  BY <1>0, <1>3, <1>4, <1>6 DEF LandingTypes, Working, Manager!Owned, Manager!Installed, Manager!Pair
<1>8. CheckKept'
  <2>1. Installs(files)' = Installs(files) /\ Manager!Owned' = Manager!Owned
    BY <1>0 DEF Installs, Manager!Owned, Manager!Installed
  <2>. QED BY <1>0, <1>4, <2>1 DEF CheckKept
<1>9. WriteKept' /\ UndoKept'
  BY <1>4 DEF WriteKept, UndoKept
<1>10. ForeignKept'
  BY <1>0, <1>4 DEF ForeignKept, Working
<1>11. ASSUME faults <= 1, ~crashed PROVE IdleService' /\ WrittenService' /\ UndoneService'
  <2>1. /\ Installs(files)' = Installs(files) /\ Manager!Pair' = Manager!Pair
        /\ IdleService /\ (up.state # "off" => Installs(files))
    BY <1>0, <1>5, <1>11 DEF Installs, Manager!Pair, IdleService
  <2>2. IdleService'
    BY <1>0, <1>4, <1>5, <1>6, <2>1 DEF IdleService
  <2>3. kind \in {"install", "uninstall"} => up'.state = "off"
    BY <1>0, <1>5, <1>6, <2>1 DEF CheckKept
  <2>4. kind \in Restarts => Installs(files)
    BY <1>0, InstallsAre DEF CheckKept
  <2>5. up'.state = "on" => a
    BY <1>1, <1>6
  <2>6. WrittenService'
    BY <1>0, <1>4, <2>1, <2>3, <2>4, <2>5 DEF WrittenService
  <2>. QED BY <1>4, <2>2, <2>6 DEF UndoneService
<1>. QED BY <1>0, <1>7, <1>8, <1>9, <1>10, <1>11 DEF LandingInv

(* The transaction begins: it reads what it will change.                   *)
LEMMA SnapshotStep ==
  ASSUME LandingInv, Manager!Snapshot
  PROVE  LandingInv'
<1>1. /\ LandingTypes /\ WriteKept /\ ForeignKept /\ CheckKept
      /\ files \in Contents(ran) /\ op \in Operations(ran) /\ op.at = "planned"
      /\ op.kind \in Changing
      /\ UNCHANGED <<files, up, ran, crashed, respawned, slipped, faults>>
      /\ op' = [op EXCEPT !.at = "write", !.saved = files]
  BY DEF LandingInv, LandingTypes, Manager!Snapshot
<1>2. op' \in Operations(ran)
  BY <1>1 DEF Operations
<1>3. /\ op'.kind = op.kind /\ op'.at = "write" /\ op'.plan = op.plan /\ op'.todo = op.todo
      /\ op'.saved = files /\ op'.active = op.active
  BY <1>1 DEF Operations
<1>4. LandingTypes'
  BY <1>1, <1>2, <1>3 DEF LandingTypes, Manager!Owned, Manager!Installed, Manager!Pair
<1>5. CheckKept' /\ WriteKept' /\ UndoKept'
  BY <1>1, <1>3 DEF CheckKept, WriteKept, UndoKept
<1>6. ForeignKept'
  BY <1>1, <1>3 DEF ForeignKept, Working
<1>7. ASSUME faults <= 1, ~crashed PROVE IdleService' /\ WrittenService' /\ UndoneService'
  <2>1. IdleService /\ WrittenService
    BY <1>7 DEF LandingInv
  <2>2. /\ Installs(files)' = Installs(files) /\ Installs(op.saved)' = Installs(files)
        /\ SavedPair' = Manager!Pair
    BY <1>1, <1>3 DEF Installs, SavedPair, Manager!Pair
  <2>3. IdleService'
    BY <1>1, <1>3, <2>1 DEF IdleService, Working
  <2>4. WrittenService'
    BY <1>1, <1>3, <2>1, <2>2 DEF WrittenService, IdleService, Working
  <2>. QED BY <1>3, <2>3, <2>4 DEF UndoneService
<1>. QED BY <1>1, <1>4, <1>5, <1>6, <1>7 DEF LandingInv

LEMMA InLists ==
  /\ \A a, b : In(<<a, b>>) = {a, b}
  /\ \A a, b, c : In(<<a, b, c>>) = {a, b, c}
  /\ \A a, b, c, d : In(<<a, b, c, d>>) = {a, b, c, d}
  /\ \A a, b, c, d, e : In(<<a, b, c, d, e>>) = {a, b, c, d, e}
  /\ \A a : In(<<a>>) = {a}
<1>1. \A a, b : In(<<a, b>>) = {a, b}
  BY DEF In
<1>2. \A a, b, c : In(<<a, b, c>>) = {a, b, c}
  BY DEF In
<1>3. \A a, b, c, d : In(<<a, b, c, d>>) = {a, b, c, d}
  BY DEF In
<1>4. \A a, b, c, d, e : In(<<a, b, c, d, e>>) = {a, b, c, d, e}
  BY DEF In
<1>5. \A a : In(<<a>>) = {a}
  BY DEF In
<1>. QED BY <1>1, <1>2, <1>3, <1>4, <1>5

(* Lists of changes.                                                       *)
LEMMA OneEdits ==
  ASSUME NEW S, NEW a \in S
  PROVE  <<a>> \in Seq(S)
OBVIOUS

LEMMA TwoEdits ==
  ASSUME NEW S, NEW a \in S, NEW b \in S
  PROVE  <<a, b>> \in Seq(S)
OBVIOUS

LEMMA ThreeEdits ==
  ASSUME NEW S, NEW a \in S, NEW b \in S, NEW c \in S
  PROVE  <<a, b, c>> \in Seq(S)
OBVIOUS

LEMMA FourEdits ==
  ASSUME NEW S, NEW a \in S, NEW b \in S, NEW c \in S, NEW d \in S
  PROVE  <<a, b, c, d>> \in Seq(S)
OBVIOUS

LEMMA FiveEdits ==
  ASSUME NEW S, NEW a \in S, NEW b \in S, NEW c \in S, NEW d \in S, NEW e \in S
  PROVE  <<a, b, c, d, e>> \in Seq(S)
OBVIOUS

LEMMA InBoth ==
  ASSUME NEW S, NEW s \in Seq(S), NEW t \in Seq(S)
  PROVE  s \o t \in Seq(S) /\ In(s \o t) \subseteq In(s) \cup In(t)
<1>1. /\ s \o t \in Seq(S) /\ Len(s \o t) = Len(s) + Len(t) /\ Len(s) \in Nat /\ Len(t) \in Nat
      /\ \A i \in 1..Len(s) + Len(t) :
           (s \o t)[i] = IF i <= Len(s) THEN s[i] ELSE t[i - Len(s)]
  OBVIOUS
<1>2. ASSUME NEW c \in In(s \o t) PROVE c \in In(s) \cup In(t)
  <2>1. PICK i \in 1..Len(s) + Len(t) : c = (s \o t)[i]
    BY <1>1 DEF In
  <2>2. CASE i <= Len(s)
    BY <1>1, <2>1, <2>2 DEF In
  <2>3. CASE i > Len(s)
    <3>1. i - Len(s) \in 1..Len(t) /\ c = t[i - Len(s)]
      BY <1>1, <2>1, <2>3
    <3>. QED BY <3>1 DEF In
  <2>. QED BY <1>1, <2>2, <2>3
<1>. QED BY <1>1, <1>2

LEMMA OneEdit ==
  ASSUME NEW r, NEW n \in Manager!Names, NEW d \in Data(n, r)
  PROVE  /\ Manager!Change(n, d) \in Edits(r)
         /\ Manager!Change(n, d).name = n /\ Manager!Change(n, d).data = d
BY EditFields

LEMMA Records ==
  ASSUME NEW r, NEW v \in Versions, NEW prev \in Earlier(r)
  PROVE  /\ Manager!Manifest(TRUE, v, prev) \in Data("manifest", r)
         /\ Manager!Manifest(TRUE, v, prev) # Nil
         /\ Manager!Manifest(TRUE, v, prev).installed
<1>1. Manager!Manifest(TRUE, v, prev) \in Manifests(r)
  BY DEF Manager!Manifest, Manifests
<1>2. prev \in ((Versions \cup {Foreign}) \X Configs) \cup {Nil}
  BY DEF Earlier
<1>3. Manager!Manifest(TRUE, v, prev) # Nil
  <2>1. Manager!Manifest(TRUE, v, prev) \in
          [installed : BOOLEAN, bin : Versions,
           prev : ((Versions \cup {Foreign}) \X Configs) \cup {Nil}]
    BY <1>2 DEF Manager!Manifest
  <2>. QED BY <2>1, LandingBounds
<1>4. Manager!Manifest(TRUE, v, prev).installed
  BY DEF Manager!Manifest
<1>. QED BY <1>1, <1>3, <1>4 DEF Data

(* Where a file may be written.                                            *)
LEMMA DataOf ==
  ASSUME NEW r
  PROVE  /\ Data("bin", r) = Versions \cup {Nil, Foreign}
         /\ Data("backup", r) = Versions \cup {Nil, Foreign}
         /\ Data("unit", r) = {Nil, "text"}
         /\ Data("manifest", r) = Manifests(r) \cup {Nil}
         /\ Data("config", r) = Configs \cup {Nil} /\ Data("configBak", r) = Configs \cup {Nil}
         /\ Data("editBak", r) = Configs \cup {Nil}
BY DEF Data

LEMMA InstallStep ==
  ASSUME LandingInv, NEW v \in Versions, NEW c \in Configs, Manager!Install(v, c)
  PROVE  LandingInv'
<1>1. Manager!Goes("install") /\ up' = up /\ op.at = "checked" /\ op.kind = "install"
  BY DEF Manager!Install, Manager!Goes
<1>2. ~slipped => files.bin # Foreign
  BY <1>1 DEF LandingInv, ForeignKept
<1>3. PICK m \in Data("manifest", ran) :
        m = Manager!Manifest(TRUE, v, Nil) /\ m # Nil /\ m.installed
  BY Records DEF Earlier
<1>4. PICK e1, e2, e3, e4 :
        /\ e1 = Manager!Change("bin", v) /\ e2 = Manager!Change("config", c)
        /\ e3 = Manager!Change("unit", "text") /\ e4 = Manager!Change("manifest", m)
  OBVIOUS
<1>5. /\ e1 \in Edits(ran) /\ e2 \in Edits(ran) /\ e3 \in Edits(ran) /\ e4 \in Edits(ran)
      /\ e1.name = "bin" /\ e1.data = v /\ e2.name = "config" /\ e3.name = "unit"
      /\ e4.name = "manifest" /\ e4.data = m
  <2>1. e1 \in Edits(ran) /\ e1.name = "bin" /\ e1.data = v
    BY <1>4, FileNames, DataOf, OneEdit
  <2>2. e2 \in Edits(ran) /\ e2.name = "config"
    BY <1>4, FileNames, DataOf, OneEdit
  <2>3. e3 \in Edits(ran) /\ e3.name = "unit"
    BY <1>4, FileNames, DataOf, OneEdit
  <2>4. e4 \in Edits(ran) /\ e4.name = "manifest" /\ e4.data = m
    BY <1>4, FileNames, OneEdit
  <2>. QED BY <2>1, <2>2, <2>3, <2>4
<1>6. PICK list \in Seq(Edits(ran)) : list = <<e1, e2, e3, e4>>
  <2>1. e1 \in Edits(ran) /\ e2 \in Edits(ran) /\ e3 \in Edits(ran) /\ e4 \in Edits(ran)
    BY <1>5
  <2>2. <<e1, e2, e3, e4>> \in Seq(Edits(ran))
    BY <2>1, FourEdits
  <2>. QED BY <2>2
<1>7. In(list) = {e1, e2, e3, e4}
  BY <1>6, InLists
<1>8. Manager!Plan(list)
  BY <1>3, <1>4, <1>6 DEF Manager!Install
<1>9. PICK kind \in Changing : kind = "install"
  BY DEF Changing
<1>10. \A e \in In(list) : e.name = "bin" => e.data # Foreign
  BY <1>5, <1>7, LandingBounds
<1>11. \E e \in In(list) : e.name = "manifest"
  BY <1>5, <1>7
<1>12. \A e \in In(list) : e.name = "manifest" => e.data # Nil /\ e.data.installed
  BY <1>3, <1>5, <1>7
<1>. QED BY <1>1, <1>2, <1>8, <1>9, <1>10, <1>11, <1>12, Plans

LEMMA SetConfigStep ==
  ASSUME LandingInv, NEW c \in Configs, Manager!SetConfig(c)
  PROVE  LandingInv'
<1>1. Manager!Goes("config") /\ up' = up
  BY DEF Manager!SetConfig
<1>2. files \in Contents(ran)
  BY DEF LandingInv, LandingTypes
<1>3. PICK e1, e2 :
        e1 = Manager!Change("editBak", files.config) /\ e2 = Manager!Change("config", c)
  OBVIOUS
<1>4. files.config \in Configs \cup {Nil}
  BY <1>2, FileTypes
<1>5. e1 \in Edits(ran) /\ e1.name = "editBak"
  <2>1. PICK d \in Data("editBak", ran) : d = files.config
    BY <1>4, DataOf
  <2>. QED BY <1>3, <2>1, FileNames, OneEdit
<1>6. e2 \in Edits(ran) /\ e2.name = "config"
  BY <1>3, FileNames, DataOf, OneEdit
<1>7. PICK list \in Seq(Edits(ran)) : list = <<e1, e2>>
  <2>1. e1 \in Edits(ran) /\ e2 \in Edits(ran)
    BY <1>5, <1>6
  <2>2. <<e1, e2>> \in Seq(Edits(ran))
    BY <2>1, TwoEdits
  <2>. QED BY <2>2
<1>8. In(list) = {e1, e2}
  BY <1>7, InLists
<1>9. Manager!Plan(list)
  BY <1>3, <1>7 DEF Manager!SetConfig
<1>10. \A e \in In(list) : e.name # "bin" /\ e.name # "manifest"
  BY <1>5, <1>6, <1>8
<1>11. PICK kind \in Changing : kind = "config"
  BY DEF Changing, Restarts
<1>. QED BY <1>1, <1>9, <1>10, <1>11, Plans

(* The binary and the config that are to become the earlier installation.  *)
LEMMA PairNow ==
  ASSUME LandingInv, op.at = "checked", op.kind \in Restarts, files.config # Nil
  PROVE  /\ files \in Contents(ran) /\ Manager!Pair \in Earlier(ran)
         /\ slipped \/ files.bin # Foreign
<1>1. /\ files \in Contents(ran) /\ (Manager!Owned => Manager!Pair \in ran)
      /\ Manager!Owned \/ (slipped /\ files.bin = Foreign)
  BY DEF LandingInv, LandingTypes, CheckKept
<1>2. files.config \in Configs
  BY <1>1, FileTypes
<1>3. CASE Manager!Owned
  <2>1. Manager!Pair \in Versions \X Configs /\ files.bin \in Versions
    BY <1>1, <1>3, InstallsAre
  <2>. QED BY <1>1, <1>3, <2>1, LandingBounds DEF Earlier
<1>4. CASE slipped /\ files.bin = Foreign
  BY <1>1, <1>2, <1>4 DEF Earlier, Manager!Pair
<1>. QED BY <1>1, <1>3, <1>4

LEMMA UpgradeStep ==
  ASSUME LandingInv, NEW v \in Versions, Manager!Upgrade(v)
  PROVE  LandingInv'
<1>1. /\ Manager!Goes("upgrade") /\ up' = up /\ op.at = "checked" /\ op.kind = "upgrade"
      /\ files.config # Nil
  BY DEF Manager!Upgrade, Manager!Goes
<1>2. /\ files \in Contents(ran) /\ Manager!Pair \in Earlier(ran)
      /\ slipped \/ files.bin # Foreign
  BY <1>1, PairNow DEF Restarts
<1>3. PICK m \in Data("manifest", ran) :
        m = Manager!Manifest(TRUE, v, Manager!Pair) /\ m # Nil /\ m.installed
  BY <1>2, Records
<1>4. PICK e1, e2, e3, e4 :
        /\ e1 = Manager!Change("backup", files.bin) /\ e2 = Manager!Change("configBak", files.config)
        /\ e3 = Manager!Change("bin", v) /\ e4 = Manager!Change("manifest", m)
  OBVIOUS
<1>5. e1 \in Edits(ran) /\ e1.name = "backup"
  <2>1. PICK d \in Data("backup", ran) : d = files.bin
    BY <1>2, FileTypes, DataOf
  <2>. QED BY <1>4, <2>1, FileNames, OneEdit
<1>6. e2 \in Edits(ran) /\ e2.name = "configBak"
  <2>1. PICK d \in Data("configBak", ran) : d = files.config
    BY <1>2, FileTypes, DataOf
  <2>. QED BY <1>4, <2>1, FileNames, OneEdit
<1>7. e3 \in Edits(ran) /\ e3.name = "bin" /\ e3.data = v
  BY <1>4, FileNames, DataOf, OneEdit
<1>8. e4 \in Edits(ran) /\ e4.name = "manifest" /\ e4.data = m
  BY <1>4, FileNames, OneEdit
<1>9. PICK list \in Seq(Edits(ran)) : list = <<e1, e2, e3, e4>>
  <2>1. e1 \in Edits(ran) /\ e2 \in Edits(ran) /\ e3 \in Edits(ran) /\ e4 \in Edits(ran)
    BY <1>5, <1>6, <1>7, <1>8
  <2>2. <<e1, e2, e3, e4>> \in Seq(Edits(ran))
    BY <2>1, FourEdits
  <2>. QED BY <2>2
<1>10. In(list) = {e1, e2, e3, e4}
  BY <1>9, InLists
<1>11. Manager!Plan(list)
  BY <1>3, <1>4, <1>9 DEF Manager!Upgrade
<1>12. PICK kind \in Changing : kind = "upgrade"
  BY DEF Changing, Restarts
<1>13. \A e \in In(list) : e.name = "bin" => e.data # Foreign
  BY <1>5, <1>6, <1>7, <1>8, <1>10, LandingBounds
<1>14. \A e \in In(list) : e.name = "manifest" => e.data # Nil /\ e.data.installed
  BY <1>3, <1>5, <1>6, <1>7, <1>8, <1>10
<1>. QED BY <1>1, <1>2, <1>11, <1>12, <1>13, <1>14, Plans

LEMMA RollbackStep ==
  ASSUME LandingInv, Manager!Rollback
  PROVE  LandingInv'
<1>1. /\ Manager!Goes("rollback") /\ up' = up /\ op.at = "checked" /\ op.kind = "rollback"
      /\ files.config # Nil
  BY DEF Manager!Rollback, Manager!Goes
<1>2. /\ files \in Contents(ran) /\ Manager!Pair \in Earlier(ran)
      /\ slipped \/ files.bin # Foreign
  BY <1>1, PairNow DEF Restarts
<1>3. files.backup \in Versions
  BY DEF Manager!Rollback, Manager!AcceptsBackup
<1>4. PICK m \in Data("manifest", ran) :
        m = Manager!Manifest(TRUE, files.backup, Manager!Pair) /\ m # Nil /\ m.installed
  BY <1>2, <1>3, Records
<1>5. PICK e1, e2, e3, e4, e5 :
        /\ e1 = Manager!Change("bin", files.backup) /\ e2 = Manager!Change("backup", files.bin)
        /\ e3 = Manager!Change("config", files.configBak)
        /\ e4 = Manager!Change("configBak", files.config) /\ e5 = Manager!Change("manifest", m)
  OBVIOUS
<1>6. e1 \in Edits(ran) /\ e1.name = "bin" /\ e1.data = files.backup
  <2>1. PICK d \in Data("bin", ran) : d = files.backup
    BY <1>3, DataOf
  <2>. QED BY <1>5, <2>1, FileNames, OneEdit
<1>7. e2 \in Edits(ran) /\ e2.name = "backup"
  <2>1. PICK d \in Data("backup", ran) : d = files.bin
    BY <1>2, FileTypes, DataOf
  <2>. QED BY <1>5, <2>1, FileNames, OneEdit
<1>8. e3 \in Edits(ran) /\ e3.name = "config"
  <2>1. PICK d \in Data("config", ran) : d = files.configBak
    BY <1>2, FileTypes, DataOf
  <2>. QED BY <1>5, <2>1, FileNames, OneEdit
<1>9. e4 \in Edits(ran) /\ e4.name = "configBak"
  <2>1. PICK d \in Data("configBak", ran) : d = files.config
    BY <1>2, FileTypes, DataOf
  <2>. QED BY <1>5, <2>1, FileNames, OneEdit
<1>10. e5 \in Edits(ran) /\ e5.name = "manifest" /\ e5.data = m
  BY <1>5, FileNames, OneEdit
<1>11. PICK list \in Seq(Edits(ran)) : list = <<e1, e2, e3, e4, e5>>
  <2>1. e1 \in Edits(ran) /\ e2 \in Edits(ran) /\ e3 \in Edits(ran) /\ e4 \in Edits(ran) /\ e5 \in Edits(ran)
    BY <1>6, <1>7, <1>8, <1>9, <1>10
  <2>2. <<e1, e2, e3, e4, e5>> \in Seq(Edits(ran))
    BY <2>1, FiveEdits
  <2>. QED BY <2>2
<1>12. In(list) = {e1, e2, e3, e4, e5}
  BY <1>11, InLists
<1>13. Manager!Plan(list)
  BY <1>4, <1>5, <1>11 DEF Manager!Rollback
<1>14. PICK kind \in Changing : kind = "rollback"
  BY DEF Changing, Restarts
<1>15. \A e \in In(list) : e.name = "bin" => e.data # Foreign
  BY <1>3, <1>6, <1>7, <1>8, <1>9, <1>10, <1>12, LandingBounds
<1>16. \A e \in In(list) : e.name = "manifest" => e.data # Nil /\ e.data.installed
  BY <1>4, <1>6, <1>7, <1>8, <1>9, <1>10, <1>12
<1>. QED BY <1>1, <1>2, <1>13, <1>14, <1>15, <1>16, Plans

LEMMA UninstallStep ==
  ASSUME LandingInv, NEW purge \in BOOLEAN, Manager!Uninstall(purge)
  PROVE  LandingInv'
<1>1. Manager!Goes("uninstall") /\ op.at = "checked" /\ op.kind = "uninstall"
  BY DEF Manager!Uninstall, Manager!Goes
<1>2. /\ files \in Contents(ran) /\ (Manager!Installed <=> Installs(files))
      /\ files.manifest # Nil /\ (Installs(files) => slipped \/ files.bin # Foreign)
  BY <1>1, InstallsAre DEF LandingInv, LandingTypes, CheckKept, ForeignKept
<1>3. files.manifest \in Manifests(ran)
  BY <1>2, FileTypes
<1>4. PICK m \in Data("manifest", ran) : m = [files.manifest EXCEPT !.installed = FALSE]
  <2>1. PICK q \in Manifests(ran) : q = files.manifest
    BY <1>3
  <2>2. [q EXCEPT !.installed = FALSE] \in Manifests(ran)
    BY DEF Manifests
  <2>. QED BY <2>1, <2>2, DataOf
<1>5. PICK e1, e2, e3, e4, e5, e6, e7, e8 :
        /\ e1 = Manager!Change("bin", Nil) /\ e2 = Manager!Change("unit", Nil)
        /\ e3 = Manager!Change("backup", Nil) /\ e4 = Manager!Change("config", Nil)
        /\ e5 = Manager!Change("configBak", Nil) /\ e6 = Manager!Change("editBak", Nil)
        /\ e7 = Manager!Change("manifest", Nil) /\ e8 = Manager!Change("manifest", m)
  OBVIOUS
<1>6. /\ e1 \in Edits(ran) /\ e1.name = "bin" /\ e1.data = Nil
      /\ e2 \in Edits(ran) /\ e2.name = "unit" /\ e3 \in Edits(ran) /\ e3.name = "backup"
  <2>1. e1 \in Edits(ran) /\ e1.name = "bin" /\ e1.data = Nil
    BY <1>5, FileNames, DataOf, OneEdit
  <2>2. e2 \in Edits(ran) /\ e2.name = "unit"
    BY <1>5, FileNames, DataOf, OneEdit
  <2>3. e3 \in Edits(ran) /\ e3.name = "backup"
    BY <1>5, FileNames, DataOf, OneEdit
  <2>. QED BY <2>1, <2>2, <2>3
<1>7. /\ e4 \in Edits(ran) /\ e4.name = "config" /\ e5 \in Edits(ran) /\ e5.name = "configBak"
      /\ e6 \in Edits(ran) /\ e6.name = "editBak"
  <2>1. e4 \in Edits(ran) /\ e4.name = "config"
    BY <1>5, FileNames, DataOf, OneEdit
  <2>2. e5 \in Edits(ran) /\ e5.name = "configBak"
    BY <1>5, FileNames, DataOf, OneEdit
  <2>3. e6 \in Edits(ran) /\ e6.name = "editBak"
    BY <1>5, FileNames, DataOf, OneEdit
  <2>. QED BY <2>1, <2>2, <2>3
<1>8. /\ e7 \in Edits(ran) /\ e7.name = "manifest" /\ e8 \in Edits(ran) /\ e8.name = "manifest"
  <2>1. e7 \in Edits(ran) /\ e7.name = "manifest"
    BY <1>5, FileNames, DataOf, OneEdit
  <2>2. e8 \in Edits(ran) /\ e8.name = "manifest"
    BY <1>5, FileNames, OneEdit
  <2>. QED BY <2>1, <2>2
<1>9. PICK removed \in Seq(Edits(ran)) :
        /\ removed = IF Manager!Installed THEN <<e1, e2, e3>> ELSE <<>>
        /\ \A e \in In(removed) : e.name = "bin" => Installs(files) /\ e.data = Nil
  <2>1. PICK s \in Seq(Edits(ran)) : s = <<e1, e2, e3>>
    <3>1. e1 \in Edits(ran) /\ e2 \in Edits(ran) /\ e3 \in Edits(ran)
      BY <1>6
    <3>2. <<e1, e2, e3>> \in Seq(Edits(ran))
      BY <3>1, ThreeEdits
    <3>. QED BY <3>2
  <2>2. In(s) = {e1, e2, e3}
    BY <2>1, InLists
  <2>3. <<>> \in Seq(Edits(ran)) /\ In(<<>>) = {}
    BY InNone
  <2>. QED BY <1>2, <1>6, <2>1, <2>2, <2>3
<1>10. PICK kept \in Seq(Edits(ran)) :
        /\ kept = IF purge THEN <<e4, e5, e6, e7>> ELSE <<e8>>
        /\ \A e \in In(kept) : e.name # "bin"
  <2>1. PICK s \in Seq(Edits(ran)) : s = <<e4, e5, e6, e7>>
    <3>1. e4 \in Edits(ran) /\ e5 \in Edits(ran) /\ e6 \in Edits(ran) /\ e7 \in Edits(ran)
      BY <1>7, <1>8
    <3>2. <<e4, e5, e6, e7>> \in Seq(Edits(ran))
      BY <3>1, FourEdits
    <3>. QED BY <3>2
  <2>2. In(s) = {e4, e5, e6, e7}
    BY <2>1, InLists
  <2>3. PICK t \in Seq(Edits(ran)) : t = <<e8>>
    BY <1>8, OneEdits
  <2>4. In(t) = {e8}
    BY <2>3, InLists
  <2>. QED BY <1>7, <1>8, <2>1, <2>2, <2>3, <2>4
<1>11. PICK list \in Seq(Edits(ran)) :
         list = removed \o kept /\ In(list) \subseteq In(removed) \cup In(kept)
  BY InBoth
<1>12. /\ Manager!Plan(list)
       /\ up' = IF Manager!Installed THEN Manager!Off ELSE up
  BY <1>4, <1>5, <1>9, <1>10, <1>11 DEF Manager!Uninstall
<1>13. (\E e \in In(list) : e.name = "bin") => slipped \/ files.bin # Foreign
  BY <1>2, <1>9, <1>10, <1>11
<1>14. \A e \in In(list) : e.name = "bin" => e.data # Foreign
  BY <1>9, <1>10, <1>11, LandingBounds
<1>15. up' = Manager!Off \/ ~Installs(files)
  BY <1>2, <1>12
<1>16. up' = up \/ up' = Manager!Off
  BY <1>12
<1>17. PICK kind \in Changing : kind = "uninstall"
  BY DEF Changing
<1>. QED BY <1>1, <1>12, <1>13, <1>14, <1>15, <1>16, <1>17, Plans

(* The record of no operation, whatever goes on with the service.          *)
LEMMA NoOperation ==
  ASSUME LandingTypes, op' = Manager!NoOp, UNCHANGED <<ran, respawned, slipped>>,
         crashed' \in BOOLEAN, files' \in Contents(ran), faults' \in Nat,
         up'.state \in {"off", "pending", "on"}, (Manager!Owned => Manager!Pair \in ran)'
  PROVE  /\ LandingTypes' /\ CheckKept' /\ WriteKept' /\ UndoKept' /\ ForeignKept'
         /\ WrittenService' /\ UndoneService' /\ op'.at = "idle"
<1>1. op' \in Operations(ran) /\ op'.at = "idle"
  BY Idles
<1>2. LandingTypes'
  BY <1>1 DEF LandingTypes, Working
<1>3. /\ CheckKept' /\ WriteKept' /\ UndoKept' /\ ForeignKept'
      /\ WrittenService' /\ UndoneService'
  BY <1>1 DEF CheckKept, WriteKept, UndoKept, ForeignKept, WrittenService, UndoneService, Working
<1>. QED BY <1>1, <1>2, <1>3

LEMMA ServiceStep ==
  ASSUME LandingInv, NEW action \in {"start", "stop", "restart"}, Manager!Service(action)
  PROVE  LandingInv'
<1>1. /\ LandingTypes /\ faults \in Nat /\ files \in Contents(ran) /\ crashed \in BOOLEAN
      /\ op.at = "checked" /\ op.kind = "service" /\ op' = Manager!NoOp
      /\ UNCHANGED <<files, ran, crashed, respawned, slipped, faults>>
  BY DEF LandingInv, LandingTypes, Manager!Service, Manager!Goes
<1>2. Installs(files)
  BY <1>1, InstallsAre DEF LandingInv, CheckKept
<1>3. /\ up'.state \in {"off", "pending", "on"}
      /\ up' = up \/ up'.state = "off" \/ (up'.state = "on" /\ up'.pair = Manager!Pair)
  BY <1>1 DEF LandingTypes, Manager!Service, Manager!Off
<1>4. (Manager!Owned => Manager!Pair \in ran)'
  BY <1>1 DEF LandingTypes, Manager!Owned, Manager!Installed, Manager!Pair
<1>5. /\ LandingTypes' /\ CheckKept' /\ WriteKept' /\ UndoKept' /\ ForeignKept'
      /\ WrittenService' /\ UndoneService' /\ op'.at = "idle"
  BY <1>1, <1>3, <1>4, NoOperation
<1>6. ASSUME faults <= 1, ~crashed PROVE IdleService'
  <2>1. IdleService
    BY <1>6 DEF LandingInv
  <2>2. Installs(files)' /\ Manager!Pair' = Manager!Pair
    BY <1>1, <1>2 DEF Manager!Pair, Installs
  <2>3. faults = 0 => up'.state # "pending" /\ (up'.state = "on" => up'.pair = Manager!Pair)
    BY <1>1, <1>3, <2>1 DEF IdleService, Working
  <2>. QED BY <1>1, <1>5, <2>1, <2>2, <2>3 DEF IdleService
<1>. QED BY <1>1, <1>5, <1>6 DEF LandingInv

LEMMA RefuseStep ==
  ASSUME LandingInv, Manager!Refuse
  PROVE  LandingInv'
<1>1. /\ LandingTypes /\ faults \in Nat /\ files \in Contents(ran) /\ crashed \in BOOLEAN
      /\ op.at = "checked" /\ op' = Manager!NoOp /\ up.state \in {"off", "pending", "on"}
      /\ UNCHANGED <<files, up, ran, crashed, respawned, slipped, faults>>
  BY DEF LandingInv, LandingTypes, Manager!Refuse, Manager!Goes
<1>2. (Manager!Owned => Manager!Pair \in ran)'
  BY <1>1 DEF LandingTypes, Manager!Owned, Manager!Installed, Manager!Pair
<1>3. /\ LandingTypes' /\ CheckKept' /\ WriteKept' /\ UndoKept' /\ ForeignKept'
      /\ WrittenService' /\ UndoneService' /\ op'.at = "idle"
  BY <1>1, <1>2, NoOperation
<1>4. ASSUME faults <= 1, ~crashed PROVE IdleService'
  <2>1. IdleService
    BY <1>4 DEF LandingInv
  <2>2. Installs(files)' = Installs(files) /\ Manager!Pair' = Manager!Pair
    BY <1>1 DEF Manager!Pair, Installs
  <2>. QED BY <1>1, <1>3, <2>1, <2>2 DEF IdleService, Working
<1>. QED BY <1>1, <1>3, <1>4 DEF LandingInv

(* The history grows by what is now called installed.                      *)
LEMMA NotedKeeps ==
  ASSUME LandingTypes, Manager!Noted, files' \in Contents(ran), op' \in Operations(ran),
         op'.at \in Working => op'.saved \in Contents(ran), op'.at # "failed",
         op'.at \in Working => op'.kind \in Changing, op'.at # "planned",
         UNCHANGED <<up, crashed, respawned, slipped>>, faults' \in Nat
  PROVE  LandingTypes'
<1>1. ran \subseteq ran' /\ (Manager!Owned' => Manager!Pair' \in ran')
  BY DEF Manager!Noted
<1>2. files' \in Contents(ran') /\ op' \in Operations(ran')
  BY <1>1, DataGrows
<1>3. op'.at \in Working \cup {"failed"} => op'.saved \in Contents(ran')
  BY <1>1, DataGrows
<1>4. /\ faults' \in Nat /\ crashed' \in BOOLEAN /\ respawned' \in BOOLEAN /\ slipped' \in BOOLEAN
      /\ op'.at \in {"planned"} \cup Working => op'.kind \in Changing
  BY DEF LandingTypes
<1>5. up'.state \in {"off", "pending", "on"}
  BY DEF LandingTypes
<1>. QED BY <1>1, <1>2, <1>3, <1>4, <1>5 DEF LandingTypes

LEMMA WriteStep ==
  ASSUME LandingInv, Manager!Write
  PROVE  LandingInv'
<1>1. /\ LandingTypes /\ files \in Contents(ran) /\ op \in Operations(ran) /\ faults \in Nat
      /\ op.at = "write" /\ op.todo # <<>> /\ op.todo \in Seq(Edits(ran))
      /\ op.saved \in Contents(ran) /\ op.kind \in Changing
  BY DEF LandingInv, LandingTypes, Manager!Write, Operations, Working
<1>2. PICK c \in Edits(ran) : c = Head(op.todo) /\ c \in In(op.todo)
  BY <1>1, InTail
<1>3. PICK rest \in Seq(Edits(ran)) :
        /\ rest = Tail(op.todo) /\ In(rest) \subseteq In(op.todo)
        /\ \A e \in In(op.todo) : e = c \/ e \in In(rest)
  BY <1>1, <1>2, InTail
<1>4. files' = PutIn(files, c) /\ op' = WithTodo(op, rest)
  BY <1>2, <1>3 DEF Manager!Write, Manager!Put, WithTodo, PutIn
<1>5. /\ files' \in Contents(ran) /\ files'[c.name] = c.data /\ c.name \in Manager!Names
      /\ \A n \in Manager!Names : n # c.name => files'[n] = files[n]
  <2>1. PICK f \in Contents(ran) : f = files
    BY <1>1
  <2>2. /\ PutIn(f, c) \in Contents(ran) /\ PutIn(f, c)[c.name] = c.data
        /\ \A n \in Manager!Names : n # c.name => PutIn(f, c)[n] = f[n]
    BY FileChanged
  <2>3. c.name \in Manager!Names
    BY EditFields
  <2>. QED BY <1>4, <2>1, <2>2, <2>3
<1>6. /\ op' \in Operations(ran) /\ op'.kind = op.kind /\ op'.at = "write" /\ op'.plan = op.plan
      /\ op'.todo = rest /\ op'.saved = op.saved /\ op'.active = op.active
  BY <1>1, <1>4, TodoFields
<1>7. UNCHANGED <<up, crashed, respawned, slipped, faults>> /\ Manager!Noted
  BY DEF Manager!Write
<1>8. LandingTypes'
  BY <1>1, <1>5, <1>6, <1>7, NotedKeeps
<1>9. In(op.todo) \subseteq In(op.plan)
  BY <1>1 DEF LandingInv, WriteKept
<1>10. WriteKept'
  <2>1. faults = 0 =>
          \A n \in Manager!Names : files'[n] = op'.saved[n] \/ \E e \in In(op'.plan) : e.name = n
    BY <1>1, <1>2, <1>5, <1>6, <1>9 DEF LandingInv, WriteKept
  <2>. QED BY <1>3, <1>6, <1>7, <1>9, <2>1 DEF WriteKept
<1>11. UndoKept' /\ CheckKept'
  BY <1>6 DEF UndoKept, CheckKept
<1>12. ForeignKept'
  <2>1. ASSUME ~slipped, \E e \in In(op.plan) : e.name = "bin"
        PROVE  files'["bin"] # Foreign
    <3>1. files["bin"] # Foreign /\ \A e \in In(op.plan) : e.name = "bin" => e.data # Foreign
      BY <1>1, <2>1 DEF LandingInv, ForeignKept, Working
    <3>. QED BY <1>2, <1>5, <1>9, <3>1, FileNames
  <2>. QED BY <1>1, <1>6, <1>7, <2>1 DEF LandingInv, ForeignKept, Working
<1>13. ASSUME faults <= 1, ~crashed PROVE IdleService' /\ WrittenService' /\ UndoneService'
  <2>1. IdleService /\ WrittenService
    BY <1>13 DEF LandingInv
  <2>2. IdleService'
    BY <1>1, <1>6, <1>7, <2>1 DEF IdleService, Working
  <2>3. op.kind # "uninstall" /\ c.name = "manifest" => c.data # Nil /\ c.data.installed
    BY <1>1, <1>2, <2>1 DEF WrittenService
  <2>4. c.name # "manifest" => files'["manifest"] = files["manifest"]
    BY <1>5, FileNames
  <2>5. c.name = "manifest" => files'["manifest"] = c.data
    BY <1>5
  <2>6. op.kind # "uninstall" => (c.name = "manifest" \/ Installs(files) => Installs(files'))
    BY <2>3, <2>4, <2>5 DEF Installs
  <2>7. op.kind = "install" => Installs(files') \/ \E e \in In(rest) : e.name = "manifest"
    BY <1>1, <1>3, <2>1, <2>6 DEF WrittenService
  <2>8. op.kind \in Restarts => Installs(files') /\ Installs(op.saved)
    BY <1>1, <2>1, <2>6 DEF WrittenService, Restarts
  <2>9. SavedPair' = SavedPair
    BY <1>6 DEF SavedPair
  <2>10. WrittenService'
    BY <1>1, <1>3, <1>6, <1>7, <2>1, <2>7, <2>8, <2>9 DEF WrittenService
  <2>11. UndoneService'
    BY <1>6 DEF UndoneService
  <2>. QED BY <2>2, <2>10, <2>11
<1>. QED BY <1>7, <1>8, <1>10, <1>11, <1>12, <1>13 DEF LandingInv

(* The operation turns back.                                               *)
LEMMA Turns ==
  ASSUME LandingInv, op.at = "write", NEW at \in {"undo", "undoThenAgain"}, Manager!Undoing(at),
         faults' = faults + 1, UNCHANGED <<files, ran, crashed, respawned, slipped>>,
         up'.state \in {"off", "pending", "on"},
         faults = 0 /\ ~crashed =>
           /\ up'.state # "pending"
           /\ at = "undo" /\ up'.state = "on" => up'.pair = SavedPair /\ Installs(op.saved)
           /\ at = "undoThenAgain" => Installs(op.saved)
  PROVE  LandingInv'
<1>1. /\ LandingTypes /\ files \in Contents(ran) /\ op \in Operations(ran) /\ faults \in Nat
      /\ op.plan \in Seq(Edits(ran)) /\ op.saved \in Contents(ran) /\ op.kind \in Changing
  BY DEF LandingInv, LandingTypes, Operations, Working
<1>2. PICK list \in Seq(Edits(ran)) :
        /\ list = PutBack(op.plan, op.saved)
        /\ \A c \in In(list) : c.data = op.saved[c.name] /\ \E e \in In(op.plan) : e.name = c.name
        /\ \A e \in In(op.plan) : \E c \in In(list) : c.name = e.name
  <2>1. PICK plan \in Seq(Edits(ran)) : plan = op.plan
    BY <1>1
  <2>2. PICK saved \in Contents(ran) : saved = op.saved
    BY <1>1
  <2>3. /\ PutBack(plan, saved) \in Seq(Edits(ran))
        /\ \A c \in In(PutBack(plan, saved)) :
             c.data = saved[c.name] /\ \E e \in In(plan) : e.name = c.name
        /\ \A e \in In(plan) : \E c \in In(PutBack(plan, saved)) : c.name = e.name
    BY PutsBack
  <2>. QED BY <2>1, <2>2, <2>3
<1>3. op' = Turned(op, at, list)
  BY <1>2 DEF Manager!Undoing, Turned, PutBack
<1>4. /\ op' \in Operations(ran) /\ op'.at = at /\ op'.plan = op.plan /\ op'.todo = list
      /\ op'.saved = op.saved /\ op'.kind = op.kind
  <2>1. PICK o \in Operations(ran) : o = op
    BY <1>1
  <2>2. /\ Turned(o, at, list) \in Operations(ran) /\ Turned(o, at, list).at = at
        /\ Turned(o, at, list).plan = o.plan /\ Turned(o, at, list).todo = list
        /\ Turned(o, at, list).saved = o.saved /\ Turned(o, at, list).kind = o.kind
    BY TurnedFields
  <2>. QED BY <1>3, <2>1, <2>2
<1>5. (Manager!Owned => Manager!Pair \in ran)'
  BY <1>1 DEF LandingTypes, Manager!Owned, Manager!Installed, Manager!Pair
<1>6. LandingTypes'
  BY <1>1, <1>4, <1>5 DEF LandingTypes
<1>7. WriteKept' /\ CheckKept'
  BY <1>4 DEF WriteKept, CheckKept
<1>8. UndoKept'
  <2>1. faults = 0 =>
          \A n \in Manager!Names : files[n] = op.saved[n] \/ \E c \in In(list) : c.name = n
    BY <1>2 DEF LandingInv, WriteKept
  <2>2. faults' >= 1 /\ (faults' <= 1 => faults = 0)
    BY <1>1
  <2>. QED BY <1>2, <1>4, <2>1, <2>2 DEF UndoKept
<1>9. ForeignKept'
  BY <1>4 DEF LandingInv, ForeignKept, Working
<1>10. ASSUME faults' <= 1, ~crashed PROVE IdleService' /\ WrittenService' /\ UndoneService'
  <2>1. faults = 0 /\ faults' # 0
    BY <1>1, <1>10
  <2>2. SavedPair' = SavedPair
    BY <1>4 DEF SavedPair
  <2>3. IdleService'
    BY <1>4, <2>1 DEF IdleService, Working
  <2>4. WrittenService'
    BY <1>4 DEF WrittenService
  <2>5. UndoneService'
    BY <1>4, <1>10, <2>1, <2>2 DEF UndoneService
  <2>. QED BY <2>3, <2>4, <2>5
<1>. QED BY <1>6, <1>7, <1>8, <1>9, <1>10 DEF LandingInv

LEMMA WriteFailsStep ==
  ASSUME LandingInv, Manager!WriteFails
  PROVE  LandingInv'
<1>1. /\ op.at = "write" /\ Manager!Undoing("undo") /\ faults' = faults + 1
      /\ UNCHANGED <<files, up, ran, crashed, respawned, slipped>>
  BY DEF Manager!WriteFails, Manager!Fault
<1>2. up'.state \in {"off", "pending", "on"} /\ faults \in Nat /\ op.kind \in Changing
  BY <1>1 DEF LandingInv, LandingTypes, Working
<1>3. ASSUME faults = 0, ~crashed
      PROVE  /\ up'.state # "pending"
             /\ up'.state = "on" => up'.pair = SavedPair /\ Installs(op.saved)
  <2>1. IdleService /\ WrittenService
    BY <1>2, <1>3 DEF LandingInv
  <2>. QED BY <1>1, <1>2, <1>3, <2>1 DEF IdleService, WrittenService, Changing
<1>. QED BY <1>1, <1>2, <1>3, Turns

LEMMA SystemFailsStep ==
  ASSUME LandingInv, Manager!SystemFails
  PROVE  LandingInv'
<1>1. /\ op.at = "write" /\ faults' = faults + 1
      /\ UNCHANGED <<files, ran, crashed, respawned, slipped>>
  BY DEF Manager!SystemFails, Manager!Fault
<1>2. up.state \in {"off", "pending", "on"} /\ faults \in Nat
  BY DEF LandingInv, LandingTypes
<1>3. ASSUME faults = 0, ~crashed
      PROVE  /\ up.state # "pending"
             /\ op.kind \in Restarts => Installs(op.saved)
             /\ op.kind = "uninstall" => up.state = "off"
  <2>1. IdleService /\ WrittenService
    BY <1>2, <1>3 DEF LandingInv
  <2>. QED BY <1>1, <1>3, <2>1 DEF IdleService, WrittenService
<1>4. Manager!Off.state = "off" /\ Manager!Started.state = "on"
  BY DEF Manager!Off, Manager!Started
<1>5. CASE op.kind = "install" /\ Manager!Undoing("undo") /\ up' = Manager!Off
  <2>1. up'.state = "off"
    BY <1>4, <1>5
  <2>. QED BY <1>1, <1>5, <2>1, Turns
<1>6. CASE op.kind \in Restarts /\ Manager!Undoing("undoThenAgain")
           /\ up' \in {up, Manager!Off, Manager!Started}
  <2>1. up'.state \in {"off", "pending", "on"}
    BY <1>2, <1>4, <1>6
  <2>2. faults = 0 /\ ~crashed => up'.state # "pending" /\ Installs(op.saved)
    BY <1>3, <1>4, <1>6
  <2>. QED BY <1>1, <1>6, <2>1, <2>2, Turns
<1>7. CASE op.kind = "uninstall" /\ Manager!Undoing("undo") /\ UNCHANGED up
  <2>1. faults = 0 /\ ~crashed => up'.state = "off"
    BY <1>3, <1>7
  <2>. QED BY <1>1, <1>2, <1>7, <2>1, Turns
<1>. QED BY <1>5, <1>6, <1>7, RestartsAre DEF Manager!SystemFails

LEMMA UndoStep ==
  ASSUME LandingInv, Manager!Undo
  PROVE  LandingInv'
<1>1. /\ LandingTypes /\ files \in Contents(ran) /\ op \in Operations(ran) /\ faults \in Nat
      /\ op.at \in {"undo", "undoThenAgain"} /\ op.todo # <<>> /\ op.todo \in Seq(Edits(ran))
      /\ op.saved \in Contents(ran) /\ op.kind \in Changing
  BY DEF LandingInv, LandingTypes, Manager!Undo, Operations, Working
<1>2. PICK c \in Edits(ran) : c = Head(op.todo) /\ c \in In(op.todo)
  BY <1>1, InTail
<1>3. PICK rest \in Seq(Edits(ran)) :
        /\ rest = Tail(op.todo) /\ In(rest) \subseteq In(op.todo)
        /\ \A e \in In(op.todo) : e = c \/ e \in In(rest)
  BY <1>1, <1>2, InTail
<1>4. /\ op' = WithTodo(op, rest) /\ Manager!Noted /\ UNCHANGED <<up, crashed, respawned, slipped>>
      /\ \/ files' = PutIn(files, c) /\ faults' = faults
         \/ files' = files /\ faults' = faults + 1
  BY <1>2, <1>3 DEF Manager!Undo, Manager!Put, Manager!Fault, WithTodo, PutIn
<1>5. /\ op' \in Operations(ran) /\ op'.kind = op.kind /\ op'.at = op.at /\ op'.plan = op.plan
      /\ op'.todo = rest /\ op'.saved = op.saved
  <2>1. PICK o \in Operations(ran) : o = op
    BY <1>1
  <2>2. /\ WithTodo(o, rest) \in Operations(ran) /\ WithTodo(o, rest).kind = o.kind
        /\ WithTodo(o, rest).at = o.at /\ WithTodo(o, rest).plan = o.plan
        /\ WithTodo(o, rest).todo = rest /\ WithTodo(o, rest).saved = o.saved
    BY TodoFields
  <2>. QED BY <1>4, <2>1, <2>2
<1>6. /\ c.name \in Manager!Names /\ c.data = op.saved[c.name]
      /\ \E e \in In(op.plan) : e.name = c.name
  BY <1>1, <1>2, EditFields DEF LandingInv, UndoKept
<1>7. /\ files' \in Contents(ran)
      /\ \/ /\ faults' = faults /\ files'[c.name] = c.data
            /\ \A n \in Manager!Names : n # c.name => files'[n] = files[n]
         \/ files' = files /\ faults' = faults + 1
  <2>1. PICK f \in Contents(ran) : f = files
    BY <1>1
  <2>2. /\ PutIn(f, c) \in Contents(ran) /\ PutIn(f, c)[c.name] = c.data
        /\ \A n \in Manager!Names : n # c.name => PutIn(f, c)[n] = f[n]
    BY FileChanged
  <2>. QED BY <1>1, <1>4, <2>1, <2>2
<1>8. LandingTypes'
  <2>1. faults' \in Nat
    BY <1>1, <1>7
  <2>. QED BY <1>1, <1>4, <1>5, <1>7, <2>1, NotedKeeps
<1>9. faults >= 1 /\ faults' >= 1
  BY <1>1, <1>7 DEF LandingInv, UndoKept
<1>10. UndoKept'
  <2>1. \A e \in In(rest) :
          e.data = op.saved[e.name] /\ \E d \in In(op.plan) : d.name = e.name
    BY <1>1, <1>3 DEF LandingInv, UndoKept
  <2>2. ASSUME faults' <= 1, NEW n \in Manager!Names
        PROVE  files'[n] = op.saved[n] \/ \E e \in In(rest) : e.name = n
    <3>1. /\ faults' = faults /\ files'[c.name] = c.data
          /\ \A m \in Manager!Names : m # c.name => files'[m] = files[m]
      BY <1>1, <1>7, <1>9, <2>2
    <3>2. files[n] = op.saved[n] \/ \E e \in In(op.todo) : e.name = n
      BY <1>1, <2>2, <3>1 DEF LandingInv, UndoKept
    <3>. QED BY <1>3, <1>6, <3>1, <3>2
  <2>. QED BY <1>1, <1>5, <1>9, <2>1, <2>2 DEF UndoKept
<1>11. WriteKept' /\ CheckKept'
  BY <1>1, <1>5 DEF WriteKept, CheckKept
<1>12. ForeignKept'
  <2>1. ASSUME ~slipped, \E e \in In(op.plan) : e.name = "bin"
        PROVE  files'["bin"] # Foreign
    <3>1. files["bin"] # Foreign /\ op.saved["bin"] # Foreign
      BY <1>1, <2>1 DEF LandingInv, ForeignKept, Working
    <3>. QED BY <1>6, <1>7, <3>1, FileNames
  <2>. QED BY <1>1, <1>4, <1>5, <2>1 DEF LandingInv, ForeignKept, Working
<1>13. ASSUME faults' <= 1, ~crashed PROVE IdleService' /\ WrittenService' /\ UndoneService'
  <2>1. faults <= 1 /\ faults # 0 /\ faults' # 0
    BY <1>1, <1>7, <1>9, <1>13
  <2>2. UndoneService
    BY <1>13, <2>1 DEF LandingInv
  <2>3. SavedPair' = SavedPair
    BY <1>5 DEF SavedPair
  <2>4. IdleService' /\ WrittenService'
    BY <1>1, <1>5, <2>1 DEF IdleService, WrittenService, Working
  <2>5. UndoneService'
    BY <1>1, <1>4, <1>5, <2>2, <2>3 DEF UndoneService
  <2>. QED BY <2>4, <2>5
<1>. QED BY <1>4, <1>8, <1>10, <1>11, <1>12, <1>13 DEF LandingInv

(* The operation reaches its end, at "done" or at "failed".                *)
LEMMA Ends ==
  ASSUME LandingTypes, NEW at \in {"done", "failed"}, op' = WithAt(op, at),
         op.saved \in Contents(ran), UNCHANGED <<files, ran, crashed, respawned, slipped>>,
         faults' \in Nat, up'.state \in {"off", "pending", "on"}
  PROVE  /\ LandingTypes' /\ CheckKept' /\ WriteKept' /\ ForeignKept' /\ WrittenService'
         /\ op'.at = at /\ op'.saved = op.saved
<1>1. /\ op' \in Operations(ran) /\ op'.at = at /\ op'.saved = op.saved
  <2>1. PICK o \in Operations(ran) : o = op
    BY DEF LandingTypes
  <2>2. at \in {"idle", "checked", "planned", "write", "undo", "undoThenAgain", "done", "failed"}
    OBVIOUS
  <2>3. /\ WithAt(o, at) \in Operations(ran) /\ WithAt(o, at).at = at
        /\ WithAt(o, at).saved = o.saved
    BY <2>2, AtFields
  <2>. QED BY <2>1, <2>3
<1>2. (Manager!Owned => Manager!Pair \in ran)'
  BY DEF LandingTypes, Manager!Owned, Manager!Installed, Manager!Pair
<1>3. LandingTypes'
  BY <1>1, <1>2 DEF LandingTypes, Working
<1>4. CheckKept' /\ WriteKept' /\ ForeignKept' /\ WrittenService'
  BY <1>1 DEF CheckKept, WriteKept, ForeignKept, WrittenService, Working
<1>. QED BY <1>1, <1>3, <1>4

LEMMA SystemStep ==
  ASSUME LandingInv, Manager!System
  PROVE  LandingInv'
<1>1. /\ LandingTypes /\ faults \in Nat /\ op.at = "write" /\ op.todo = <<>>
      /\ op.saved \in Contents(ran) /\ up.state \in {"off", "pending", "on"}
      /\ op.kind \in Changing
      /\ op' = WithAt(op, "done") /\ UNCHANGED <<files, ran, crashed, respawned, slipped, faults>>
  BY DEF LandingInv, LandingTypes, Manager!System, Working, WithAt
<1>2. Manager!Started.state = "on" /\ Manager!Started.pair = Manager!Pair
  BY DEF Manager!Started
<1>3. up' = up \/ (up' = Manager!Started /\ op.kind \in {"install"} \cup Restarts)
  BY RestartsAre DEF Manager!System
<1>4. up'.state \in {"off", "pending", "on"}
  BY <1>1, <1>2, <1>3
<1>5. /\ LandingTypes' /\ CheckKept' /\ WriteKept' /\ ForeignKept' /\ WrittenService'
      /\ op'.at = "done"
  BY <1>1, <1>4, Ends
<1>6. UndoKept' /\ UndoneService'
  BY <1>5 DEF UndoKept, UndoneService
<1>7. ASSUME faults <= 1, ~crashed PROVE IdleService'
  <2>1. IdleService /\ WrittenService
    BY <1>7 DEF LandingInv
  <2>2. op.kind \in {"install"} \cup Restarts => Installs(files)
    BY <1>1, <2>1, InNone DEF WrittenService
  <2>3. op.kind = "uninstall" => up.state = "off"
    BY <1>1, <2>1 DEF WrittenService
  <2>4. up'.state # "off" => Installs(files)
    BY <1>1, <1>3, <2>2, <2>3 DEF Changing
  <2>5. Manager!Pair' = Manager!Pair /\ Installs(files)' = Installs(files)
    BY <1>1 DEF Manager!Pair, Installs
  <2>6. ASSUME up'.state = "on", ~respawned PROVE up'.pair = Manager!Pair
    <3>1. CASE up' = Manager!Started
      BY <1>2, <3>1
    <3>2. CASE up' = up
      <4>1. op.active /\ op.kind \in Restarts /\ op.kind # "install"
        BY <1>1, <2>1, <2>6, <3>2 DEF WrittenService, Changing, Restarts
      <4>2. up' = Manager!Started
        BY <4>1, RestartsAre DEF Manager!System
      <4>. QED BY <1>2, <4>2
    <3>. QED BY <1>3, <3>1, <3>2
  <2>7. faults = 0 => up'.state # "pending" /\ ~respawned
    BY <1>2, <1>3, <2>1 DEF IdleService
  <2>. QED BY <1>1, <1>5, <2>4, <2>5, <2>6, <2>7 DEF IdleService
<1>. QED BY <1>1, <1>5, <1>6, <1>7 DEF LandingInv

LEMMA UndoneStep ==
  ASSUME LandingInv, Manager!Undone
  PROVE  LandingInv'
<1>1. /\ LandingTypes /\ faults \in Nat /\ op.at \in {"undo", "undoThenAgain"} /\ op.todo = <<>>
      /\ op.saved \in Contents(ran) /\ up.state \in {"off", "pending", "on"}
      /\ files \in Contents(ran)
      /\ op' = WithAt(op, "failed") /\ UNCHANGED <<files, ran, crashed, respawned, slipped>>
  BY DEF LandingInv, LandingTypes, Manager!Undone, Working, WithAt
<1>2. /\ Manager!Started.state = "on" /\ Manager!Started.pair = Manager!Pair
      /\ Manager!Off.state = "off"
  BY DEF Manager!Started, Manager!Off
<1>3. /\ up' \in {up, Manager!Off, Manager!Started}
      /\ \/ /\ faults' = faults
            /\ op.at = "undoThenAgain" => up' = Manager!Started
            /\ op.at = "undo" => up' = up
         \/ faults' = faults + 1
  BY <1>1 DEF Manager!Undone, Manager!Fault
<1>4. up'.state \in {"off", "pending", "on"} /\ faults' \in Nat
  BY <1>1, <1>2, <1>3
<1>5. /\ LandingTypes' /\ CheckKept' /\ WriteKept' /\ ForeignKept' /\ WrittenService'
      /\ op'.at = "failed" /\ op'.saved = op.saved
  BY <1>1, <1>4, Ends
<1>6. faults >= 1 /\ faults' >= 1
  BY <1>1, <1>3 DEF LandingInv, UndoKept
<1>7. faults' <= 1 => faults' = faults /\ faults <= 1 /\ faults # 0
  BY <1>1, <1>3, <1>6
<1>8. faults <= 1 => files = op.saved
  <2>1. faults <= 1 => \A n \in Manager!Names : files[n] = op.saved[n]
    BY <1>1, InNone DEF LandingInv, UndoKept
  <2>2. PICK f \in Contents(ran) : f = files
    BY <1>1
  <2>3. PICK g \in Contents(ran) : g = op.saved
    BY <1>1
  <2>4. (\A n \in Manager!Names : f[n] = g[n]) => f = g
    BY SameFiles
  <2>. QED BY <2>1, <2>2, <2>3, <2>4
<1>9. UndoKept'
  BY <1>1, <1>5, <1>6, <1>7, <1>8 DEF UndoKept
<1>10. ASSUME faults' <= 1, ~crashed PROVE IdleService' /\ UndoneService'
  <2>1. UndoneService
    BY <1>7, <1>10 DEF LandingInv
  <2>2. files = op.saved /\ SavedPair = Manager!Pair
    BY <1>7, <1>8, <1>10 DEF SavedPair, Manager!Pair
  <2>3. Manager!Pair' = Manager!Pair /\ Installs(files)' = Installs(files)
    BY <1>1 DEF Manager!Pair, Installs
  <2>4. /\ up'.state # "pending"
        /\ up'.state = "on" => up'.pair = Manager!Pair /\ Installs(files)
    BY <1>1, <1>2, <1>3, <1>7, <1>10, <2>1, <2>2 DEF UndoneService
  <2>5. UndoneService'
    BY <1>5, <2>3, <2>4 DEF UndoneService
  <2>6. IdleService'
    BY <1>4, <1>5, <1>6, <1>7, <1>10, <2>3, <2>4 DEF IdleService
  <2>. QED BY <2>5, <2>6
<1>. QED BY <1>1, <1>5, <1>9, <1>10 DEF LandingInv

LEMMA CrashStep ==
  ASSUME LandingInv, Manager!Crash
  PROVE  LandingInv'
<1>1. /\ LandingTypes /\ op' = Manager!NoOp /\ crashed' = TRUE /\ faults' \in Nat
      /\ UNCHANGED <<files, up, ran, respawned, slipped>>
  BY DEF LandingInv, LandingTypes, Manager!Crash, Manager!Fault
<1>2. (Manager!Owned => Manager!Pair \in ran)'
  BY <1>1 DEF LandingTypes, Manager!Owned, Manager!Installed, Manager!Pair
<1>3. up'.state \in {"off", "pending", "on"} /\ files' \in Contents(ran) /\ crashed' \in BOOLEAN
  BY <1>1 DEF LandingTypes
<1>. QED BY <1>1, <1>2, <1>3, NoOperation DEF LandingInv

LEMMA TamperStep ==
  ASSUME LandingInv, Manager!Tamper
  PROVE  LandingInv'
<1>1. /\ LandingTypes /\ faults \in Nat /\ faults' = faults + 1 /\ files \in Contents(ran)
      /\ files' = [files EXCEPT !["bin"] = Foreign]
      /\ UNCHANGED <<up, ran, crashed, respawned>>
      /\ \/ Manager!Idle /\ op' = Manager!NoOp /\ slipped' = slipped
         \/ ~Manager!Idle /\ op' = op /\ slipped' = TRUE
  BY DEF LandingInv, LandingTypes, Manager!Tamper, Manager!Fault
<1>2. /\ files' \in Contents(ran) /\ files'["bin"] = Foreign
      /\ files'["manifest"] = files["manifest"] /\ files'["unit"] = files["unit"]
  <2>1. PICK d \in Data("bin", ran) : d = Foreign
    BY DataOf
  <2>2. PICK c \in Edits(ran) : c.name = "bin" /\ c.data = d
    BY FileNames, OneEdit
  <2>3. PICK f \in Contents(ran) : f = files
    BY <1>1
  <2>4. /\ PutIn(f, c) \in Contents(ran) /\ PutIn(f, c)[c.name] = c.data
        /\ \A n \in Manager!Names : n # c.name => PutIn(f, c)[n] = f[n]
    BY FileChanged
  <2>5. files' = PutIn(f, c)
    BY <1>1, <2>1, <2>2, <2>3 DEF PutIn
  <2>. QED BY <2>1, <2>2, <2>3, <2>4, <2>5, FileNames
<1>3. ~Manager!Owned' /\ (Installs(files') <=> Installs(files))
  <2>1. files'["manifest"] # Nil => files'["manifest"].bin \in Versions
    BY <1>1, <1>2, FileTypes DEF Manifests
  <2>. QED BY <1>2, <2>1, LandingBounds DEF Manager!Owned, Manager!Installed, Installs
<1>4. /\ up'.state \in {"off", "pending", "on"} /\ crashed' \in BOOLEAN /\ faults' \in Nat
      /\ faults' >= 1 /\ (faults' <= 1 => faults = 0)
  BY <1>1 DEF LandingTypes
<1>5. CASE Manager!Idle /\ op' = Manager!NoOp /\ slipped' = slipped
  <2>1. /\ LandingTypes' /\ CheckKept' /\ WriteKept' /\ UndoKept' /\ ForeignKept'
        /\ WrittenService' /\ UndoneService' /\ op'.at = "idle"
    BY <1>1, <1>2, <1>3, <1>4, <1>5, NoOperation
  <2>2. ASSUME faults' <= 1, ~crashed PROVE IdleService'
    <3>1. IdleService /\ op.at \notin Working
      BY <1>4, <1>5, <2>2 DEF LandingInv, Manager!Idle, Working
    <3>. QED BY <1>1, <1>3, <1>4, <2>1, <3>1 DEF IdleService
  <2>. QED BY <1>1, <2>1, <2>2 DEF LandingInv
<1>6. CASE ~Manager!Idle /\ op' = op /\ slipped' = TRUE
  <2>1. op.at \notin {"idle", "done", "failed"}
    BY <1>6 DEF Manager!Idle
  <2>2. LandingTypes'
    BY <1>1, <1>2, <1>3, <1>4, <1>6 DEF LandingTypes
  <2>3. CheckKept'
    <3>1. CheckKept /\ (Manager!Owned => Installs(files))
      BY <1>1, InstallsAre DEF LandingInv
    <3>2. files.manifest # Nil => files'.manifest # Nil
      BY <1>2
    <3>3. files'.bin = Foreign
      BY <1>2
    <3>. QED BY <1>3, <1>6, <3>1, <3>2, <3>3 DEF CheckKept
  <2>4. WriteKept'
    BY <1>4, <1>6 DEF LandingInv, WriteKept
  <2>5. UndoKept'
    <3>1. op.at \in {"undo", "undoThenAgain"} => ~(faults' <= 1)
      BY <1>1, <1>4 DEF LandingInv, UndoKept
    <3>. QED BY <1>1, <1>4, <1>6, <2>1, <3>1 DEF LandingInv, UndoKept
  <2>6. ForeignKept'
    BY <1>6 DEF LandingInv, ForeignKept
  <2>7. ASSUME faults' <= 1, ~crashed PROVE IdleService' /\ WrittenService' /\ UndoneService'
    <3>1. faults = 0 /\ faults' # 0 /\ IdleService /\ WrittenService
      BY <1>1, <1>4, <2>7 DEF LandingInv
    <3>2. IdleService'
      BY <1>1, <1>3, <1>6, <2>1, <3>1 DEF IdleService
    <3>3. WrittenService'
      BY <1>1, <1>3, <1>6, <3>1 DEF WrittenService
    <3>4. op.at \notin {"undo", "undoThenAgain", "failed"}
      BY <1>1, <3>1 DEF LandingInv, UndoKept
    <3>5. UndoneService'
      BY <1>6, <3>4 DEF UndoneService
    <3>. QED BY <3>2, <3>3, <3>5
  <2>. QED BY <1>1, <2>2, <2>3, <2>4, <2>5, <2>6, <2>7 DEF LandingInv
<1>. QED BY <1>1, <1>5, <1>6

(* Only the service changes.                                               *)
LEMMA ServiceOnly ==
  ASSUME LandingTypes, CheckKept, WriteKept, UndoKept, ForeignKept,
         UNCHANGED <<files, op, ran, crashed, slipped>>,
         up'.state \in {"off", "pending", "on"}, respawned' \in BOOLEAN,
         faults' \in Nat, faults' >= faults
  PROVE  LandingTypes' /\ CheckKept' /\ WriteKept' /\ UndoKept' /\ ForeignKept'
<1>1. (Manager!Owned => Manager!Pair \in ran)'
  BY DEF LandingTypes, Manager!Owned, Manager!Installed, Manager!Pair
<1>2. LandingTypes'
  BY <1>1 DEF LandingTypes
<1>3. CheckKept' /\ WriteKept' /\ ForeignKept'
  <2>1. CheckKept'
    BY DEF CheckKept, Installs, Manager!Owned, Manager!Installed
  <2>2. faults' = 0 => faults = 0
    BY DEF LandingTypes
  <2>. QED BY <2>1, <2>2 DEF WriteKept, ForeignKept, Installs
<1>4. UndoKept'
  <2>1. faults \in Nat /\ (faults' <= 1 => faults <= 1)
    BY DEF LandingTypes
  <2>2. faults >= 1 => faults' >= 1
    BY <2>1
  <2>. QED BY <2>1, <2>2 DEF UndoKept
<1>. QED BY <1>2, <1>3, <1>4

LEMMA DiesStep ==
  ASSUME LandingInv, Manager!Dies
  PROVE  LandingInv'
<1>1. /\ up.state = "on" /\ faults' = faults + 1 /\ up' = [state |-> "pending", pair |-> Nil]
      /\ UNCHANGED <<files, op, ran, crashed, respawned, slipped>>
  BY DEF Manager!Dies, Manager!Fault
<1>2. /\ LandingTypes /\ CheckKept /\ WriteKept /\ UndoKept /\ ForeignKept /\ faults \in Nat
      /\ up'.state = "pending" /\ respawned \in BOOLEAN
  BY <1>1 DEF LandingInv, LandingTypes
<1>3. LandingTypes' /\ CheckKept' /\ WriteKept' /\ UndoKept' /\ ForeignKept'
  <2>1. faults' \in Nat /\ faults' >= faults /\ respawned' \in BOOLEAN
    BY <1>1, <1>2
  <2>2. up'.state \in {"off", "pending", "on"}
    BY <1>2
  <2>. QED BY <1>1, <1>2, <2>1, <2>2, ServiceOnly
<1>4. ASSUME faults' <= 1, ~crashed PROVE IdleService' /\ WrittenService' /\ UndoneService'
  <2>1. faults = 0 /\ faults' # 0
    BY <1>1, <1>2, <1>4
  <2>2. IdleService /\ WrittenService
    BY <1>4, <2>1 DEF LandingInv
  <2>3. Installs(files)' = Installs(files)
    BY <1>1 DEF Installs
  <2>4. IdleService'
    BY <1>1, <1>2, <2>1, <2>2, <2>3 DEF IdleService
  <2>5. WrittenService'
    BY <1>1, <1>2, <2>1, <2>2 DEF WrittenService
  <2>6. op.at \notin {"undo", "undoThenAgain", "failed"}
    BY <1>2, <2>1 DEF UndoKept
  <2>7. UndoneService'
    BY <1>1, <2>6 DEF UndoneService
  <2>. QED BY <2>4, <2>5, <2>7
<1>. QED BY <1>1, <1>3, <1>4 DEF LandingInv

LEMMA RespawnStep ==
  ASSUME LandingInv, Manager!Respawn
  PROVE  LandingInv'
<1>1. /\ up.state = "pending" /\ up' = Manager!Started /\ respawned' = (respawned \/ ~Manager!Idle)
      /\ UNCHANGED <<files, op, ran, crashed, slipped, faults>>
  BY DEF Manager!Respawn
<1>2. /\ LandingTypes /\ CheckKept /\ WriteKept /\ UndoKept /\ ForeignKept /\ faults \in Nat
      /\ up'.state = "on" /\ up'.pair = Manager!Pair
      /\ op.at \in {"idle", "checked", "planned", "write", "undo", "undoThenAgain", "done", "failed"}
  BY <1>1 DEF LandingInv, LandingTypes, Manager!Started, Operations
<1>3. Manager!Idle \in BOOLEAN /\ respawned \in BOOLEAN
  BY <1>2 DEF Manager!Idle, LandingTypes
<1>4. LandingTypes' /\ CheckKept' /\ WriteKept' /\ UndoKept' /\ ForeignKept'
  <2>1. respawned' \in BOOLEAN
    BY <1>1, <1>3
  <2>2. up'.state \in {"off", "pending", "on"} /\ faults' \in Nat /\ faults' >= faults
    BY <1>1, <1>2
  <2>. QED BY <1>1, <1>2, <2>1, <2>2, ServiceOnly
<1>5. ASSUME faults <= 1, ~crashed PROVE IdleService' /\ WrittenService' /\ UndoneService'
  <2>1. IdleService /\ WrittenService /\ UndoneService
    BY <1>5 DEF LandingInv
  <2>2. faults # 0
    BY <1>1, <2>1 DEF IdleService
  <2>3. Installs(files)' = Installs(files) /\ Manager!Pair' = Manager!Pair
    BY <1>1 DEF Installs, Manager!Pair
  <2>4. IdleService'
    BY <1>1, <1>2, <2>1, <2>2, <2>3 DEF IdleService
  <2>5. op.at \in {"planned", "write"} => respawned'
    BY <1>1 DEF Manager!Idle
  <2>6. WrittenService'
    BY <1>1, <1>2, <2>1, <2>2, <2>5 DEF WrittenService
  <2>7. op.at \notin {"undo", "undoThenAgain", "failed"}
    BY <1>1, <2>1 DEF UndoneService
  <2>8. UndoneService'
    BY <1>1, <2>7 DEF UndoneService
  <2>. QED BY <2>4, <2>6, <2>8
<1>. QED BY <1>1, <1>4, <1>5 DEF LandingInv

LEMMA LandingUnchanged ==
  ASSUME LandingInv, UNCHANGED landingVars
  PROVE  LandingInv'
<1>1. UNCHANGED <<files, op, up, ran, crashed, respawned, slipped, faults>>
  BY DEF landingVars
<1>2. LandingTypes' /\ CheckKept' /\ WriteKept' /\ UndoKept' /\ ForeignKept'
  <2>1. /\ up'.state \in {"off", "pending", "on"} /\ respawned' \in BOOLEAN
        /\ faults' \in Nat /\ faults' >= faults
    BY <1>1 DEF LandingInv, LandingTypes
  <2>. QED BY <1>1, <2>1, ServiceOnly DEF LandingInv
<1>3. (IdleService <=> IdleService') /\ (WrittenService <=> WrittenService')
  BY <1>1 DEF IdleService, WrittenService, Manager!Pair, SavedPair
<1>4. UndoneService <=> UndoneService'
  BY <1>1 DEF UndoneService, Manager!Pair, SavedPair
<1>. QED BY <1>1, <1>2, <1>3, <1>4 DEF LandingInv

LEMMA LandingStep ==
  ASSUME LandingInv, Manager!Next
  PROVE  LandingInv'
<1>1. CASE \E v \in Versions, c \in Configs : Manager!Install(v, c)
  BY <1>1, InstallStep
<1>2. CASE \E c \in Configs : Manager!SetConfig(c)
  BY <1>2, SetConfigStep
<1>3. CASE \E v \in Versions : Manager!Upgrade(v)
  BY <1>3, UpgradeStep
<1>4. CASE Manager!Rollback \/ Manager!Begin \/ Manager!Refuse \/ Manager!Snapshot
  BY <1>4, RollbackStep, BeginStep, RefuseStep, SnapshotStep
<1>5. CASE \E purge \in BOOLEAN : Manager!Uninstall(purge)
  BY <1>5, UninstallStep
<1>6. CASE \E action \in {"start", "stop", "restart"} : Manager!Service(action)
  BY <1>6, ServiceStep
<1>7. CASE Manager!Write \/ Manager!WriteFails \/ Manager!Undo
  BY <1>7, WriteStep, WriteFailsStep, UndoStep
<1>8. CASE Manager!System \/ Manager!SystemFails \/ Manager!Undone
  BY <1>8, SystemStep, SystemFailsStep, UndoneStep
<1>9. CASE Manager!Crash \/ Manager!Dies \/ Manager!Respawn \/ Manager!Tamper
  BY <1>9, CrashStep, DiesStep, RespawnStep, TamperStep
<1>. QED BY <1>1, <1>2, <1>3, <1>4, <1>5, <1>6, <1>7, <1>8, <1>9 DEF Manager!Next

(* At first no file is there, or those of an earlier installation.         *)
LEMMA LandingInit ==
  ASSUME Manager!Init
  PROVE  LandingInv
<1>1. op = Manager!NoOp /\ crashed = FALSE /\ respawned = FALSE /\ slipped = FALSE /\ faults = 0
  BY DEF Manager!Init
<1>2. op \in Operations(ran) /\ op.at = "idle"
  BY <1>1, Idles
<1>3. /\ files \in Contents(ran) /\ (Manager!Owned => Manager!Pair \in ran)
      /\ up.state \in {"off", "on"} /\ (up.state = "on" => up.pair = Manager!Pair /\ Installs(files))
  <2>1. CASE files = [n \in Manager!Names |-> Nil] /\ up = Manager!Off /\ ran = {}
    <3>1. \A n \in Manager!Names : files[n] = Nil /\ Nil \in Data(n, ran)
      BY <2>1 DEF Data
    <3>2. files \in [Manager!Names -> UNION {Data(n, ran) : n \in Manager!Names}]
      BY <2>1, <3>1
    <3>3. files["manifest"] = Nil /\ up.state = "off"
      BY <2>1, <3>1, FileNames DEF Manager!Off
    <3>. QED BY <3>1, <3>2, <3>3 DEF Contents, Manager!Owned, Manager!Installed
  <2>2. ASSUME NEW v \in Versions, NEW c \in Configs,
               files = [n \in Manager!Names |->
                         CASE n = "bin" -> v [] n = "config" -> c [] n = "unit" -> "text"
                           [] n = "manifest" -> Manager!Manifest(TRUE, v, Nil) [] OTHER -> Nil],
               up \in {Manager!Off, [state |-> "on", pair |-> <<v, c>>]}, ran = {<<v, c>>}
        PROVE  /\ files \in Contents(ran) /\ (Manager!Owned => Manager!Pair \in ran)
               /\ up.state \in {"off", "on"}
               /\ up.state = "on" => up.pair = Manager!Pair /\ Installs(files)
    <3>1. PICK m \in Data("manifest", ran) :
            m = Manager!Manifest(TRUE, v, Nil) /\ m # Nil /\ m.installed
      BY Records DEF Earlier
    <3>2. files = [n \in Manager!Names |->
                    CASE n = "bin" -> v [] n = "config" -> c [] n = "unit" -> "text"
                      [] n = "manifest" -> m [] OTHER -> Nil]
      BY <2>2, <3>1
    <3>3. /\ files["bin"] = v /\ files["config"] = c /\ files["unit"] = "text"
          /\ files["manifest"] = m /\ files["backup"] = Nil /\ files["configBak"] = Nil
          /\ files["editBak"] = Nil
      BY <3>2, FileNames
    <3>4. \A n \in Manager!Names : files[n] \in Data(n, ran)
      BY <3>3, FileNames, DataOf
    <3>5. files \in [Manager!Names -> UNION {Data(n, ran) : n \in Manager!Names}]
      <4>1. \A n \in Manager!Names : files[n] \in UNION {Data(k, ran) : k \in Manager!Names}
        BY <3>4
      <4>. QED BY <3>2, <4>1
    <3>6. files \in Contents(ran)
      BY <3>4, <3>5 DEF Contents
    <3>7. Manager!Pair = <<v, c>> /\ Installs(files)
      BY <3>1, <3>3 DEF Manager!Pair, Installs
    <3>8. Manager!Off.state = "off"
      BY DEF Manager!Off
    <3>. QED BY <2>2, <3>6, <3>7, <3>8
  <2>. QED BY <2>1, <2>2 DEF Manager!Init
<1>4. LandingTypes
  BY <1>1, <1>2, <1>3 DEF LandingTypes, Working
<1>5. CheckKept /\ WriteKept /\ UndoKept /\ ForeignKept /\ WrittenService /\ UndoneService
  BY <1>2 DEF CheckKept, WriteKept, UndoKept, ForeignKept, WrittenService, UndoneService, Working
<1>6. IdleService
  BY <1>1, <1>2, <1>3 DEF IdleService
<1>. QED BY <1>4, <1>5, <1>6 DEF LandingInv

LEMMA LandingKept == Spec => []LandingInv
<1>1. Init => LandingInv
  BY LandingInit DEF Init
<1>2. LandingInv /\ [Next]_vars => LandingInv'
  <2> SUFFICES ASSUME LandingInv, [Next]_vars PROVE LandingInv'
    OBVIOUS
  <2>1. CASE OfManager /\ Manager!Next
    BY <2>1, LandingStep
  <2>2. CASE UNCHANGED landingVars
    BY <2>2, LandingUnchanged
  <2>. QED BY <2>1, <2>2 DEF Next, vars, OfDevice, OfEngine, OfBundle, OfProvision
<1>. QED BY <1>1, <1>2, PTL DEF Spec

LEMMA LandingShows == LandingInv => InstallsWhole
<1> SUFFICES ASSUME LandingInv PROVE InstallsWhole
  OBVIOUS
<1>1. LandingTypes /\ files \in Contents(ran) /\ op \in Operations(ran)
  BY DEF LandingInv, LandingTypes
<1>2. Manager!TypeOK
  BY <1>1, FileTypes DEF LandingTypes, Operations, Manager!TypeOK, Manager!Binary
<1>3. Manager!AllOrNothing
  BY DEF LandingInv, UndoKept, Manager!AllOrNothing
<1>4. Manager!RollsBackToAPair
  <2> SUFFICES ASSUME Manager!Owned, files.backup \in Versions, files.configBak # Nil,
                      files.manifest.prev = <<files.backup, files.configBak>>
               PROVE  files.manifest.prev \in ran
    BY DEF Manager!RollsBackToAPair, Manager!AcceptsBackup
  <2>1. files.manifest \in Manifests(ran)
    BY <1>1, FileTypes, InstallsAre DEF Installs
  <2>2. files.backup \in Versions /\ files.configBak \in Configs
    BY <1>1, FileTypes
  <2>3. <<files.backup, files.configBak>> \in Versions \X Configs
    BY <2>2
  <2>4. files.manifest.prev # Nil /\ files.manifest.prev \notin {Foreign} \X Configs
    BY <2>2, <2>3, LandingBounds
  <2>. QED BY <2>1, <2>4 DEF Manifests, Earlier
<1>5. Manager!RunsInstalled
  <2> SUFFICES ASSUME op.at \in {"done", "failed"}, up.state = "on", faults <= 1,
                      ~crashed, ~respawned
               PROVE  up.pair = Manager!Pair
    BY DEF Manager!RunsInstalled
  <2>1. IdleService /\ UndoneService
    BY DEF LandingInv
  <2>. QED BY <2>1 DEF IdleService, UndoneService
<1>. QED BY <1>2, <1>3, <1>4, <1>5 DEF InstallsWhole

(* A transaction of the manager (transact): when one thing fails every     *)
(* file is put back as it was found; rollback accepts as the earlier       *)
(* installation only a binary and a config that were installed together;   *)
(* and after an operation, done or failed, the service runs what is        *)
(* installed, as long as no manager was killed, one thing failed at most   *)
(* and systemd did not restart the service in the middle.                  *)
THEOREM FilesInstalledWhole == Spec => []InstallsWhole
BY LandingKept, LandingShows, PTL

LEMMA ForeignStays ==
  ASSUME LandingInv, Manager!Next
  PROVE  /\ files.bin = Foreign /\ ~slipped => files'.bin = Foreign
         /\ files'.bin = Foreign => \/ files.bin = Foreign \/ faults' > faults
                                   \/ op.at \in {"undo", "undoThenAgain"}
<1>1. CASE files' = files
  BY <1>1
<1>2. CASE Manager!Tamper
  <2>1. files \in [Manager!Names -> UNION {Data(n, ran) : n \in Manager!Names}] /\ faults \in Nat
    BY DEF LandingInv, LandingTypes, Contents
  <2>2. files'.bin = Foreign
    BY <1>2, <2>1, FileNames DEF Manager!Tamper
  <2>3. faults' > faults
    BY <1>2, <2>1 DEF Manager!Tamper, Manager!Fault
  <2>. QED BY <2>2, <2>3
<1>3. CASE op.at \in Working /\ op.todo # <<>> /\ Manager!Put(Head(op.todo))
  <2>1. /\ files \in Contents(ran) /\ op.todo \in Seq(Edits(ran)) /\ op.at \in Working
    BY <1>3 DEF LandingInv, LandingTypes, Operations
  <2>2. PICK c \in Edits(ran) : c = Head(op.todo) /\ c \in In(op.todo)
    BY <1>3, <2>1, InTail
  <2>3. \E e \in In(op.plan) : e.name = c.name
    BY <2>1, <2>2 DEF LandingInv, WriteKept, UndoKept, Working
  <2>4. c.name = "bin" /\ ~slipped => files.bin # Foreign
    BY <2>1, <2>3 DEF LandingInv, ForeignKept
  <2>5. c.name = "bin" /\ op.at = "write" => c.data # Foreign
    BY <2>1, <2>2 DEF LandingInv, WriteKept, ForeignKept
  <2>6. PICK f \in Contents(ran) : f = files
    BY <2>1
  <2>7. /\ \A n \in Manager!Names : n # c.name => PutIn(f, c)[n] = f[n]
        /\ PutIn(f, c)[c.name] = c.data
    BY FileChanged
  <2>8. files' = PutIn(f, c)
    BY <1>3, <2>2, <2>6 DEF Manager!Put, PutIn
  <2>9. /\ c.name # "bin" => files'.bin = files.bin
        /\ c.name = "bin" => files'.bin = c.data
    BY <2>6, <2>7, <2>8, FileNames
  <2>. QED BY <2>1, <2>4, <2>5, <2>9 DEF Working
<1>4. \/ files' = files \/ Manager!Tamper
      \/ op.at \in Working /\ op.todo # <<>> /\ Manager!Put(Head(op.todo))
  <2>1. CASE Manager!Write \/ Manager!Undo
    BY <2>1 DEF Manager!Write, Manager!Undo, Working
  <2>2. CASE Manager!WriteFails \/ Manager!System \/ Manager!SystemFails \/ Manager!Undone
    BY <2>2 DEF Manager!WriteFails, Manager!System, Manager!SystemFails, Manager!Undone
  <2>3. CASE Manager!Crash \/ Manager!Dies \/ Manager!Respawn \/ Manager!Snapshot
    BY <2>3 DEF Manager!Crash, Manager!Dies, Manager!Respawn, Manager!Snapshot
  <2>4. CASE Manager!Begin
    BY <2>4 DEF Manager!Begin, Manager!Checks
  <2>5. CASE \/ \E v \in Versions, c \in Configs : Manager!Install(v, c)
             \/ \E c \in Configs : Manager!SetConfig(c)
             \/ \E v \in Versions : Manager!Upgrade(v)
             \/ Manager!Rollback \/ Manager!Refuse
             \/ \E purge \in BOOLEAN : Manager!Uninstall(purge)
             \/ \E action \in {"start", "stop", "restart"} : Manager!Service(action)
    BY <2>5 DEF Manager!Install, Manager!SetConfig, Manager!Upgrade, Manager!Rollback,
                Manager!Refuse, Manager!Uninstall, Manager!Service, Manager!Goes
  <2>. QED BY <2>1, <2>2, <2>3, <2>4, <2>5 DEF Manager!Next
<1>. QED BY <1>1, <1>2, <1>3, <1>4

(* manage.go (ownedBinary): a binary that is not of the program is neither *)
(* overwritten nor removed by an operation that finds it when it checks;   *)
(* and only who replaces the binary, or an operation that undoes what it   *)
(* did, puts such a binary in its place.                                   *)
THEOREM ForeignLeftAlone == Spec => ForeignUntouched
<1> DEFINE Left ==
      /\ files.bin = Foreign /\ ~slipped => files'.bin = Foreign
      /\ files'.bin = Foreign => \/ files.bin = Foreign \/ faults' > faults
                                \/ op.at \in {"undo", "undoThenAgain"}
<1>1. LandingInv /\ [Next]_vars => [Left]_landingVars
  <2> SUFFICES ASSUME LandingInv, [Next]_vars, landingVars' # landingVars
               PROVE  Left
    OBVIOUS
  <2>1. Manager!Next
    BY DEF Next, vars, OfDevice, OfEngine, OfBundle, OfManager, OfProvision
  <2>. QED BY <2>1, ForeignStays
<1>2. [Left]_landingVars => [Left]_(Manager!landingVars)
  BY DEF landingVars, Manager!landingVars
<1>. QED BY <1>1, <1>2, LandingKept, PTL DEF Spec, ForeignUntouched, Manager!ForeignUntouched
-----------------------------------------------------------------------------
(* DesktopEngine.                                                          *)

EngineProcs == [at : {"none", "built", "running", "gone", "ended"}, fresh : BOOLEAN]
EngineCalls ==
  [at : {"idle", "launch", "stop", "again"}, proc : Procs \cup {NoProc}, next : {"none", "start"}]
EngineTimers ==
  [at : {"idle", "schedule", "giveup", "timer", "start", "launch"},
   fresh : BOOLEAN, attempt : 0..RecoveryDelays]

EngineTypes ==
  /\ running \in BOOLEAN /\ busy \in BOOLEAN /\ wish \in BOOLEAN /\ asked \in BOOLEAN
  /\ raced \in BOOLEAN /\ late \in BOOLEAN
  /\ engine \in Procs \cup {NoProc} /\ tries \in 0..RecoveryDelays
  /\ proc \in [Procs -> EngineProcs] /\ call \in [Engine!Callers -> EngineCalls]
  /\ timer \in EngineTimers
  /\ timer.at \in {"timer", "start", "launch"} => timer.attempt < RecoveryDelays
  /\ calls \in 0..MaxCalls /\ exits \in 0..MaxExits

(* Who will launch what: a process that was built is of one call, or of    *)
(* the recovery; what can be cancelled was launched.                       *)
Places ==
  /\ engine # NoProc => proc[engine].at \in {"running", "gone"}
  /\ \A c \in Engine!Callers :
       /\ call[c].at = "stop" => call[c].proc \in Procs
       /\ call[c].at = "launch" =>
            /\ call[c].proc \in Procs /\ proc[call[c].proc].at = "built"
            /\ \A d \in Engine!Callers : d # c => call[d].proc # call[c].proc
  /\ timer.at = "launch" =>
       \E p \in Procs : proc[p].at = "built" /\ \A c \in Engine!Callers : call[c].proc # p

(* As long as no Stop fell into a launch, there is one engine, and nothing *)
(* ends the turn of the one that was built.                                *)
OneAtATime ==
  /\ \A p \in Procs : proc[p].at \in {"running", "gone"} => engine = p
  /\ \A p, q \in Procs : proc[p].at = "built" /\ proc[q].at = "built" => p = q
  /\ (\E p \in Procs : proc[p].at = "built") =>
       busy /\ ~running /\ engine = NoProc /\ (timer.at = "launch" \/ ~timer.fresh)

(* After a Stop no token is current and what runs is being killed.         *)
Stopped ==
  ~asked =>
    /\ ~timer.fresh /\ timer.at \notin {"start", "launch"}
    /\ \A p \in Procs :
         /\ ~proc[p].fresh /\ proc[p].at # "built"
         /\ proc[p].at = "running" =>
              \E c \in Engine!Callers : call[c].at = "stop" /\ call[c].proc = p

(* What is shown as running is the current engine, or is being stopped, or *)
(* was told by an engine that had ended.                                   *)
Shown ==
  running => \/ late
             \/ \E p \in Procs : proc[p].at \in {"running", "gone"} /\ proc[p].fresh
             \/ busy /\ ~timer.fresh /\ \A p \in Procs : ~proc[p].fresh

EngineInv ==
  /\ EngineTypes /\ Places
  /\ ~raced => OneAtATime /\ Stopped /\ Shown

LEMMA EngineBounds ==
  /\ NoProc \notin Procs /\ RecoveryDelays \in Nat /\ MaxCalls \in Nat /\ MaxExits \in Nat
  /\ Engine!Callers = {"user", "remote"}
BY OperationsAssumption DEF Engine!Callers

(* The tables of processes and of calls after one change.                  *)
Moved(f, p, at) == [f EXCEPT ![p].at = at]
Renewed(f, p, at, fresh) == [f EXCEPT ![p] = [at |-> at, fresh |-> fresh]]
AllStale(f) == [p \in Procs |-> [f[p] EXCEPT !.fresh = FALSE]]
Calling(f, c, at, p, next) == [f EXCEPT ![c] = [at |-> at, proc |-> p, next |-> next]]
Until(t, at) == [t EXCEPT !.at = at]
NotFresh(t) == [t EXCEPT !.fresh = FALSE]
Again(t) == [t EXCEPT !.at = "schedule", !.attempt = @ + 1]

LEMMA MovedFields ==
  ASSUME NEW f \in [Procs -> EngineProcs], NEW p \in Procs,
         NEW at \in {"none", "built", "running", "gone", "ended"}
  PROVE  /\ Moved(f, p, at) \in [Procs -> EngineProcs]
         /\ Moved(f, p, at)[p].at = at /\ Moved(f, p, at)[p].fresh = f[p].fresh
         /\ \A q \in Procs : q # p => Moved(f, p, at)[q] = f[q]
<1>1. [f[p] EXCEPT !.at = at] \in EngineProcs
  BY DEF EngineProcs
<1>2. [f[p] EXCEPT !.at = at].at = at /\ [f[p] EXCEPT !.at = at].fresh = f[p].fresh
  BY DEF EngineProcs
<1>3. Moved(f, p, at)[p] = [f[p] EXCEPT !.at = at]
  BY DEF Moved
<1>. QED BY <1>1, <1>2, <1>3 DEF Moved

LEMMA RenewedFields ==
  ASSUME NEW f \in [Procs -> EngineProcs], NEW p \in Procs,
         NEW at \in {"none", "built", "running", "gone", "ended"}, NEW fresh \in BOOLEAN
  PROVE  /\ Renewed(f, p, at, fresh) \in [Procs -> EngineProcs]
         /\ Renewed(f, p, at, fresh)[p].at = at /\ Renewed(f, p, at, fresh)[p].fresh = fresh
         /\ \A q \in Procs : q # p => Renewed(f, p, at, fresh)[q] = f[q]
<1>1. [at |-> at, fresh |-> fresh] \in EngineProcs
  BY DEF EngineProcs
<1>. QED BY <1>1 DEF Renewed

LEMMA StaleFields ==
  ASSUME NEW f \in [Procs -> EngineProcs]
  PROVE  /\ AllStale(f) \in [Procs -> EngineProcs]
         /\ \A p \in Procs : AllStale(f)[p].at = f[p].at /\ ~AllStale(f)[p].fresh
<1>1. ASSUME NEW p \in Procs
      PROVE  /\ [f[p] EXCEPT !.fresh = FALSE] \in EngineProcs
             /\ [f[p] EXCEPT !.fresh = FALSE].at = f[p].at
             /\ ~[f[p] EXCEPT !.fresh = FALSE].fresh
  BY DEF EngineProcs
<1>. QED BY <1>1 DEF AllStale

LEMMA CallingFields ==
  ASSUME NEW f \in [Engine!Callers -> EngineCalls], NEW c \in Engine!Callers,
         NEW at \in {"idle", "launch", "stop", "again"}, NEW p \in Procs \cup {NoProc},
         NEW next \in {"none", "start"}
  PROVE  /\ Calling(f, c, at, p, next) \in [Engine!Callers -> EngineCalls]
         /\ Calling(f, c, at, p, next)[c].at = at /\ Calling(f, c, at, p, next)[c].proc = p
         /\ \A d \in Engine!Callers : d # c => Calling(f, c, at, p, next)[d] = f[d]
<1>1. [at |-> at, proc |-> p, next |-> next] \in EngineCalls
  BY DEF EngineCalls
<1>. QED BY <1>1 DEF Calling

LEMMA UntilFields ==
  ASSUME NEW t \in EngineTimers,
         NEW at \in {"idle", "schedule", "giveup", "timer", "start", "launch"}
  PROVE  /\ Until(t, at) \in EngineTimers /\ Until(t, at).at = at
         /\ Until(t, at).fresh = t.fresh /\ Until(t, at).attempt = t.attempt
<1>1. Until(t, at) \in EngineTimers
  BY DEF EngineTimers, Until
<1>2. /\ Until(t, at).at = at
      /\ Until(t, at).fresh = t.fresh /\ Until(t, at).attempt = t.attempt
  BY DEF EngineTimers, Until
<1>. QED BY <1>1, <1>2

LEMMA NotFreshFields ==
  ASSUME NEW t \in EngineTimers
  PROVE  /\ NotFresh(t) \in EngineTimers /\ NotFresh(t).at = t.at
         /\ ~NotFresh(t).fresh /\ NotFresh(t).attempt = t.attempt
<1>1. NotFresh(t) \in EngineTimers
  BY DEF EngineTimers, NotFresh
<1>2. NotFresh(t).at = t.at /\ ~NotFresh(t).fresh /\ NotFresh(t).attempt = t.attempt
  BY DEF EngineTimers, NotFresh
<1>. QED BY <1>1, <1>2

LEMMA AgainFields ==
  ASSUME NEW t \in EngineTimers, t.attempt < RecoveryDelays
  PROVE  /\ Again(t) \in EngineTimers /\ Again(t).at = "schedule" /\ Again(t).fresh = t.fresh
<1>1. t.attempt + 1 \in 0..RecoveryDelays
  BY EngineBounds DEF EngineTimers
<1>2. Again(t) \in EngineTimers
  BY <1>1 DEF EngineTimers, Again
<1>3. Again(t).at = "schedule" /\ Again(t).fresh = t.fresh
  BY DEF EngineTimers, Again
<1>. QED BY <1>2, <1>3

LEMMA NoTimers ==
  /\ Engine!NoTimer \in EngineTimers /\ Engine!NoTimer.at = "idle" /\ ~Engine!NoTimer.fresh
BY EngineBounds DEF Engine!NoTimer, EngineTimers

LEMMA NoCalls ==
  /\ \A f, c : [f EXCEPT ![c] = Engine!NoCall] = Calling(f, c, "idle", NoProc, "none")
  /\ \A at : [Engine!NoCall EXCEPT !.at = at] = [at |-> at, proc |-> NoProc, next |-> "none"]
  /\ Engine!NoCall.at = "idle" /\ Engine!NoCall.proc = NoProc
<1>1. \A f, c : [f EXCEPT ![c] = Engine!NoCall] = Calling(f, c, "idle", NoProc, "none")
  BY DEF Calling, Engine!NoCall
<1>2. \A at : [Engine!NoCall EXCEPT !.at = at] = [at |-> at, proc |-> NoProc, next |-> "none"]
  BY DEF Engine!NoCall
<1>3. Engine!NoCall.at = "idle" /\ Engine!NoCall.proc = NoProc
  BY DEF Engine!NoCall
<1>. QED BY <1>1, <1>2, <1>3

LEMMA EngineParts ==
  ASSUME EngineInv
  PROVE  /\ EngineTypes /\ Places /\ (~raced => OneAtATime /\ Stopped /\ Shown)
         /\ proc \in [Procs -> EngineProcs] /\ call \in [Engine!Callers -> EngineCalls]
         /\ timer \in EngineTimers /\ engine \in Procs \cup {NoProc}
         /\ \A p \in Procs : proc[p].fresh \in BOOLEAN /\ proc[p] \in EngineProcs
         /\ timer.fresh \in BOOLEAN /\ raced \in BOOLEAN /\ asked \in BOOLEAN
         /\ late \in BOOLEAN
<1>1. /\ EngineTypes /\ proc \in [Procs -> EngineProcs] /\ timer \in EngineTimers
      /\ call \in [Engine!Callers -> EngineCalls] /\ engine \in Procs \cup {NoProc}
      /\ raced \in BOOLEAN /\ asked \in BOOLEAN /\ late \in BOOLEAN
  BY DEF EngineInv, EngineTypes
<1>2. \A p \in Procs : proc[p].fresh \in BOOLEAN /\ proc[p] \in EngineProcs
  BY <1>1 DEF EngineProcs
<1>3. timer.fresh \in BOOLEAN
  BY <1>1 DEF EngineTimers
<1>4. Places /\ (~raced => OneAtATime /\ Stopped /\ Shown)
  BY DEF EngineInv
<1>. QED BY <1>1, <1>2, <1>3, <1>4

(* The first critical section of a Start: an engine is built.              *)
LEMMA Prepares ==
  ASSUME EngineInv, NEW p \in Procs, NEW recovery \in BOOLEAN, Engine!Prepare(p, recovery)
  PROVE  /\ ~running /\ ~busy /\ engine = NoProc /\ proc[p].at = "none"
         /\ \A c \in Engine!Callers : call[c].proc # p
         /\ busy' = TRUE /\ running' = FALSE /\ late' = FALSE /\ UNCHANGED <<wish, engine, raced>>
         /\ proc' \in [Procs -> EngineProcs] /\ proc'[p].at = "built"
         /\ \A q \in Procs : q # p => proc'[q].at = proc[q].at
<1>1. proc \in [Procs -> EngineProcs]
  BY EngineParts
<1>2. PICK f \in [Procs -> EngineProcs] :
        f = (IF recovery THEN proc ELSE AllStale(proc)) /\ \A q \in Procs : f[q].at = proc[q].at
  <2>1. PICK g \in [Procs -> EngineProcs] : g = proc
    BY <1>1
  <2>2. /\ AllStale(g) \in [Procs -> EngineProcs]
        /\ \A q \in Procs : AllStale(g)[q].at = g[q].at
    BY StaleFields
  <2>. QED BY <2>1, <2>2
<1>3. PICK t \in BOOLEAN : t = TRUE
  OBVIOUS
<1>4. proc' = Renewed(f, p, "built", t)
  BY <1>2, <1>3 DEF Engine!Prepare, Engine!Staled, Renewed, AllStale
<1>5. /\ Renewed(f, p, "built", t) \in [Procs -> EngineProcs]
      /\ Renewed(f, p, "built", t)[p].at = "built"
      /\ \A q \in Procs : q # p => Renewed(f, p, "built", t)[q] = f[q]
  BY RenewedFields
<1>6. /\ proc' \in [Procs -> EngineProcs] /\ proc'[p].at = "built"
      /\ \A q \in Procs : q # p => proc'[q].at = proc[q].at
  BY <1>2, <1>4, <1>5
<1>. QED BY <1>6 DEF Engine!Prepare, Engine!MayStart

(* The second: it is launched, or cannot be.                               *)
LEMMA Launches ==
  ASSUME EngineInv, NEW p \in Procs, proc[p].at = "built", UNCHANGED <<raced, late, asked, calls>>,
         (Engine!Launch(p) /\ UNCHANGED exits) \/ Engine!LaunchFails(p)
  PROVE  /\ busy' \in BOOLEAN /\ running' \in BOOLEAN /\ wish' \in BOOLEAN /\ UNCHANGED tries
         /\ engine' \in Procs \cup {NoProc} /\ exits' \in 0..MaxExits
         /\ proc' \in [Procs -> EngineProcs] /\ \A q \in Procs : q # p => proc'[q] = proc[q]
         /\ engine' # NoProc => proc'[engine'].at \in {"running", "gone"}
         /\ ~raced => OneAtATime' /\ Stopped' /\ Shown'
<1>1. /\ proc \in [Procs -> EngineProcs] /\ engine \in Procs \cup {NoProc}
      /\ engine # NoProc => proc[engine].at \in {"running", "gone"}
      /\ busy \in BOOLEAN /\ running \in BOOLEAN /\ wish \in BOOLEAN /\ exits \in 0..MaxExits
  BY EngineParts DEF EngineTypes, Places
<1>2. /\ proc' \in [Procs -> EngineProcs] /\ \A q \in Procs : q # p => proc'[q] = proc[q]
      /\ \/ proc'[p].at = "running" /\ engine' = p
         \/ proc'[p].at = "none" /\ engine' = engine
  <2>1. PICK g \in [Procs -> EngineProcs] : g = proc
    BY <1>1
  <2>2. /\ Moved(g, p, "running") \in [Procs -> EngineProcs]
        /\ Moved(g, p, "running")[p].at = "running"
        /\ \A q \in Procs : q # p => Moved(g, p, "running")[q] = g[q]
    BY MovedFields
  <2>3. PICK b \in BOOLEAN : b = FALSE
    OBVIOUS
  <2>4. /\ Renewed(g, p, "none", b) \in [Procs -> EngineProcs]
        /\ Renewed(g, p, "none", b)[p].at = "none"
        /\ \A q \in Procs : q # p => Renewed(g, p, "none", b)[q] = g[q]
    BY RenewedFields
  <2>5. CASE Engine!Launch(p)
    <3>1. proc' = Moved(g, p, "running") /\ engine' = p
      BY <2>1, <2>5 DEF Engine!Launch, Moved
    <3>. QED BY <2>1, <2>2, <3>1
  <2>6. CASE Engine!LaunchFails(p)
    <3>1. proc' = Renewed(g, p, "none", b) /\ engine' = engine
      BY <2>1, <2>3, <2>6 DEF Engine!LaunchFails, Renewed
    <3>. QED BY <2>1, <2>4, <3>1
  <2>. QED BY <2>5, <2>6
<1>3. /\ busy' \in BOOLEAN /\ running' = running /\ wish' \in BOOLEAN /\ tries' = tries
      /\ exits' \in 0..MaxExits
  <2>1. exits' = exits \/ (exits < MaxExits /\ exits' = exits + 1)
    BY DEF Engine!LaunchFails
  <2>2. exits' \in 0..MaxExits
    BY <1>1, <2>1, EngineBounds
  <2>3. busy' \in BOOLEAN /\ running' = running /\ wish' \in BOOLEAN /\ tries' = tries
    BY <1>1 DEF Engine!Launch, Engine!LaunchFails
  <2>. QED BY <2>2, <2>3
<1>4. engine' # NoProc => proc'[engine'].at \in {"running", "gone"}
  BY <1>1, <1>2
<1>5. ASSUME ~raced PROVE OneAtATime' /\ Stopped' /\ Shown'
  <2>1. OneAtATime /\ Stopped
    BY <1>5, EngineParts
  <2>2. /\ ~running /\ engine = NoProc
        /\ \A q \in Procs : q # p => proc[q].at \notin {"built", "running", "gone"}
    BY <2>1, EngineBounds DEF OneAtATime
  <2>3. OneAtATime'
    BY <1>2, <2>2 DEF OneAtATime
  <2>4. asked
    BY <2>1 DEF Stopped
  <2>. QED BY <1>3, <2>2, <2>3, <2>4 DEF Stopped, Shown
<1>. QED BY <1>1, <1>2, <1>3, <1>4, <1>5

LEMMA StartCalledStep ==
  ASSUME EngineInv, NEW c \in Engine!Callers, call[c].at \notin {"launch", "stop"},
         Engine!StartCalled(c), exits' = exits, calls' \in 0..MaxCalls
  PROVE  EngineInv'
<1>1. /\ EngineTypes /\ Places /\ (~raced => OneAtATime /\ Stopped /\ Shown)
      /\ proc \in [Procs -> EngineProcs] /\ call \in [Engine!Callers -> EngineCalls]
      /\ timer \in EngineTimers /\ asked' = TRUE
  BY EngineParts DEF Engine!StartCalled
<1>2. PICK g \in [Engine!Callers -> EngineCalls] : g = call
  BY <1>1
<1>3. ASSUME NEW p \in Procs, Engine!Prepare(p, FALSE), tries' = 0, timer' = NotFresh(timer),
             call' = Calling(g, c, "launch", p, "none")
      PROVE  EngineInv'
  <2>1. /\ ~running /\ ~busy /\ engine = NoProc /\ proc[p].at = "none"
        /\ \A d \in Engine!Callers : call[d].proc # p
        /\ busy' = TRUE /\ running' = FALSE /\ late' = FALSE /\ UNCHANGED <<wish, engine, raced>>
        /\ proc' \in [Procs -> EngineProcs] /\ proc'[p].at = "built"
        /\ \A q \in Procs : q # p => proc'[q].at = proc[q].at
    BY <1>3, Prepares
  <2>2. timer' \in EngineTimers /\ timer'.at = timer.at /\ ~timer'.fresh /\ timer'.attempt = timer.attempt
    <3>1. PICK t \in EngineTimers : t = timer
      BY <1>1
    <3>2. /\ NotFresh(t) \in EngineTimers /\ NotFresh(t).at = t.at
          /\ ~NotFresh(t).fresh /\ NotFresh(t).attempt = t.attempt
      BY NotFreshFields
    <3>. QED BY <1>3, <3>1, <3>2
  <2>3. /\ call' \in [Engine!Callers -> EngineCalls] /\ call'[c].at = "launch" /\ call'[c].proc = p
        /\ \A d \in Engine!Callers : d # c => call'[d] = call[d]
    <3>1. /\ Calling(g, c, "launch", p, "none") \in [Engine!Callers -> EngineCalls]
          /\ Calling(g, c, "launch", p, "none")[c].at = "launch"
          /\ Calling(g, c, "launch", p, "none")[c].proc = p
          /\ \A d \in Engine!Callers : d # c => Calling(g, c, "launch", p, "none")[d] = g[d]
      BY CallingFields
    <3>. QED BY <1>2, <1>3, <3>1
  <2>4. EngineTypes'
    <3>1. tries' \in 0..RecoveryDelays
      BY <1>3, EngineBounds
    <3>. QED BY <1>1, <2>1, <2>2, <2>3, <3>1 DEF EngineTypes
  <2>5. Places'
    <3>1. ASSUME NEW d \in Engine!Callers
          PROVE  /\ call'[d].at = "stop" => call'[d].proc \in Procs
                 /\ call'[d].at = "launch" =>
                      /\ call'[d].proc \in Procs /\ proc'[call'[d].proc].at = "built"
                      /\ \A e \in Engine!Callers : e # d => call'[e].proc # call'[d].proc
      <4>1. CASE d = c
        BY <2>1, <2>3, <4>1
      <4>2. CASE d # c
        <5>1. call'[d] = call[d]
          BY <2>3, <4>2
        <5>2. call[d].at = "launch" => call[d].proc # p
          BY <2>1
        <5>. QED BY <1>1, <2>1, <2>3, <5>1, <5>2 DEF Places
      <4>. QED BY <4>1, <4>2
    <3>2. timer.at = "launch" =>
            \E q \in Procs : proc'[q].at = "built" /\ \A d \in Engine!Callers : call'[d].proc # q
      <4>1. SUFFICES ASSUME timer.at = "launch"
                     PROVE  \E q \in Procs :
                              proc'[q].at = "built" /\ \A d \in Engine!Callers : call'[d].proc # q
        OBVIOUS
      <4>2. PICK q \in Procs : proc[q].at = "built" /\ \A d \in Engine!Callers : call[d].proc # q
        BY <1>1, <4>1 DEF Places
      <4>3. q # p
        BY <2>1, <4>2
      <4>. QED BY <2>1, <2>3, <4>2, <4>3
    <3>. QED BY <2>1, <2>2, <3>1, <3>2 DEF Places
  <2>6. ASSUME ~raced' PROVE OneAtATime' /\ Stopped' /\ Shown'
    <3>1. OneAtATime
      BY <1>1, <2>1, <2>6
    <3>2. OneAtATime'
      BY <2>1, <2>2, <3>1 DEF OneAtATime
    <3>. QED BY <1>1, <2>1, <3>2 DEF Stopped, Shown
  <2>. QED BY <2>4, <2>5, <2>6 DEF EngineInv
<1>4. ASSUME call' = Calling(g, c, "idle", NoProc, "none"),
             UNCHANGED <<running, busy, wish, engine, tries, proc, timer, raced, late>>
      PROVE  EngineInv'
  <2>3. /\ call' \in [Engine!Callers -> EngineCalls] /\ call'[c].at = "idle" /\ call'[c].proc = NoProc
        /\ \A d \in Engine!Callers : d # c => call'[d] = call[d]
    <3>1. /\ Calling(g, c, "idle", NoProc, "none") \in [Engine!Callers -> EngineCalls]
          /\ Calling(g, c, "idle", NoProc, "none")[c].at = "idle"
          /\ Calling(g, c, "idle", NoProc, "none")[c].proc = NoProc
          /\ \A d \in Engine!Callers : d # c => Calling(g, c, "idle", NoProc, "none")[d] = g[d]
      BY CallingFields
    <3>. QED BY <1>2, <1>4, <3>1
  <2>4. EngineTypes'
    BY <1>1, <1>4, <2>3 DEF EngineTypes
  <2>5. Places'
    BY <1>1, <1>4, <2>3, EngineBounds DEF Places
  <2>6. ~raced' => OneAtATime' /\ Stopped' /\ Shown'
    BY <1>1, <1>4 DEF OneAtATime, Stopped, Shown
  <2>. QED BY <2>4, <2>5, <2>6 DEF EngineInv
<1>. QED BY <1>2, <1>3, <1>4, NoCalls DEF Engine!StartCalled, Engine!StaleTimer, NotFresh, Calling

LEMMA StartStep ==
  ASSUME EngineInv, NEW c \in Engine!Callers, Engine!Start(c)
  PROVE  EngineInv'
<1>1. /\ calls \in 0..MaxCalls /\ calls < MaxCalls /\ calls' = calls + 1
      /\ call[c].at = "idle" /\ Engine!StartCalled(c) /\ exits' = exits
  BY EngineParts, NoCalls DEF EngineTypes, Engine!Start, Engine!Calls
<1>2. calls' \in 0..MaxCalls
  BY <1>1, EngineBounds
<1>. QED BY <1>1, <1>2, StartCalledStep

LEMMA StartAgainStep ==
  ASSUME EngineInv, Engine!StartAgain
  PROVE  EngineInv'
<1>1. PICK c \in Engine!Callers : c = "remote"
  BY EngineBounds
<1>2. /\ calls \in 0..MaxCalls /\ calls' = calls /\ exits' = exits
      /\ call[c].at = "again" /\ Engine!StartCalled(c)
  BY <1>1, EngineParts DEF EngineTypes, Engine!StartAgain
<1>. QED BY <1>2, StartCalledStep

LEMMA CallerLaunchesStep ==
  ASSUME EngineInv, NEW c \in Engine!Callers, Engine!CallerLaunches(c)
  PROVE  EngineInv'
<1>1. /\ EngineTypes /\ Places /\ call \in [Engine!Callers -> EngineCalls]
      /\ proc \in [Procs -> EngineProcs]
  BY EngineParts
<1>2. PICK p \in Procs :
        /\ p = call[c].proc /\ proc[p].at = "built"
        /\ \A d \in Engine!Callers : d # c => call[d].proc # p
  BY <1>1 DEF Engine!CallerLaunches, Places
<1>3. /\ UNCHANGED <<timer, raced, late, asked, calls>>
      /\ (Engine!Launch(p) /\ UNCHANGED exits) \/ Engine!LaunchFails(p)
  BY <1>2 DEF Engine!CallerLaunches
<1>4. /\ busy' \in BOOLEAN /\ running' \in BOOLEAN /\ wish' \in BOOLEAN /\ UNCHANGED tries
      /\ engine' \in Procs \cup {NoProc} /\ exits' \in 0..MaxExits
      /\ proc' \in [Procs -> EngineProcs] /\ \A q \in Procs : q # p => proc'[q] = proc[q]
      /\ engine' # NoProc => proc'[engine'].at \in {"running", "gone"}
      /\ ~raced => OneAtATime' /\ Stopped' /\ Shown'
  BY <1>2, <1>3, Launches
<1>5. /\ call' \in [Engine!Callers -> EngineCalls] /\ call'[c].at = "idle" /\ call'[c].proc = NoProc
      /\ \A d \in Engine!Callers : d # c => call'[d] = call[d]
  <2>1. PICK g \in [Engine!Callers -> EngineCalls] : g = call
    BY <1>1
  <2>2. /\ Calling(g, c, "idle", NoProc, "none") \in [Engine!Callers -> EngineCalls]
        /\ Calling(g, c, "idle", NoProc, "none")[c].at = "idle"
        /\ Calling(g, c, "idle", NoProc, "none")[c].proc = NoProc
        /\ \A d \in Engine!Callers : d # c => Calling(g, c, "idle", NoProc, "none")[d] = g[d]
    BY CallingFields
  <2>3. call' = Calling(g, c, "idle", NoProc, "none")
    BY <2>1, NoCalls DEF Engine!CallerLaunches
  <2>. QED BY <2>1, <2>2, <2>3
<1>6. EngineTypes'
  BY <1>1, <1>3, <1>4, <1>5 DEF EngineTypes
<1>7. Places'
  <2>1. ASSUME NEW d \in Engine!Callers
        PROVE  /\ call'[d].at = "stop" => call'[d].proc \in Procs
               /\ call'[d].at = "launch" =>
                    /\ call'[d].proc \in Procs /\ proc'[call'[d].proc].at = "built"
                    /\ \A e \in Engine!Callers : e # d => call'[e].proc # call'[d].proc
    <3>1. CASE d = c
      BY <1>5, <3>1
    <3>2. CASE d # c
      BY <1>1, <1>2, <1>4, <1>5, <3>2, EngineBounds DEF Places
    <3>. QED BY <3>1, <3>2
  <2>2. timer.at = "launch" =>
          \E q \in Procs : proc'[q].at = "built" /\ \A d \in Engine!Callers : call'[d].proc # q
    <3>1. SUFFICES ASSUME timer.at = "launch"
                   PROVE  \E q \in Procs :
                            proc'[q].at = "built" /\ \A d \in Engine!Callers : call'[d].proc # q
      OBVIOUS
    <3>2. PICK q \in Procs : proc[q].at = "built" /\ \A d \in Engine!Callers : call[d].proc # q
      BY <1>1, <3>1 DEF Places
    <3>3. q # p
      BY <1>2, <3>2
    <3>. QED BY <1>4, <1>5, <3>2, <3>3, EngineBounds
  <2>. QED BY <1>3, <1>4, <2>1, <2>2 DEF Places
<1>. QED BY <1>3, <1>4, <1>6, <1>7 DEF EngineInv

LEMMA RecoveryLaunchesStep ==
  ASSUME EngineInv, Engine!RecoveryLaunches
  PROVE  EngineInv'
<1>1. /\ EngineTypes /\ Places /\ call \in [Engine!Callers -> EngineCalls]
      /\ proc \in [Procs -> EngineProcs] /\ timer \in EngineTimers
      /\ timer.at = "launch" /\ timer.attempt < RecoveryDelays
  BY EngineParts DEF Engine!RecoveryLaunches, EngineTypes
<1>2. PICK p \in Procs :
        /\ proc[p].at = "built" /\ \A c \in Engine!Callers : call[c].proc # p
        /\ \/ Engine!Launch(p) /\ timer' = Engine!NoTimer /\ UNCHANGED exits
           \/ Engine!LaunchFails(p) /\ timer' = Engine!Rescheduled
  BY DEF Engine!RecoveryLaunches
<1>3. UNCHANGED <<call, raced, late, asked, calls>>
  BY DEF Engine!RecoveryLaunches
<1>4. /\ busy' \in BOOLEAN /\ running' \in BOOLEAN /\ wish' \in BOOLEAN /\ UNCHANGED tries
      /\ engine' \in Procs \cup {NoProc} /\ exits' \in 0..MaxExits
      /\ proc' \in [Procs -> EngineProcs] /\ \A q \in Procs : q # p => proc'[q] = proc[q]
      /\ engine' # NoProc => proc'[engine'].at \in {"running", "gone"}
      /\ ~raced => OneAtATime' /\ Stopped' /\ Shown'
  BY <1>2, <1>3, Launches
<1>5. timer' \in EngineTimers /\ timer'.at \in {"idle", "schedule"}
  <2>1. PICK t \in EngineTimers : t = timer
    BY <1>1
  <2>2. Again(t) \in EngineTimers /\ Again(t).at = "schedule"
    BY <1>1, <2>1, AgainFields
  <2>3. timer' = Again(t) \/ timer' = Engine!NoTimer
    BY <1>2, <2>1 DEF Engine!Rescheduled, Again
  <2>. QED BY <2>2, <2>3, NoTimers
<1>6. EngineTypes'
  BY <1>1, <1>3, <1>4, <1>5 DEF EngineTypes
<1>7. Places'
  BY <1>1, <1>2, <1>3, <1>4, <1>5 DEF Places
<1>. QED BY <1>3, <1>4, <1>6, <1>7 DEF EngineInv

LEMMA StopCalledStep ==
  ASSUME EngineInv, NEW c \in Engine!Callers, NEW next \in {"none", "start"},
         call[c] = Engine!NoCall, Engine!StopCalled(c, next), Engine!Calls, exits' = exits
  PROVE  EngineInv'
<1>1. /\ EngineTypes /\ Places /\ call \in [Engine!Callers -> EngineCalls]
      /\ (~raced => OneAtATime /\ Stopped /\ Shown) /\ raced \in BOOLEAN
      /\ proc \in [Procs -> EngineProcs] /\ timer \in EngineTimers
      /\ engine \in Procs \cup {NoProc}
  BY EngineParts
<1>2. PICK at \in {"idle", "again", "stop"} :
        /\ call' = Calling(call, c, at, engine, IF at = "stop" THEN next ELSE "none")
        /\ \/ at # "stop" /\ engine = NoProc /\ running' = FALSE /\ busy' = FALSE
           \/ at = "stop" /\ engine # NoProc /\ busy' = TRUE /\ running' = running
        /\ late' \in {FALSE, late} /\ (running' => late' = late)
  <2>1. CASE engine = NoProc
    <3>1. PICK at \in {"idle", "again"} : at = IF next = "none" THEN "idle" ELSE "again"
      OBVIOUS
    <3>2. call' = [call EXCEPT ![c] = [Engine!NoCall EXCEPT !.at = at]]
      BY <2>1, <3>1 DEF Engine!StopCalled
    <3>3. call' = Calling(call, c, at, engine, "none")
      BY <2>1, <3>2, NoCalls DEF Calling
    <3>4. running' = FALSE /\ busy' = FALSE /\ late' = FALSE
      BY <2>1 DEF Engine!StopCalled
    <3>. QED BY <2>1, <3>3, <3>4
  <2>2. CASE engine # NoProc
    BY <2>2 DEF Engine!StopCalled, Calling
  <2>. QED BY <2>1, <2>2
<1>3. /\ call' \in [Engine!Callers -> EngineCalls] /\ call'[c].at = at /\ call'[c].proc = engine
      /\ \A d \in Engine!Callers : d # c => call'[d] = call[d]
  <2>1. PICK g \in [Engine!Callers -> EngineCalls] : g = call
    BY <1>1
  <2>2. PICK n \in {"none", "start"} : n = IF at = "stop" THEN next ELSE "none"
    OBVIOUS
  <2>3. PICK p \in Procs \cup {NoProc} : p = engine
    BY <1>1
  <2>4. /\ Calling(g, c, at, p, n) \in [Engine!Callers -> EngineCalls]
        /\ Calling(g, c, at, p, n)[c].at = at /\ Calling(g, c, at, p, n)[c].proc = p
        /\ \A d \in Engine!Callers : d # c => Calling(g, c, at, p, n)[d] = g[d]
    <3>1. at \in {"idle", "launch", "stop", "again"}
      OBVIOUS
    <3>. QED BY <3>1, CallingFields
  <2>. QED BY <1>2, <2>1, <2>2, <2>3, <2>4
<1>4. timer' \in EngineTimers /\ timer'.at = timer.at /\ ~timer'.fresh /\ timer'.attempt = timer.attempt
  <2>1. PICK t \in EngineTimers : t = timer
    BY <1>1
  <2>2. /\ NotFresh(t) \in EngineTimers /\ NotFresh(t).at = t.at
        /\ ~NotFresh(t).fresh /\ NotFresh(t).attempt = t.attempt
    BY NotFreshFields
  <2>3. timer' = NotFresh(t)
    BY <2>1 DEF Engine!StopCalled, Engine!StaleTimer, NotFresh
  <2>. QED BY <2>1, <2>2, <2>3
<1>5. /\ proc' \in [Procs -> EngineProcs]
      /\ \A p \in Procs : proc'[p].at = proc[p].at /\ ~proc'[p].fresh
  <2>1. PICK g \in [Procs -> EngineProcs] : g = proc
    BY <1>1
  <2>2. /\ AllStale(g) \in [Procs -> EngineProcs]
        /\ \A p \in Procs : AllStale(g)[p].at = g[p].at /\ ~AllStale(g)[p].fresh
    BY StaleFields
  <2>3. proc' = AllStale(g)
    BY <2>1 DEF Engine!StopCalled, Engine!Staled, AllStale
  <2>. QED BY <2>1, <2>2, <2>3
<1>6. /\ asked' = FALSE /\ raced' = (raced \/ Engine!Gap) /\ wish' = FALSE
      /\ UNCHANGED <<engine, tries>> /\ calls < MaxCalls /\ calls' = calls + 1
  BY DEF Engine!StopCalled, Engine!Calls
<1>7. EngineTypes'
  <2>1. calls' \in 0..MaxCalls
    BY <1>1, <1>6, EngineBounds DEF EngineTypes
  <2>2. raced' \in BOOLEAN
    BY <1>1, <1>6 DEF Engine!Gap
  <2>3. running' \in BOOLEAN /\ busy' \in BOOLEAN /\ late' \in BOOLEAN
    BY <1>1, <1>2 DEF EngineTypes
  <2>. QED BY <1>1, <1>3, <1>4, <1>5, <1>6, <2>1, <2>2, <2>3 DEF EngineTypes
<1>8. Places'
  <2>1. engine \in Procs => proc[engine].at \in {"running", "gone"}
    BY <1>1, EngineBounds DEF Places
  <2>2. ASSUME NEW d \in Engine!Callers
        PROVE  /\ call'[d].at = "stop" => call'[d].proc \in Procs
               /\ call'[d].at = "launch" =>
                    /\ call'[d].proc \in Procs /\ proc'[call'[d].proc].at = "built"
                    /\ \A e \in Engine!Callers : e # d => call'[e].proc # call'[d].proc
    <3>1. CASE d = c
      BY <1>1, <1>2, <1>3, <3>1
    <3>2. CASE d # c
      <4>1. call'[d] = call[d]
        BY <1>3, <3>2
      <4>2. call[d].at = "launch" => call[d].proc # engine
        BY <1>1, <2>1 DEF Places
      <4>. QED BY <1>1, <1>3, <1>5, <4>1, <4>2 DEF Places
    <3>. QED BY <3>1, <3>2
  <2>3. timer.at = "launch" =>
          \E q \in Procs : proc'[q].at = "built" /\ \A d \in Engine!Callers : call'[d].proc # q
    <3>1. SUFFICES ASSUME timer.at = "launch"
                   PROVE  \E q \in Procs :
                            proc'[q].at = "built" /\ \A d \in Engine!Callers : call'[d].proc # q
      OBVIOUS
    <3>2. PICK q \in Procs : proc[q].at = "built" /\ \A d \in Engine!Callers : call[d].proc # q
      BY <1>1, <3>1 DEF Places
    <3>3. q # engine
      BY <2>1, <3>2
    <3>. QED BY <1>3, <1>5, <3>2, <3>3
  <2>. QED BY <1>1, <1>4, <1>5, <1>6, <2>2, <2>3 DEF Places
<1>9. ASSUME ~raced' PROVE OneAtATime' /\ Stopped' /\ Shown'
  <2>1. /\ OneAtATime /\ Shown /\ timer.at # "start"
        /\ \A p \in Procs : proc[p].at # "built"
    BY <1>1, <1>6, <1>9 DEF Engine!Gap
  <2>2. timer.at # "launch"
    BY <1>1, <2>1 DEF Places
  <2>3. OneAtATime'
    BY <1>5, <1>6, <2>1 DEF OneAtATime
  <2>4. \A p \in Procs : proc'[p].at = "running" => call'[c].at = "stop" /\ call'[c].proc = p
    <3>1. \A p \in Procs : proc'[p].at = "running" => engine = p
      BY <1>5, <2>1 DEF OneAtATime
    <3>. QED BY <1>2, <1>3, <3>1, EngineBounds
  <2>5. Stopped'
    BY <1>4, <1>5, <2>1, <2>2, <2>4 DEF Stopped
  <2>6. Shown'
    BY <1>2, <1>4, <1>5 DEF Shown
  <2>. QED BY <2>3, <2>5, <2>6
<1>. QED BY <1>7, <1>8, <1>9 DEF EngineInv

(* A step that leaves the processes, the calls and what they are asked for *)
(* as they are.                                                            *)
LEMMA PlacesStay ==
  ASSUME Places, UNCHANGED <<engine, call, proc>>, timer' = timer \/ timer'.at # "launch"
  PROVE  Places'
BY DEF Places

LEMMA StopReturnsStep ==
  ASSUME EngineInv, NEW c \in Engine!Callers, Engine!StopReturns(c)
  PROVE  EngineInv'
<1>1. /\ EngineTypes /\ Places /\ call \in [Engine!Callers -> EngineCalls]
      /\ (~raced => OneAtATime /\ Stopped /\ Shown) /\ raced \in BOOLEAN
      /\ proc \in [Procs -> EngineProcs]
  BY EngineParts
<1>2. /\ call[c].at = "stop" /\ proc[call[c].proc].at \in {"gone", "ended", "none"}
      /\ running' = FALSE /\ busy' = FALSE /\ late' = FALSE /\ tries' = 0 /\ raced' = (raced \/ Engine!Gap)
      /\ UNCHANGED <<wish, engine, proc, timer, asked, calls, exits>>
  BY DEF Engine!StopReturns
<1>3. PICK at \in {"idle", "again"} : call' = Calling(call, c, at, NoProc, "none")
  <2>1. PICK at \in {"idle", "again"} : at = IF call[c].next = "none" THEN "idle" ELSE "again"
    OBVIOUS
  <2>2. call' = [call EXCEPT ![c] = [Engine!NoCall EXCEPT !.at = at]]
    BY <2>1 DEF Engine!StopReturns
  <2>. QED BY <2>2, NoCalls DEF Calling
<1>4. /\ call' \in [Engine!Callers -> EngineCalls] /\ call'[c].at = at /\ call'[c].proc = NoProc
      /\ \A d \in Engine!Callers : d # c => call'[d] = call[d]
  <2>1. PICK g \in [Engine!Callers -> EngineCalls] : g = call
    BY <1>1
  <2>2. /\ Calling(g, c, at, NoProc, "none") \in [Engine!Callers -> EngineCalls]
        /\ Calling(g, c, at, NoProc, "none")[c].at = at
        /\ Calling(g, c, at, NoProc, "none")[c].proc = NoProc
        /\ \A d \in Engine!Callers : d # c => Calling(g, c, at, NoProc, "none")[d] = g[d]
    <3>1. at \in {"idle", "launch", "stop", "again"}
      OBVIOUS
    <3>. QED BY <3>1, CallingFields
  <2>. QED BY <1>3, <2>1, <2>2
<1>5. EngineTypes'
  <2>1. raced' \in BOOLEAN
    BY <1>1, <1>2 DEF Engine!Gap
  <2>2. tries' \in 0..RecoveryDelays
    BY <1>2, EngineBounds
  <2>. QED BY <1>1, <1>2, <1>4, <2>1, <2>2 DEF EngineTypes
<1>6. Places'
  <2>1. ASSUME NEW d \in Engine!Callers
        PROVE  /\ call'[d].at = "stop" => call'[d].proc \in Procs
               /\ call'[d].at = "launch" =>
                    /\ call'[d].proc \in Procs /\ proc'[call'[d].proc].at = "built"
                    /\ \A e \in Engine!Callers : e # d => call'[e].proc # call'[d].proc
    <3>1. CASE d = c
      BY <1>4, <3>1
    <3>2. CASE d # c
      BY <1>1, <1>2, <1>4, <3>2, EngineBounds DEF Places
    <3>. QED BY <3>1, <3>2
  <2>2. timer.at = "launch" =>
          \E q \in Procs : proc'[q].at = "built" /\ \A d \in Engine!Callers : call'[d].proc # q
    BY <1>1, <1>2, <1>4, EngineBounds DEF Places
  <2>. QED BY <1>1, <1>2, <2>1, <2>2 DEF Places
<1>7. ASSUME ~raced' PROVE OneAtATime' /\ Stopped' /\ Shown'
  <2>1. OneAtATime /\ Stopped /\ \A p \in Procs : proc[p].at # "built"
    BY <1>1, <1>2, <1>7 DEF Engine!Gap
  <2>2. OneAtATime'
    BY <1>2, <2>1 DEF OneAtATime
  <2>3. ASSUME ~asked, NEW p \in Procs, proc[p].at = "running"
        PROVE  \E d \in Engine!Callers : call'[d].at = "stop" /\ call'[d].proc = p
    <3>1. PICK d \in Engine!Callers : call[d].at = "stop" /\ call[d].proc = p
      BY <2>1, <2>3 DEF Stopped
    <3>2. d # c
      BY <1>2, <2>3, <3>1
    <3>. QED BY <1>4, <3>1, <3>2
  <2>4. Stopped'
    BY <1>2, <2>1, <2>3 DEF Stopped
  <2>. QED BY <1>2, <2>2, <2>4 DEF Shown
<1>. QED BY <1>5, <1>6, <1>7 DEF EngineInv

(* A line that is heeded: it is of the engine there is, or of one that has *)
(* ended.                                                                  *)
LEMMA LineStep ==
  ASSUME EngineInv, NEW p \in Procs,
         \/ Engine!Connecting(p) \/ Engine!Listening(p)
         \/ Engine!Stats(p) \/ Engine!Degraded(p)
  PROVE  EngineInv'
<1>1. /\ EngineTypes /\ Places /\ (~raced => OneAtATime /\ Stopped /\ Shown)
      /\ raced \in BOOLEAN
  BY EngineParts
<1>2. /\ Engine!Line(p) /\ running' \in BOOLEAN /\ busy' \in BOOLEAN /\ tries' \in {0, tries}
      /\ proc[p].at \in {"running", "gone", "ended"} /\ proc[p].fresh
      /\ late' = (proc[p].at = "ended")
      /\ raced' = (raced \/ (proc[p].at = "ended" /\ \E q \in Procs : proc[q].at = "built"))
      /\ UNCHANGED <<wish, engine, proc, call, timer, asked, calls, exits>>
  BY <1>1 DEF Engine!Connecting, Engine!Listening, Engine!Stats, Engine!Degraded,
              Engine!Line, Engine!Heeds, EngineTypes
<1>3. EngineTypes'
  <2>1. tries' \in 0..RecoveryDelays
    BY <1>1, <1>2, EngineBounds DEF EngineTypes
  <2>2. raced' \in BOOLEAN /\ late' \in BOOLEAN
    BY <1>1, <1>2
  <2>. QED BY <1>1, <1>2, <2>1, <2>2 DEF EngineTypes
<1>4. Places'
  BY <1>1, <1>2, PlacesStay
<1>5. ASSUME ~raced' PROVE OneAtATime' /\ Stopped' /\ Shown'
  <2>1. OneAtATime /\ Stopped
    BY <1>1, <1>2, <1>5
  <2>2. \A q \in Procs : proc[q].at # "built"
    <3>1. CASE proc[p].at = "ended"
      BY <1>2, <1>5, <3>1
    <3>2. CASE proc[p].at \in {"running", "gone"}
      BY <2>1, <3>2, EngineBounds DEF OneAtATime
    <3>. QED BY <1>2, <3>1, <3>2
  <2>3. OneAtATime'
    BY <1>2, <2>1, <2>2 DEF OneAtATime
  <2>4. Stopped'
    BY <1>2, <2>1 DEF Stopped
  <2>5. Shown'
    BY <1>2 DEF Shown
  <2>. QED BY <2>3, <2>4, <2>5
<1>. QED BY <1>3, <1>4, <1>5 DEF EngineInv

LEMMA ExitStep ==
  ASSUME EngineInv, NEW p \in Procs, Engine!Exit(p)
  PROVE  EngineInv'
<1>1. /\ EngineTypes /\ Places /\ (~raced => OneAtATime /\ Stopped /\ Shown)
      /\ proc \in [Procs -> EngineProcs] /\ exits \in 0..MaxExits
  BY EngineParts DEF EngineTypes
<1>2. /\ proc[p].at = "running"
      /\ UNCHANGED <<running, busy, wish, engine, tries, call, timer, asked, raced, late, calls>>
      /\ exits' = exits \/ (exits < MaxExits /\ exits' = exits + 1)
  BY DEF Engine!Exit
<1>3. /\ proc' \in [Procs -> EngineProcs] /\ proc'[p].at = "gone" /\ proc'[p].fresh = proc[p].fresh
      /\ \A q \in Procs : q # p => proc'[q] = proc[q]
  <2>1. PICK g \in [Procs -> EngineProcs] : g = proc
    BY <1>1
  <2>2. /\ Moved(g, p, "gone") \in [Procs -> EngineProcs] /\ Moved(g, p, "gone")[p].at = "gone"
        /\ Moved(g, p, "gone")[p].fresh = g[p].fresh
        /\ \A q \in Procs : q # p => Moved(g, p, "gone")[q] = g[q]
    BY MovedFields
  <2>3. proc' = Moved(g, p, "gone")
    BY <2>1 DEF Engine!Exit, Moved
  <2>. QED BY <2>1, <2>2, <2>3
<1>4. EngineTypes'
  <2>1. exits' \in 0..MaxExits
    BY <1>1, <1>2, EngineBounds
  <2>. QED BY <1>1, <1>2, <1>3, <2>1 DEF EngineTypes
<1>5. Places'
  <2>1. \A q \in Procs : proc'[q].at = "built" <=> proc[q].at = "built"
    BY <1>2, <1>3
  <2>2. engine # NoProc => proc'[engine].at \in {"running", "gone"}
    BY <1>1, <1>3 DEF Places, EngineTypes
  <2>. QED BY <1>1, <1>2, <2>1, <2>2 DEF Places
<1>6. ASSUME ~raced PROVE OneAtATime' /\ Stopped' /\ Shown'
  <2>1. OneAtATime /\ Stopped /\ Shown
    BY <1>1, <1>6
  <2>2. \A q \in Procs : proc'[q].fresh = proc[q].fresh
    BY <1>3
  <2>3. \A q \in Procs : /\ proc'[q].at = "built" <=> proc[q].at = "built"
                         /\ proc'[q].at \in {"running", "gone"} <=> proc[q].at \in {"running", "gone"}
                         /\ proc'[q].at = "running" => proc[q].at = "running"
    BY <1>2, <1>3
  <2>4. OneAtATime'
    BY <1>2, <2>1, <2>3 DEF OneAtATime
  <2>5. Stopped'
    BY <1>2, <2>1, <2>2, <2>3 DEF Stopped
  <2>6. Shown'
    BY <1>2, <2>1, <2>2, <2>3 DEF Shown
  <2>. QED BY <2>4, <2>5, <2>6
<1>. QED BY <1>2, <1>4, <1>5, <1>6 DEF EngineInv

LEMMA WaitStep ==
  ASSUME EngineInv, NEW p \in Procs, Engine!Wait(p)
  PROVE  EngineInv'
<1>1. /\ EngineTypes /\ Places /\ (~raced => OneAtATime /\ Stopped /\ Shown)
      /\ proc \in [Procs -> EngineProcs] /\ timer \in EngineTimers
      /\ engine \in Procs \cup {NoProc} /\ proc[p].fresh \in BOOLEAN /\ late \in BOOLEAN
  BY EngineParts
<1>2. /\ proc[p].at = "gone" /\ engine' = (IF engine = p THEN NoProc ELSE engine)
      /\ UNCHANGED <<wish, tries, call, asked, raced, calls, exits>>
      /\ \/ ~proc[p].fresh /\ UNCHANGED <<running, busy, timer, late>>
         \/ proc[p].fresh /\ running' = FALSE /\ busy' = FALSE /\ late' = FALSE
  BY DEF Engine!Wait, Engine!Heeds
<1>3. /\ proc' \in [Procs -> EngineProcs] /\ proc'[p].at = "ended" /\ proc'[p].fresh = proc[p].fresh
      /\ \A q \in Procs : q # p => proc'[q] = proc[q]
  <2>1. PICK g \in [Procs -> EngineProcs] : g = proc
    BY <1>1
  <2>2. /\ Moved(g, p, "ended") \in [Procs -> EngineProcs] /\ Moved(g, p, "ended")[p].at = "ended"
        /\ Moved(g, p, "ended")[p].fresh = g[p].fresh
        /\ \A q \in Procs : q # p => Moved(g, p, "ended")[q] = g[q]
    BY MovedFields
  <2>3. proc' = Moved(g, p, "ended")
    BY <2>1 DEF Engine!Wait, Moved
  <2>. QED BY <2>1, <2>2, <2>3
<1>4. \/ timer' = timer
      \/ proc[p].fresh /\ timer' \in EngineTimers /\ timer'.at \in {"schedule", "giveup"}
  <2>1. CASE timer' = timer
    BY <2>1
  <2>2. CASE \E resident \in BOOLEAN :
               timer' = [at |-> IF resident THEN "schedule" ELSE "giveup",
                         fresh |-> proc[p].fresh, attempt |-> tries]
    <3>1. PICK at \in {"schedule", "giveup"} :
            timer' = [at |-> at, fresh |-> proc[p].fresh, attempt |-> tries]
      BY <2>2
    <3>2. timer' \in EngineTimers /\ timer'.at = at
      BY <1>1, <3>1 DEF EngineTimers, EngineTypes
    <3>3. proc[p].fresh \/ timer' = timer
      BY <1>2
    <3>. QED BY <3>2, <3>3
  <2>. QED BY <2>1, <2>2 DEF Engine!Wait
<1>5. EngineTypes'
  <2>1. /\ timer' \in EngineTimers
        /\ timer'.at \in {"timer", "start", "launch"} => timer'.attempt < RecoveryDelays
    BY <1>1, <1>4 DEF EngineTypes
  <2>2. /\ running' \in BOOLEAN /\ busy' \in BOOLEAN /\ late' \in BOOLEAN
        /\ engine' \in Procs \cup {NoProc}
    BY <1>1, <1>2 DEF EngineTypes
  <2>. QED BY <1>1, <1>2, <1>3, <2>1, <2>2 DEF EngineTypes
<1>6. Places'
  <2>1. \A q \in Procs : proc'[q].at = "built" <=> proc[q].at = "built"
    BY <1>2, <1>3
  <2>2. engine' # NoProc => proc'[engine'].at \in {"running", "gone"}
    BY <1>1, <1>2, <1>3 DEF Places
  <2>3. timer'.at = "launch" => timer' = timer
    BY <1>4
  <2>. QED BY <1>1, <1>2, <2>1, <2>2, <2>3 DEF Places
<1>7. ASSUME ~raced PROVE OneAtATime' /\ Stopped' /\ Shown'
  <2>1. OneAtATime /\ Stopped /\ Shown
    BY <1>1, <1>7
  <2>2. /\ engine = p /\ \A q \in Procs : proc[q].at # "built"
        /\ \A q \in Procs : q # p => proc[q].at \in {"none", "ended"}
    <3>1. engine = p
      BY <1>2, <2>1 DEF OneAtATime
    <3>2. \A q \in Procs : proc[q].at # "built"
      BY <2>1, <3>1, EngineBounds DEF OneAtATime
    <3>3. \A q \in Procs : q # p => proc[q].at \notin {"running", "gone"}
      BY <2>1, <3>1 DEF OneAtATime
    <3>4. \A q \in Procs : proc[q].at \in {"none", "built", "running", "gone", "ended"}
      BY <1>1 DEF EngineProcs
    <3>. QED BY <3>1, <3>2, <3>3, <3>4
  <2>3. \A q \in Procs : proc'[q].at \in {"none", "ended"} /\ proc'[q].fresh = proc[q].fresh
    BY <1>3, <2>2
  <2>4. OneAtATime'
    BY <2>3 DEF OneAtATime
  <2>5. Stopped'
    BY <1>2, <1>3, <1>4, <2>1, <2>3 DEF Stopped
  <2>6. Shown'
    <3>1. CASE proc[p].fresh
      BY <1>2, <3>1 DEF Shown
    <3>2. CASE ~proc[p].fresh
      <4>1. UNCHANGED <<running, busy, timer, late>>
        BY <1>2, <3>2
      <4>2. running => late \/ (busy /\ ~timer.fresh /\ \A q \in Procs : ~proc[q].fresh)
        BY <2>1, <2>2, <3>2 DEF Shown
      <4>. QED BY <2>3, <4>1, <4>2 DEF Shown
    <3>. QED BY <1>1, <3>1, <3>2
  <2>. QED BY <2>4, <2>5, <2>6
<1>. QED BY <1>2, <1>5, <1>6, <1>7 DEF EngineInv

LEMMA ReaderEndsStep ==
  ASSUME EngineInv, NEW p \in Procs, Engine!ReaderEnds(p)
  PROVE  EngineInv'
<1>1. /\ EngineTypes /\ Places /\ (~raced => OneAtATime /\ Stopped /\ Shown)
      /\ proc \in [Procs -> EngineProcs]
  BY EngineParts
<1>2. /\ proc[p].at = "ended"
      /\ UNCHANGED <<running, busy, wish, engine, tries, call, timer, asked, raced, late, calls, exits>>
  BY DEF Engine!ReaderEnds
<1>3. /\ proc' \in [Procs -> EngineProcs] /\ proc'[p].at = "none" /\ ~proc'[p].fresh
      /\ \A q \in Procs : q # p => proc'[q] = proc[q]
  <2>1. PICK g \in [Procs -> EngineProcs] : g = proc
    BY <1>1
  <2>2. PICK b \in BOOLEAN : b = FALSE
    OBVIOUS
  <2>3. /\ Renewed(g, p, "none", b) \in [Procs -> EngineProcs]
        /\ Renewed(g, p, "none", b)[p].at = "none" /\ Renewed(g, p, "none", b)[p].fresh = b
        /\ \A q \in Procs : q # p => Renewed(g, p, "none", b)[q] = g[q]
    BY RenewedFields
  <2>4. proc' = Renewed(g, p, "none", b)
    BY <2>1, <2>2 DEF Engine!ReaderEnds, Renewed
  <2>. QED BY <2>1, <2>2, <2>3, <2>4
<1>4. EngineTypes'
  BY <1>1, <1>2, <1>3 DEF EngineTypes
<1>5. Places'
  <2>1. \A q \in Procs : proc'[q].at = "built" <=> proc[q].at = "built"
    BY <1>2, <1>3
  <2>2. engine # NoProc => proc'[engine].at \in {"running", "gone"}
    BY <1>1, <1>2, <1>3 DEF Places, EngineTypes
  <2>. QED BY <1>1, <1>2, <2>1, <2>2 DEF Places
<1>6. ASSUME ~raced PROVE OneAtATime' /\ Stopped' /\ Shown'
  <2>1. OneAtATime /\ Stopped /\ Shown
    BY <1>1, <1>6
  <2>2. \A q \in Procs : /\ proc'[q].at = "built" <=> proc[q].at = "built"
                         /\ proc'[q].at = "running" <=> proc[q].at = "running"
                         /\ proc'[q].at \in {"running", "gone"} => proc'[q] = proc[q]
                         /\ proc'[q].fresh => proc[q].fresh
    BY <1>2, <1>3
  <2>3. OneAtATime'
    BY <1>2, <2>1, <2>2 DEF OneAtATime
  <2>4. Stopped'
    BY <1>2, <2>1, <2>2 DEF Stopped
  <2>5. Shown'
    <3>1. \A q \in Procs : proc[q].at \in {"running", "gone"} => proc'[q] = proc[q]
      BY <1>2, <1>3
    <3>. QED BY <1>2, <2>1, <2>2, <3>1 DEF Shown
  <2>. QED BY <2>3, <2>4, <2>5
<1>. QED BY <1>2, <1>4, <1>5, <1>6 DEF EngineInv

LEMMA StopStep ==
  ASSUME EngineInv, NEW c \in Engine!Callers, Engine!Stop(c)
  PROVE  EngineInv'
<1>1. PICK next \in {"none", "start"} : next = "none"
  OBVIOUS
<1>2. /\ call[c] = Engine!NoCall /\ Engine!StopCalled(c, next) /\ Engine!Calls /\ exits' = exits
  BY <1>1 DEF Engine!Stop
<1>. QED BY <1>2, StopCalledStep

LEMMA RestartStep ==
  ASSUME EngineInv, Engine!Restart
  PROVE  EngineInv'
<1>1. PICK c \in Engine!Callers : c = "remote"
  BY EngineBounds
<1>2. PICK next \in {"none", "start"} : next = "start"
  OBVIOUS
<1>3. /\ call[c] = Engine!NoCall /\ Engine!StopCalled(c, next) /\ Engine!Calls /\ exits' = exits
  BY <1>1, <1>2 DEF Engine!Restart
<1>. QED BY <1>3, StopCalledStep

(* What a step of the recovery's goroutine does to the rest: nothing, but  *)
(* that it may end being busy where no engine waits for its launch.        *)
LEMMA TimerStep ==
  ASSUME EngineInv,
         UNCHANGED <<running, engine, tries, proc, call, asked, raced, late, calls>>,
         wish' \in BOOLEAN, busy' \in BOOLEAN, exits' \in 0..MaxExits,
         timer' \in EngineTimers, timer'.at # "launch",
         timer'.at \in {"timer", "start"} => timer'.attempt < RecoveryDelays,
         timer'.fresh => timer.fresh, timer'.at = "start" => timer.fresh,
         timer.at # "launch",
         timer.fresh \/ busy' = busy
  PROVE  EngineInv'
<1>1. /\ EngineTypes /\ Places /\ (~raced => OneAtATime /\ Stopped /\ Shown)
      /\ timer \in EngineTimers
  BY EngineParts
<1>2. EngineTypes'
  BY <1>1 DEF EngineTypes
<1>3. Places'
  BY <1>1, PlacesStay
<1>4. ASSUME ~raced PROVE OneAtATime' /\ Stopped' /\ Shown'
  <2>1. OneAtATime /\ Stopped /\ Shown
    BY <1>1, <1>4
  <2>2. OneAtATime'
    BY <2>1 DEF OneAtATime
  <2>3. Stopped'
    BY <2>1 DEF Stopped
  <2>4. Shown'
    BY <2>1 DEF Shown
  <2>. QED BY <2>2, <2>3, <2>4
<1>. QED BY <1>2, <1>3, <1>4 DEF EngineInv

LEMMA ScheduleStep ==
  ASSUME EngineInv, Engine!Schedule
  PROVE  EngineInv'
<1>1. /\ timer \in EngineTimers /\ timer.fresh \in BOOLEAN /\ timer.attempt \in 0..RecoveryDelays
      /\ wish \in BOOLEAN /\ busy \in BOOLEAN /\ exits \in 0..MaxExits
  BY EngineParts DEF EngineTypes, EngineTimers
<1>2. /\ UNCHANGED <<running, engine, tries, proc, call, asked, raced, late, calls, exits>>
      /\ timer.at \in {"giveup", "schedule"}
  BY DEF Engine!Schedule
<1>3. wish' \in BOOLEAN /\ busy' \in BOOLEAN /\ (timer.fresh \/ busy' = busy)
  BY <1>1 DEF Engine!Schedule
<1>4. \/ timer' = Engine!NoTimer
      \/ timer.fresh /\ timer.attempt < RecoveryDelays /\ timer' = Until(timer, "timer")
  BY DEF Engine!Schedule, Until
<1>5. /\ timer' \in EngineTimers /\ timer'.at \in {"idle", "timer"}
      /\ timer'.at \in {"timer", "start"} => timer'.attempt < RecoveryDelays
      /\ timer'.fresh => timer.fresh
  <2>1. PICK t \in EngineTimers : t = timer
    BY <1>1
  <2>2. PICK at \in {"idle", "schedule", "giveup", "timer", "start", "launch"} : at = "timer"
    OBVIOUS
  <2>3. /\ Until(t, at) \in EngineTimers /\ Until(t, at).at = at
        /\ Until(t, at).fresh = t.fresh /\ Until(t, at).attempt = t.attempt
    BY UntilFields
  <2>. QED BY <1>4, <2>1, <2>2, <2>3, NoTimers
<1>. QED BY <1>1, <1>2, <1>3, <1>5, TimerStep

LEMMA FiresStep ==
  ASSUME EngineInv, Engine!Fires
  PROVE  EngineInv'
<1>1. /\ timer \in EngineTimers /\ timer.fresh \in BOOLEAN
      /\ wish \in BOOLEAN /\ busy \in BOOLEAN /\ exits \in 0..MaxExits
      /\ timer.at = "timer" => timer.attempt < RecoveryDelays
  BY EngineParts DEF EngineTypes
<1>2. /\ UNCHANGED <<running, wish, engine, tries, proc, call, asked, raced, late, calls, exits>>
      /\ timer.at = "timer"
  BY DEF Engine!Fires
<1>3. busy' \in BOOLEAN /\ (timer.fresh \/ busy' = busy)
  BY <1>1 DEF Engine!Fires
<1>4. \/ timer' = Engine!NoTimer
      \/ timer.fresh /\ timer' = Until(timer, "start")
  BY DEF Engine!Fires, Until
<1>5. /\ timer' \in EngineTimers /\ timer'.at \in {"idle", "start"}
      /\ timer'.at \in {"timer", "start"} => timer'.attempt < RecoveryDelays /\ timer.fresh
      /\ timer'.fresh => timer.fresh
  <2>1. PICK t \in EngineTimers : t = timer
    BY <1>1
  <2>2. PICK at \in {"idle", "schedule", "giveup", "timer", "start", "launch"} : at = "start"
    OBVIOUS
  <2>3. /\ Until(t, at) \in EngineTimers /\ Until(t, at).at = at
        /\ Until(t, at).fresh = t.fresh /\ Until(t, at).attempt = t.attempt
    BY UntilFields
  <2>. QED BY <1>1, <1>2, <1>4, <2>1, <2>2, <2>3, NoTimers
<1>. QED BY <1>1, <1>2, <1>3, <1>5, TimerStep

LEMMA RecoveryPreparesStep ==
  ASSUME EngineInv, Engine!RecoveryPrepares
  PROVE  EngineInv'
<1>1. /\ EngineTypes /\ Places /\ (~raced => OneAtATime /\ Stopped /\ Shown)
      /\ timer \in EngineTimers /\ timer.fresh \in BOOLEAN /\ timer.attempt \in 0..RecoveryDelays
      /\ wish \in BOOLEAN /\ busy \in BOOLEAN /\ exits \in 0..MaxExits
      /\ timer.at = "start" /\ timer.attempt < RecoveryDelays /\ calls' = calls
  BY EngineParts DEF EngineTypes, EngineTimers, Engine!RecoveryPrepares
<1>2. PICK t \in EngineTimers : t = timer
  BY <1>1
<1>3. ASSUME NEW p \in Procs, Engine!Prepare(p, TRUE), tries' = timer.attempt + 1,
             timer' = Until(t, "launch"), UNCHANGED <<call, asked, exits>>
      PROVE  EngineInv'
  <2>1. /\ ~running /\ ~busy /\ engine = NoProc /\ proc[p].at = "none"
        /\ \A d \in Engine!Callers : call[d].proc # p
        /\ busy' = TRUE /\ running' = FALSE /\ late' = FALSE /\ UNCHANGED <<wish, engine, raced>>
        /\ proc' \in [Procs -> EngineProcs] /\ proc'[p].at = "built"
        /\ \A q \in Procs : q # p => proc'[q].at = proc[q].at
    BY <1>3, Prepares
  <2>2. timer' \in EngineTimers /\ timer'.at = "launch" /\ timer'.attempt = timer.attempt
    <3>1. PICK at \in {"idle", "schedule", "giveup", "timer", "start", "launch"} : at = "launch"
      OBVIOUS
    <3>2. /\ Until(t, at) \in EngineTimers /\ Until(t, at).at = at
          /\ Until(t, at).fresh = t.fresh /\ Until(t, at).attempt = t.attempt
      BY UntilFields
    <3>. QED BY <1>2, <1>3, <3>1, <3>2
  <2>3. EngineTypes'
    <3>1. tries' \in 0..RecoveryDelays
      BY <1>1, <1>3, EngineBounds
    <3>. QED BY <1>1, <1>3, <2>1, <2>2, <3>1 DEF EngineTypes
  <2>4. Places'
    <3>1. ASSUME NEW d \in Engine!Callers
          PROVE  /\ call'[d].at = "stop" => call'[d].proc \in Procs
                 /\ call'[d].at = "launch" =>
                      /\ call'[d].proc \in Procs /\ proc'[call'[d].proc].at = "built"
                      /\ \A e \in Engine!Callers : e # d => call'[e].proc # call'[d].proc
      <4>1. call'[d] = call[d] /\ call[d].proc # p
        BY <1>3, <2>1
      <4>. QED BY <1>1, <1>3, <2>1, <4>1 DEF Places
    <3>. QED BY <1>3, <2>1, <2>2, <3>1 DEF Places
  <2>5. ASSUME ~raced' PROVE OneAtATime' /\ Stopped' /\ Shown'
    <3>1. OneAtATime /\ asked
      BY <1>1, <2>1, <2>5 DEF Stopped
    <3>2. OneAtATime'
      BY <2>1, <2>2, <3>1 DEF OneAtATime
    <3>. QED BY <1>3, <2>1, <3>1, <3>2 DEF Stopped, Shown
  <2>. QED BY <2>3, <2>4, <2>5 DEF EngineInv
<1>4. ASSUME timer' = Engine!NoTimer,
             UNCHANGED <<running, busy, wish, engine, tries, proc, call, asked, raced, late, exits>>
      PROVE  EngineInv'
  BY <1>1, <1>4, NoTimers, TimerStep
<1>5. ASSUME exits < MaxExits, exits' = exits + 1, timer' = Again(t), busy' = (busy /\ ~timer.fresh),
             UNCHANGED <<running, wish, engine, tries, proc, call, asked, raced, late>>
      PROVE  EngineInv'
  <2>1. exits' \in 0..MaxExits
    BY <1>1, <1>5, EngineBounds
  <2>2. timer' \in EngineTimers /\ timer'.at = "schedule" /\ timer'.fresh = timer.fresh
    <3>1. Again(t) \in EngineTimers /\ Again(t).at = "schedule" /\ Again(t).fresh = t.fresh
      BY <1>1, <1>2, AgainFields
    <3>. QED BY <1>2, <1>5, <3>1
  <2>3. busy' \in BOOLEAN /\ (timer.fresh \/ busy' = busy)
    BY <1>1, <1>5
  <2>. QED BY <1>1, <1>5, <2>1, <2>2, <2>3, TimerStep
<1>6. \/ \E p \in Procs :
           /\ Engine!Prepare(p, TRUE) /\ tries' = timer.attempt + 1
           /\ timer' = Until(t, "launch") /\ UNCHANGED <<call, asked, exits>>
      \/ /\ timer' = Engine!NoTimer
         /\ UNCHANGED <<running, busy, wish, engine, tries, proc, call, asked, raced, late, exits>>
      \/ /\ exits < MaxExits /\ exits' = exits + 1 /\ timer' = Again(t)
         /\ busy' = (busy /\ ~timer.fresh)
         /\ UNCHANGED <<running, wish, engine, tries, proc, call, asked, raced, late>>
  BY <1>2 DEF Engine!RecoveryPrepares, Engine!Rescheduled, Until, Again
<1>. QED BY <1>3, <1>4, <1>5, <1>6

LEMMA EngineUnchanged ==
  ASSUME EngineInv, UNCHANGED engineVars
  PROVE  EngineInv'
BY DEF EngineInv, engineVars, EngineTypes, Places, OneAtATime, Stopped, Shown

LEMMA EngineStep ==
  ASSUME EngineInv, Engine!Next
  PROVE  EngineInv'
<1>1. CASE \E c \in Engine!Callers :
             Engine!Start(c) \/ Engine!Stop(c) \/ Engine!CallerLaunches(c) \/ Engine!StopReturns(c)
  BY <1>1, StartStep, StopStep, CallerLaunchesStep, StopReturnsStep
<1>2. CASE Engine!Restart \/ Engine!StartAgain
  BY <1>2, RestartStep, StartAgainStep
<1>3. CASE \E p \in Procs : \/ Engine!Connecting(p) \/ Engine!Listening(p)
                              \/ Engine!Stats(p) \/ Engine!Degraded(p)
  BY <1>3, LineStep
<1>5. CASE \E p \in Procs : Engine!Exit(p) \/ Engine!Wait(p) \/ Engine!ReaderEnds(p)
  BY <1>5, ExitStep, WaitStep, ReaderEndsStep
<1>4. CASE Engine!Schedule \/ Engine!Fires \/ Engine!RecoveryPrepares \/ Engine!RecoveryLaunches
  BY <1>4, ScheduleStep, FiresStep, RecoveryPreparesStep, RecoveryLaunchesStep
<1>. QED BY <1>1, <1>2, <1>3, <1>4, <1>5 DEF Engine!Next

LEMMA EngineInit ==
  ASSUME Engine!Init
  PROVE  EngineInv
<1>1. /\ running = FALSE /\ busy = FALSE /\ wish = FALSE /\ engine = NoProc /\ tries = 0
      /\ proc = [p \in Procs |-> [at |-> "none", fresh |-> FALSE]]
      /\ call = [c \in Engine!Callers |-> Engine!NoCall] /\ timer = Engine!NoTimer
      /\ asked = FALSE /\ raced = FALSE /\ late = FALSE /\ calls = 0 /\ exits = 0
  BY DEF Engine!Init
<1>2. proc \in [Procs -> EngineProcs] /\ \A p \in Procs : proc[p].at = "none" /\ ~proc[p].fresh
  <2>1. [at |-> "none", fresh |-> FALSE] \in EngineProcs
    BY DEF EngineProcs
  <2>. QED BY <1>1, <2>1
<1>3. /\ call \in [Engine!Callers -> EngineCalls]
      /\ \A c \in Engine!Callers : call[c].at = "idle" /\ call[c].proc = NoProc
  <2>1. Engine!NoCall \in EngineCalls
    BY DEF Engine!NoCall, EngineCalls
  <2>. QED BY <1>1, <2>1, NoCalls
<1>4. EngineTypes
  <2>1. tries \in 0..RecoveryDelays /\ calls \in 0..MaxCalls /\ exits \in 0..MaxExits
    BY <1>1, EngineBounds
  <2>2. timer \in EngineTimers /\ timer.at = "idle"
    BY <1>1, NoTimers
  <2>3. /\ running \in BOOLEAN /\ busy \in BOOLEAN /\ wish \in BOOLEAN /\ asked \in BOOLEAN
        /\ raced \in BOOLEAN /\ late \in BOOLEAN /\ engine \in Procs \cup {NoProc}
    BY <1>1
  <2>. QED BY <1>2, <1>3, <2>1, <2>2, <2>3 DEF EngineTypes
<1>5. Places
  BY <1>1, <1>3, NoTimers DEF Places
<1>6. OneAtATime /\ Stopped /\ Shown
  BY <1>1, <1>2, NoTimers DEF OneAtATime, Stopped, Shown
<1>. QED BY <1>4, <1>5, <1>6 DEF EngineInv

(* The inductive invariant of the client's engine, for every number of     *)
(* processes, calls and failures.                                          *)
LEMMA EngineKept == Spec => []EngineInv
<1>1. Init => EngineInv
  BY EngineInit DEF Init
<1>2. ASSUME EngineInv, [Next]_vars PROVE EngineInv'
  <2>1. CASE OfEngine /\ Engine!Next
    BY <1>2, <2>1, EngineStep
  <2>2. CASE UNCHANGED engineVars
    BY <1>2, <2>2, EngineUnchanged
  <2>3. Next => (OfEngine /\ Engine!Next) \/ UNCHANGED engineVars
    BY DEF Next, OfDevice, OfBundle, OfManager, OfProvision
  <2>4. UNCHANGED vars => UNCHANGED engineVars
    BY DEF vars
  <2>. QED BY <1>2, <2>1, <2>2, <2>3, <2>4
<1>. QED BY <1>1, <1>2, PTL DEF Spec

LEMMA EngineShows ==
  ASSUME EngineInv
  PROVE  EngineObeys
<1>1. /\ EngineTypes /\ Places /\ (~raced => OneAtATime /\ Stopped /\ Shown)
  BY EngineParts
<1>2. Engine!TypeOK
  BY <1>1 DEF EngineTypes, Engine!TypeOK, EngineProcs, EngineCalls, EngineTimers
<1>3. Engine!StopWins
  <2>1. SUFFICES ASSUME ~asked, ~raced, \A c \in Engine!Callers : call[c].at = "idle",
                        NEW p \in Procs
                 PROVE  proc[p].at \notin {"built", "running"}
    BY DEF Engine!StopWins, Engine!Alive
  <2>. QED BY <1>1, <2>1 DEF Stopped
<1>4. Engine!OneEngine
  BY <1>1 DEF OneAtATime, Engine!OneEngine
<1>5. Engine!ReportsTruth
  BY <1>1 DEF Shown, Engine!ReportsTruth
<1>. QED BY <1>2, <1>3, <1>4, <1>5 DEF EngineObeys

(* Windows client, engine.go: whatever the user, the remote control, the   *)
(* recovery and the processes do between each other's steps, a Stop that   *)
(* fell into no launch is final, the client has one engine and can cancel  *)
(* it, and an engine is shown as running only while there is one, or since *)
(* the last line heeded was of one that had ended.                         *)
THEOREM EngineObeysTheUser == Spec => []EngineObeys
BY EngineKept, EngineShows, PTL
-----------------------------------------------------------------------------
(* Bundle.                                                                 *)

BundleSups ==
  [at : {"launch", "tellStarted", "scan", "tellRetrying", "wait", "ended"},
   generation : 0..MaxGeneration, failures : 0..RetryDelays]
BundleChildren == {"none", "started", "connecting", "listening"}
News == [profile : BundleProfiles, generation : 0..MaxGeneration, kind : {"started", "retrying"}]
Sayings ==
  [profile : BundleProfiles, generation : 0..MaxGeneration, kind : {"connecting", "listening"}]

BundleTypes ==
  /\ sup \in [BundleProfiles -> BundleSups] /\ child \in [BundleProfiles -> BundleChildren]
  /\ lifecycle \in Seq(News) /\ events \in Seq(Sayings)
  /\ known \in [BundleProfiles -> 0..MaxGeneration] /\ active \in [BundleProfiles -> BOOLEAN]
  /\ ready \subseteq BundleProfiles /\ retrying \subseteq BundleProfiles /\ cancelled \in BOOLEAN

(* What a channel carries of a Profile.                                    *)
NewsOf(s, p) == {n \in {s[i] : i \in 1..Len(s)} : n.profile = p}

(* a comes before b among the news of a Profile.                           *)
Before(a, b) ==
  \/ a.generation < b.generation
  \/ a.generation = b.generation /\ a.kind = "started" /\ b.kind = "retrying"

(* The news of a Profile are in order.                                     *)
InOrder(s) ==
  \A i, j \in 1..Len(s) : i < j /\ s[i].profile = s[j].profile => Before(s[i], s[j])

(* What the goroutine of p has told, and what is known of it.              *)
Told(p) ==
  /\ \A n \in NewsOf(lifecycle, p) :
       /\ n.generation <= sup[p].generation
       /\ sup[p].at = "tellStarted" => n.generation < sup[p].generation
       /\ sup[p].at \in {"scan", "tellRetrying"} =>
            n.generation < sup[p].generation \/ n.kind = "started"
  /\ \A n \in NewsOf(events, p) :
       /\ n.generation <= sup[p].generation
       /\ sup[p].at = "tellStarted" => n.generation < sup[p].generation
       /\ sup[p].at = "scan" /\ n.generation = sup[p].generation /\ n.kind = "listening" =>
            child[p] = "listening"
  /\ known[p] <= sup[p].generation
  /\ sup[p].at = "tellStarted" => known[p] < sup[p].generation

(* The latest of it is on its way, or is what the Bundle reports.          *)
Unheard(p, kind) ==
  \E n \in NewsOf(lifecycle, p) : n.generation = sup[p].generation /\ n.kind = kind
HeardOf(p) ==
  /\ \A n \in NewsOf(lifecycle, p) : n.generation < sup[p].generation
  /\ known[p] = sup[p].generation
Reported(p) ==
  /\ sup[p].at = "wait" =>
       \/ Unheard(p, "retrying")
       \/ HeardOf(p) /\ ~active[p] /\ p \in retrying /\ p \notin ready
  /\ sup[p].at = "scan" =>
       \/ Unheard(p, "started")
       \/ /\ HeardOf(p) /\ active[p] /\ p \notin retrying
          /\ p \in ready => child[p] = "listening"

BundleInv ==
  /\ BundleTypes
  /\ ~cancelled =>
       /\ InOrder(lifecycle)
       /\ \A p \in BundleProfiles : Told(p) /\ Reported(p)

(* A channel after one send, and after one receive.                        *)
LEMMA Appended ==
  ASSUME NEW S, NEW s \in Seq(S), NEW e \in S
  PROVE  /\ Append(s, e) \in Seq(S) /\ Len(s) \in Nat /\ Len(Append(s, e)) = Len(s) + 1
         /\ \A i \in 1..Len(s) : Append(s, e)[i] = s[i]
         /\ Append(s, e)[Len(s) + 1] = e
OBVIOUS

LEMMA Tailed ==
  ASSUME NEW S, NEW s \in Seq(S), s # <<>>
  PROVE  /\ Tail(s) \in Seq(S) /\ Head(s) \in S /\ Head(s) = s[1]
         /\ Len(s) \in Nat /\ Len(s) >= 1 /\ Len(Tail(s)) = Len(s) - 1
         /\ \A i \in 1..Len(s) - 1 : Tail(s)[i] = s[i + 1]
<1>1. Len(s) \in Nat /\ Len(s) >= 1
  OBVIOUS
<1>2. Tail(s) \in Seq(S) /\ Len(Tail(s)) = Len(s) - 1 /\ \A i \in 1..Len(s) - 1 : Tail(s)[i] = s[i + 1]
  OBVIOUS
<1>. QED BY <1>1, <1>2

LEMMA NewsSaid ==
  ASSUME NEW S, NEW s \in Seq(S), NEW e \in S, NEW p
  PROVE  /\ e.profile # p => NewsOf(Append(s, e), p) = NewsOf(s, p)
         /\ e.profile = p => NewsOf(Append(s, e), p) = NewsOf(s, p) \cup {e}
<1>. DEFINE t == Append(s, e)
<1>1. /\ Len(s) \in Nat /\ Len(t) = Len(s) + 1
      /\ \A i \in 1..Len(s) : t[i] = s[i]
      /\ t[Len(s) + 1] = e
  BY Appended
<1>. HIDE DEF t
<1>2. {t[i] : i \in 1..Len(t)} = {s[i] : i \in 1..Len(s)} \cup {e}
  <2>1. 1..Len(t) = (1..Len(s)) \cup {Len(s) + 1}
    BY <1>1
  <2>. QED BY <1>1, <2>1
<1>3. /\ e.profile # p => NewsOf(t, p) = NewsOf(s, p)
      /\ e.profile = p => NewsOf(t, p) = NewsOf(s, p) \cup {e}
  BY <1>2 DEF NewsOf
<1>. QED BY <1>3 DEF t

LEMMA NewsHeard ==
  ASSUME NEW S, NEW s \in Seq(S), s # <<>>, NEW p
  PROVE  /\ Head(s).profile # p => NewsOf(Tail(s), p) = NewsOf(s, p)
         /\ Head(s).profile = p => NewsOf(s, p) = NewsOf(Tail(s), p) \cup {Head(s)}
         /\ NewsOf(Tail(s), p) \subseteq NewsOf(s, p)
<1>. DEFINE t == Tail(s)  h == Head(s)
<1>1. /\ h = s[1] /\ Len(s) \in Nat /\ Len(s) >= 1 /\ Len(t) = Len(s) - 1
      /\ \A i \in 1..Len(s) - 1 : t[i] = s[i + 1]
  BY Tailed
<1>. HIDE DEF t, h
<1>2. {s[i] : i \in 1..Len(s)} = {t[i] : i \in 1..Len(t)} \cup {h}
  <2>1. \A i \in 1..Len(s) : i = 1 \/ (i - 1 \in 1..Len(t) /\ s[i] = t[i - 1])
    BY <1>1
  <2>2. \A i \in 1..Len(t) : i + 1 \in 1..Len(s) /\ t[i] = s[i + 1]
    BY <1>1
  <2>3. 1 \in 1..Len(s)
    BY <1>1
  <2>. QED BY <1>1, <2>1, <2>2, <2>3
<1>3. /\ h.profile # p => NewsOf(t, p) = NewsOf(s, p)
      /\ h.profile = p => NewsOf(s, p) = NewsOf(t, p) \cup {h}
      /\ NewsOf(t, p) \subseteq NewsOf(s, p)
  <2>. DEFINE A == {s[i] : i \in 1..Len(s)}  B == {t[i] : i \in 1..Len(t)}
  <2>1. A = B \cup {h}
    BY <1>2
  <2>2. NewsOf(s, p) = {n \in A : n.profile = p} /\ NewsOf(t, p) = {n \in B : n.profile = p}
    BY DEF NewsOf
  <2>. HIDE DEF A, B
  <2>. QED BY <2>1, <2>2
<1>. QED BY <1>3 DEF t, h

LEMMA NewsThere ==
  ASSUME NEW S, NEW s \in Seq(S), NEW p
  PROVE  /\ \A n \in NewsOf(s, p) : n \in S /\ n.profile = p
         /\ \A i \in 1..Len(s) : s[i] \in NewsOf(s, s[i].profile)
BY DEF NewsOf

LEMMA OrderSaid ==
  ASSUME NEW s \in Seq(News), NEW e \in News, InOrder(s),
         \A n \in NewsOf(s, e.profile) : Before(n, e)
  PROVE  InOrder(Append(s, e))
<1>. DEFINE t == Append(s, e)
<1>1. /\ Len(s) \in Nat /\ Len(t) = Len(s) + 1
      /\ \A i \in 1..Len(s) : t[i] = s[i]
      /\ t[Len(s) + 1] = e
  BY Appended
<1>. HIDE DEF t
<1>2. SUFFICES ASSUME NEW i \in 1..Len(t), NEW j \in 1..Len(t), i < j, t[i].profile = t[j].profile
               PROVE  Before(t[i], t[j])
  BY DEF InOrder, t
<1>3. i \in 1..Len(s) /\ t[i] = s[i] /\ (j \in 1..Len(s) \/ j = Len(s) + 1)
  BY <1>1, <1>2
<1>4. CASE j \in 1..Len(s)
  BY <1>1, <1>2, <1>3, <1>4 DEF InOrder
<1>5. CASE j = Len(s) + 1
  BY <1>1, <1>2, <1>3, <1>5, NewsThere
<1>. QED BY <1>3, <1>4, <1>5

LEMMA OrderHeard ==
  ASSUME NEW s \in Seq(News), s # <<>>, InOrder(s)
  PROVE  InOrder(Tail(s)) /\ \A n \in NewsOf(Tail(s), Head(s).profile) : Before(Head(s), n)
<1>. DEFINE t == Tail(s)  h == Head(s)
<1>1. /\ h = s[1] /\ Len(s) \in Nat /\ Len(s) >= 1 /\ Len(t) = Len(s) - 1
      /\ \A i \in 1..Len(s) - 1 : t[i] = s[i + 1]
  BY Tailed
<1>. HIDE DEF t, h
<1>2. \A i \in 1..Len(t) : i + 1 \in 1..Len(s) /\ t[i] = s[i + 1] /\ 1 < i + 1
  BY <1>1
<1>3. InOrder(t)
  <2>1. SUFFICES ASSUME NEW i \in 1..Len(t), NEW j \in 1..Len(t), i < j, t[i].profile = t[j].profile
                 PROVE  Before(t[i], t[j])
    BY DEF InOrder
  <2>2. i + 1 < j + 1
    BY <2>1
  <2>. QED BY <1>2, <2>1, <2>2 DEF InOrder
<1>4. ASSUME NEW n \in NewsOf(t, h.profile)
      PROVE  Before(h, n)
  <2>1. PICK i \in 1..Len(t) : n = t[i] /\ n.profile = h.profile
    BY <1>4 DEF NewsOf
  <2>2. 1 \in 1..Len(s)
    BY <1>1
  <2>. QED BY <1>1, <1>2, <2>1, <2>2 DEF InOrder
<1>. QED BY <1>3, <1>4 DEF t, h

(* The goroutine of a Profile, moved.                                      *)
Placed(f, p, at) == [f EXCEPT ![p].at = at]
Begun(f, p, at) == [f EXCEPT ![p].at = at, ![p].generation = @ + 1]
Counted(f, p, n) == [f EXCEPT ![p].failures = n]
Paused(f, p, n) == [f EXCEPT ![p].at = "wait", ![p].failures = n]
Now(f, p, at, generation, g) ==
  /\ g \in [BundleProfiles -> BundleSups] /\ g[p].at = at /\ g[p].generation = generation
  /\ \A q \in BundleProfiles : q # p => g[q] = f[q]

LEMMA BundleBounds ==
  MaxGeneration \in Nat /\ RetryDelays \in Nat
BY OperationsAssumption

LEMMA LifecycleSaid ==
  ASSUME NEW s \in Seq(News), NEW e \in News, NEW p, e.profile = p
  PROVE  /\ Append(s, e) \in Seq(News) /\ NewsOf(Append(s, e), p) = NewsOf(s, p) \cup {e}
         /\ \A q : q # p => NewsOf(Append(s, e), q) = NewsOf(s, q)
<1>1. Append(s, e) \in Seq(News)
  BY Appended
<1>2. NewsOf(Append(s, e), p) = NewsOf(s, p) \cup {e}
  BY NewsSaid
<1>3. ASSUME NEW q, q # p PROVE NewsOf(Append(s, e), q) = NewsOf(s, q)
  BY <1>3, NewsSaid
<1>. QED BY <1>1, <1>2, <1>3

LEMMA EventSaid ==
  ASSUME NEW s \in Seq(Sayings), NEW e \in Sayings, NEW p, e.profile = p
  PROVE  /\ Append(s, e) \in Seq(Sayings) /\ NewsOf(Append(s, e), p) = NewsOf(s, p) \cup {e}
         /\ \A q : q # p => NewsOf(Append(s, e), q) = NewsOf(s, q)
<1>1. Append(s, e) \in Seq(Sayings)
  BY Appended
<1>2. NewsOf(Append(s, e), p) = NewsOf(s, p) \cup {e}
  BY NewsSaid
<1>3. ASSUME NEW q, q # p PROVE NewsOf(Append(s, e), q) = NewsOf(s, q)
  BY <1>3, NewsSaid
<1>. QED BY <1>1, <1>2, <1>3

LEMMA LifecycleHeard ==
  ASSUME NEW s \in Seq(News), s # <<>>
  PROVE  /\ Tail(s) \in Seq(News) /\ Head(s) \in News
         /\ NewsOf(s, Head(s).profile) = NewsOf(Tail(s), Head(s).profile) \cup {Head(s)}
         /\ \A q : q # Head(s).profile => NewsOf(Tail(s), q) = NewsOf(s, q)
<1>1. Tail(s) \in Seq(News) /\ Head(s) \in News
  BY Tailed
<1>2. NewsOf(s, Head(s).profile) = NewsOf(Tail(s), Head(s).profile) \cup {Head(s)}
  BY NewsHeard
<1>3. ASSUME NEW q, q # Head(s).profile PROVE NewsOf(Tail(s), q) = NewsOf(s, q)
  BY <1>3, NewsHeard
<1>. QED BY <1>1, <1>2, <1>3

LEMMA EventHeard ==
  ASSUME NEW s \in Seq(Sayings), s # <<>>
  PROVE  /\ Tail(s) \in Seq(Sayings) /\ Head(s) \in Sayings
         /\ NewsOf(s, Head(s).profile) = NewsOf(Tail(s), Head(s).profile) \cup {Head(s)}
         /\ \A q : q # Head(s).profile => NewsOf(Tail(s), q) = NewsOf(s, q)
<1>1. Tail(s) \in Seq(Sayings) /\ Head(s) \in Sayings
  BY Tailed
<1>2. NewsOf(s, Head(s).profile) = NewsOf(Tail(s), Head(s).profile) \cup {Head(s)}
  BY NewsHeard
<1>3. ASSUME NEW q, q # Head(s).profile PROVE NewsOf(Tail(s), q) = NewsOf(s, q)
  BY <1>3, NewsHeard
<1>. QED BY <1>1, <1>2, <1>3

LEMMA Generations ==
  ASSUME NEW p
  PROVE  /\ \A s \in Seq(News) : \A n \in NewsOf(s, p) : n.generation \in Nat
         /\ \A s \in Seq(Sayings) : \A n \in NewsOf(s, p) : n.generation \in Nat
<1>1. \A n \in News : n.generation \in Nat
  BY BundleBounds DEF News
<1>2. \A n \in Sayings : n.generation \in Nat
  BY BundleBounds DEF Sayings
<1>3. ASSUME NEW s \in Seq(News), NEW n \in NewsOf(s, p) PROVE n \in News
  BY NewsThere
<1>4. ASSUME NEW s \in Seq(Sayings), NEW n \in NewsOf(s, p) PROVE n \in Sayings
  BY NewsThere
<1>. QED BY <1>1, <1>2, <1>3, <1>4

LEMMA PlacedNow ==
  ASSUME NEW f \in [BundleProfiles -> BundleSups], NEW p \in BundleProfiles,
         NEW at \in {"launch", "tellStarted", "scan", "tellRetrying", "wait", "ended"}
  PROVE  Now(f, p, at, f[p].generation, Placed(f, p, at))
<1>1. [f[p] EXCEPT !.at = at] \in BundleSups
  BY DEF BundleSups
<1>2. [f[p] EXCEPT !.at = at].at = at /\ [f[p] EXCEPT !.at = at].generation = f[p].generation
  BY DEF BundleSups
<1>3. Placed(f, p, at)[p] = [f[p] EXCEPT !.at = at]
  BY DEF Placed
<1>. QED BY <1>1, <1>2, <1>3 DEF Placed, Now

LEMMA BegunNow ==
  ASSUME NEW f \in [BundleProfiles -> BundleSups], NEW p \in BundleProfiles,
         NEW at \in {"launch", "tellStarted", "scan", "tellRetrying", "wait", "ended"},
         f[p].generation < MaxGeneration
  PROVE  Now(f, p, at, f[p].generation + 1, Begun(f, p, at))
<1>1. f[p].generation + 1 \in 0..MaxGeneration
  BY BundleBounds DEF BundleSups
<1>2. [f[p] EXCEPT !.at = at, !.generation = @ + 1] \in BundleSups
  BY <1>1 DEF BundleSups
<1>3. /\ [f[p] EXCEPT !.at = at, !.generation = @ + 1].at = at
      /\ [f[p] EXCEPT !.at = at, !.generation = @ + 1].generation = f[p].generation + 1
  BY DEF BundleSups
<1>4. Begun(f, p, at)[p] = [f[p] EXCEPT !.at = at, !.generation = @ + 1]
  BY DEF Begun
<1>. QED BY <1>2, <1>3, <1>4 DEF Begun, Now

LEMMA CountedNow ==
  ASSUME NEW f \in [BundleProfiles -> BundleSups], NEW p \in BundleProfiles,
         NEW n \in 0..RetryDelays
  PROVE  Now(f, p, f[p].at, f[p].generation, Counted(f, p, n))
<1>1. [f[p] EXCEPT !.failures = n] \in BundleSups
  BY DEF BundleSups
<1>2. /\ [f[p] EXCEPT !.failures = n].at = f[p].at
      /\ [f[p] EXCEPT !.failures = n].generation = f[p].generation
  BY DEF BundleSups
<1>3. Counted(f, p, n)[p] = [f[p] EXCEPT !.failures = n]
  BY DEF Counted
<1>. QED BY <1>1, <1>2, <1>3 DEF Counted, Now

LEMMA PausedNow ==
  ASSUME NEW f \in [BundleProfiles -> BundleSups], NEW p \in BundleProfiles,
         NEW n \in 0..RetryDelays
  PROVE  Now(f, p, "wait", f[p].generation, Paused(f, p, n))
<1>1. [f[p] EXCEPT !.at = "wait", !.failures = n] \in BundleSups
  BY DEF BundleSups
<1>2. /\ [f[p] EXCEPT !.at = "wait", !.failures = n].at = "wait"
      /\ [f[p] EXCEPT !.at = "wait", !.failures = n].generation = f[p].generation
  BY DEF BundleSups
<1>3. Paused(f, p, n)[p] = [f[p] EXCEPT !.at = "wait", !.failures = n]
  BY DEF Paused
<1>. QED BY <1>1, <1>2, <1>3 DEF Paused, Now

LEMMA BundleParts ==
  ASSUME BundleInv
  PROVE  /\ BundleTypes /\ sup \in [BundleProfiles -> BundleSups]
         /\ child \in [BundleProfiles -> BundleChildren]
         /\ lifecycle \in Seq(News) /\ events \in Seq(Sayings)
         /\ known \in [BundleProfiles -> 0..MaxGeneration] /\ active \in [BundleProfiles -> BOOLEAN]
         /\ \A p \in BundleProfiles : sup[p].generation \in 0..MaxGeneration /\ known[p] \in 0..MaxGeneration
         /\ ~cancelled => InOrder(lifecycle) /\ \A p \in BundleProfiles : Told(p) /\ Reported(p)
<1>1. BundleTypes
  BY DEF BundleInv
<1>2. \A p \in BundleProfiles : sup[p].generation \in 0..MaxGeneration /\ known[p] \in 0..MaxGeneration
  BY <1>1 DEF BundleTypes, BundleSups
<1>. QED BY <1>1, <1>2 DEF BundleInv, BundleTypes

(* A Profile that a step is not about.                                     *)
LEMMA OthersStand ==
  ASSUME NEW q \in BundleProfiles, Told(q), Reported(q), sup'[q] = sup[q], child'[q] = child[q],
         NewsOf(lifecycle', q) = NewsOf(lifecycle, q), NewsOf(events', q) = NewsOf(events, q),
         known'[q] = known[q], active'[q] = active[q],
         q \in ready' <=> q \in ready, q \in retrying' <=> q \in retrying
  PROVE  Told(q)' /\ Reported(q)'
BY DEF Told, Reported, Unheard, HeardOf

(* An item of a Profile's goroutine.                                       *)
LEMMA ItemOf ==
  ASSUME BundleInv, NEW p \in BundleProfiles
  PROVE  /\ \A kind \in {"started", "retrying"} :
              /\ Parallel!Item(p, kind) \in News
              /\ Parallel!Item(p, kind).profile = p /\ Parallel!Item(p, kind).kind = kind
              /\ Parallel!Item(p, kind).generation = sup[p].generation
         /\ \A kind \in {"connecting", "listening"} :
              /\ Parallel!Item(p, kind) \in Sayings
              /\ Parallel!Item(p, kind).profile = p /\ Parallel!Item(p, kind).kind = kind
              /\ Parallel!Item(p, kind).generation = sup[p].generation
<1>1. sup[p].generation \in 0..MaxGeneration
  BY BundleParts
<1>. QED BY <1>1 DEF Parallel!Item, News, Sayings

LEMMA LaunchStep ==
  ASSUME BundleInv, NEW p \in BundleProfiles, Parallel!Launch(p)
  PROVE  BundleInv'
<1>1. /\ BundleTypes /\ sup \in [BundleProfiles -> BundleSups]
      /\ child \in [BundleProfiles -> BundleChildren]
      /\ InOrder(lifecycle) /\ \A q \in BundleProfiles : Told(q) /\ Reported(q)
      /\ \A q \in BundleProfiles : sup[q].generation \in 0..MaxGeneration /\ known[q] \in 0..MaxGeneration
      /\ lifecycle \in Seq(News) /\ events \in Seq(Sayings)
      /\ ~cancelled /\ sup[p].generation < MaxGeneration
      /\ UNCHANGED <<lifecycle, events, known, active, ready, retrying, cancelled>>
  BY BundleParts DEF Parallel!Launch, Parallel!loopVars
<1>2. PICK at \in {"tellStarted", "tellRetrying"} : sup' = Begun(sup, p, at)
  BY DEF Parallel!Launch, Begun
<1>3. Now(sup, p, at, sup[p].generation + 1, sup')
  <2>1. PICK f \in [BundleProfiles -> BundleSups] : f = sup
    BY <1>1
  <2>2. at \in {"launch", "tellStarted", "scan", "tellRetrying", "wait", "ended"}
    OBVIOUS
  <2>3. Now(f, p, at, f[p].generation + 1, Begun(f, p, at))
    BY <1>1, <2>1, <2>2, BegunNow
  <2>. QED BY <1>2, <2>1, <2>3
<1>4. child' \in [BundleProfiles -> BundleChildren] /\ \A q \in BundleProfiles : q # p => child'[q] = child[q]
  BY <1>1 DEF Parallel!Launch, BundleChildren
<1>5. BundleTypes'
  BY <1>1, <1>3, <1>4 DEF BundleTypes, Now
<1>6. Told(p)'
  <2>1. Told(p)
    BY <1>1
  <2>2. sup'[p].at = at /\ sup'[p].generation = sup[p].generation + 1
    BY <1>3 DEF Now
  <2>3. \A n \in NewsOf(lifecycle, p) : n.generation \in Nat
    BY <1>1, Generations
  <2>4. \A n \in NewsOf(events, p) : n.generation \in Nat
    BY <1>1, Generations
  <2>. QED BY <1>1, <2>1, <2>2, <2>3, <2>4, BundleBounds DEF Told
<1>7. Reported(p)'
  BY <1>3 DEF Now, Reported
<1>8. ASSUME NEW q \in BundleProfiles, q # p PROVE Told(q)' /\ Reported(q)'
  BY <1>1, <1>3, <1>4, <1>8, OthersStand DEF Now
<1>. QED BY <1>1, <1>5, <1>6, <1>7, <1>8 DEF BundleInv

LEMMA TellStartedStep ==
  ASSUME BundleInv, NEW p \in BundleProfiles, Parallel!TellStarted(p)
  PROVE  BundleInv'
<1>. DEFINE e == Parallel!Item(p, "started")
<1>1. /\ BundleTypes /\ sup \in [BundleProfiles -> BundleSups]
      /\ ~cancelled => InOrder(lifecycle) /\ \A q \in BundleProfiles : Told(q) /\ Reported(q)
      /\ \A q \in BundleProfiles : sup[q].generation \in 0..MaxGeneration /\ known[q] \in 0..MaxGeneration
      /\ lifecycle \in Seq(News) /\ events \in Seq(Sayings)
      /\ sup[p].at = "tellStarted" /\ lifecycle' = Append(lifecycle, e)
      /\ UNCHANGED <<child, events, known, active, ready, retrying, cancelled>>
  BY BundleParts DEF Parallel!TellStarted, Parallel!loopVars, Parallel!SendLifecycle
<1>2. Now(sup, p, "scan", sup[p].generation, sup')
  <2>1. PICK f \in [BundleProfiles -> BundleSups] : f = sup
    BY <1>1
  <2>2. PICK at \in {"launch", "tellStarted", "scan", "tellRetrying", "wait", "ended"} : at = "scan"
    OBVIOUS
  <2>3. Now(f, p, at, f[p].generation, Placed(f, p, at))
    BY PlacedNow
  <2>4. sup' = Placed(f, p, at)
    BY <2>1, <2>2 DEF Parallel!TellStarted, Parallel!At, Placed
  <2>. QED BY <2>1, <2>2, <2>3, <2>4
<1>3. e \in News /\ e.profile = p /\ e.kind = "started" /\ e.generation = sup[p].generation
  BY ItemOf
<1>. HIDE DEF e
<1>4. /\ lifecycle' \in Seq(News) /\ NewsOf(lifecycle', p) = NewsOf(lifecycle, p) \cup {e}
      /\ \A q \in BundleProfiles : q # p => NewsOf(lifecycle', q) = NewsOf(lifecycle, q)
  <2>1. PICK s \in Seq(News) : s = lifecycle
    BY <1>1
  <2>2. PICK d \in News : d = e /\ d.profile = p
    BY <1>3
  <2>3. /\ Append(s, d) \in Seq(News) /\ NewsOf(Append(s, d), p) = NewsOf(s, p) \cup {d}
        /\ \A q : q # p => NewsOf(Append(s, d), q) = NewsOf(s, q)
    BY <2>2, LifecycleSaid
  <2>. QED BY <1>1, <2>1, <2>2, <2>3
<1>5. BundleTypes'
  BY <1>1, <1>2, <1>4 DEF BundleTypes, Now
<1>6. ASSUME ~cancelled
      PROVE  /\ InOrder(lifecycle')
             /\ \A q \in BundleProfiles : Told(q)' /\ Reported(q)'
  <2>1. InOrder(lifecycle) /\ \A q \in BundleProfiles : Told(q) /\ Reported(q)
    BY <1>1, <1>6
  <2>2. \A n \in NewsOf(lifecycle, p) : Before(n, e)
    BY <1>1, <1>3, <2>1 DEF Told, Before
  <2>3. InOrder(lifecycle')
    BY <1>1, <1>3, <2>1, <2>2, OrderSaid
  <2>4. sup'[p].at = "scan" /\ sup'[p].generation = sup[p].generation
    BY <1>2 DEF Now
  <2>5. Told(p)'
    <3>1. \A n \in NewsOf(events, p) : n.generation \in Nat
      BY <1>1, Generations
    <3>2. \A n \in NewsOf(events, p) : n.generation < sup[p].generation
      BY <1>1, <2>1 DEF Told
    <3>3. \A n \in NewsOf(events, p) :
            n.generation <= sup[p].generation /\ n.generation # sup[p].generation
      BY <1>1, <3>1, <3>2, BundleBounds
    <3>4. \A n \in NewsOf(lifecycle', p) :
            /\ n.generation <= sup[p].generation
            /\ n.generation < sup[p].generation \/ n.kind = "started"
      BY <1>1, <1>3, <1>4, <2>1, BundleBounds DEF Told
    <3>5. known[p] <= sup[p].generation
      BY <2>1 DEF Told
    <3>. QED BY <1>1, <2>4, <3>3, <3>4, <3>5 DEF Told
  <2>6. Reported(p)'
    BY <1>3, <1>4, <2>4 DEF Reported, Unheard
  <2>7. ASSUME NEW q \in BundleProfiles, q # p PROVE Told(q)' /\ Reported(q)'
    BY <1>1, <1>2, <1>4, <2>1, <2>7, OthersStand DEF Now
  <2>. QED BY <2>3, <2>5, <2>6, <2>7
<1>. QED BY <1>1, <1>5, <1>6 DEF BundleInv

LEMMA TellRetryingStep ==
  ASSUME BundleInv, NEW p \in BundleProfiles, Parallel!TellRetrying(p)
  PROVE  BundleInv'
<1>. DEFINE e == Parallel!Item(p, "retrying")
<1>1. /\ BundleTypes /\ sup \in [BundleProfiles -> BundleSups]
      /\ ~cancelled => InOrder(lifecycle) /\ \A q \in BundleProfiles : Told(q) /\ Reported(q)
      /\ \A q \in BundleProfiles : sup[q].generation \in 0..MaxGeneration /\ known[q] \in 0..MaxGeneration
      /\ lifecycle \in Seq(News) /\ events \in Seq(Sayings)
      /\ sup[p].at = "tellRetrying" /\ lifecycle' = Append(lifecycle, e)
      /\ UNCHANGED <<child, events, known, active, ready, retrying, cancelled>>
  BY BundleParts DEF Parallel!TellRetrying, Parallel!loopVars, Parallel!SendLifecycle
<1>2. Now(sup, p, "wait", sup[p].generation, sup')
  <2>1. PICK f \in [BundleProfiles -> BundleSups] : f = sup
    BY <1>1
  <2>2. PICK n \in 0..RetryDelays : n = Parallel!Longer(f[p].failures)
    BY BundleBounds DEF Parallel!Longer, BundleSups
  <2>3. Now(f, p, "wait", f[p].generation, Paused(f, p, n))
    BY PausedNow
  <2>4. sup' = Paused(f, p, n)
    BY <2>1, <2>2 DEF Parallel!TellRetrying, Paused
  <2>. QED BY <2>1, <2>3, <2>4
<1>3. e \in News /\ e.profile = p /\ e.kind = "retrying" /\ e.generation = sup[p].generation
  BY ItemOf
<1>. HIDE DEF e
<1>4. /\ lifecycle' \in Seq(News) /\ NewsOf(lifecycle', p) = NewsOf(lifecycle, p) \cup {e}
      /\ \A q \in BundleProfiles : q # p => NewsOf(lifecycle', q) = NewsOf(lifecycle, q)
  <2>1. PICK s \in Seq(News) : s = lifecycle
    BY <1>1
  <2>2. PICK d \in News : d = e /\ d.profile = p
    BY <1>3
  <2>3. /\ Append(s, d) \in Seq(News) /\ NewsOf(Append(s, d), p) = NewsOf(s, p) \cup {d}
        /\ \A q : q # p => NewsOf(Append(s, d), q) = NewsOf(s, q)
    BY <2>2, LifecycleSaid
  <2>. QED BY <1>1, <2>1, <2>2, <2>3
<1>5. BundleTypes'
  BY <1>1, <1>2, <1>4 DEF BundleTypes, Now
<1>6. ASSUME ~cancelled
      PROVE  /\ InOrder(lifecycle')
             /\ \A q \in BundleProfiles : Told(q)' /\ Reported(q)'
  <2>1. InOrder(lifecycle) /\ \A q \in BundleProfiles : Told(q) /\ Reported(q)
    BY <1>1, <1>6
  <2>2. \A n \in NewsOf(lifecycle, p) : Before(n, e)
    <3>1. \A n \in NewsOf(lifecycle, p) : n.generation \in Nat
      BY <1>1, Generations
    <3>2. \A n \in NewsOf(lifecycle, p) :
            /\ n.generation <= sup[p].generation
            /\ n.generation < sup[p].generation \/ n.kind = "started"
      BY <1>1, <2>1 DEF Told
    <3>. QED BY <1>1, <1>3, <3>1, <3>2, BundleBounds DEF Before
  <2>3. InOrder(lifecycle')
    BY <1>1, <1>3, <2>1, <2>2, OrderSaid
  <2>4. sup'[p].at = "wait" /\ sup'[p].generation = sup[p].generation
    BY <1>2 DEF Now
  <2>5. Told(p)'
    BY <1>1, <1>3, <1>4, <2>1, <2>4, BundleBounds DEF Told
  <2>6. Reported(p)'
    BY <1>3, <1>4, <2>4 DEF Reported, Unheard
  <2>7. ASSUME NEW q \in BundleProfiles, q # p PROVE Told(q)' /\ Reported(q)'
    BY <1>1, <1>2, <1>4, <2>1, <2>7, OthersStand DEF Now
  <2>. QED BY <2>3, <2>5, <2>6, <2>7
<1>. QED BY <1>1, <1>5, <1>6 DEF BundleInv

LEMMA SaysStep ==
  ASSUME BundleInv, NEW p \in BundleProfiles, NEW kind \in {"connecting", "listening"},
         Parallel!Says(p, kind)
  PROVE  BundleInv'
<1>. DEFINE e == Parallel!Item(p, kind)
<1>1. /\ BundleTypes /\ sup \in [BundleProfiles -> BundleSups]
      /\ child \in [BundleProfiles -> BundleChildren]
      /\ InOrder(lifecycle) /\ \A q \in BundleProfiles : Told(q) /\ Reported(q)
      /\ \A q \in BundleProfiles : sup[q].generation \in 0..MaxGeneration /\ known[q] \in 0..MaxGeneration
      /\ lifecycle \in Seq(News) /\ events \in Seq(Sayings)
      /\ ~cancelled /\ sup[p].at = "scan" /\ events' = Append(events, e)
      /\ child[p] # "listening"
      /\ child' = [child EXCEPT ![p] = kind]
      /\ UNCHANGED <<lifecycle, known, active, ready, retrying, cancelled>>
  BY BundleParts DEF Parallel!Says, Parallel!loopVars, Parallel!SendEvent
<1>2. Now(sup, p, "scan", sup[p].generation, sup')
  <2>1. PICK f \in [BundleProfiles -> BundleSups] : f = sup
    BY <1>1
  <2>2. PICK n \in 0..RetryDelays : n = IF kind = "listening" THEN 0 ELSE f[p].failures
    BY BundleBounds DEF BundleSups
  <2>3. Now(f, p, f[p].at, f[p].generation, Counted(f, p, n))
    BY CountedNow
  <2>4. sup' = Counted(f, p, n)
    BY <2>1, <2>2 DEF Parallel!Says, Counted
  <2>. QED BY <1>1, <2>1, <2>3, <2>4
<1>3. e \in Sayings /\ e.profile = p /\ e.kind = kind /\ e.generation = sup[p].generation
  BY ItemOf
<1>. HIDE DEF e
<1>4. /\ events' \in Seq(Sayings) /\ NewsOf(events', p) = NewsOf(events, p) \cup {e}
      /\ \A q \in BundleProfiles : q # p => NewsOf(events', q) = NewsOf(events, q)
  <2>1. PICK s \in Seq(Sayings) : s = events
    BY <1>1
  <2>2. PICK d \in Sayings : d = e /\ d.profile = p
    BY <1>3
  <2>3. /\ Append(s, d) \in Seq(Sayings) /\ NewsOf(Append(s, d), p) = NewsOf(s, p) \cup {d}
        /\ \A q : q # p => NewsOf(Append(s, d), q) = NewsOf(s, q)
    BY <2>2, EventSaid
  <2>. QED BY <1>1, <2>1, <2>2, <2>3
<1>5. /\ child' \in [BundleProfiles -> BundleChildren] /\ child'[p] = kind
      /\ \A q \in BundleProfiles : q # p => child'[q] = child[q]
  BY <1>1 DEF BundleChildren
<1>6. BundleTypes'
  BY <1>1, <1>2, <1>4, <1>5 DEF BundleTypes, Now
<1>7. sup'[p].at = "scan" /\ sup'[p].generation = sup[p].generation
  BY <1>2 DEF Now
<1>8. Told(p)'
  <2>1. \A n \in NewsOf(events, p) :
          /\ n.generation <= sup[p].generation
          /\ ~(n.generation = sup[p].generation /\ n.kind = "listening")
    BY <1>1 DEF Told
  <2>2. e.kind = "listening" => child'[p] = "listening"
    BY <1>3, <1>5
  <2>3. \A n \in NewsOf(events', p) :
          /\ n.generation <= sup[p].generation
          /\ n.generation = sup[p].generation /\ n.kind = "listening" => child'[p] = "listening"
    BY <1>1, <1>3, <1>4, <2>1, <2>2, BundleBounds
  <2>. QED BY <1>1, <1>7, <2>3 DEF Told
<1>9. Reported(p)'
  BY <1>1, <1>7 DEF Reported, Unheard, HeardOf
<1>10. ASSUME NEW q \in BundleProfiles, q # p PROVE Told(q)' /\ Reported(q)'
  BY <1>1, <1>2, <1>4, <1>5, <1>10, OthersStand DEF Now
<1>. QED BY <1>1, <1>6, <1>8, <1>9, <1>10 DEF BundleInv

LEMMA ExitsStep ==
  ASSUME BundleInv, NEW p \in BundleProfiles, Parallel!Exits(p) \/ Parallel!RetryDue(p)
  PROVE  BundleInv'
<1>1. /\ BundleTypes /\ sup \in [BundleProfiles -> BundleSups]
      /\ child \in [BundleProfiles -> BundleChildren]
      /\ InOrder(lifecycle) /\ \A q \in BundleProfiles : Told(q) /\ Reported(q)
      /\ ~cancelled
      /\ UNCHANGED <<lifecycle, events, known, active, ready, retrying, cancelled>>
  BY BundleParts DEF Parallel!Exits, Parallel!RetryDue, Parallel!loopVars
<1>2. PICK at \in {"launch", "tellStarted", "scan", "tellRetrying", "wait", "ended"} :
        /\ sup' = Placed(sup, p, at)
        /\ \/ sup[p].at = "scan" /\ at = "tellRetrying"
           \/ at = "launch"
  BY DEF Parallel!Exits, Parallel!RetryDue, Parallel!At, Placed
<1>3. Now(sup, p, at, sup[p].generation, sup')
  <2>1. PICK f \in [BundleProfiles -> BundleSups] : f = sup
    BY <1>1
  <2>2. Now(f, p, at, f[p].generation, Placed(f, p, at))
    BY PlacedNow
  <2>. QED BY <1>2, <2>1, <2>2
<1>4. child' \in [BundleProfiles -> BundleChildren] /\ \A q \in BundleProfiles : q # p => child'[q] = child[q]
  BY <1>1 DEF Parallel!Exits, Parallel!RetryDue, BundleChildren
<1>5. BundleTypes'
  BY <1>1, <1>3, <1>4 DEF BundleTypes, Now
<1>6. sup'[p].at = at /\ sup'[p].generation = sup[p].generation
  BY <1>3 DEF Now
<1>7. Told(p)'
  BY <1>1, <1>2, <1>6 DEF Told
<1>8. Reported(p)'
  BY <1>2, <1>6 DEF Reported
<1>9. ASSUME NEW q \in BundleProfiles, q # p PROVE Told(q)' /\ Reported(q)'
  BY <1>1, <1>3, <1>4, <1>9, OthersStand DEF Now
<1>. QED BY <1>1, <1>5, <1>7, <1>8, <1>9 DEF BundleInv

LEMMA SupervisorEndsStep ==
  ASSUME BundleInv, NEW p \in BundleProfiles, Parallel!SupervisorEnds(p)
  PROVE  BundleInv'
<1>1. /\ BundleTypes /\ sup \in [BundleProfiles -> BundleSups]
      /\ child \in [BundleProfiles -> BundleChildren] /\ cancelled
      /\ child' = [child EXCEPT ![p] = "none"]
      /\ UNCHANGED <<lifecycle, events, known, active, ready, retrying, cancelled>>
  BY BundleParts DEF Parallel!SupervisorEnds, Parallel!loopVars
<1>2. sup' \in [BundleProfiles -> BundleSups]
  <2>1. PICK f \in [BundleProfiles -> BundleSups] : f = sup
    BY <1>1
  <2>2. PICK at \in {"launch", "tellStarted", "scan", "tellRetrying", "wait", "ended"} : at = "ended"
    OBVIOUS
  <2>3. Now(f, p, at, f[p].generation, Placed(f, p, at))
    BY PlacedNow
  <2>4. sup' = Placed(f, p, at)
    BY <2>1, <2>2 DEF Parallel!SupervisorEnds, Parallel!At, Placed
  <2>. QED BY <2>3, <2>4 DEF Now
<1>3. child' \in [BundleProfiles -> BundleChildren]
  BY <1>1 DEF BundleChildren
<1>. QED BY <1>1, <1>2, <1>3 DEF BundleInv, BundleTypes

LEMMA CancelStep ==
  ASSUME BundleInv, Parallel!Cancel
  PROVE  BundleInv'
BY DEF BundleInv, BundleTypes, Parallel!Cancel, Parallel!loopVars

(* What the loop takes from lifecycle: the latest news of the Profile is   *)
(* this item, or is still behind it.                                       *)
LEMMA TakeLifecycleStep ==
  ASSUME BundleInv, Parallel!TakeLifecycle
  PROVE  BundleInv'
<1>1. /\ BundleTypes /\ lifecycle \in Seq(News) /\ lifecycle # <<>>
      /\ known \in [BundleProfiles -> 0..MaxGeneration] /\ active \in [BundleProfiles -> BOOLEAN]
      /\ InOrder(lifecycle) /\ \A q \in BundleProfiles : Told(q) /\ Reported(q)
      /\ \A q \in BundleProfiles : sup[q].generation \in 0..MaxGeneration /\ known[q] \in 0..MaxGeneration
      /\ ~cancelled /\ lifecycle' = Tail(lifecycle)
      /\ UNCHANGED <<sup, child, events, cancelled>>
  BY BundleParts DEF Parallel!TakeLifecycle
<1>2. PICK e \in News : e = Head(lifecycle)
  BY <1>1, LifecycleHeard
<1>3. PICK p \in BundleProfiles : p = e.profile
  BY DEF News
<1>4. e.generation \in 0..MaxGeneration /\ e.kind \in {"started", "retrying"}
  BY DEF News
<1>5. /\ lifecycle' \in Seq(News) /\ NewsOf(lifecycle, p) = NewsOf(lifecycle', p) \cup {e}
      /\ \A q : q # p => NewsOf(lifecycle', q) = NewsOf(lifecycle, q)
  <2>1. PICK s \in Seq(News) : s = lifecycle
    BY <1>1
  <2>2. /\ Tail(s) \in Seq(News)
        /\ NewsOf(s, Head(s).profile) = NewsOf(Tail(s), Head(s).profile) \cup {Head(s)}
        /\ \A q : q # Head(s).profile => NewsOf(Tail(s), q) = NewsOf(s, q)
    BY <1>1, <2>1, LifecycleHeard
  <2>. QED BY <1>1, <1>2, <1>3, <2>1, <2>2
<1>6. InOrder(lifecycle') /\ \A n \in NewsOf(lifecycle', p) : Before(e, n)
  <2>1. PICK s \in Seq(News) : s = lifecycle
    BY <1>1
  <2>2. InOrder(Tail(s)) /\ \A n \in NewsOf(Tail(s), Head(s).profile) : Before(Head(s), n)
    BY <1>1, <2>1, OrderHeard
  <2>. QED BY <1>1, <1>2, <1>3, <2>1, <2>2
<1>7. \/ e.generation < known[p] /\ UNCHANGED <<known, active, ready, retrying>>
      \/ /\ e.generation >= known[p]
         /\ known' = [known EXCEPT ![p] = e.generation]
         /\ active' = [active EXCEPT ![p] = e.kind = "started"]
         /\ ready' = ready \ {p}
         /\ retrying' = IF e.kind = "started" THEN retrying \ {p} ELSE retrying \cup {p}
  BY <1>1, <1>2, <1>3, <1>4, BundleBounds DEF Parallel!TakeLifecycle, Parallel!Stale, Parallel!loopVars
<1>8. BundleTypes'
  <2>1. known' \in [BundleProfiles -> 0..MaxGeneration] /\ active' \in [BundleProfiles -> BOOLEAN]
    BY <1>1, <1>4, <1>7
  <2>2. ready' \subseteq BundleProfiles /\ retrying' \subseteq BundleProfiles
    BY <1>1, <1>7 DEF BundleTypes
  <2>. QED BY <1>1, <1>5, <2>1, <2>2 DEF BundleTypes
<1>9. \A q \in BundleProfiles : q # p =>
        /\ known'[q] = known[q] /\ active'[q] = active[q]
        /\ q \in ready' <=> q \in ready
        /\ q \in retrying' <=> q \in retrying
  BY <1>1, <1>7
<1>10. ASSUME NEW q \in BundleProfiles, q # p PROVE Told(q)' /\ Reported(q)'
  BY <1>1, <1>5, <1>9, <1>10, OthersStand
<1>11. /\ e.generation <= sup[p].generation
       /\ sup[p].at = "tellStarted" => e.generation < sup[p].generation
       /\ sup[p].at = "scan" => \A n \in NewsOf(lifecycle, p) :
                                   n.generation < sup[p].generation \/ n.kind = "started"
       /\ \A n \in NewsOf(lifecycle, p) : n.generation <= sup[p].generation
       /\ known[p] <= sup[p].generation
  BY <1>1, <1>5 DEF Told
<1>12. Told(p)'
  <2>1. known'[p] = known[p] \/ known'[p] = e.generation
    BY <1>1, <1>7
  <2>2. NewsOf(lifecycle', p) \subseteq NewsOf(lifecycle, p) /\ Told(p)
    BY <1>1, <1>5
  <2>. QED BY <1>1, <1>11, <2>1, <2>2 DEF Told
<1>13. \A n \in NewsOf(lifecycle', p) : n.generation \in Nat
  BY <1>5, Generations
<1>14. ASSUME HeardOf(p) PROVE UNCHANGED <<known, active, ready, retrying>> /\ HeardOf(p)'
  <2>1. e.generation < sup[p].generation /\ known[p] = sup[p].generation
    BY <1>5, <1>14 DEF HeardOf
  <2>2. UNCHANGED <<known, active, ready, retrying>>
    BY <1>1, <1>4, <1>7, <2>1, BundleBounds
  <2>. QED BY <1>1, <1>5, <1>14, <2>2 DEF HeardOf
<1>15. ASSUME e.generation = sup[p].generation,
              e.kind = "started" => sup[p].at = "scan"
       PROVE  /\ known'[p] = sup[p].generation /\ active'[p] = (e.kind = "started")
              /\ p \notin ready' /\ (p \in retrying' <=> e.kind = "retrying")
              /\ HeardOf(p)'
  <2>1. ~(e.generation < known[p])
    BY <1>1, <1>4, <1>11, <1>15, BundleBounds
  <2>2. /\ known'[p] = sup[p].generation /\ active'[p] = (e.kind = "started")
        /\ p \notin ready' /\ (p \in retrying' <=> e.kind = "retrying")
    BY <1>1, <1>4, <1>7, <1>15, <2>1
  <2>3. ASSUME NEW n \in NewsOf(lifecycle', p) PROVE n.generation < sup[p].generation
    <3>1. Before(e, n) /\ n \in NewsOf(lifecycle, p) /\ n.generation \in Nat
      BY <1>5, <1>6, <1>13
    <3>2. n.generation <= sup[p].generation
      BY <1>11, <3>1
    <3>3. ~(n.generation = sup[p].generation)
      BY <1>1, <1>4, <1>11, <1>15, <3>1, BundleBounds DEF Before
    <3>. QED BY <1>1, <3>1, <3>2, <3>3, BundleBounds
  <2>. QED BY <1>1, <2>2, <2>3 DEF HeardOf
<1>16. ASSUME NEW kind, Unheard(p, kind)
       PROVE  Unheard(p, kind)' \/ (e.generation = sup[p].generation /\ e.kind = kind)
  BY <1>1, <1>5, <1>16 DEF Unheard
<1>17. Reported(p)'
  <2>1. ASSUME sup[p].at = "wait"
        PROVE  \/ Unheard(p, "retrying")'
               \/ HeardOf(p)' /\ ~active'[p] /\ p \in retrying' /\ p \notin ready'
    <3>1. Unheard(p, "retrying") \/ (HeardOf(p) /\ ~active[p] /\ p \in retrying /\ p \notin ready)
      BY <1>1, <2>1 DEF Reported
    <3>2. CASE Unheard(p, "retrying")
      <4>1. Unheard(p, "retrying")' \/ (e.generation = sup[p].generation /\ e.kind = "retrying")
        BY <1>16, <3>2
      <4>2. CASE e.generation = sup[p].generation /\ e.kind = "retrying"
        <5>1. e.kind # "started"
          BY <4>2
        <5>2. /\ active'[p] = (e.kind = "started") /\ p \notin ready' /\ HeardOf(p)'
              /\ (p \in retrying' <=> e.kind = "retrying")
          BY <1>15, <4>2, <5>1
        <5>. QED BY <4>2, <5>1, <5>2
      <4>. QED BY <4>1, <4>2
    <3>3. CASE HeardOf(p) /\ ~active[p] /\ p \in retrying /\ p \notin ready
      BY <1>14, <3>3
    <3>. QED BY <3>1, <3>2, <3>3
  <2>2. ASSUME sup[p].at = "scan"
        PROVE  \/ Unheard(p, "started")'
               \/ HeardOf(p)' /\ active'[p] /\ p \notin retrying' /\ (p \in ready' => child[p] = "listening")
    <3>1. \/ Unheard(p, "started")
          \/ HeardOf(p) /\ active[p] /\ p \notin retrying /\ (p \in ready => child[p] = "listening")
      BY <1>1, <2>2 DEF Reported
    <3>2. CASE Unheard(p, "started")
      BY <1>15, <1>16, <2>2, <3>2
    <3>3. CASE HeardOf(p) /\ active[p] /\ p \notin retrying /\ (p \in ready => child[p] = "listening")
      BY <1>14, <3>3
    <3>. QED BY <3>1, <3>2, <3>3
  <2>. QED BY <1>1, <2>1, <2>2 DEF Reported
<1>. QED BY <1>1, <1>6, <1>8, <1>10, <1>12, <1>17 DEF BundleInv

(* What the loop takes from events: of the latest launch, or no news.      *)
LEMMA TakeEventStep ==
  ASSUME BundleInv, Parallel!TakeEvent
  PROVE  BundleInv'
<1>1. /\ BundleTypes /\ events \in Seq(Sayings) /\ events # <<>>
      /\ known \in [BundleProfiles -> 0..MaxGeneration] /\ active \in [BundleProfiles -> BOOLEAN]
      /\ InOrder(lifecycle) /\ \A q \in BundleProfiles : Told(q) /\ Reported(q)
      /\ \A q \in BundleProfiles : sup[q].generation \in 0..MaxGeneration /\ known[q] \in 0..MaxGeneration
      /\ ~cancelled /\ events' = Tail(events)
      /\ UNCHANGED <<sup, child, lifecycle, cancelled>>
  BY BundleParts DEF Parallel!TakeEvent
<1>2. PICK e \in Sayings : e = Head(events)
  BY <1>1, EventHeard
<1>3. PICK p \in BundleProfiles : p = e.profile
  BY DEF Sayings
<1>4. e.generation \in 0..MaxGeneration
  BY DEF Sayings
<1>5. /\ events' \in Seq(Sayings) /\ NewsOf(events, p) = NewsOf(events', p) \cup {e}
      /\ \A q : q # p => NewsOf(events', q) = NewsOf(events, q)
  <2>1. PICK s \in Seq(Sayings) : s = events
    BY <1>1
  <2>2. /\ Tail(s) \in Seq(Sayings)
        /\ NewsOf(s, Head(s).profile) = NewsOf(Tail(s), Head(s).profile) \cup {Head(s)}
        /\ \A q : q # Head(s).profile => NewsOf(Tail(s), q) = NewsOf(s, q)
    BY <1>1, <2>1, EventHeard
  <2>. QED BY <1>1, <1>2, <1>3, <2>1, <2>2
<1>6. \/ UNCHANGED <<known, active, ready, retrying>>
      \/ /\ e.generation >= known[p] /\ (e.generation > known[p] \/ active[p])
         /\ known' = [known EXCEPT ![p] = e.generation]
         /\ active' = [active EXCEPT ![p] = TRUE]
         /\ ready' = IF e.kind = "listening" THEN ready \cup {p} ELSE ready
         /\ retrying' = retrying \/ retrying' = retrying \ {p}
  BY <1>1, <1>2, <1>3, <1>4, BundleBounds DEF Parallel!TakeEvent, Parallel!Stale, Parallel!loopVars
<1>7. BundleTypes'
  <2>1. known' \in [BundleProfiles -> 0..MaxGeneration] /\ active' \in [BundleProfiles -> BOOLEAN]
    BY <1>1, <1>4, <1>6
  <2>2. ready' \subseteq BundleProfiles /\ retrying' \subseteq BundleProfiles
    BY <1>1, <1>6 DEF BundleTypes
  <2>. QED BY <1>1, <1>5, <2>1, <2>2 DEF BundleTypes
<1>8. \A q \in BundleProfiles : q # p =>
        /\ known'[q] = known[q] /\ active'[q] = active[q]
        /\ q \in ready' <=> q \in ready
        /\ q \in retrying' <=> q \in retrying
  BY <1>1, <1>6
<1>9. ASSUME NEW q \in BundleProfiles, q # p PROVE Told(q)' /\ Reported(q)'
  BY <1>1, <1>5, <1>8, <1>9, OthersStand
<1>10. /\ e.generation <= sup[p].generation
       /\ sup[p].at = "tellStarted" => e.generation < sup[p].generation
       /\ sup[p].at = "scan" /\ e.generation = sup[p].generation /\ e.kind = "listening" =>
            child[p] = "listening"
  BY <1>1, <1>5 DEF Told
<1>11. Told(p)'
  <2>1. known'[p] = known[p] \/ known'[p] = e.generation
    BY <1>1, <1>6
  <2>2. NewsOf(events', p) \subseteq NewsOf(events, p) /\ Told(p)
    BY <1>1, <1>5
  <2>. QED BY <1>1, <1>10, <2>1, <2>2 DEF Told
<1>12. ASSUME NEW kind, Unheard(p, kind) PROVE Unheard(p, kind)'
  BY <1>1, <1>12 DEF Unheard
<1>13. ASSUME HeardOf(p)
       PROVE  /\ HeardOf(p)'
              /\ ~active[p] => UNCHANGED <<active, ready, retrying>>
              /\ active[p] =>
                   /\ active'[p] /\ (p \in retrying' => p \in retrying)
                   /\ p \in ready' => p \in ready \/ (e.generation = sup[p].generation /\ e.kind = "listening")
  <2>1. known[p] = sup[p].generation
    BY <1>13 DEF HeardOf
  <2>2. UNCHANGED <<known, active, ready, retrying>> \/ (e.generation = sup[p].generation /\ active[p])
    BY <1>1, <1>4, <1>6, <1>10, <2>1, BundleBounds
  <2>3. known'[p] = sup[p].generation
    BY <1>1, <1>6, <2>1, <2>2
  <2>4. HeardOf(p)'
    BY <1>1, <1>13, <2>3 DEF HeardOf
  <2>5. ~active[p] => UNCHANGED <<active, ready, retrying>>
    BY <2>2
  <2>6. active[p] => /\ active'[p] /\ (p \in retrying' => p \in retrying)
                     /\ p \in ready' =>
                          p \in ready \/ (e.generation = sup[p].generation /\ e.kind = "listening")
    BY <1>1, <1>6, <2>2
  <2>. QED BY <2>4, <2>5, <2>6
<1>14. Reported(p)'
  <2>1. ASSUME sup[p].at = "wait"
        PROVE  \/ Unheard(p, "retrying")'
               \/ HeardOf(p)' /\ ~active'[p] /\ p \in retrying' /\ p \notin ready'
    <3>1. Unheard(p, "retrying") \/ (HeardOf(p) /\ ~active[p] /\ p \in retrying /\ p \notin ready)
      BY <1>1, <2>1 DEF Reported
    <3>. QED BY <1>12, <1>13, <3>1
  <2>2. ASSUME sup[p].at = "scan"
        PROVE  \/ Unheard(p, "started")'
               \/ HeardOf(p)' /\ active'[p] /\ p \notin retrying' /\ (p \in ready' => child[p] = "listening")
    <3>1. \/ Unheard(p, "started")
          \/ HeardOf(p) /\ active[p] /\ p \notin retrying /\ (p \in ready => child[p] = "listening")
      BY <1>1, <2>2 DEF Reported
    <3>. QED BY <1>10, <1>12, <1>13, <2>2, <3>1
  <2>. QED BY <1>1, <2>1, <2>2 DEF Reported
<1>. QED BY <1>1, <1>7, <1>9, <1>11, <1>14 DEF BundleInv

LEMMA BundleUnchanged ==
  ASSUME BundleInv, UNCHANGED bundleVars
  PROVE  BundleInv'
BY DEF BundleInv, bundleVars, BundleTypes, Told, Reported, Unheard, HeardOf

LEMMA BundleStep ==
  ASSUME BundleInv, Parallel!Next
  PROVE  BundleInv'
<1>1. CASE \E p \in BundleProfiles :
             \/ Parallel!Launch(p) \/ Parallel!TellStarted(p) \/ Parallel!Exits(p)
             \/ Parallel!TellRetrying(p) \/ Parallel!RetryDue(p) \/ Parallel!SupervisorEnds(p)
  BY <1>1, LaunchStep, TellStartedStep, ExitsStep, TellRetryingStep, SupervisorEndsStep
<1>2. CASE \E p \in BundleProfiles, kind \in {"connecting", "listening"} : Parallel!Says(p, kind)
  BY <1>2, SaysStep
<1>3. CASE Parallel!TakeLifecycle \/ Parallel!TakeEvent \/ Parallel!Cancel
  BY <1>3, TakeLifecycleStep, TakeEventStep, CancelStep
<1>. QED BY <1>1, <1>2, <1>3 DEF Parallel!Next

LEMMA BundleInit ==
  ASSUME Parallel!Init
  PROVE  BundleInv
<1>1. /\ sup = [p \in BundleProfiles |-> [at |-> "launch", generation |-> 0, failures |-> 0]]
      /\ child = [p \in BundleProfiles |-> "none"] /\ lifecycle = <<>> /\ events = <<>>
      /\ known = [p \in BundleProfiles |-> 0] /\ active = [p \in BundleProfiles |-> FALSE]
      /\ ready = {} /\ retrying = {} /\ cancelled = FALSE
  BY DEF Parallel!Init
<1>2. /\ sup \in [BundleProfiles -> BundleSups]
      /\ \A p \in BundleProfiles : sup[p].at = "launch" /\ sup[p].generation = 0
  <2>1. [at |-> "launch", generation |-> 0, failures |-> 0] \in BundleSups
    BY BundleBounds DEF BundleSups
  <2>. QED BY <1>1, <2>1
<1>3. BundleTypes
  <2>1. known \in [BundleProfiles -> 0..MaxGeneration]
    BY <1>1, BundleBounds
  <2>2. child \in [BundleProfiles -> BundleChildren]
    BY <1>1 DEF BundleChildren
  <2>3. lifecycle \in Seq(News) /\ events \in Seq(Sayings)
    BY <1>1
  <2>. QED BY <1>1, <1>2, <2>1, <2>2, <2>3 DEF BundleTypes
<1>4. InOrder(lifecycle) /\ \A p : NewsOf(lifecycle, p) = {} /\ NewsOf(events, p) = {}
  <2>1. Len(lifecycle) = 0 /\ Len(events) = 0
    BY <1>1
  <2>. QED BY <2>1 DEF InOrder, NewsOf
<1>5. ASSUME NEW p \in BundleProfiles PROVE Told(p) /\ Reported(p)
  <2>1. known[p] = 0
    BY <1>1
  <2>. QED BY <1>2, <1>4, <2>1 DEF Told, Reported
<1>. QED BY <1>3, <1>4, <1>5 DEF BundleInv

(* The inductive invariant of the parallel Bundle, for every number of     *)
(* Profiles and launches and every size of the channels.                   *)
LEMMA BundleKept == Spec => []BundleInv
<1>1. Init => BundleInv
  BY BundleInit DEF Init
<1>2. ASSUME BundleInv, [Next]_vars PROVE BundleInv'
  <2>1. CASE OfBundle /\ Parallel!Next
    BY <1>2, <2>1, BundleStep
  <2>2. CASE UNCHANGED bundleVars
    BY <1>2, <2>2, BundleUnchanged
  <2>3. Next => (OfBundle /\ Parallel!Next) \/ UNCHANGED bundleVars
    BY DEF Next, OfDevice, OfEngine, OfManager, OfProvision
  <2>4. UNCHANGED vars => UNCHANGED bundleVars
    BY DEF vars
  <2>. QED BY <1>2, <2>1, <2>2, <2>3, <2>4
<1>. QED BY <1>1, <1>2, PTL DEF Spec

LEMMA BundleShows ==
  ASSUME BundleInv
  PROVE  ReportsTheLatest
<1>1. /\ BundleTypes /\ lifecycle \in Seq(News)
      /\ ~cancelled => \A p \in BundleProfiles : Reported(p)
  BY BundleParts
<1>2. Parallel!TypeOK
  BY <1>1 DEF BundleTypes, Parallel!TypeOK, BundleSups, BundleChildren
<1>3. Parallel!ReportsTheLatest
  <2>1. SUFFICES ASSUME NEW p \in BundleProfiles, Parallel!Heard(p), ~cancelled
                 PROVE  /\ sup[p].at = "wait" => ~active[p] /\ p \in retrying /\ p \notin ready
                        /\ sup[p].at = "scan" =>
                             active[p] /\ p \notin retrying /\ (p \in ready => child[p] = "listening")
    BY DEF Parallel!ReportsTheLatest
  <2>2. NewsOf(lifecycle, p) = {}
    <3>1. DOMAIN lifecycle = 1..Len(lifecycle)
      BY <1>1
    <3>. QED BY <2>1, <3>1 DEF NewsOf, Parallel!Heard
  <2>3. \A kind : ~Unheard(p, kind)
    BY <2>2 DEF Unheard
  <2>. QED BY <1>1, <2>1, <2>3 DEF Reported
<1>. QED BY <1>2, <1>3 DEF ReportsTheLatest

(* main.go of the engine, runParallelBundleWithLauncherRetry: in whatever  *)
(* order the two channels are read, and whenever processes end and are     *)
(* launched again, once its news is heard the Bundle reports of each       *)
(* Profile what its latest launch has come to.                             *)
THEOREM LatestIsReported == Spec => []ReportsTheLatest
BY BundleKept, BundleShows, PTL
=============================================================================

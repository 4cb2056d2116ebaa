------------------------------- MODULE Landing -------------------------------
(***************************************************************************)
(* The manager of an installed Landing server                              *)
(* (macos/engine/cmd/mptcp-landing/manage.go): install, config --edit,     *)
(* upgrade, rollback, uninstall and service, each a list of file changes   *)
(* applied one by one under the manager's lock, and the systemd service,   *)
(* which reads the binary and the config whenever it starts.  The lock     *)
(* keeps managers apart, and nobody else: an operation checks the files,   *)
(* reads them, keeps a copy of what it will change and then writes, and    *)
(* the binary may be replaced by somebody between any two of these steps.  *)
(*                                                                         *)
(* A file is its content, Nil when it is absent; a SHA-256 is the content  *)
(* it was taken of.                                                        *)
(***************************************************************************)
EXTENDS Naturals, Sequences, SequencesExt

CONSTANTS
  Versions,    \* binaries of this program
  Foreign,     \* a binary that is not of this program
  Configs,     \* valid configs
  Nil,
  MaxOps,      \* bound: operations begun
  MaxFaults    \* bound: writes, commands, services and managers that fail

VARIABLES
  files,       \* content by name
  op,          \* the operation, and how far it is
  up,          \* the service: its state, and the binary and config it runs
  ran,         \* history: the pairs of binary and config that were installed
  crashed,     \* history: a manager died in the middle of an operation
  respawned,   \* history: systemd restarted the service during an operation
  slipped,     \* history: the binary was replaced after the operation had checked it
  faults, ops

landingVars == <<files, op, up, ran, crashed, respawned, slipped, faults, ops>>

Names == {"bin", "backup", "config", "configBak", "editBak", "unit", "manifest"}
Pair == <<files.bin, files.config>>
Off == [state |-> "off", pair |-> Nil]
NoOp == [kind |-> "none", at |-> "idle", plan |-> <<>>, todo |-> <<>>, saved |-> Nil, active |-> FALSE]
Idle == op.at \in {"idle", "done", "failed"}

Manifest(installed, bin, prev) == [installed |-> installed, bin |-> bin, prev |-> prev]

(* Nothing is installed, or an installation of an earlier time.            *)
Init ==
  /\ \/ files = [n \in Names |-> Nil] /\ up = Off /\ ran = {}
     \/ \E v \in Versions, c \in Configs :
          /\ files = [n \in Names |->
                       CASE n = "bin" -> v [] n = "config" -> c [] n = "unit" -> "text"
                         [] n = "manifest" -> Manifest(TRUE, v, Nil) [] OTHER -> Nil]
          /\ up \in {Off, [state |-> "on", pair |-> <<v, c>>]}
          /\ ran = {<<v, c>>}
  /\ op = NoOp /\ crashed = FALSE /\ respawned = FALSE /\ slipped = FALSE
  /\ faults = 0 /\ ops = 0

Fault == faults < MaxFaults /\ faults' = faults + 1

-----------------------------------------------------------------------------
(* What each operation checks of what is installed.                        *)

Installed == IF files.manifest = Nil THEN FALSE ELSE files.manifest.installed

(* Mutant: the files are not compared with the record.                     *)
OwnedLoosely == Installed

(* owned: it is installed and both hashes match.                           *)
Owned ==
  /\ Installed
  /\ files.bin = files.manifest.bin /\ files.unit # Nil

(* install finds nothing in its way.                                       *)
Vacant ==
  /\ ~Installed
  /\ files.manifest = Nil => files.config = Nil /\ files.configBak = Nil /\ files.editBak = Nil
  /\ files.bin = Nil /\ files.unit = Nil /\ files.backup = Nil

Checks(kind, accepted) ==
  /\ Idle /\ ops < MaxOps /\ ops' = ops + 1
  /\ accepted
  /\ op' = [NoOp EXCEPT !.kind = kind, !.at = "checked"]
  /\ respawned' = FALSE /\ slipped' = FALSE
  /\ UNCHANGED <<files, up, ran, crashed, faults>>

Restarting == {"config", "upgrade", "rollback"}

Begin ==
  \/ Checks("install", Vacant)
  \/ \E kind \in Restarting \cup {"service"} : Checks(kind, Owned)
  \/ Checks("uninstall", files.manifest # Nil /\ (Installed => Owned))

-----------------------------------------------------------------------------
(* What it then reads, and the changes it decides on, in order.            *)

Change(name, data) == [name |-> name, data |-> data]

Plan(changes) ==
  op' = [op EXCEPT !.at = "planned", !.plan = changes, !.todo = changes, !.active = up.state = "on"]

Goes(kind) ==
  /\ op.at = "checked" /\ op.kind = kind
  /\ UNCHANGED <<files, ran, crashed, respawned, slipped, faults, ops>>

Install(v, c) ==
  /\ Goes("install") /\ UNCHANGED up
  /\ Plan(<<Change("bin", v), Change("config", c), Change("unit", "text"),
            Change("manifest", Manifest(TRUE, v, Nil))>>)

SetConfig(c) ==
  /\ Goes("config") /\ UNCHANGED up
  /\ files.config # Nil
  /\ Plan(<<Change("editBak", files.config), Change("config", c)>>)

(* Mutant: the backup is of the config before its last edit.               *)
UpgradeForgets(v) ==
  LET old == IF files.editBak = Nil THEN files.config ELSE files.editBak
  IN /\ Goes("upgrade") /\ UNCHANGED up
     /\ files.manifest.bin # v /\ files.config # Nil
     /\ Plan(<<Change("backup", files.bin), Change("configBak", old), Change("bin", v),
               Change("manifest", Manifest(TRUE, v, <<files.bin, old>>))>>)

(* The backup is of the binary that is there: it is not compared again.    *)
Upgrade(v) ==
  /\ Goes("upgrade") /\ UNCHANGED up
  /\ files.manifest.bin # v /\ files.config # Nil
  /\ Plan(<<Change("backup", files.bin), Change("configBak", files.config), Change("bin", v),
            Change("manifest", Manifest(TRUE, v, Pair))>>)

(* Mutant: the backup is compared with the record, and not validated.      *)
AcceptsAnyBackup ==
  /\ files.backup # Nil /\ files.configBak # Nil
  /\ files.manifest.prev = <<files.backup, files.configBak>>

(* validateBinary, decodeConfig and the two hashes of the record.          *)
AcceptsBackup ==
  /\ files.backup \in Versions /\ files.configBak # Nil
  /\ files.manifest.prev = <<files.backup, files.configBak>>

Rollback ==
  /\ Goes("rollback") /\ UNCHANGED up
  /\ AcceptsBackup /\ files.config # Nil
  /\ Plan(<<Change("bin", files.backup), Change("backup", files.bin),
            Change("config", files.configBak), Change("configBak", files.config),
            Change("manifest", Manifest(TRUE, files.backup, Pair))>>)

(* disable --now comes before the transaction.                             *)
Uninstall(purge) ==
  LET removed == IF Installed
                 THEN <<Change("bin", Nil), Change("unit", Nil), Change("backup", Nil)>>
                 ELSE <<>>
      kept == IF purge
              THEN <<Change("config", Nil), Change("configBak", Nil),
                     Change("editBak", Nil), Change("manifest", Nil)>>
              ELSE <<Change("manifest", [files.manifest EXCEPT !.installed = FALSE])>>
  IN /\ Goes("uninstall")
     /\ up' = IF Installed THEN Off ELSE up
     /\ Plan(removed \o kept)

(* start and restart; a start of a running service does nothing.           *)
Service(action) ==
  /\ Goes("service")
  /\ up' = IF action = "stop" THEN Off
           ELSE IF action = "start" /\ up.state = "on" THEN up
           ELSE [state |-> "on", pair |-> Pair]
  /\ op' = NoOp

(* Something it is given or reads is not accepted, or disable fails.       *)
Refuse == Goes(op.kind) /\ op' = NoOp /\ UNCHANGED up

(* transaction reads the old contents, then writes.                        *)
Snapshot ==
  /\ op.at = "planned"
  /\ op' = [op EXCEPT !.at = "write", !.saved = files]
  /\ UNCHANGED <<files, up, ran, crashed, respawned, slipped, faults, ops>>

-----------------------------------------------------------------------------
(* The transaction, one file at a time: atomicFile renames.                *)

Put(change) == files' = [files EXCEPT ![change.name] = change.data]

(* What the record calls installed goes into the history.                  *)
Noted == ran' = IF Owned' THEN ran \cup {Pair'} ELSE ran

Write ==
  /\ op.at = "write" /\ op.todo # <<>>
  /\ Put(Head(op.todo)) /\ Noted
  /\ op' = [op EXCEPT !.todo = Tail(@)]
  /\ UNCHANGED <<up, crashed, respawned, slipped, faults, ops>>

(* Mutant: only what is still to be written is put back.                   *)
UndoingRest(next) ==
  op' = [op EXCEPT !.at = next,
                   !.todo = Reverse([i \in DOMAIN op.todo |->
                              Change(op.todo[i].name, op.saved[op.todo[i].name])])]

(* Every file of the transaction is put back, the last one first.  A       *)
(* failed write is undone and nothing is restarted; a failed restart is    *)
(* undone and tried again.                                                 *)
Undoing(next) ==
  op' = [op EXCEPT !.at = next,
                   !.todo = Reverse([i \in DOMAIN op.plan |->
                              Change(op.plan[i].name, op.saved[op.plan[i].name])])]

WriteFails ==
  /\ op.at = "write" /\ op.todo # <<>> /\ Fault
  /\ Undoing("undo")
  /\ UNCHANGED <<files, up, ran, crashed, respawned, slipped, ops>>

Undo ==
  /\ op.at \in {"undo", "undoThenAgain"} /\ op.todo # <<>>
  /\ \/ Put(Head(op.todo)) /\ UNCHANGED faults
     \/ Fault /\ UNCHANGED files
  /\ Noted
  /\ op' = [op EXCEPT !.todo = Tail(@)]
  /\ UNCHANGED <<up, crashed, respawned, slipped, ops>>

Started == [state |-> "on", pair |-> Pair]

(* Mutant: a running service is left as it is.                             *)
SystemQuiet ==
  /\ op.at = "write" /\ op.todo = <<>>
  /\ up' \in IF op.kind = "install" THEN {Started, up} ELSE {up}
  /\ op' = [op EXCEPT !.at = "done"]
  /\ UNCHANGED <<files, ran, crashed, respawned, slipped, faults, ops>>

(* daemon-reload and enable, restartIf(active), or daemon-reload.          *)
System ==
  /\ op.at = "write" /\ op.todo = <<>>
  /\ up' \in IF op.kind = "install" THEN {Started, up}
             ELSE IF op.kind \in Restarting /\ op.active THEN {Started} ELSE {up}
  /\ op' = [op EXCEPT !.at = "done"]
  /\ UNCHANGED <<files, ran, crashed, respawned, slipped, faults, ops>>

(* A restart that fails leaves the old process, none, or the new one.      *)
SystemFails ==
  /\ op.at = "write" /\ op.todo = <<>> /\ Fault
  /\ \/ op.kind = "install" /\ Undoing("undo") /\ up' = Off
     \/ op.kind \in Restarting /\ op.active /\ Undoing("undoThenAgain")
        /\ up' \in {up, Off, Started}
     \/ op.kind = "uninstall" /\ Undoing("undo") /\ UNCHANGED up
  /\ UNCHANGED <<files, ran, crashed, respawned, slipped, ops>>

Undone ==
  /\ op.at \in {"undo", "undoThenAgain"} /\ op.todo = <<>>
  /\ \/ up' = (IF op.at = "undoThenAgain" THEN Started ELSE up) /\ UNCHANGED faults
     \/ op.at = "undoThenAgain" /\ Fault /\ up' \in {up, Off, Started}
  /\ op' = [op EXCEPT !.at = "failed"]
  /\ UNCHANGED <<files, ran, crashed, respawned, slipped, ops>>

-----------------------------------------------------------------------------
(* The environment: the manager dies, the service fails and is restarted   *)
(* by systemd (Restart=on-failure), somebody replaces the binary.          *)

Crash ==
  /\ ~Idle /\ Fault
  /\ op' = NoOp /\ crashed' = TRUE
  /\ UNCHANGED <<files, up, ran, respawned, slipped, ops>>

Dies ==
  /\ up.state = "on" /\ Fault
  /\ up' = [state |-> "pending", pair |-> Nil]
  /\ UNCHANGED <<files, op, ran, crashed, respawned, slipped, ops>>

Respawn ==
  /\ up.state = "pending" /\ files.bin # Nil /\ files.config # Nil
  /\ up' = Started /\ respawned' = (respawned \/ ~Idle)
  /\ UNCHANGED <<files, op, ran, crashed, slipped, faults, ops>>

(* Nothing keeps anybody from replacing the binary in the middle of an     *)
(* operation, which may then overwrite it.                                 *)
Tamper ==
  /\ Fault
  /\ files' = [files EXCEPT !.bin = Foreign]
  /\ IF Idle
     THEN op' = NoOp /\ UNCHANGED slipped
     ELSE slipped' = TRUE /\ UNCHANGED op
  /\ UNCHANGED <<up, ran, crashed, respawned, ops>>

Next ==
  \/ Begin
  \/ \E v \in Versions, c \in Configs : Install(v, c)
  \/ \E c \in Configs : SetConfig(c)
  \/ \E v \in Versions : Upgrade(v)
  \/ Rollback
  \/ \E purge \in BOOLEAN : Uninstall(purge)
  \/ \E action \in {"start", "stop", "restart"} : Service(action)
  \/ Refuse \/ Snapshot
  \/ Write \/ WriteFails \/ Undo \/ System \/ SystemFails \/ Undone
  \/ Crash \/ Dies \/ Respawn \/ Tamper

LandingSpec == Init /\ [][Next]_landingVars

-----------------------------------------------------------------------------

Binary == Versions \cup {Nil, Foreign}
TypeOK ==
  /\ files.bin \in Binary /\ files.backup \in Binary
  /\ {files.config, files.configBak, files.editBak} \subseteq Configs \cup {Nil}
  /\ op.at \in {"idle", "checked", "planned", "write", "undo", "undoThenAgain", "done", "failed"}
  /\ up.state \in {"off", "pending", "on"}

(* An operation that fails - a write, a command, at whatever step - leaves *)
(* every file as it found it, as long as the undoing itself goes well.     *)
AllOrNothing == op.at = "failed" /\ faults <= 1 => files = op.saved

(* rollback installs a binary together with a config it was installed      *)
(* with: what it will accept as the earlier installation was one, whatever *)
(* operations failed or were cut short in between, and whatever binary an  *)
(* upgrade found and backed up.                                            *)
RollsBackToAPair == Owned /\ AcceptsBackup => files.manifest.prev \in ran

(* After an operation the service runs what is installed, unless a manager *)
(* was killed, more than one thing failed or systemd restarted the service *)
(* in the middle of it.                                                    *)
RunsInstalled ==
  op.at \in {"done", "failed"} /\ up.state = "on" /\ faults <= 1 /\ ~crashed /\ ~respawned
    => up.pair = Pair

(* A binary that is not the program's is not overwritten or removed by an  *)
(* operation that finds it when it checks; and whoever replaces the binary *)
(* is the only one to bring a foreign one in: no operation installs one,   *)
(* not even from the backup, unless to undo what it did.                   *)
ForeignUntouched ==
  [][/\ files.bin = Foreign /\ ~slipped => files'.bin = Foreign
     /\ files'.bin = Foreign => \/ files.bin = Foreign \/ faults' > faults
                               \/ op.at \in {"undo", "undoThenAgain"}]_landingVars
=============================================================================

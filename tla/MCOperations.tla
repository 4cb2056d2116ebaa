----------------------------- MODULE MCOperations -----------------------------
(***************************************************************************)
(* The programs that install, configure, start and stop engines, on small  *)
(* instances: the control of remote devices, the engine of the desktop     *)
(* client, the parallel Bundle, the landing manager, and the Provisioning  *)
(* service with its client.  They share no state, so one run checks the    *)
(* five side by side: "part" says which of them a behaviour is of, and the *)
(* others keep their initial states.                                       *)
(***************************************************************************)
EXTENDS Integers, FiniteSets

CONSTANTS
  Devices, NoDevice, MaxCommands, MaxSecrets, MaxDeviceFaults,
  Procs, NoProc, RecoveryDelays, MaxCalls, MaxExits,
  BundleProfiles, ChannelSize, RetryDelays, MaxGeneration,
  Versions, Foreign, Configs, Nil, MaxOps, MaxFaults,
  Profiles, Bundles, Ports, Aliases, NoAlias, Modes, Aliased, MaxChanges, MaxStoreFaults, MaxClient,
  EarlierVersion, EarlierConfig,   \* an installation of an earlier time
  FirstProfile, FirstPort

ASSUME OperationsAssumption ==
  /\ NoDevice \notin Devices
  /\ NoProc \notin Procs
  /\ Nil \notin Versions \cup Configs /\ Foreign \notin Versions \cup {Nil}
  /\ Nil \notin Versions \X Configs
  /\ Nil \notin [installed : BOOLEAN, bin : Versions,
                prev : ((Versions \cup {Foreign}) \X Configs) \cup {Nil}]
  /\ IsFiniteSet(Profiles) /\ IsFiniteSet(Bundles) /\ Profiles \cap Bundles = {}
  /\ Ports \subseteq Nat /\ NoAlias \in Aliases /\ FirstProfile \in Profiles
  /\ Modes \subseteq {"parallel", " parallel", "single_select"}
  /\ {MaxCommands, MaxSecrets, MaxDeviceFaults, RecoveryDelays, MaxCalls, MaxExits, ChannelSize,
      RetryDelays, MaxGeneration, MaxOps, MaxFaults, MaxChanges, MaxStoreFaults, MaxClient}
       \subseteq Nat

VARIABLES
  part,
  mem, disk, poll, remote, todo, secrets, acked, dead, done, commands, deviceFaults,
  running, busy, wish, engine, tries, proc, call, timer, asked, raced, late, calls, exits,
  sup, child, lifecycle, events, known, active, ready, retrying, cancelled,
  files, op, up, ran, crashed, respawned, slipped, faults, ops,
  store, file, admin, tokens, gone, fetch, client, overtaken, changes, storeFaults, clicks

deviceVars == <<mem, disk, poll, remote, todo, secrets, acked, dead, done, commands, deviceFaults>>
engineVars ==
  <<running, busy, wish, engine, tries, proc, call, timer, asked, raced, late, calls, exits>>
bundleVars == <<sup, child, lifecycle, events, known, active, ready, retrying, cancelled>>
landingVars == <<files, op, up, ran, crashed, respawned, slipped, faults, ops>>
provisionVars ==
  <<store, file, admin, tokens, gone, fetch, client, overtaken, changes, storeFaults, clicks>>
vars == <<part, deviceVars, engineVars, bundleVars, landingVars, provisionVars>>

Device == INSTANCE DeviceControl WITH
  MaxFaults <- MaxDeviceFaults, client <- remote, faults <- deviceFaults
Engine == INSTANCE DesktopEngine WITH Delays <- RecoveryDelays
Parallel == INSTANCE Bundle WITH Profiles <- BundleProfiles, Delays <- RetryDelays
Manager == INSTANCE Landing
Provision == INSTANCE Provisioning WITH MaxFaults <- MaxStoreFaults, faults <- storeFaults

(* The stores begin with Bundles of Profiles with ports of their own, of   *)
(* which one is run at a time until a request makes it parallel, and with  *)
(* a client that has the URL of a Bundle.                                  *)
Init ==
  /\ part \in {"device", "engine", "bundle", "landing", "provision"}
  /\ Device!Init /\ Engine!Init /\ Parallel!Init /\ Manager!Init /\ Provision!Init
  /\ files.bin \in {Nil, EarlierVersion} /\ files.config \in {Nil, EarlierConfig}
  /\ part # "landing" => files.bin = Nil
  /\ \A b \in Bundles : store[b].mode = "single_select"
  /\ \A p, q \in Profiles : store[p].port = store[q].port => p = q
  /\ store[FirstProfile].port = FirstPort
  /\ \E b \in Bundles : client.url = Provision!Url(store[b])

OfDevice == part = "device" /\ UNCHANGED <<part, engineVars, bundleVars, landingVars, provisionVars>>
OfEngine == part = "engine" /\ UNCHANGED <<part, deviceVars, bundleVars, landingVars, provisionVars>>
OfBundle == part = "bundle" /\ UNCHANGED <<part, deviceVars, engineVars, landingVars, provisionVars>>
OfManager == part = "landing" /\ UNCHANGED <<part, deviceVars, engineVars, bundleVars, provisionVars>>
OfProvision == part = "provision" /\ UNCHANGED <<part, deviceVars, engineVars, bundleVars, landingVars>>

Next ==
  \/ OfDevice /\ Device!Next
  \/ OfEngine /\ Engine!Next
  \/ OfBundle /\ Parallel!Next
  \/ OfManager /\ Manager!Next
  \/ OfProvision /\ Provision!Next

(* The fairness of each module, in the behaviours of its part.  Nothing is *)
(* asked of the manager and the stores: where no engine is ever called,    *)
(* none of the steps that the fairness of the engine speaks of is enabled. *)
Fairness ==
  \/ part = "device" /\ Device!Fairness
  \/ part = "bundle" /\ Parallel!Fairness
  \/ part \in {"engine", "landing", "provision"} /\ Engine!Fairness

Spec == Init /\ [][Next]_vars /\ Fairness

-----------------------------------------------------------------------------

(* DeviceControl: a poll that waits has missed no change of its device,    *)
(* what an administrator was told survives a restart, a secret that was    *)
(* withdrawn authenticates nobody, and a requested restart is carried out  *)
(* once at most.                                                           *)
DevicesAgree ==
  /\ Device!TypeOK /\ Device!NoLostWakeUp /\ Device!ConfirmedIsDurable
  /\ Device!WithdrawnStaysDead /\ Device!AtMostOnce

(* DesktopEngine: after Stop returns no engine is started for the user,    *)
(* two engines never run at a time, and the reported state is that of the  *)
(* engine.                                                                 *)
EngineObeys ==
  Engine!TypeOK /\ Engine!StopWins /\ Engine!OneEngine /\ Engine!ReportsTruth

(* Bundle: the report is of the latest launch of each Profile.             *)
ReportsTheLatest == Parallel!TypeOK /\ Parallel!ReportsTheLatest

(* Landing: an operation installs all of its files or changes none, what   *)
(* rollback restores was installed together, and the service runs what is  *)
(* installed.                                                              *)
InstallsWhole ==
  /\ Manager!TypeOK /\ Manager!AllOrNothing /\ Manager!RollsBackToAPair
  /\ Manager!RunsInstalled

(* Landing: a binary that is not of this program is left alone by every    *)
(* operation that finds it, and brought in by none.                        *)
ForeignUntouched == Manager!ForeignUntouched

(* Provisioning: every Bundle whose mode was written without blanks stays  *)
(* consistent with its Profiles, a URL that was withdrawn is served to     *)
(* nobody, and what is served is what is saved, and can be loaded.         *)
StoreAgrees ==
  /\ Provision!TypeOK /\ Provision!CheckedBundlesStand /\ Provision!WithdrawnUrlsStayDead
  /\ Provision!SavedIsServed

(* Provisioning: the client uses a document of the URL it has, or the one  *)
(* it was fetching when the URL was changed, and its selection fits it.    *)
ClientAgrees == Provision!OwnOrOvertaken /\ Provision!SelectionFits

(* What is wanted happens in the end: a paired device follows the latest   *)
(* commands (DeviceControl), the client does not stay busy and an engine   *)
(* that ends while it is wanted is started again (DesktopEngine), and so   *)
(* is the process of a Profile (Bundle).                                   *)
WantedHappens ==
  /\ part = "device" => Device!Follows
  /\ part = "engine" => Engine!NeverStuckBusy /\ Engine!Recovers
  /\ part = "bundle" => Parallel!Reconnects
=============================================================================

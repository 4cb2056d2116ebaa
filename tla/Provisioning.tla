----------------------------- MODULE Provisioning -----------------------------
(***************************************************************************)
(* The provisioning server's Profiles and Bundles (provisioning/main.go):  *)
(* two stores, each with its lock and its file, the administrator's        *)
(* requests, of which mutationMu serialises only those that look at one    *)
(* store to change the other, and the encrypted answer a client fetches -  *)
(* with the client that keeps it as its last known good configuration      *)
(* (windows/app.go, windows/provisioning.go).                              *)
(*                                                                         *)
(* A URL is its alias and its secret token; a configuration is its port.   *)
(* The "written" of a Bundle is history: the mode as its request gave it.  *)
(***************************************************************************)
EXTENDS Naturals, FiniteSets

CONSTANTS
  Profiles, Bundles,  \* IDs
  Ports,
  Aliases,            \* public names, with NoAlias
  NoAlias,
  Modes,              \* what a request says the mode of a Bundle is
  Aliased,            \* the records that requests give public names
  MaxChanges,         \* bound: requests of administrators
  MaxFaults,          \* bound: saves that fail
  MaxClient           \* bound: what the user of the client does

VARIABLES
  store,       \* the records in memory, of Profiles and of Bundles
  file,        \* both files
  admin,       \* requests between their checks and their change
  tokens,      \* tokens drawn so far
  gone,        \* history: URLs a confirmed change has withdrawn
  fetch,       \* the request of the client and the handler that answers it
  client,      \* url, the document in use, the cached one, the selection
  overtaken,   \* history: the URL whose document was fetched when the URL was changed
  changes, faults, clicks

provisionVars == <<store, file, admin, tokens, gone, fetch, client, overtaken, changes, faults, clicks>>
adminVars == <<store, file, admin, tokens, gone, changes, faults>>
clientVars == <<fetch, client, overtaken, clicks>>

Ids == Profiles \cup Bundles
Absent ==
  [present |-> FALSE, alias |-> NoAlias, token |-> 0, port |-> 0, mode |-> "", written |-> "", members |-> {}]
Url(r) == <<r.alias, r.token>>
NoUrl == <<NoAlias, 0>>
Present(s) == {i \in Ids : s[i].present}
KindOf(id) == IF id \in Profiles THEN Profiles ELSE Bundles

NoDoc == [source |-> NoUrl, mode |-> "", items |-> {}]
NoFetch == [at |-> "idle", url |-> NoUrl, mode |-> "", ids |-> {}, left |-> {}, read |-> {}]
NoClient == [url |-> NoUrl, doc |-> NoDoc, cache |-> NoDoc, selected |-> {}]

Token == CHOOSE f \in [Ids -> 1..Cardinality(Ids)] : \A i, j \in Ids : f[i] = f[j] => i = j

(* The server has loaded the files of an earlier run; the client may know  *)
(* a URL and has never had an answer.                                      *)
Init ==
  /\ \E port \in [Profiles -> Ports], mode \in {"parallel", "single_select"} :
       /\ mode = "parallel" => Cardinality({port[p] : p \in Profiles}) = Cardinality(Profiles)
       /\ store = [i \in Ids |->
                    IF i \in Profiles
                    THEN [Absent EXCEPT !.present = TRUE, !.token = Token[i], !.port = port[i]]
                    ELSE [Absent EXCEPT !.present = TRUE, !.token = Token[i], !.mode = mode,
                                        !.written = mode, !.members = Profiles]]
  /\ file = store /\ tokens = Cardinality(Ids) /\ gone = {}
  /\ admin = {}
  /\ fetch = NoFetch /\ overtaken = {}
  /\ \E url \in {NoUrl} \cup {Url(store[i]) : i \in Ids} : client = [NoClient EXCEPT !.url = url]
  /\ changes = 0 /\ faults = 0 /\ clicks = 0

-----------------------------------------------------------------------------
(* validateBundleProfiles, of what a request says; normalizeBundleInput    *)
(* trims the mode afterwards (a blank in front stands for any around it).  *)

Trimmed(mode) == IF mode = " parallel" THEN "parallel" ELSE mode
DistinctPorts(port, ids) == \A p, q \in ids : port[p] = port[q] => p = q
PortOf(s) == [p \in Profiles |-> s[p].port]

BundleValid(mode, ids) ==
  /\ ids \subseteq Present(store)
  /\ mode = "parallel" => DistinctPorts(PortOf(store), ids)

(* validateProfileMutation: the Bundles that run the Profile in parallel.  *)
MutationValid(p, port) ==
  \A b \in Bundles :
    store[b].present /\ store[b].mode = "parallel" /\ p \in store[b].members
      => DistinctPorts([PortOf(store) EXCEPT ![p] = port], store[b].members)

Referenced(p) == \E b \in Bundles : store[b].present /\ p \in store[b].members

AliasFree(alias, id) ==
  alias = NoAlias \/ \A i \in KindOf(id) \ {id} : ~(store[i].present /\ store[i].alias = alias)

(* Mutant: requests check and change at once.                              *)
LockNone == TRUE

(* mutationMu: held from the checks to the change.                         *)
Lock == admin = {}

-----------------------------------------------------------------------------
(* A change of one record under the lock of its store: the file is         *)
(* replaced and the old URL withdrawn, or the save fails and the record is *)
(* put back.                                                               *)

Withdrawn(id, r) ==
  IF store[id].present /\ Url(r) # Url(store[id]) THEN {Url(store[id])} ELSE {}

(* Mutant: the record in memory stays as it was changed.                   *)
PutLoose(id, r) ==
  \/ /\ store' = [store EXCEPT ![id] = r] /\ file' = [file EXCEPT ![id] = r]
     /\ gone' = gone \cup Withdrawn(id, r)
     /\ UNCHANGED faults
  \/ /\ faults < MaxFaults /\ faults' = faults + 1
     /\ store' = [store EXCEPT ![id] = r] /\ UNCHANGED <<file, gone>>

Put(id, r) ==
  \/ /\ store' = [store EXCEPT ![id] = r] /\ file' = [file EXCEPT ![id] = r]
     /\ gone' = gone \cup Withdrawn(id, r)
     /\ UNCHANGED faults
  \/ /\ faults < MaxFaults /\ faults' = faults + 1
     /\ UNCHANGED <<store, file, gone>>

Fresh == tokens' = tokens + 1

(* Mutant: the secret stays.                                               *)
RenamedOnly(old, alias) == [old EXCEPT !.alias = alias]

(* "Changing URL identity automatically rotates the bearer secret".        *)
Renamed(old, alias) ==
  IF alias = old.alias THEN old ELSE [old EXCEPT !.alias = alias, !.token = tokens + 1]

Request == changes < MaxChanges /\ changes' = changes + 1

(* Requests outside mutationMu.                                            *)
CreateProfile(p, port, alias) ==
  /\ Request /\ ~store[p].present /\ AliasFree(alias, p)
  /\ Put(p, [Absent EXCEPT !.present = TRUE, !.alias = alias, !.token = tokens + 1, !.port = port])
  /\ Fresh /\ UNCHANGED <<admin, clientVars>>

Rotate(id) ==
  /\ Request /\ store[id].present
  /\ Put(id, [store[id] EXCEPT !.token = tokens + 1])
  /\ Fresh /\ UNCHANGED <<admin, clientVars>>

DeleteBundle(b) ==
  /\ Request /\ store[b].present
  /\ Put(b, Absent)
  /\ UNCHANGED <<admin, tokens, clientVars>>

(* Requests under mutationMu: the checks, then the change.                 *)
Asks(kind, id, new) ==
  /\ Request /\ Lock
  /\ admin' = admin \cup {[kind |-> kind, id |-> id, new |-> new]}
  /\ UNCHANGED <<store, file, tokens, gone, faults, clientVars>>

UpdateProfile(p, port, alias) ==
  /\ MutationValid(p, port)
  /\ Asks("update", p, [Absent EXCEPT !.alias = alias, !.port = port])

DeleteProfile(p) == ~Referenced(p) /\ Asks("delete", p, Absent)

CreateBundle(b, mode, ids, alias) ==
  /\ BundleValid(mode, ids) /\ ~store[b].present
  /\ Asks("create", b, [Absent EXCEPT !.alias = alias, !.mode = Trimmed(mode), !.written = mode,
                                      !.members = ids])

UpdateBundle(b, mode, ids, alias) ==
  /\ BundleValid(mode, ids)
  /\ Asks("update", b, [Absent EXCEPT !.alias = alias, !.mode = Trimmed(mode), !.written = mode,
                                      !.members = ids])

Change(request) ==
  LET id == request.id
      new == request.new
      filled(r) == [r EXCEPT !.present = TRUE, !.port = new.port, !.mode = new.mode,
                             !.written = new.written, !.members = new.members]
  IN /\ admin' = admin \ {request}
     /\ \/ /\ request.kind = "delete" /\ store[id].present
           /\ Put(id, Absent) /\ UNCHANGED tokens
        \/ /\ request.kind = "create" /\ AliasFree(new.alias, id)
           /\ Put(id, filled([Absent EXCEPT !.alias = new.alias, !.token = tokens + 1])) /\ Fresh
        \/ /\ request.kind = "update" /\ store[id].present /\ AliasFree(new.alias, id)
           /\ Put(id, filled(Renamed(store[id], new.alias))) /\ Fresh
        \/ /\ \/ request.kind # "create" /\ ~store[id].present
              \/ request.kind # "delete" /\ ~AliasFree(new.alias, id)
           /\ UNCHANGED <<store, file, tokens, gone, faults>>
     /\ UNCHANGED <<changes, clientVars>>

Restart ==
  /\ faults < MaxFaults /\ faults' = faults + 1
  /\ store' = file /\ admin' = {} /\ fetch' = NoFetch
  /\ UNCHANGED <<file, tokens, gone, changes, client, overtaken, clicks>>

-----------------------------------------------------------------------------
(* A client fetches.  publicBundle finds the record, then reads the        *)
(* Profiles one by one twice: to validate them and to answer.              *)

Click == clicks < MaxClient /\ clicks' = clicks + 1

Sync ==
  /\ Click /\ client.url # NoUrl /\ fetch.at = "idle"
  /\ fetch' = [NoFetch EXCEPT !.at = "asked", !.url = client.url]
  /\ UNCHANGED <<adminVars, client, overtaken>>

Found(url) == {i \in Ids : store[i].present /\ Url(store[i]) = url}

Finds ==
  /\ fetch.at = "asked"
  /\ \/ Found(fetch.url) = {} /\ fetch' = NoFetch
     \/ \E b \in Found(fetch.url) \cap Bundles :
          fetch' = [fetch EXCEPT !.at = "validate", !.mode = store[b].mode,
                                 !.ids = store[b].members, !.left = store[b].members]
     \/ \E p \in Found(fetch.url) \cap Profiles :
          fetch' = [fetch EXCEPT !.at = "answer", !.mode = "profile",
                                 !.ids = {p}, !.read = {<<p, store[p]>>}]
  /\ UNCHANGED <<adminVars, client, overtaken, clicks>>

Reads ==
  /\ fetch.at \in {"validate", "collect"}
  /\ \E p \in fetch.left :
       fetch' = [fetch EXCEPT !.left = @ \ {p}, !.read = @ \cup {<<p, store[p]>>}]
  /\ UNCHANGED <<adminVars, client, overtaken, clicks>>

Validates ==
  LET ports == [p \in fetch.ids |-> (CHOOSE item \in fetch.read : item[1] = p)[2].port]
  IN /\ fetch.at = "validate" /\ fetch.left = {}
     /\ fetch' = IF /\ \A item \in fetch.read : item[2].present
                    /\ fetch.mode = "parallel" => DistinctPorts(ports, fetch.ids)
                 THEN [fetch EXCEPT !.at = "collect", !.left = fetch.ids, !.read = {}]
                 ELSE NoFetch
     /\ UNCHANGED <<adminVars, client, overtaken, clicks>>

-----------------------------------------------------------------------------
(* The client.                                                             *)

Named(doc) == {item[1] : item \in doc.items}

(* Mutant: the earlier selection is kept.                                  *)
ReconciledNot(doc, selected) == {IF selected = {} THEN Named(doc) ELSE selected}

(* reconcileManagedSelectionLocked.                                        *)
Reconciled(doc, selected) ==
  LET kept == selected \cap Named(doc)
  IN IF doc.mode = "parallel" THEN {IF kept = {} THEN Named(doc) ELSE kept}
     ELSE {{p} : p \in IF kept = {} THEN Named(doc) ELSE kept}

(* fetchManagedDocument and the end of SyncProvisioning: a document with a *)
(* Profile that is no more is refused; the earlier one stays.              *)
Hears ==
  LET doc == [source |-> fetch.url, mode |-> fetch.mode, items |-> fetch.read]
  IN /\ fetch.at \in {"collect", "answer"} /\ fetch.left = {}
     /\ fetch' = NoFetch
     /\ IF \A item \in fetch.read : item[2].present
        THEN /\ \E selected \in Reconciled(doc, client.selected) :
                  client' = [client EXCEPT !.doc = doc, !.cache = doc, !.selected = selected]
             /\ overtaken' = IF fetch.url = client.url THEN {} ELSE overtaken
        ELSE UNCHANGED <<client, overtaken>>
     /\ UNCHANGED <<adminVars, clicks>>

FetchLost ==
  /\ fetch.at # "idle" /\ fetch' = NoFetch
  /\ UNCHANGED <<adminVars, client, overtaken, clicks>>

(* Mutant: the document stays until the next one comes.                    *)
WithUrlOnly(c, url) == [c EXCEPT !.url = url]

(* A new URL drops the document of the earlier one.                        *)
WithUrl(c, url) ==
  IF url = c.url THEN c ELSE [NoClient EXCEPT !.url = url]

(* SetProvisioningURL, and ClearProvisioning with NoUrl.                   *)
SetUrl(url) ==
  /\ Click /\ url # client.url
  /\ client' = WithUrl(client, url)
  /\ overtaken' = IF fetch.at = "idle" THEN {} ELSE {fetch.url}
  /\ UNCHANGED <<adminVars, fetch>>

(* SetManagedSelection.                                                    *)
Select(ids) ==
  /\ Click /\ ids \subseteq Named(client.doc) /\ ids # {} /\ client.doc.mode # "profile"
  /\ client.doc.mode = "single_select" => Cardinality(ids) = 1
  /\ client' = [client EXCEPT !.selected = ids]
  /\ UNCHANGED <<adminVars, fetch, overtaken>>

CacheMatches == client.cache # NoDoc /\ client.cache.source = client.url

(* NewApp and loadManagedCacheLocked.                                      *)
Reopen ==
  /\ Click
  /\ IF CacheMatches
     THEN \E selected \in Reconciled(client.cache, client.selected) :
            client' = [client EXCEPT !.doc = client.cache, !.selected = selected]
     ELSE client' = [client EXCEPT !.doc = NoDoc]
  /\ fetch' = NoFetch /\ overtaken' = {}
  /\ UNCHANGED adminVars

-----------------------------------------------------------------------------

Names(id) == IF id \in Aliased THEN Aliases ELSE {NoAlias}

Next ==
  \/ \E p \in Profiles :
       \/ \E port \in Ports, alias \in Names(p) : CreateProfile(p, port, alias) \/ UpdateProfile(p, port, alias)
       \/ DeleteProfile(p)
  \/ \E i \in Ids : Rotate(i)
  \/ \E b \in Bundles :
       \/ DeleteBundle(b)
       \/ \E mode \in Modes, ids \in (SUBSET Profiles) \ {{}}, alias \in Names(b) :
            CreateBundle(b, mode, ids, alias) \/ UpdateBundle(b, mode, ids, alias)
  \/ \E request \in admin : Change(request)
  \/ Restart \/ Sync \/ Finds \/ Reads \/ Validates \/ Hears \/ FetchLost \/ Reopen
  \/ \E i \in Present(store) : SetUrl(Url(store[i]))
  \/ SetUrl(NoUrl)
  \/ \E ids \in SUBSET Profiles : Select(ids)

-----------------------------------------------------------------------------

TypeOK ==
  /\ \A i \in Ids : store[i].token \in 0..tokens /\ store[i].port \in Ports \cup {0}
                    /\ store[i].alias \in Aliases /\ store[i].members \subseteq Profiles
  /\ \A request \in admin : request.kind \in {"create", "update", "delete"} /\ request.id \in Ids
  /\ fetch.at \in {"idle", "asked", "validate", "collect", "answer"}
  /\ client.selected \subseteq Profiles

(* Every Bundle stands on Profiles that exist, and a parallel one, if its  *)
(* mode was written without blanks, on Profiles with ports of their own,   *)
(* whatever requests run at once: what one request has checked, no other   *)
(* one undoes before it is carried out (adminProfileByID, adminBundles,    *)
(* adminBundleByID, mutationMu).                                           *)
CheckedBundlesStand ==
  \A b \in Bundles : store[b].present =>
    /\ store[b].members \subseteq Present(store)
    /\ store[b].written = "parallel" => DistinctPorts(PortOf(store), store[b].members)

(* "no previously issued URL can become valid again after a later mode     *)
(* change": a URL that a confirmed change has withdrawn serves nothing,    *)
(* across renames to and fro, failed saves and restarts (updateWithAlias,  *)
(* bundleStore.update, rotate, delete).                                    *)
WithdrawnUrlsStayDead == \A i \in Present(store) \cup Present(file) : Url(store[i]) \notin gone /\ Url(file[i]) \notin gone

(* A change that was refused with an error is neither served nor found     *)
(* after a restart, and what is saved can be loaded again: no two records  *)
(* of a store share an alias or a token (saveLocked, load).                *)
SavedIsServed ==
  /\ store = file
  /\ \A i, j \in Present(file) : i # j /\ KindOf(i) = KindOf(j) =>
       (file[i].alias # NoAlias => file[i].alias # file[j].alias)

(* The client uses a document of the URL it is configured with.  One of    *)
(* another URL, in use or found in the cache when the client is opened     *)
(* again, can only be the one that was being fetched when the URL was      *)
(* changed; opening the application, or the next answer, heals that        *)
(* (SetProvisioningURL, SyncProvisioning, loadManagedCacheLocked).         *)
OwnOrOvertaken == client.doc # NoDoc => client.doc.source \in {client.url} \cup overtaken

(* What is selected to run is in the document in use, never empty, and one *)
(* Profile of a single_select Bundle, as documents, selections and caches  *)
(* come and go (reconcileManagedSelectionLocked, SetManagedSelection).     *)
SelectionFits ==
  client.doc # NoDoc =>
    /\ client.selected # {} /\ client.selected \subseteq Named(client.doc)
    /\ client.doc.mode # "parallel" => Cardinality(client.selected) = 1
=============================================================================

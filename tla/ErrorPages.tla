------------------------------ MODULE ErrorPages ------------------------------
(***************************************************************************)
(* The error pages of rapid-cdn (src/software/rapid-cdn/software.py): the  *)
(* manager, a threaded server that stores the pages of the operator and of *)
(* the shared instances and publishes them with a manifest of checksums;   *)
(* the updater of a frontend, which polls the manifest, copies what        *)
(* differs and reloads haproxy; the seed, which gives every shared         *)
(* instance a link to the page of the cluster.                             *)
(*                                                                         *)
(* One error code: the codes are independent of one another.  A checksum   *)
(* is the page itself.  Tokens, sizes and the rendering of the web         *)
(* interface are left out.  Manager and updater may die anywhere.          *)
(***************************************************************************)
EXTENDS Integers, FiniteSets

CONSTANTS
    Ref,            \* references of shared instances
    Cluster,        \* slot of the page of the operator
    None,
    Link,           \* symbolic link to the page of the cluster
    MaxWrites,      \* bound: requests that store or reset a page
    MaxFaults       \* bound: deaths, and failures of disk or network

VARIABLES
    active,         \* the shared instances there are
    serving,        \* the manager is up
    request,        \* the request that holds _lock: [slot, page, step], or None
    source,         \* stored pages: of the operator, and overrides of the shared instances
    page,           \* published pages
    dirty, cached,  \* _manifest_state
    at,             \* of the updater: "sleep", "download", "revert", "save", "reload"
    manifest,       \* as the updater received it
    todo,           \* entries of the manifest to be downloaded
    state,          \* state in the memory of the updater
    state_file,
    changed,        \* result of poll_once
    local,          \* files of the frontend
    haproxy,        \* pages haproxy loaded
    interrupted,    \* an updater died, or failed to reload, with changes not yet loaded
    writes, faults

Slot == Ref \cup {Cluster}
Builtin == 0
Blank == -1                 \* a file that was truncated and not written
Page == Blank..MaxWrites
Nothing == [s \in {} |-> None]

manager == <<serving, request, source, page, dirty, cached>>
updater == <<at, manifest, todo, state, changed>>
frontend == <<state_file, local, haproxy>>
vars == <<active, manager, updater, frontend, interrupted, writes, faults>>

IsManifest(m) == DOMAIN m \subseteq Slot /\ \A s \in DOMAIN m : m[s] \in Page

TypeOK ==
    /\ active \subseteq Ref /\ serving \in BOOLEAN
    /\ request \in {None} \cup
            [slot : Slot, page : Page \cup {None}, step : {"open", "write", "publish"}]
    /\ source \in [Slot -> Page \cup {None}] /\ page \in [Slot -> Page \cup {None}]
    /\ dirty \in BOOLEAN /\ IsManifest(cached)
    /\ at \in {"sleep", "download", "revert", "save", "reload"}
    /\ IsManifest(manifest) /\ IsManifest(state) /\ IsManifest(state_file)
    /\ todo \subseteq Slot /\ changed \in BOOLEAN
    /\ local \in [Slot -> Page \cup {None, Link}] /\ haproxy \in [Slot -> Page \cup {None}]
    /\ interrupted \in BOOLEAN /\ writes \in 0..MaxWrites /\ faults \in 0..MaxFaults

\* A frontend that was seeded, and a manager that has never run.
Init ==
    /\ active = Ref /\ serving = FALSE /\ request = None
    /\ source = [s \in Slot |-> None] /\ page = [s \in Slot |-> None]
    /\ dirty = TRUE /\ cached = Nothing
    /\ at = "sleep" /\ manifest = Nothing /\ todo = {} /\ state = Nothing /\ changed = FALSE
    /\ state_file = Nothing
    /\ local = [s \in Slot |-> IF s = Cluster THEN Builtin ELSE Link]
    /\ haproxy = [s \in Slot |-> Builtin]
    /\ interrupted = FALSE /\ writes = 0 /\ faults = 0

Fault == faults < MaxFaults /\ faults' = faults + 1

-----------------------------------------------------------------------------
(* The manager. *)

\* _publish_haproxy_file: the cluster always has a page, a shared instance only an override.
Publishable(stored, s) == IF s = Cluster /\ stored = None THEN Builtin ELSE stored

\* At the start everything is published; overrides of removed instances are dropped.
StartManager ==
    /\ ~serving /\ serving' = TRUE
    /\ source' = [s \in Slot |-> IF s \in active \cup {Cluster} THEN source[s] ELSE None]
    /\ page' = [s \in Slot |-> Publishable(source'[s], s)]
    /\ dirty' = TRUE /\ cached' = Nothing
    /\ UNCHANGED <<active, request, updater, frontend, interrupted, writes, faults>>

\* PUT, DELETE, and POST of the web interface: the handler takes the lock.  An empty page is
\* refused before.
Receive(s) ==
    /\ serving /\ request = None /\ writes < MaxWrites /\ writes' = writes + 1
    /\ \E p \in {writes', None} : request' = [slot |-> s, page |-> p, step |-> "open"]
    /\ UNCHANGED <<active, serving, source, page, dirty, cached, updater, frontend, interrupted,
                   faults>>

\* The file is opened, which truncates it, or removed.
Open ==
    /\ request # None /\ request.step = "open"
    /\ source' = [source EXCEPT ![request.slot] = IF request.page = None THEN None ELSE Blank]
    /\ request' = [request EXCEPT !.step = IF request.page = None THEN "publish" ELSE "write"]
    /\ UNCHANGED <<active, serving, page, dirty, cached, updater, frontend, interrupted, writes, faults>>

Store ==
    /\ request # None /\ request.step = "write"
    /\ source' = [source EXCEPT ![request.slot] = request.page]
    /\ request' = [request EXCEPT !.step = "publish"]
    /\ UNCHANGED <<active, serving, page, dirty, cached, updater, frontend, interrupted, writes, faults>>

\* The disk is full: the exception releases the lock, the file stays empty.
StoreFails ==
    /\ Fault /\ request # None /\ request.step = "write"
    /\ request' = None
    /\ UNCHANGED <<active, serving, source, page, dirty, cached, updater, frontend, interrupted, writes>>

\* Variant of MarkDirty: only a page that is written marks the manifest.
MarkWhenWritten(new) == dirty \/ new # None

\* The cache of the manifest is dropped before a page is written or removed.
MarkDirty(new) == TRUE

\* _publish_haproxy_file; the lock is released.
PublishPage ==
    /\ request # None /\ request.step = "publish"
    /\ LET new == Publishable(source[request.slot], request.slot)
       IN  /\ page' = [page EXCEPT ![request.slot] = new]
           /\ dirty' = MarkDirty(new)
    /\ request' = None
    /\ UNCHANGED <<active, serving, source, cached, updater, frontend, interrupted, writes, faults>>

ManagerStops ==
    /\ serving' = FALSE /\ request' = None
    /\ UNCHANGED <<source, page, dirty, cached>>

ManagerDies ==
    /\ Fault /\ serving /\ ManagerStops
    /\ UNCHANGED <<active, updater, frontend, interrupted, writes>>

\* A shared instance goes or comes: the wrapper restarts the manager, and the seed gives a
\* new instance of the frontend its link, if it has no file.
ChangeActive ==
    /\ Fault /\ ManagerStops
    /\ \E r \in Ref :
          /\ active' = IF r \in active THEN active \ {r} ELSE active \cup {r}
          /\ local' = [local EXCEPT ![r] = IF r \in active' /\ @ = None THEN Link ELSE @]
    /\ UNCHANGED <<updater, state_file, haproxy, interrupted, writes>>

-----------------------------------------------------------------------------
(* The updater of a frontend: poll_once, every minute. *)

\* _build_manifest: what is published, from the cache unless it is dirty.
Manifest ==
    IF dirty THEN [s \in {t \in Slot : page[t] # None} |-> page[s]] ELSE cached

\* A link counts as absent.
Differs(m, known, s) == local[s] # m[s] \/ s \notin DOMAIN known \/ known[s] # m[s]

\* GET /sync, under the lock.
Sync ==
    /\ at = "sleep" /\ serving /\ request = None
    /\ cached' = Manifest /\ dirty' = FALSE
    /\ manifest' = Manifest
    /\ state' = state_file /\ changed' = FALSE
    /\ todo' = {s \in DOMAIN Manifest : Differs(Manifest, state_file, s)}
    /\ at' = IF todo' = {} THEN "revert" ELSE "download"
    /\ UNCHANGED <<active, serving, request, source, page, frontend, interrupted, writes, faults>>

NextDownload(s) ==
    /\ at = "download" /\ s \in todo
    /\ todo' = todo \ {s}
    /\ at' = IF todo' = {} THEN "revert" ELSE "download"

\* GET /haproxy, without the lock: the page may be newer than the manifest.
Download(s) ==
    /\ NextDownload(s) /\ serving /\ page[s] # None
    /\ local' = [local EXCEPT ![s] = page[s]]
    /\ state' = [t \in DOMAIN state \cup {s} |-> IF t = s THEN manifest[s] ELSE state[t]]
    /\ changed' = TRUE
    /\ UNCHANGED <<active, manager, manifest, state_file, haproxy, interrupted, writes, faults>>

\* Not found, the manager is down, or the network fails: the next poll will see.
DownloadFails(s) ==
    /\ NextDownload(s)
    /\ IF serving /\ page[s] # None THEN Fault ELSE UNCHANGED faults
    /\ UNCHANGED <<active, manager, manifest, state, changed, frontend, interrupted, writes>>

Gone == DOMAIN state \ DOMAIN manifest

\* An override that is no longer in the manifest gives way to the link; a page of the
\* cluster would be removed.
Revert(s) ==
    /\ at = "revert" /\ s \in Gone
    /\ local' = [local EXCEPT ![s] = IF s = Cluster THEN None ELSE Link]
    /\ state' = [t \in DOMAIN state \ {s} |-> state[t]]
    /\ changed' = TRUE
    /\ UNCHANGED <<active, manager, at, manifest, todo, state_file, haproxy, interrupted, writes, faults>>

SaveState ==
    /\ at = "revert" /\ Gone = {}
    /\ state_file' = state
    /\ at' = IF changed THEN "reload" ELSE "sleep"
    /\ UNCHANGED <<active, manager, manifest, todo, state, changed, local, haproxy, interrupted, writes, faults>>

Loaded(s) == IF local[s] = Link THEN local[Cluster] ELSE local[s]

Reload ==
    /\ at = "reload" /\ at' = "sleep"
    /\ haproxy' = [s \in Slot |-> Loaded(s)]
    /\ changed' = FALSE
    /\ UNCHANGED <<active, manager, manifest, todo, state, state_file, local, interrupted, writes, faults>>

\* Killed, stopped by an exception, or while it writes the state, which is then unreadable
\* and taken for empty; a reload that fails is not noticed either.
UpdaterDies ==
    /\ Fault /\ at # "sleep" /\ at' = "sleep"
    /\ state_file' \in IF at = "revert" THEN {state_file, Nothing} ELSE {state_file}
    /\ interrupted' = (interrupted \/ changed \/ state_file' # state_file)
    /\ changed' = FALSE
    /\ UNCHANGED <<active, manager, manifest, todo, state, local, haproxy, writes>>

-----------------------------------------------------------------------------
ManagerStep == StartManager \/ Open \/ Store \/ PublishPage
UpdaterStep ==
    \/ Sync \/ SaveState \/ Reload
    \/ \E s \in Slot : Download(s) \/ DownloadFails(s) \/ Revert(s)

Next ==
    \/ ManagerStep \/ UpdaterStep
    \/ StoreFails \/ ManagerDies \/ ChangeActive \/ UpdaterDies
    \/ \E s \in active \cup {Cluster} : Receive(s)

Spec == Init /\ [][Next]_vars

\* The manager is restarted and its threads go on; the updater polls.
FairSpec == Spec /\ WF_vars(ManagerStep) /\ WF_vars(UpdaterStep)

-----------------------------------------------------------------------------
PagesAreServed ==
    \A s \in active \cup {Cluster} :
        haproxy[s] = IF page[s] = None THEN page[Cluster] ELSE page[s]

\* Once the pages are left alone every frontend serves the page that is published for each
\* shared instance, or that of the cluster, whatever requests and restarts crossed the polls;
\* unless an updater died between its first change and the reload of haproxy.
FrontendsConverge == <>[](interrupted \/ PagesAreServed)
=============================================================================

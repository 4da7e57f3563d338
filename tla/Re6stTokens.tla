----------------------------- MODULE Re6stTokens -----------------------------
(***************************************************************************)
(* slapos/recipe/re6stnet: each shared instance of a re6st registry gets a *)
(* token, with which its owner makes one certificate.  The recipe leaves   *)
(* request files (.add, .remove) in a directory; a manager, run by cron,   *)
(* takes them to the registry, keeps a .status file per instance and       *)
(* publishes it.  The registry (re6stnet, external) may refuse any call.   *)
(*                                                                         *)
(* The recipe and the manager share the files and run at any time; both    *)
(* may die anywhere.  A single manager runs at a time here (see README),   *)
(* and the certificate of the registry itself is left out.                 *)
(***************************************************************************)
EXTENDS Naturals, FiniteSets

CONSTANTS
    Slave,          \* references of the shared instances
    None,
    MaxTokens,      \* bound: tokens generated
    MaxChanges,     \* bound: instances that come and go
    MaxFaults       \* bound: calls that fail, deaths

VARIABLES
    listed,         \* shared instances SlapOS Master has
    token_dict,     \* token.json: per instance its token, or None; Blank everywhere if torn
    add, remove,    \* per instance the token in its .add or .remove file, Blank, or None
    status,         \* per instance its .status file: None, "added", "used"
    recipe,         \* the recipe: its step, and per instance what it still has to write
    manager,        \* the manager: its phase, its step on an instance, what it has read
    registry,       \* per instance, the tokens the registry accepts
    certificate,    \* per instance, how many certificates are in force
    spent,          \* per instance, tokens with which a certificate was made
    published,      \* per instance, the token and status its owner sees, or None
    spoiled,        \* instances with files or a token that a death has left behind
    crossed,        \* instances that came back before their removal was over
    tokens, changes, faults

files == <<token_dict, add, remove, status>>
accesses == <<registry, certificate, spent>>
vars == <<listed, files, recipe, manager, accesses, published, spoiled, crossed,
          tokens, changes, faults>>

Blank == 0
Token == 1..MaxTokens
Phase == {"idle", "add", "remove", "check"}
Step == {"next", "added", "noted", "deleted", "revoked", "unlinked", "tested"}

TypeOK ==
    /\ listed \subseteq Slave
    /\ token_dict \in [Slave -> Token \cup {Blank, None}]
    /\ add \in [Slave -> Token \cup {Blank, None}]
    /\ remove \in [Slave -> Token \cup {Blank, None}]
    /\ status \in [Slave -> {None, "added", "used"}]
    /\ recipe \in [at : {"idle", "write"}, token_dict : [Slave -> Token \cup {None}],
                   toAdd : SUBSET Slave, toRemove : SUBSET Slave, begun : SUBSET Slave]
    /\ manager \in [at : Phase, todo : SUBSET Slave, on : Slave \cup {None}, step : Step,
                    token : Token \cup {None}, dict : [Slave -> Token \cup {None}]]
    /\ registry \in [Slave -> SUBSET Token] /\ certificate \in [Slave -> Nat]
    /\ spent \in [Slave -> SUBSET Token]
    /\ published \in [Slave -> [token : Token, info : {"added", "used"}] \cup {None}]
    /\ spoiled \subseteq Slave /\ crossed \subseteq Slave
    /\ tokens \in 0..MaxTokens /\ changes \in 0..MaxChanges /\ faults \in 0..MaxFaults

Nothing == [s \in Slave |-> None]
NoTokens == [s \in Slave |-> {}]
IdleRecipe == [at |-> "idle", token_dict |-> Nothing, toAdd |-> {}, toRemove |-> {},
               begun |-> {}]
IdleManager == [at |-> "idle", todo |-> {}, on |-> None, step |-> "next", token |-> None,
                dict |-> Nothing]

Init ==
    /\ listed = {} /\ token_dict = Nothing /\ add = Nothing /\ remove = Nothing
    /\ status = Nothing /\ recipe = IdleRecipe /\ manager = IdleManager
    /\ registry = NoTokens /\ spent = NoTokens /\ certificate = [s \in Slave |-> 0]
    /\ published = Nothing /\ spoiled = {} /\ crossed = {}
    /\ tokens = 0 /\ changes = 0 /\ faults = 0

Fault == faults < MaxFaults /\ faults' = faults + 1

-----------------------------------------------------------------------------
(* Outside of the partition. *)

ChangeList ==
    /\ changes < MaxChanges /\ changes' = changes + 1
    /\ \E s \in Slave :
          \/ s \in listed /\ listed' = listed \ {s} /\ UNCHANGED crossed
          \/ /\ s \notin listed /\ listed' = listed \cup {s}
             /\ crossed' = IF token_dict[s] # None \/ remove[s] # None
                           THEN crossed \cup {s} ELSE crossed
    /\ UNCHANGED <<files, recipe, manager, accesses, published, spoiled, tokens, faults>>

\* A token makes one certificate.
UseToken(s) ==
    /\ \E t \in registry[s] :
          /\ registry' = [registry EXCEPT ![s] = @ \ {t}]
          /\ certificate' = [certificate EXCEPT ![s] = @ + 1]
          /\ spent' = [spent EXCEPT ![s] = @ \cup {t}]
    /\ UNCHANGED <<listed, files, recipe, manager, published, spoiled, crossed, tokens,
                   changes, faults>>

-----------------------------------------------------------------------------
(* The recipe, in a run of slapgrid. *)

Torn == \E s \in Slave : token_dict[s] = Blank

\* Tokens for the instances that have none; those of the others that are gone are dropped.
GenerateSlaveTokenList ==
    /\ recipe.at = "idle" /\ ~Torn
    /\ LET new == {s \in listed : token_dict[s] = None}
           old == {s \in Slave \ listed : token_dict[s] # None}
       IN  /\ Cardinality(new) <= MaxTokens - tokens
           /\ tokens' = tokens + Cardinality(new)
           /\ \E fresh \in {f \in [new -> tokens + 1 .. tokens'] :
                               \A s, r \in new : f[s] = f[r] => s = r} :
                 recipe' = [at |-> "write", toAdd |-> new, toRemove |-> old, begun |-> {},
                            token_dict |-> [s \in Slave |->
                               IF s \in new THEN fresh[s]
                               ELSE IF s \in listed THEN token_dict[s] ELSE None]]
    /\ UNCHANGED <<listed, files, manager, accesses, published, spoiled, crossed, changes,
                   faults>>

\* A request that is there is left as it is.
WriteAdd(s) ==
    /\ s \in recipe.toAdd
    /\ add' = [add EXCEPT ![s] = IF @ = None THEN recipe.token_dict[s] ELSE @]
    /\ recipe' = [recipe EXCEPT !.toAdd = @ \ {s}, !.begun = @ \cup {s}]
    /\ UNCHANGED <<listed, token_dict, remove, status, manager, accesses, published, spoiled,
                   crossed, tokens, changes, faults>>

\* Only with a new .remove file is the .add file removed: right after it, a manager would have
\* to run once and begin again (it sleeps 3 seconds first) in between.
WriteRemove(s) ==
    /\ recipe.toAdd = {} /\ s \in recipe.toRemove
    /\ IF remove[s] = None
       THEN remove' = [remove EXCEPT ![s] = token_dict[s]] /\ add' = [add EXCEPT ![s] = None]
       ELSE UNCHANGED <<remove, add>>
    /\ recipe' = [recipe EXCEPT !.toRemove = @ \ {s}]
    /\ UNCHANGED <<listed, token_dict, status, manager, accesses, published, spoiled, crossed,
                   tokens, changes, faults>>

Save ==
    /\ recipe.at = "write" /\ recipe.toAdd = {} /\ recipe.toRemove = {}
    /\ token_dict' = recipe.token_dict /\ recipe' = IdleRecipe
    /\ UNCHANGED <<listed, add, remove, status, manager, accesses, published, spoiled, crossed,
                   tokens, changes, faults>>

\* Tokens that were requested are not saved.  The file that is written may be left empty,
\* the .add file may be left beside its .remove file, and token.json may be left out or
\* empty, which is an error ever after.
RecipeDies ==
    /\ recipe.at = "write" /\ Fault
    /\ \/ /\ spoiled' = spoiled \cup recipe.begun
          /\ UNCHANGED <<token_dict, add, remove>>
       \/ \E s \in recipe.toAdd :
             /\ add[s] = None /\ add' = [add EXCEPT ![s] = Blank]
             /\ spoiled' = spoiled \cup recipe.begun \cup {s}
             /\ UNCHANGED <<token_dict, remove>>
       \/ \E s \in recipe.toRemove :
             /\ recipe.toAdd = {} /\ remove[s] = None
             /\ \E r \in {Blank, token_dict[s]} : remove' = [remove EXCEPT ![s] = r]
             /\ spoiled' = spoiled \cup recipe.begun
                              \cup (IF remove'[s] = Blank \/ add[s] # None THEN {s} ELSE {})
             /\ UNCHANGED <<token_dict, add>>
       \/ /\ recipe.toAdd = {} /\ recipe.toRemove = {}
          /\ \E d \in {Blank, None} : token_dict' = [s \in Slave |-> d]
          /\ spoiled' = Slave
          /\ UNCHANGED <<add, remove>>
    /\ recipe' = IdleRecipe
    /\ UNCHANGED <<listed, status, manager, accesses, published, crossed, tokens, changes>>

-----------------------------------------------------------------------------
(* The manager. *)

Requested(dir) == {s \in Slave : dir[s] # None}

Manage ==
    /\ manager.at = "idle"
    /\ manager' = [IdleManager EXCEPT !.at = "add", !.todo = Requested(add)]
    /\ UNCHANGED <<listed, files, recipe, accesses, published, spoiled, crossed, tokens,
                   changes, faults>>

AtNext(phase) == manager.at = phase /\ manager.step = "next"
At(phase, step) == manager.at = phase /\ manager.step = step
Goes(step) == manager' = [manager EXCEPT !.step = step]
Done == manager' = [manager EXCEPT !.todo = @ \ {manager.on}, !.on = None, !.step = "next",
                                   !.token = None]
Keeps == UNCHANGED <<listed, recipe, crossed, tokens, changes>>

\* The phases follow each other; the last one loads token.json, and dies if it is torn.
NextPhase ==
    /\ manager.step = "next" /\ manager.on = None /\ manager.todo = {}
    /\ manager' =
          CASE manager.at = "add" -> [manager EXCEPT !.at = "remove", !.todo = Requested(remove)]
            [] manager.at = "remove" /\ ~Torn ->
                  [manager EXCEPT !.at = "check", !.todo = {s \in Slave : token_dict[s] # None},
                                  !.dict = token_dict]
            [] OTHER -> IdleManager
    /\ manager.at # "idle" /\ Keeps
    /\ UNCHANGED <<files, accesses, published, spoiled, faults>>

\* The request is read; one that is gone, or empty, is skipped.
Read(s, phase, dir) ==
    /\ AtNext(phase) /\ manager.on = None /\ s \in manager.todo
    /\ manager' = IF dir[s] \in {None, Blank} THEN [manager EXCEPT !.todo = @ \ {s}]
                  ELSE [manager EXCEPT !.on = s, !.token = dir[s]]
    /\ Keeps /\ UNCHANGED <<files, accesses, published, spoiled, faults>>

\* After a death the registry is given a token that it has, or that was used: whether it
\* accepts it again is its own choice.
AddToken(s) ==
    /\ AtNext("add") /\ manager.on = s
    /\ \/ /\ registry' = [registry EXCEPT ![s] = @ \cup {manager.token}]
          /\ spoiled' = IF manager.token \in spent[s] THEN spoiled \cup {s} ELSE spoiled
          /\ Goes("added")
       \/ /\ manager.token \in registry[s] \cup spent[s]
          /\ UNCHANGED <<registry, spoiled>> /\ Done
    /\ Keeps /\ UNCHANGED <<files, certificate, spent, published, faults>>

NoteAdded(s) ==
    /\ At("add", "added") /\ manager.on = s
    /\ status' = [status EXCEPT ![s] = "added"] /\ Goes("noted")
    /\ Keeps /\ UNCHANGED <<token_dict, add, remove, accesses, published, spoiled, faults>>

\* If the recipe has removed the request meanwhile, the manager ends with an exception.
UnlinkAdd(s) ==
    /\ At("add", "noted") /\ manager.on = s
    /\ IF add[s] = None THEN manager' = IdleManager ELSE Done
    /\ add' = [add EXCEPT ![s] = None]
    /\ Keeps /\ UNCHANGED <<token_dict, remove, status, accesses, published, spoiled, faults>>

DeleteToken(s) ==
    /\ AtNext("remove") /\ manager.on = s
    /\ registry' = [registry EXCEPT ![s] = @ \ {manager.token}] /\ Goes("deleted")
    /\ Keeps /\ UNCHANGED <<files, certificate, spent, published, spoiled, faults>>

\* Variant of Revokes: a token that is gone is taken for one that was never used.
RevokesNothing(s) == 0

\* The certificate of the address of the instance, if there is one.
Revokes(s) == IF certificate[s] > 0 THEN 1 ELSE 0

Revoke(s) ==
    /\ At("remove", "deleted") /\ manager.on = s
    /\ certificate' = [certificate EXCEPT ![s] = @ - Revokes(s)] /\ Goes("revoked")
    /\ Keeps /\ UNCHANGED <<files, registry, spent, published, spoiled, faults>>

UnlinkRemove(s) ==
    /\ At("remove", "revoked") /\ manager.on = s
    /\ remove' = [remove EXCEPT ![s] = None] /\ Goes("unlinked")
    /\ Keeps /\ UNCHANGED <<token_dict, add, status, accesses, published, spoiled, faults>>

UnlinkStatus(s) ==
    /\ At("remove", "unlinked") /\ manager.on = s
    /\ status' = [status EXCEPT ![s] = None] /\ Done
    /\ Keeps /\ UNCHANGED <<token_dict, add, remove, accesses, published, spoiled, faults>>

\* A token that is not added yet is skipped; one that the registry has no more was used.
CheckToken(s) ==
    /\ AtNext("check") /\ s \in manager.todo
    /\ IF status[s] = None
       THEN manager' = [manager EXCEPT !.todo = @ \ {s}] /\ UNCHANGED status
       ELSE /\ manager' = [manager EXCEPT !.on = s, !.step = "tested", !.token = manager.dict[s]]
            /\ status' = [status EXCEPT ![s] = IF manager.dict[s] \in registry[s] THEN @ ELSE "used"]
    /\ Keeps /\ UNCHANGED <<token_dict, add, remove, accesses, published, spoiled, faults>>

SetConnectionDict(s) ==
    /\ At("check", "tested") /\ manager.on = s
    /\ published' = [published EXCEPT ![s] = [token |-> manager.token, info |-> status[s]]]
    /\ Done /\ Keeps /\ UNCHANGED <<files, accesses, spoiled, faults>>

\* A call fails: the instance is left for the next time.
CallFails(s) ==
    /\ manager.on = s /\ Fault
    /\ manager.step \in {"next", "deleted", "tested"}
    /\ Done /\ Keeps /\ UNCHANGED <<files, accesses, published, spoiled>>

\* The manager ends: it is killed, or isToken or the connection to SlapOS Master fails.
ManagerDies ==
    /\ manager.at # "idle" /\ Fault
    /\ manager' = IdleManager
    /\ spoiled' = IF manager.step = "unlinked" THEN spoiled \cup {manager.on} ELSE spoiled
    /\ Keeps /\ UNCHANGED <<files, accesses, published>>

Manager(s) ==
    \/ Read(s, "add", add) \/ AddToken(s) \/ NoteAdded(s) \/ UnlinkAdd(s)
    \/ Read(s, "remove", remove) \/ DeleteToken(s) \/ Revoke(s) \/ UnlinkRemove(s)
    \/ UnlinkStatus(s) \/ CheckToken(s) \/ SetConnectionDict(s)

Next ==
    \/ ChangeList \/ GenerateSlaveTokenList \/ Save \/ RecipeDies
    \/ Manage \/ NextPhase \/ ManagerDies
    \/ \E s \in Slave :
          UseToken(s) \/ WriteAdd(s) \/ WriteRemove(s) \/ Manager(s) \/ CallFails(s)

Spec == Init /\ [][Next]_vars

-----------------------------------------------------------------------------
\* Removed, and no request is left to handle.
Removed(s) ==
    token_dict[s] = None /\ recipe.at = "idle" /\ remove[s] = None /\ manager.on # s

Unsure == spoiled \cup crossed

\* An instance that was removed keeps no access, neither a token nor a certificate, through
\* refusals of the registry, deaths and a token used at the last moment; and the owner of
\* one that was not is told that the token was used only if it was.  Except for instances
\* that came back before their removal was over, or whose files or token a death has left behind.
AccessFollowsTheList ==
    \A s \in Slave \ Unsure :
       /\ Removed(s) => registry[s] = {} /\ certificate[s] = 0
       /\ s \in listed /\ published[s] = [token |-> token_dict[s], info |-> "used"] =>
             token_dict[s] \in spent[s]
=============================================================================

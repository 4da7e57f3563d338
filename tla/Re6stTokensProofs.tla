-------------------------- MODULE Re6stTokensProofs --------------------------
(***************************************************************************)
(* AccessFollowsTheList is an invariant of the programs, for every value   *)
(* of the constants of Re6stTokens.                                        *)
(*                                                                         *)
(* The inductive invariant has two parts.  Shape says of the recipe and of *)
(* the manager what their steps mean: what each has read is still so when  *)
(* it acts on it.  CleanAt(s) says of an instance s, unless it is unsure,  *)
(* that every file, the registry and the memory of the manager agree on    *)
(* its only token.  An instance is clean after a step only if it was clean *)
(* before, since none ceases to be unsure; a step on another one leaves it *)
(* clean (Untouched); and the step of each actor on it has a lemma.        *)
(***************************************************************************)
EXTENDS Programs, FiniteSetTheorems, TLAPS

\* The cardinality that the instance has is that of FiniteSets.
LEMMA SameCardinality == ASSUME NEW S PROVE R!Cardinality(S) = Cardinality(S)
BY DEF R!Cardinality, Cardinality

\* What the constants are: some shared instances, a value for what is not there, and bounds.
Re6stConstants ==
    /\ IsFiniteSet(Slave) /\ None \notin Slave /\ None \notin Nat /\ None \notin {"added", "used"}
    /\ None \notin [token : R!Token \cup {R!Blank, None}, info : {"added", "used"}]
    /\ MaxTokens \in Nat /\ MaxChanges \in Nat /\ MaxFailures \in Nat

\* The tokens that were generated.
Given == 1..tokens

\* What a manager is.
ManagerKind ==
    [at : R!Phase, todo : SUBSET Slave, on : Slave \cup {None}, step : R!Step,
     token : Given \cup {None}, dict : [Slave -> Given \cup {None}]]

\* What the manager and the registry work on.
WorkTypes ==
    /\ add \in [Slave -> Given \cup {R!Blank, None}]
    /\ remove \in [Slave -> Given \cup {R!Blank, None}]
    /\ status \in [Slave -> {None, "added", "used"}]
    /\ registry \in [Slave -> SUBSET Given] /\ certificate \in [Slave -> Nat]
    /\ published \in [Slave -> [token : Given, info : {"added", "used"}] \cup {None}]

\* The types, with the tokens that were generated so far.
Types ==
    /\ listed \subseteq Slave /\ spoiled \subseteq Slave /\ crossed \subseteq Slave
    /\ tokens \in 0..MaxTokens /\ changes \in 0..MaxChanges /\ failures \in 0..MaxFailures
    /\ token_dict \in [Slave -> Given \cup {R!Blank, None}]
    /\ WorkTypes /\ spent \in [Slave -> SUBSET Given]
    /\ recipe \in [at : {"idle", "write"}, token_dict : [Slave -> Given \cup {None}],
                   toAdd : SUBSET Slave, toRemove : SUBSET Slave, begun : SUBSET Slave]
    /\ manager \in ManagerKind

\* What the recipe still has to write follows from token.json as it was when it began.
RecipeMeans ==
    /\ recipe.at = "idle" => recipe = R!IdleRecipe
    /\ recipe.toAdd \cap recipe.begun = {}
    /\ \A s \in recipe.toAdd \cup recipe.begun : token_dict[s] = None /\ recipe.token_dict[s] \in Given
    /\ \A s \in recipe.toRemove : token_dict[s] # None /\ recipe.token_dict[s] = None
    /\ recipe.at = "write" =>
          /\ \A s \in Slave \ (recipe.toAdd \cup recipe.begun) : recipe.token_dict[s] \in {None, token_dict[s]}
          /\ \A s \in Slave : token_dict[s] # R!Blank

\* The step of the manager tells whether it is on an instance, and with which token.
ManagerMeans ==
    /\ manager.on = None => manager.step = "next"
    /\ manager.at = "idle" => manager.on = None
    /\ manager.at = "add" => manager.step \in {"next", "added", "noted"}
    /\ manager.at = "remove" => manager.step \in {"next", "deleted", "revoked", "unlinked"}
    /\ manager.at = "check" =>
          /\ manager.step \in {"next", "tested"}
          /\ manager.on # None => /\ manager.step = "tested" /\ manager.token = manager.dict[manager.on]
                                  /\ status[manager.on] # None
          /\ \A s \in manager.todo : manager.dict[s] \in Given
    /\ manager.on # None => manager.token \in Given
    /\ manager.at # "check" => manager.dict = R!Nothing

\* What holds of every instance, the unsure ones included.
Shape == Types /\ RecipeMeans /\ ManagerMeans

\* The types of the fields that the steps read, of the recipe ...
LEMMA RecipeFields ==
    ASSUME Types
    PROVE  /\ recipe.at \in {"idle", "write"} /\ recipe.token_dict \in [Slave -> Given \cup {None}]
           /\ recipe.toAdd \subseteq Slave /\ recipe.toRemove \subseteq Slave /\ recipe.begun \subseteq Slave
BY DEF Types

\* ... and of the manager.
LEMMA ManagerFields ==
    ASSUME Types
    PROVE  /\ manager.at \in R!Phase /\ manager.todo \subseteq Slave /\ manager.on \in Slave \cup {None}
           /\ manager.step \in R!Step /\ manager.token \in Given \cup {None}
           /\ manager.dict \in [Slave -> Given \cup {None}]
BY DEF Types, ManagerKind

\* Each action of the manager keeps the types: of the manager itself ...
LEMMA ManagerShape ==
    ASSUME Re6stConstants, Shape, tokens' = tokens, 
           \/ R!Manage \/ R!NextPhase \/ R!ManagerDies
           \/ \E s \in Slave : R!Manager(s) \/ R!CallFails(s)
    PROVE  manager' \in ManagerKind
<1> USE ManagerFields DEF Shape, ManagerKind
<1>0. manager \in ManagerKind
  BY DEF Types
<1>1. R!IdleManager \in ManagerKind
  BY DEF Re6stConstants, R!IdleManager, R!Nothing, R!Phase, R!Step
<1>2. CASE R!Manage
  BY <1>1, <1>2 DEF R!Manage, R!Requested, R!Phase
<1>3. CASE R!NextPhase
  <2>1. \A s \in Slave : ~R!Torn => token_dict[s] \in Given \cup {None}
    BY DEF R!Torn, Types
  <2>2. ~R!Torn => token_dict \in [Slave -> Given \cup {None}]
    BY <2>1 DEF Types
  <2>3. CASE manager.at = "add"
    BY <1>0, <1>3, <2>3 DEF R!NextPhase, R!Requested, R!Phase
  <2>4. CASE manager.at = "remove" /\ ~R!Torn
    BY <1>0, <1>3, <2>2, <2>4 DEF R!NextPhase, R!Phase
  <2>5. CASE manager.at # "add" /\ ~(manager.at = "remove" /\ ~R!Torn)
    <3>1. manager' = R!IdleManager
      BY <1>3, <2>5 DEF R!NextPhase
    <3> QED
      BY <1>1, <3>1
  <2> QED
    BY <2>3, <2>4, <2>5
<1>4. CASE R!ManagerDies
  BY <1>1, <1>4 DEF R!ManagerDies
<1>5. ASSUME NEW s \in Slave, R!Done PROVE manager' \in ManagerKind
  BY <1>0, <1>5 DEF R!Done, R!Step
<1>6. ASSUME NEW s \in Slave, NEW later \in R!Step, R!Goes(later) PROVE manager' \in ManagerKind
  BY <1>0, <1>6 DEF R!Goes
<1>7. ASSUME NEW s \in Slave, NEW phase, NEW dir \in [Slave -> Given \cup {R!Blank, None}],
             R!Read(s, phase, dir)
      PROVE  manager' \in ManagerKind
  BY <1>0, <1>7 DEF R!Read
<1>8. ASSUME NEW s \in Slave, R!CheckToken(s) PROVE manager' \in ManagerKind
  BY <1>0, <1>8 DEF R!CheckToken, R!Step
<1>9. ASSUME NEW s \in Slave, R!Manager(s) \/ R!CallFails(s) PROVE manager' \in ManagerKind
  <2>1. add \in [Slave -> Given \cup {R!Blank, None}] /\ remove \in [Slave -> Given \cup {R!Blank, None}]
    BY DEF Types, WorkTypes
  <2>2. {"added", "noted", "deleted", "revoked", "unlinked"} \subseteq R!Step
    BY DEF R!Step
  <2> QED
    BY <1>1, <1>5, <1>6, <1>7, <1>8, <1>9, <2>1, <2>2 DEF R!Manager, R!AddToken, R!NoteAdded, R!UnlinkAdd,
       R!DeleteToken, R!Revoke, R!UnlinkRemove, R!UnlinkStatus, R!SetConnectionDict, R!CallFails
<1> HIDE DEF ManagerKind
<1> QED
  BY <1>2, <1>3, <1>4, <1>9
\* ... and of what it works on.
LEMMA ManagerTypes ==
    ASSUME Re6stConstants, Shape, R!Manage \/ R!NextPhase \/ R!ManagerDies
                                  \/ \E s \in Slave : R!Manager(s) \/ R!CallFails(s)
    PROVE  Types'
<1> USE DEF Shape
<1>1. /\ UNCHANGED <<listed, recipe, crossed, tokens, changes, token_dict, spent>>
      /\ failures' \in 0..MaxFailures /\ spoiled' \subseteq Slave
  <2>1. manager.step = "unlinked" => manager.on \in Slave
    BY ManagerFields DEF ManagerMeans
  <2>2. failures \in 0..MaxFailures /\ spoiled \subseteq Slave
    BY DEF Types
  <2>3. CASE R!Manage
    BY <2>2, <2>3 DEF R!Manage, R!files, R!accesses
  <2>4. CASE R!NextPhase
    BY <2>2, <2>4 DEF R!NextPhase, R!files, R!accesses, R!Keeps
  <2>5. CASE R!ManagerDies
    BY <2>1, <2>2, <2>5 DEF R!ManagerDies, R!Fault, R!files, R!accesses, R!Keeps, Re6stConstants
  <2>6. ASSUME NEW s \in Slave, R!CallFails(s)
        PROVE  /\ UNCHANGED <<listed, recipe, crossed, tokens, changes, token_dict, spent>>
               /\ failures' \in 0..MaxFailures /\ spoiled' \subseteq Slave
    BY <2>2, <2>6 DEF R!CallFails, R!Fault, R!files, R!accesses, R!Keeps, Re6stConstants
  <2>7. ASSUME NEW s \in Slave, R!Manager(s)
        PROVE  /\ UNCHANGED <<listed, recipe, crossed, tokens, changes, token_dict, spent>>
               /\ failures' \in 0..MaxFailures /\ spoiled' \subseteq Slave
    BY <2>2, <2>7 DEF R!Manager, R!Read, R!AddToken, R!NoteAdded, R!UnlinkAdd, R!DeleteToken, R!Revoke,
       R!UnlinkRemove, R!UnlinkStatus, R!CheckToken, R!SetConnectionDict, R!files, R!accesses, R!Keeps
  <2> QED
    BY <2>3, <2>4, <2>5, <2>6, <2>7
<1>2. Given' = Given
  BY <1>1 DEF Given
<1>3. manager' \in ManagerKind'
  BY <1>1, <1>2, ManagerShape DEF ManagerKind
<1>4. WorkTypes'
  <2>0. WorkTypes
    BY DEF Types
  <2>1. CASE R!Manage
    BY <2>0, <2>1 DEF R!Manage, R!files, R!accesses, WorkTypes, Given
  <2>2. CASE R!NextPhase
    BY <1>1, <2>0, <2>2 DEF R!NextPhase, R!files, R!accesses, WorkTypes, Given
  <2>3. CASE R!ManagerDies
    BY <1>1, <2>0, <2>3 DEF R!ManagerDies, R!files, R!accesses, WorkTypes, Given
  <2>4. ASSUME NEW s \in Slave, R!CallFails(s) PROVE WorkTypes'
    BY <1>1, <2>0, <2>4 DEF R!CallFails, R!files, R!accesses, WorkTypes, Given
  <2>5. ASSUME NEW s \in Slave, R!Read(s, "add", add) \/ R!Read(s, "remove", remove) PROVE WorkTypes'
    BY <1>1, <2>0, <2>5 DEF R!Read, R!files, R!accesses, WorkTypes, Given
  <2>6. ASSUME NEW s \in Slave, R!AddToken(s) PROVE WorkTypes'
    <3>1. manager.token \in Given
      BY <2>6, ManagerFields DEF R!AddToken, R!AtNext, ManagerMeans, Re6stConstants
    <3>2. registry' \in [Slave -> SUBSET Given]
      BY <2>0, <2>6, <3>1 DEF R!AddToken, WorkTypes
    <3> QED
      BY <1>2, <2>0, <2>6, <3>2 DEF R!AddToken, R!files, WorkTypes
  <2>7. ASSUME NEW s \in Slave, R!NoteAdded(s) \/ R!UnlinkStatus(s) \/ R!CheckToken(s) PROVE WorkTypes'
    <3>1. status' \in [Slave -> {None, "added", "used"}]
      BY <2>0, <2>7 DEF R!NoteAdded, R!UnlinkStatus, R!CheckToken, WorkTypes
    <3> QED
      BY <1>2, <2>0, <2>7, <3>1 DEF R!NoteAdded, R!UnlinkStatus, R!CheckToken, R!accesses, WorkTypes
  <2>8. ASSUME NEW s \in Slave, R!UnlinkAdd(s) \/ R!UnlinkRemove(s) PROVE WorkTypes'
    <3>1. add' \in [Slave -> Given \cup {R!Blank, None}] /\ remove' \in [Slave -> Given \cup {R!Blank, None}]
      BY <2>0, <2>8 DEF R!UnlinkAdd, R!UnlinkRemove, WorkTypes
    <3> QED
      BY <1>2, <2>0, <2>8, <3>1 DEF R!UnlinkAdd, R!UnlinkRemove, R!accesses, WorkTypes
  <2>9. ASSUME NEW s \in Slave, R!DeleteToken(s) PROVE WorkTypes'
    <3>1. registry' \in [Slave -> SUBSET Given]
      BY <2>0, <2>9 DEF R!DeleteToken, WorkTypes
    <3> QED
      BY <1>2, <2>0, <2>9, <3>1 DEF R!DeleteToken, R!files, WorkTypes
  <2>10. ASSUME NEW s \in Slave, R!Revoke(s) PROVE WorkTypes'
    <3>1. certificate' \in [Slave -> Nat]
      BY <2>0, <2>10 DEF R!Revoke, R!Revokes, WorkTypes
    <3> QED
      BY <1>2, <2>0, <2>10, <3>1 DEF R!Revoke, R!files, WorkTypes
  <2>11. ASSUME NEW s \in Slave, R!SetConnectionDict(s) PROVE WorkTypes'
    <3>1. manager.token \in Given /\ status[s] \in {"added", "used"}
      BY <2>0, <2>11 DEF R!SetConnectionDict, R!At, ManagerMeans, Re6stConstants, WorkTypes
    <3>2. published' \in [Slave -> [token : Given, info : {"added", "used"}] \cup {None}]
      BY <2>0, <2>11, <3>1 DEF R!SetConnectionDict, WorkTypes
    <3> QED
      BY <1>2, <2>0, <2>11, <3>2 DEF R!SetConnectionDict, R!files, R!accesses, WorkTypes
  <2> QED
    BY <2>1, <2>2, <2>3, <2>4, <2>5, <2>6, <2>7, <2>8, <2>9, <2>10, <2>11 DEF R!Manager
<1> QED
  BY <1>1, <1>2, <1>3, <1>4 DEF Types, WorkTypes

\* The steps of the manager keep its meaning, and that of the recipe.
LEMMA ManagerMeansStep ==
    ASSUME Re6stConstants, Shape, R!Manage \/ R!NextPhase \/ R!ManagerDies
                                  \/ \E s \in Slave : R!Manager(s) \/ R!CallFails(s)
    PROVE  ManagerMeans' /\ RecipeMeans'
<1> USE ManagerFields DEF Shape, R!Keeps
<1>1. UNCHANGED <<recipe, token_dict, tokens>>
  BY DEF R!Manage, R!NextPhase, R!ManagerDies, R!Manager, R!CallFails, R!Read, R!AddToken, R!NoteAdded,
     R!UnlinkAdd, R!DeleteToken, R!Revoke, R!UnlinkRemove, R!UnlinkStatus, R!CheckToken,
     R!SetConnectionDict, R!files
<1>2. Given' = Given
  BY <1>1 DEF Given
<1>3. RecipeMeans'
  BY <1>1, <1>2 DEF RecipeMeans
<1>4. ASSUME manager' = R!IdleManager PROVE ManagerMeans'
  <2>1. /\ manager'.at = "idle" /\ manager'.on = None /\ manager'.step = "next"
        /\ manager'.dict = R!Nothing
    BY <1>4 DEF R!IdleManager
  <2> QED
    BY <2>1 DEF ManagerMeans
<1>5. ASSUME R!Manage PROVE ManagerMeans'
  <2>1. /\ manager'.at = "add" /\ manager'.on = None /\ manager'.step = "next"
        /\ manager'.dict = R!Nothing
    BY <1>5 DEF R!Manage, R!IdleManager
  <2> QED
    BY <2>1 DEF ManagerMeans
<1>6. ASSUME R!NextPhase PROVE ManagerMeans'
  <2>1. CASE manager.at = "add"
    <3>1. /\ manager'.at = "remove" /\ manager'.on = None /\ manager'.step = "next"
          /\ manager'.dict = manager.dict
      BY <1>6, <2>1 DEF R!NextPhase, Types, ManagerKind
    <3>2. manager.dict = R!Nothing
      BY <2>1 DEF ManagerMeans
    <3> QED
      BY <3>1, <3>2 DEF ManagerMeans
  <2>2. CASE manager.at = "remove" /\ ~R!Torn
    <3>1. manager' = [manager EXCEPT !.at = "check", !.todo = {s \in Slave : token_dict[s] # None},
                                     !.dict = token_dict]
      BY <1>6, <2>2 DEF R!NextPhase
    <3>2. \A s \in Slave : token_dict[s] # None => token_dict[s] \in Given
      BY <2>2 DEF R!Torn, Types
    <3>3. /\ manager'.at = "check" /\ manager'.todo = {s \in Slave : token_dict[s] # None}
          /\ manager'.on = None /\ manager'.step = "next" /\ manager'.dict = token_dict
      BY <1>6, <3>1 DEF R!NextPhase, Types, ManagerKind
    <3>4. \A s \in manager'.todo : manager'.dict[s] \in Given'
      BY <1>2, <3>2, <3>3
    <3> QED
      BY <3>3, <3>4 DEF ManagerMeans
  <2>3. CASE manager.at # "add" /\ ~(manager.at = "remove" /\ ~R!Torn)
    <3>1. manager' = R!IdleManager
      BY <1>6, <2>3 DEF R!NextPhase
    <3> QED
      BY <1>4, <3>1
  <2> QED
    BY <2>1, <2>2, <2>3
<1>7. ASSUME R!ManagerDies PROVE ManagerMeans'
  BY <1>4, <1>7 DEF R!ManagerDies
<1>8. ASSUME R!Done, manager.on # None PROVE ManagerMeans'
  <2>1. /\ manager'.at = manager.at /\ manager'.todo = manager.todo \ {manager.on}
        /\ manager'.on = None /\ manager'.step = "next" /\ manager'.dict = manager.dict
    BY <1>8 DEF R!Done, Types, ManagerKind
  <2> QED
    BY <1>2, <2>1 DEF ManagerMeans
<1>9. ASSUME NEW s \in Slave, R!CallFails(s) PROVE ManagerMeans'
  BY <1>8, <1>9 DEF R!CallFails, Re6stConstants
<1>10. ASSUME NEW s \in Slave, R!Read(s, "add", add) \/ R!Read(s, "remove", remove) PROVE ManagerMeans'
  <2>1. add[s] \in Given \cup {R!Blank, None} /\ remove[s] \in Given \cup {R!Blank, None}
    BY DEF Types, WorkTypes
  <2>2. /\ manager'.at = manager.at /\ manager'.at \in {"add", "remove"} /\ manager'.step = "next"
        /\ manager'.dict = manager.dict /\ manager'.on \in {None, s}
        /\ manager'.on # None => manager'.token \in Given
    BY <1>10, <2>1 DEF R!Read, R!AtNext, Types, ManagerKind
  <2> QED
    BY <1>2, <2>2 DEF ManagerMeans
<1>11. ASSUME NEW later, R!Goes(later)
       PROVE  /\ manager'.at = manager.at /\ manager'.todo = manager.todo /\ manager'.on = manager.on
              /\ manager'.step = later /\ manager'.dict = manager.dict /\ manager'.token = manager.token
  BY <1>11 DEF R!Goes, Types, ManagerKind
<1>12. ASSUME NEW s \in Slave, R!AddToken(s) PROVE ManagerMeans'
  <2>1. CASE R!Done
    BY <1>8, <1>12, <2>1 DEF R!AddToken, Re6stConstants
  <2>2. CASE R!Goes("added")
    BY <1>2, <1>11, <1>12, <2>2 DEF R!AddToken, R!AtNext, ManagerMeans, Re6stConstants
  <2> QED
    BY <1>12, <2>1, <2>2 DEF R!AddToken
<1>13. ASSUME NEW s \in Slave, R!NoteAdded(s) PROVE ManagerMeans'
  BY <1>2, <1>11, <1>13 DEF R!NoteAdded, R!At, ManagerMeans, Re6stConstants
<1>14. ASSUME NEW s \in Slave, R!UnlinkAdd(s) PROVE ManagerMeans'
  BY <1>4, <1>8, <1>14 DEF R!UnlinkAdd, Re6stConstants
<1>15. ASSUME NEW s \in Slave, R!DeleteToken(s) PROVE ManagerMeans'
  BY <1>2, <1>11, <1>15 DEF R!DeleteToken, R!AtNext, ManagerMeans, Re6stConstants
<1>16. ASSUME NEW s \in Slave, R!Revoke(s) \/ R!UnlinkRemove(s) PROVE ManagerMeans'
  BY <1>2, <1>11, <1>16 DEF R!Revoke, R!UnlinkRemove, R!At, ManagerMeans, Re6stConstants
<1>17. ASSUME NEW s \in Slave, R!UnlinkStatus(s) \/ R!SetConnectionDict(s) PROVE ManagerMeans'
  BY <1>8, <1>17 DEF R!UnlinkStatus, R!SetConnectionDict, R!At, Re6stConstants
<1>18. ASSUME NEW s \in Slave, R!CheckToken(s) PROVE ManagerMeans'
  <2>1. manager.at = "check" /\ manager.step = "next" /\ s \in manager.todo
    BY <1>18 DEF R!CheckToken, R!AtNext
  <2>2. manager.on = None /\ manager.dict[s] \in Given
    BY <2>1 DEF ManagerMeans
  <2>3. CASE status[s] = None
    <3>1. /\ manager'.at = manager.at /\ manager'.todo = manager.todo \ {s} /\ manager'.on = manager.on
          /\ manager'.step = manager.step /\ manager'.dict = manager.dict /\ status' = status
      BY <1>18, <2>3 DEF R!CheckToken, Types, ManagerKind
    <3> QED
      BY <1>2, <2>1, <2>2, <3>1 DEF ManagerMeans
  <2>4. CASE status[s] # None
    <3>1. /\ manager'.at = "check" /\ manager'.todo = manager.todo /\ manager'.on = s
          /\ manager'.step = "tested" /\ manager'.dict = manager.dict
          /\ manager'.token = manager.dict[s]
      BY <1>18, <2>1, <2>4 DEF R!CheckToken, Types, ManagerKind
    <3>2. status'[s] # None
      BY <1>18, <2>4 DEF R!CheckToken, Types, WorkTypes, Re6stConstants
    <3> QED
      BY <1>2, <2>1, <2>2, <3>1, <3>2 DEF ManagerMeans, Re6stConstants
  <2> QED
    BY <2>3, <2>4
<1> QED
  BY <1>3, <1>5, <1>6, <1>7, <1>9, <1>10, <1>12, <1>13, <1>14, <1>15, <1>16, <1>17, <1>18 DEF R!Manager

\* The types allow for more tokens.
LEMMA TypesGrow ==
    ASSUME Types, tokens' \in Nat, tokens <= tokens',
           UNCHANGED <<token_dict, add, remove, status, registry, certificate, spent, published, manager>>
    PROVE  /\ WorkTypes' /\ spent' \in [Slave -> SUBSET Given'] /\ manager' \in ManagerKind'
           /\ token_dict' \in [Slave -> Given' \cup {R!Blank, None}]
<1>1. Given \subseteq Given'
  BY DEF Given, Types
<1>2. Given \cup {None} \subseteq Given' \cup {None} /\ SUBSET Given \subseteq SUBSET Given'
      /\ Given \cup {R!Blank, None} \subseteq Given' \cup {R!Blank, None}
  BY <1>1
<1>3. [token : Given, info : {"added", "used"}] \subseteq [token : Given', info : {"added", "used"}]
  BY <1>1
<1>4. WorkTypes'
  BY <1>2, <1>3 DEF Types, WorkTypes
<1>5. manager' \in ManagerKind'
  BY <1>2 DEF Types, ManagerKind
<1>6. spent' \in [Slave -> SUBSET Given'] /\ token_dict' \in [Slave -> Given' \cup {R!Blank, None}]
  BY <1>2 DEF Types
<1> QED
  BY <1>4, <1>5, <1>6

\* New tokens are those after the last one.
LEMMA GenerateShape ==
    ASSUME Re6stConstants, Shape, R!GenerateSlaveTokenList PROVE Shape'
<1> DEFINE new == {s \in listed : token_dict[s] = None}
           old == {s \in Slave \ listed : token_dict[s] # None}
<1>1. recipe.at = "idle" /\ ~R!Torn
      /\ UNCHANGED <<listed, token_dict, add, remove, status, manager, registry, certificate, spent,
                     published, spoiled, crossed, changes, failures>>
  BY DEF R!GenerateSlaveTokenList, R!files, R!accesses
<1>2. new \subseteq Slave /\ IsFiniteSet(new) /\ Cardinality(new) \in Nat
  <2>1. new \subseteq Slave
    BY DEF Shape, Types
  <2>2. IsFiniteSet(new)
    BY <2>1, FS_Subset DEF Re6stConstants
  <2> QED
    BY <2>1, <2>2, FS_CardinalityType
<1>3. tokens' = tokens + Cardinality(new) /\ Cardinality(new) <= MaxTokens - tokens
  BY SameCardinality DEF R!GenerateSlaveTokenList
<1>4. PICK fresh \in [new -> tokens + 1 .. tokens'] :
         recipe' = [at |-> "write", toAdd |-> new, toRemove |-> old, begun |-> {},
                    token_dict |-> [s \in Slave |-> IF s \in new THEN fresh[s]
                                                    ELSE IF s \in listed THEN token_dict[s] ELSE None]]
  BY DEF R!GenerateSlaveTokenList
<1>5. tokens' \in 0..MaxTokens /\ tokens <= tokens' /\ tokens \in Nat /\ tokens' \in Nat
  BY <1>2, <1>3 DEF Shape, Types, Re6stConstants
<1>6. Given \subseteq Given' /\ \A s \in new : fresh[s] \in Given'
  BY <1>4, <1>5 DEF Given
<1>7. \A s \in Slave : token_dict[s] \in Given \cup {None}
  BY <1>1 DEF R!Torn, Shape, Types
<1>8. /\ recipe'.at = "write" /\ recipe'.toAdd = new /\ recipe'.toRemove = old /\ recipe'.begun = {}
      /\ recipe'.token_dict \in [Slave -> Given' \cup {None}]
  BY <1>4, <1>6, <1>7
<1>9. \A s \in Slave : recipe'.token_dict[s] = IF s \in new THEN fresh[s]
                                               ELSE IF s \in listed THEN token_dict[s] ELSE None
  BY <1>4
<1>10. recipe' \in [at : {"idle", "write"}, token_dict : [Slave -> Given' \cup {None}],
                    toAdd : SUBSET Slave, toRemove : SUBSET Slave, begun : SUBSET Slave]
  BY <1>2, <1>4, <1>8
<1> HIDE DEF new, old
<1>11. Types'
  BY <1>1, <1>5, <1>10, TypesGrow DEF Shape, Types
<1>12. RecipeMeans'
  <2>1. \A s \in new : token_dict[s] = None /\ recipe'.token_dict[s] \in Given'
    BY <1>2, <1>6, <1>9 DEF new
  <2>2. \A s \in old : token_dict[s] # None /\ recipe'.token_dict[s] = None
    BY <1>9 DEF new, old
  <2>3. \A s \in Slave \ new : recipe'.token_dict[s] \in {None, token_dict[s]}
    BY <1>9
  <2>4. \A s \in Slave : token_dict[s] # R!Blank
    BY <1>1 DEF R!Torn
  <2> QED
    BY <1>1, <1>8, <2>1, <2>2, <2>3, <2>4 DEF RecipeMeans
<1>13. ManagerMeans'
  BY <1>1, <1>6 DEF Shape, ManagerMeans
<1> QED
  BY <1>11, <1>12, <1>13 DEF Shape

\* What the steps of the recipe that generate nothing leave as it is.
LEMMA SameTokens ==
    ASSUME Shape, UNCHANGED <<tokens, manager, status, registry, certificate, spent, published>>
    PROVE  /\ Given' = Given /\ ManagerMeans' /\ manager' \in ManagerKind'
           /\ status' \in [Slave -> {None, "added", "used"}]
           /\ registry' \in [Slave -> SUBSET Given'] /\ spent' \in [Slave -> SUBSET Given']
           /\ certificate' \in [Slave -> Nat]
           /\ published' \in [Slave -> [token : Given', info : {"added", "used"}] \cup {None}]
<1>1. Given' = Given
  BY DEF Given
<1> QED
  BY <1>1 DEF Shape, Types, WorkTypes, ManagerKind, ManagerMeans

\* So do the other steps of the recipe, and those of the list, ...
LEMMA RecipeShape ==
    ASSUME Re6stConstants, Shape,
           \/ R!ChangeList \/ R!Save \/ R!RecipeDies
           \/ \E s \in Slave : R!WriteAdd(s) \/ R!WriteRemove(s)
    PROVE  Shape'
<1> USE RecipeFields, SameTokens DEF R!files, R!accesses
<1>0. Types /\ RecipeMeans /\ WorkTypes
  BY DEF Shape, Types
<1>1. R!IdleRecipe \in [at : {"idle", "write"}, token_dict : [Slave -> Given \cup {None}],
                        toAdd : SUBSET Slave, toRemove : SUBSET Slave, begun : SUBSET Slave]
  BY DEF R!IdleRecipe, R!Nothing
<1>2. CASE R!ChangeList
  <2>1. UNCHANGED <<token_dict, add, remove, status, recipe, manager, registry, certificate, spent,
                    published, spoiled, tokens, failures>>
        /\ listed' \subseteq Slave /\ crossed' \subseteq Slave /\ changes' \in 0..MaxChanges
    BY <1>0, <1>2 DEF R!ChangeList, Types, Re6stConstants
  <2> QED
    BY <1>0, <2>1 DEF Shape, Types, WorkTypes, RecipeMeans
<1>3. ASSUME NEW s \in Slave, R!WriteAdd(s) PROVE Shape'
  <2>1. /\ s \in recipe.toAdd /\ add' = [add EXCEPT ![s] = IF @ = None THEN recipe.token_dict[s] ELSE @]
        /\ recipe' = [recipe EXCEPT !.toAdd = @ \ {s}, !.begun = @ \cup {s}]
        /\ UNCHANGED <<listed, token_dict, remove, status, manager, registry, certificate, spent,
                       published, spoiled, crossed, tokens, changes, failures>>
    BY <1>3 DEF R!WriteAdd
  <2>2. /\ recipe'.at = recipe.at /\ recipe'.token_dict = recipe.token_dict
        /\ recipe'.toAdd = recipe.toAdd \ {s} /\ recipe'.begun = recipe.begun \cup {s}
        /\ recipe'.toRemove = recipe.toRemove
    BY <1>0, <2>1 DEF Types
  <2>3. recipe' \in [at : {"idle", "write"}, token_dict : [Slave -> Given \cup {None}],
                     toAdd : SUBSET Slave, toRemove : SUBSET Slave, begun : SUBSET Slave]
    BY <1>0, <2>1 DEF Types
  <2>4. add' \in [Slave -> Given \cup {R!Blank, None}]
    BY <1>0, <2>1 DEF WorkTypes
  <2>5. recipe.at = "write"
    BY <1>0, <2>1 DEF RecipeMeans, R!IdleRecipe
  <2>6. RecipeMeans'
    BY <1>0, <2>1, <2>2, <2>5 DEF RecipeMeans
  <2> QED
    BY <1>0, <2>1, <2>3, <2>4, <2>6 DEF Shape, Types, WorkTypes
<1>4. ASSUME NEW s \in Slave, R!WriteRemove(s) PROVE Shape'
  <2>1. /\ s \in recipe.toRemove /\ recipe' = [recipe EXCEPT !.toRemove = @ \ {s}]
        /\ \/ remove' = [remove EXCEPT ![s] = token_dict[s]] /\ add' = [add EXCEPT ![s] = None]
           \/ UNCHANGED <<remove, add>>
        /\ UNCHANGED <<listed, token_dict, status, manager, registry, certificate, spent,
                       published, spoiled, crossed, tokens, changes, failures>>
    BY <1>4 DEF R!WriteRemove
  <2>2. /\ recipe'.at = recipe.at /\ recipe'.token_dict = recipe.token_dict
        /\ recipe'.toAdd = recipe.toAdd /\ recipe'.begun = recipe.begun
        /\ recipe'.toRemove = recipe.toRemove \ {s}
    BY <1>0, <2>1 DEF Types
  <2>3. recipe' \in [at : {"idle", "write"}, token_dict : [Slave -> Given \cup {None}],
                     toAdd : SUBSET Slave, toRemove : SUBSET Slave, begun : SUBSET Slave]
    BY <1>0, <2>1 DEF Types
  <2>4. add' \in [Slave -> Given \cup {R!Blank, None}] /\ remove' \in [Slave -> Given \cup {R!Blank, None}]
    BY <1>0, <2>1 DEF WorkTypes, Types
  <2>5. recipe.at = "write"
    BY <1>0, <2>1 DEF RecipeMeans, R!IdleRecipe
  <2>6. RecipeMeans'
    BY <1>0, <2>1, <2>2, <2>5 DEF RecipeMeans
  <2> QED
    BY <1>0, <2>1, <2>3, <2>4, <2>6 DEF Shape, Types, WorkTypes
<1>5. ASSUME recipe' = R!IdleRecipe,
             UNCHANGED <<listed, status, manager, registry, certificate, spent, published, crossed,
                         tokens, changes>>,
             spoiled' \subseteq Slave, failures' \in 0..MaxFailures,
             token_dict' \in [Slave -> Given \cup {R!Blank, None}],
             add' \in [Slave -> Given \cup {R!Blank, None}],
             remove' \in [Slave -> Given \cup {R!Blank, None}]
      PROVE  Shape'
  <2>1. /\ recipe'.at = "idle" /\ recipe'.toAdd = {} /\ recipe'.toRemove = {} /\ recipe'.begun = {}
    BY <1>5 DEF R!IdleRecipe
  <2>2. RecipeMeans'
    BY <1>5, <2>1 DEF RecipeMeans, R!IdleRecipe, R!Nothing
  <2> QED
    BY <1>0, <1>1, <1>5, <2>2 DEF Shape, Types, WorkTypes
<1>6. CASE R!Save
  <2>1. recipe.token_dict \in [Slave -> Given \cup {R!Blank, None}]
    BY <1>0
  <2> QED
    BY <1>0, <1>5, <1>6, <2>1 DEF R!Save, Types, WorkTypes
<1>7. CASE R!RecipeDies
  <2>1. /\ recipe' = R!IdleRecipe /\ failures' \in 0..MaxFailures
        /\ UNCHANGED <<listed, status, manager, registry, certificate, spent, published, crossed,
                       tokens, changes>>
    BY <1>0, <1>7 DEF R!RecipeDies, R!Fault, Types, Re6stConstants
  <2>2. CASE spoiled' = spoiled \cup recipe.begun /\ UNCHANGED <<token_dict, add, remove>>
    BY <1>0, <1>5, <2>1, <2>2 DEF Types, WorkTypes
  <2>3. CASE \E s \in recipe.toAdd :
                /\ add' = [add EXCEPT ![s] = R!Blank]
                /\ spoiled' = spoiled \cup recipe.begun \cup {s} /\ UNCHANGED <<token_dict, remove>>
    <3>1. PICK s \in Slave : /\ add' = [add EXCEPT ![s] = R!Blank]
                             /\ spoiled' = spoiled \cup recipe.begun \cup {s}
      BY <1>0, <2>3
    <3>2. add' \in [Slave -> Given \cup {R!Blank, None}] /\ spoiled' \subseteq Slave
      BY <1>0, <3>1 DEF Types, WorkTypes
    <3> QED
      BY <1>0, <1>5, <2>1, <2>3, <3>2 DEF Types, WorkTypes
  <2>4. CASE \E s \in recipe.toRemove :
                /\ \E r \in {R!Blank, token_dict[s]} : remove' = [remove EXCEPT ![s] = r]
                /\ spoiled' \in {spoiled \cup recipe.begun, spoiled \cup recipe.begun \cup {s}}
                /\ UNCHANGED <<token_dict, add>>
    <3>1. PICK s \in Slave : /\ \E r \in {R!Blank, token_dict[s]} : remove' = [remove EXCEPT ![s] = r]
                             /\ spoiled' \in {spoiled \cup recipe.begun, spoiled \cup recipe.begun \cup {s}}
      BY <1>0, <2>4
    <3>2. remove' \in [Slave -> Given \cup {R!Blank, None}] /\ spoiled' \subseteq Slave
      BY <1>0, <3>1 DEF Types, WorkTypes
    <3> QED
      BY <1>0, <1>5, <2>1, <2>4, <3>2 DEF Types, WorkTypes
  <2>5. CASE /\ \E d \in {R!Blank, None} : token_dict' = [s \in Slave |-> d]
             /\ spoiled' = Slave /\ UNCHANGED <<add, remove>>
    BY <1>0, <1>5, <2>1, <2>5 DEF Types, WorkTypes
  <2>6. \A s : (IF remove'[s] = R!Blank \/ add[s] # None THEN {s} ELSE {}) \in {{}, {s}}
    OBVIOUS
  <2> QED
    BY <1>7, <2>2, <2>3, <2>4, <2>5, <2>6 DEF R!RecipeDies
<1> QED
  BY <1>2, <1>3, <1>4, <1>6, <1>7

\* ... and the use of a token.
LEMMA UseTokenShape == ASSUME Re6stConstants, Shape, NEW s \in Slave, R!UseToken(s) PROVE Shape'
<1>1. PICK t \in registry[s] : /\ registry' = [registry EXCEPT ![s] = @ \ {t}]
                               /\ certificate' = [certificate EXCEPT ![s] = @ + 1]
                               /\ spent' = [spent EXCEPT ![s] = @ \cup {t}]
  BY DEF R!UseToken
<1>2. UNCHANGED <<listed, token_dict, add, remove, status, recipe, manager, published, spoiled, crossed,
                  tokens, changes, failures>>
  BY DEF R!UseToken, R!files
<1>3. /\ registry' \in [Slave -> SUBSET Given] /\ spent' \in [Slave -> SUBSET Given]
      /\ certificate' \in [Slave -> Nat]
  BY <1>1 DEF Shape, Types, WorkTypes
<1>4. Given' = Given
  BY <1>2 DEF Given
<1>5. Types'
  BY <1>2, <1>3, <1>4 DEF Shape, Types, WorkTypes, ManagerKind
<1> QED
  BY <1>2, <1>4, <1>5 DEF Shape, RecipeMeans, ManagerMeans

\* The recipe has done its part of the removal of s.
Gone(s) == recipe.at = "write" /\ recipe.token_dict[s] = None /\ s \notin recipe.toRemove

\* The token of s, in token.json or about to be.
InForce(s, t) ==
    \/ token_dict[s] = t /\ ~Gone(s)
    \/ s \in recipe.begun /\ recipe.token_dict[s] = t

\* The instance has a token.
HasToken(s) == \E t \in Given : InForce(s, t)

\* The manager is on the instance.
Holds(s, phase) == manager.on = s /\ manager.at = phase
\* Of a removal only the status file is left.
Unlinking(s) == Holds(s, "remove") /\ manager.step = "unlinked"

\* Wherever there is a token of s, it is t.
Only(s, t) ==
    /\ token_dict[s] \in {None, t} /\ (recipe.at = "write" => recipe.token_dict[s] \in {None, t})
    /\ add[s] \in {None, t} /\ remove[s] \in {None, t} /\ registry[s] \subseteq {t}
    /\ certificate[s] # 0 => t \in spent[s]
    /\ Holds(s, "add") \/ (Holds(s, "remove") /\ ~Unlinking(s)) => manager.token = t

\* An instance has one token at most and one certificate at most, and not both.
OneAccess(s) ==
    /\ \E t \in Nat : Only(s, t)
    /\ certificate[s] \in {0, 1} /\ (registry[s] # {} => certificate[s] = 0)

\* An access is that of a token, or is about to be removed.
AccessIsOwned(s) ==
    registry[s] # {} \/ certificate[s] # 0 \/ Holds(s, "add") => HasToken(s) \/ remove[s] # None

\* A request to add is that of a token that stays; one to remove is of an instance that is gone.
RequestsMean(s) ==
    /\ add[s] # None => remove[s] = None /\ HasToken(s)
    /\ s \in listed => remove[s] = None /\ s \notin recipe.toRemove /\ (token_dict[s] # None => ~Gone(s))
    /\ s \in recipe.toAdd \cup recipe.begun => remove[s] = None

\* How far a removal is.
RemovalMeans(s) ==
    Holds(s, "remove") =>
        /\ manager.step # "next" => registry[s] = {}
        /\ manager.step \in {"revoked", "unlinked"} => certificate[s] = 0
        /\ manager.step # "unlinked" => remove[s] # None

\* The status file is that of the token, and tells the truth of it.
StatusMeans(s) ==
    status[s] # None /\ remove[s] = None /\ ~Unlinking(s) =>
        \E t \in Given : /\ InForce(s, t) /\ t \in registry[s] \cup spent[s]
                         /\ status[s] = "used" => t \in spent[s]

\* What the manager adds has reached the registry; what it checks is the token of the instance.
ManagerKnows(s) ==
    /\ Holds(s, "add") /\ manager.step # "next" => manager.token \in registry[s] \cup spent[s]
    /\ manager.at = "check" /\ manager.dict[s] # None /\ remove[s] = None /\ status[s] # None
          => InForce(s, manager.dict[s])

\* A token that is requested was never published; one that is published as used was.
OwnerKnows(s) ==
    /\ s \in recipe.toAdd \cup recipe.begun =>
          /\ manager.dict[s] # recipe.token_dict[s]
          /\ published[s] # None => published[s].token # recipe.token_dict[s]
    /\ s \in listed /\ published[s] = [token |-> token_dict[s], info |-> "used"]
          => token_dict[s] \in spent[s]

\* What holds of an instance that no death has spoiled and that did not come back too early.
CleanAt(s) ==
    /\ OneAccess(s) /\ AccessIsOwned(s) /\ RequestsMean(s) /\ RemovalMeans(s)
    /\ StatusMeans(s) /\ ManagerKnows(s) /\ OwnerKnows(s)

\* What a step leaves of s: its files and accesses, ...
SameFiles(s) ==
    /\ token_dict'[s] = token_dict[s] /\ add'[s] = add[s] /\ remove'[s] = remove[s]
    /\ status'[s] = status[s] /\ registry'[s] = registry[s] /\ certificate'[s] = certificate[s]
    /\ spent'[s] = spent[s] /\ published'[s] = published[s] /\ (s \in listed') = (s \in listed)
    /\ tokens' \in Nat /\ tokens <= tokens'

\* ... what the recipe does with it, ...
SameRecipe(s) ==
    /\ recipe'.at = recipe.at /\ recipe'.token_dict[s] = recipe.token_dict[s]
    /\ (s \in recipe'.toAdd) = (s \in recipe.toAdd) /\ (s \in recipe'.begun) = (s \in recipe.begun)
    /\ (s \in recipe'.toRemove) = (s \in recipe.toRemove)

\* ... and the manager, which may also turn to others.
SameManager(s) ==
    /\ \/ /\ manager'.on = s /\ manager.on = s /\ manager'.at = manager.at
          /\ manager'.step = manager.step /\ manager'.token = manager.token
       \/ manager'.on # s /\ ~Unlinking(s)
    /\ manager'.at = "check" => manager.at = "check"
    /\ manager'.dict[s] \in {None, manager.dict[s]}

\* No token is forgotten.
LEMMA GivenGrows == ASSUME Types, tokens' \in Nat, tokens <= tokens' PROVE Given \subseteq Given'
BY DEF Types, Given

\* What the owner sees is something.
LEMMA SomethingPublished ==
    ASSUME Re6stConstants, Types, NEW t \in Given \cup {R!Blank, None}
    PROVE  None # [token |-> t, info |-> "used"]
<1>1. t \in R!Token \cup {R!Blank, None}
  BY DEF Types, Given, R!Token, Re6stConstants
<1>2. [token |-> t, info |-> "used"] \in [token : R!Token \cup {R!Blank, None}, info : {"added", "used"}]
  BY <1>1
<1> QED
  BY <1>2 DEF Re6stConstants

\* What a step leaves alone stays clean.
LEMMA Untouched ==
    ASSUME Re6stConstants, Shape, NEW s \in Slave, CleanAt(s), SameFiles(s), SameRecipe(s), SameManager(s)
    PROVE  CleanAt(s)'
<1>1. Given \subseteq Given'
  BY GivenGrows DEF Shape, SameFiles
<1>2. \A t : InForce(s, t) => InForce(s, t)'
  BY DEF SameFiles, SameRecipe, InForce, Gone
<1>3. HasToken(s) => HasToken(s)'
  BY <1>1, <1>2 DEF HasToken
<1>4. Gone(s)' = Gone(s)
  BY DEF SameRecipe, Gone
<1>5. /\ \A phase : Holds(s, phase)' => Holds(s, phase) /\ manager'.step = manager.step /\ manager'.token = manager.token
      /\ Unlinking(s)' = Unlinking(s)
  BY DEF SameManager, Holds, Unlinking
<1>6. OneAccess(s)'
  BY <1>5 DEF CleanAt, OneAccess, Only, SameFiles, SameRecipe
<1>7. AccessIsOwned(s)'
  BY <1>3, <1>5 DEF CleanAt, AccessIsOwned, SameFiles
<1>8. RequestsMean(s)'
  BY <1>3, <1>4 DEF CleanAt, RequestsMean, SameFiles, SameRecipe
<1>9. RemovalMeans(s)'
  BY <1>5 DEF CleanAt, RemovalMeans, SameFiles
<1>10. StatusMeans(s)'
  BY <1>1, <1>2, <1>5 DEF CleanAt, StatusMeans, SameFiles
<1>11. ManagerKnows(s)'
  BY <1>2, <1>5 DEF CleanAt, ManagerKnows, SameFiles, SameManager
<1>12. OwnerKnows(s)'
  <2>1. s \in recipe.toAdd \cup recipe.begun => recipe.token_dict[s] # None
    BY DEF Shape, RecipeMeans, Given, Re6stConstants
  <2> QED
    BY <2>1 DEF CleanAt, OwnerKnows, SameFiles, SameRecipe, SameManager
<1> QED
  BY <1>6, <1>7, <1>8, <1>9, <1>10, <1>11, <1>12 DEF CleanAt

\* An instance that is clean after a step was clean before it.
LEMMA StaysClean ==
    ASSUME Re6stConstants, Shape, R!Next
    PROVE  R!Unsure \subseteq R!Unsure'
<1>1. CASE R!ChangeList
  BY <1>1 DEF R!ChangeList, R!Unsure
<1>2. CASE R!GenerateSlaveTokenList \/ R!Save \/ R!Manage
  BY <1>2 DEF R!GenerateSlaveTokenList, R!Save, R!Manage, R!Unsure
<1>3. CASE R!RecipeDies
  <2>1. spoiled \subseteq Slave
    BY DEF Shape, Types
  <2>2. spoiled \subseteq spoiled' /\ crossed' = crossed
    BY <1>3, <2>1 DEF R!RecipeDies
  <2> QED
    BY <2>2 DEF R!Unsure
<1>4. CASE R!NextPhase \/ R!ManagerDies
  BY <1>4 DEF R!NextPhase, R!ManagerDies, R!Keeps, R!Unsure
<1>5. ASSUME NEW c \in Slave, R!UseToken(c) \/ R!WriteAdd(c) \/ R!WriteRemove(c) \/ R!CallFails(c)
      PROVE  R!Unsure \subseteq R!Unsure'
  BY <1>5 DEF R!UseToken, R!WriteAdd, R!WriteRemove, R!CallFails, R!Keeps, R!Unsure
<1>6. ASSUME NEW c \in Slave, R!Manager(c) PROVE R!Unsure \subseteq R!Unsure'
  <2>1. spoiled \subseteq spoiled' /\ crossed' = crossed
    BY <1>6 DEF R!Manager, R!Read, R!AddToken, R!NoteAdded, R!UnlinkAdd, R!DeleteToken, R!Revoke,
       R!UnlinkRemove, R!UnlinkStatus, R!CheckToken, R!SetConnectionDict, R!Keeps
  <2> QED
    BY <2>1 DEF R!Unsure
<1> QED
  BY <1>1, <1>2, <1>3, <1>4, <1>5, <1>6 DEF R!Next

\* The steps of others leave the manager alone.
LEMMA NoManager == ASSUME manager' = manager, NEW s PROVE SameManager(s)
BY DEF SameManager, Unlinking, Holds

\* The step of each actor keeps an instance clean: the list, ...
LEMMA ChangeListClean ==
    ASSUME Re6stConstants, Shape, NEW s \in Slave \ R!Unsure', CleanAt(s), R!ChangeList
    PROVE  CleanAt(s)'
<1>1. PICK c \in Slave :
         \/ c \in listed /\ listed' = listed \ {c}
         \/ /\ c \notin listed /\ listed' = listed \cup {c}
            /\ crossed' = IF token_dict[c] # None \/ remove[c] # None THEN crossed \cup {c} ELSE crossed
  BY DEF R!ChangeList
<1>2. UNCHANGED <<token_dict, add, remove, status, recipe, manager, registry, certificate, spent, published,
                  tokens>>
  BY DEF R!ChangeList, R!files, R!accesses
<1>3. tokens' \in Nat /\ tokens <= tokens'
  BY <1>2 DEF Shape, Types
<1>4. CASE c # s
  <2>1. SameFiles(s) /\ SameRecipe(s)
    BY <1>1, <1>2, <1>3, <1>4 DEF SameFiles, SameRecipe
  <2>2. SameManager(s)
    BY <1>2, NoManager
  <2> QED
    BY <2>1, <2>2, Untouched
<1>5. CASE c = s
  <2>1. s \in listed' => token_dict[s] = None /\ remove[s] = None
    BY <1>1, <1>5 DEF R!Unsure
  <2>2. Given' = Given
    BY <1>2 DEF Given
  <2>3. s \notin recipe.toRemove \/ token_dict[s] # None
    BY DEF Shape, RecipeMeans
  <2>4. RequestsMean(s)'
    BY <1>2, <2>1, <2>2, <2>3 DEF CleanAt, RequestsMean, HasToken, InForce, Gone
  <2>5. OwnerKnows(s)'
    <3>1. s \in listed' => published[s] # [token |-> token_dict[s], info |-> "used"]
      <4>1. published[s] \in [token : Given, info : {"added", "used"}] \/ published[s] = None
        BY DEF Shape, Types, WorkTypes
      <4>2. None \notin Given /\ None # [token |-> token_dict[s], info |-> "used"]
        <5>1. token_dict[s] \in Given \cup {R!Blank, None}
          BY DEF Shape, Types
        <5> QED
          BY <5>1, SomethingPublished DEF Re6stConstants, Given, Shape
      <4>3. s \in listed' => [token |-> token_dict[s], info |-> "used"].token = None
        BY <2>1
      <4> QED
        BY <4>1, <4>2, <4>3
    <3> QED
      BY <1>2, <3>1 DEF CleanAt, OwnerKnows
  <2>6. (OneAccess(s) /\ AccessIsOwned(s) /\ RemovalMeans(s) /\ StatusMeans(s) /\ ManagerKnows(s))'
    BY <1>2, <2>2 DEF CleanAt, OneAccess, Only, AccessIsOwned, RemovalMeans, StatusMeans, ManagerKnows,
       HasToken, InForce, Gone, Holds, Unlinking
  <2> QED
    BY <2>4, <2>5, <2>6 DEF CleanAt
<1> QED
  BY <1>4, <1>5

\* ... the owner, ...
LEMMA UseTokenClean ==
    ASSUME Re6stConstants, Shape, NEW s \in Slave, CleanAt(s), NEW c \in Slave, R!UseToken(c)
    PROVE  CleanAt(s)'
<1>1. PICK t \in registry[c] : /\ registry' = [registry EXCEPT ![c] = @ \ {t}]
                               /\ certificate' = [certificate EXCEPT ![c] = @ + 1]
                               /\ spent' = [spent EXCEPT ![c] = @ \cup {t}]
  BY DEF R!UseToken
<1>2. UNCHANGED <<listed, token_dict, add, remove, status, recipe, manager, published, tokens>>
  BY DEF R!UseToken, R!files
<1>3. tokens' \in Nat /\ tokens <= tokens'
  BY <1>2 DEF Shape, Types
<1>4. \A r \in Slave \ {c} : registry'[r] = registry[r] /\ certificate'[r] = certificate[r] /\ spent'[r] = spent[r]
  BY <1>1 DEF Shape, Types, WorkTypes
<1>5. CASE c # s
  <2>1. SameFiles(s) /\ SameRecipe(s)
    BY <1>2, <1>3, <1>4, <1>5 DEF SameFiles, SameRecipe
  <2>2. SameManager(s)
    BY <1>2, NoManager
  <2> QED
    BY <2>1, <2>2, Untouched
<1>6. CASE c = s
  <2>1. /\ registry'[s] = registry[s] \ {t} /\ certificate'[s] = certificate[s] + 1
        /\ spent'[s] = spent[s] \cup {t} /\ t \in registry[s]
    BY <1>1, <1>6 DEF Shape, Types, WorkTypes
  <2>2. Given' = Given
    BY <1>2 DEF Given
  <2>3. OneAccess(s)'
    <3>1. PICK u \in Nat : Only(s, u)
      BY DEF CleanAt, OneAccess
    <3>2. t = u /\ registry'[s] = {} /\ certificate'[s] = 1
      BY <2>1, <3>1 DEF CleanAt, OneAccess, Only
    <3>3. Only(s, u)'
      BY <1>2, <2>1, <3>1, <3>2 DEF Only, Holds, Unlinking
    <3> QED
      BY <3>2, <3>3 DEF OneAccess
  <2>4. AccessIsOwned(s)'
    BY <1>2, <2>1, <2>2 DEF CleanAt, AccessIsOwned, HasToken, InForce, Gone, Holds
  <2>5. RequestsMean(s)'
    BY <1>2, <2>2 DEF CleanAt, RequestsMean, HasToken, InForce, Gone
  <2>6. RemovalMeans(s)'
    <3>1. Holds(s, "remove") => manager.step = "next" /\ remove[s] # None
      BY <2>1 DEF CleanAt, RemovalMeans
    <3> QED
      BY <1>2, <3>1 DEF RemovalMeans, Holds
  <2>7. StatusMeans(s)'
    BY <1>2, <2>1, <2>2 DEF CleanAt, StatusMeans, InForce, Gone, Unlinking, Holds
  <2>8. ManagerKnows(s)' /\ OwnerKnows(s)'
    BY <1>2, <2>1 DEF CleanAt, ManagerKnows, OwnerKnows, InForce, Gone, Holds
  <2> QED
    BY <2>3, <2>4, <2>5, <2>6, <2>7, <2>8 DEF CleanAt
<1> QED
  BY <1>5, <1>6

\* Before a token is generated for it, a clean instance has none, nor any access.
LEMMA NoTokenYet ==
    ASSUME Re6stConstants, Shape, NEW s \in listed, CleanAt(s), recipe.at = "idle", token_dict[s] = None
    PROVE  /\ add[s] = None /\ remove[s] = None /\ registry[s] = {} /\ certificate[s] = 0
           /\ ~Holds(s, "add") /\ (Holds(s, "remove") => Unlinking(s))
           /\ status[s] = None \/ Unlinking(s)
<1>1. recipe.begun = {}
  BY DEF Shape, RecipeMeans, R!IdleRecipe
<1>2. \A t \in Given : ~InForce(s, t)
  BY <1>1 DEF InForce, Given, Re6stConstants
<1>3. remove[s] = None
  BY DEF CleanAt, RequestsMean
<1>4. add[s] = None /\ registry[s] = {} /\ certificate[s] = 0 /\ ~Holds(s, "add")
  BY <1>2, <1>3 DEF CleanAt, RequestsMean, AccessIsOwned, HasToken
<1>5. Holds(s, "remove") => Unlinking(s)
  BY <1>3 DEF CleanAt, RemovalMeans, Unlinking
<1>6. status[s] = None \/ Unlinking(s)
  BY <1>2, <1>3 DEF CleanAt, StatusMeans
<1> QED
  BY <1>3, <1>4, <1>5, <1>6

\* The recipe: the generation of tokens, ...
LEMMA GenerateClean ==
    ASSUME Re6stConstants, Shape, Shape', NEW s \in Slave, CleanAt(s), R!GenerateSlaveTokenList
    PROVE  CleanAt(s)'
<1>1. /\ recipe.at = "idle" /\ ~R!Torn
      /\ UNCHANGED <<listed, token_dict, add, remove, status, manager, registry, certificate, spent, published>>
  BY DEF R!GenerateSlaveTokenList, R!files, R!accesses
<1>2. recipe.toAdd = {} /\ recipe.toRemove = {} /\ recipe.begun = {}
  BY <1>1 DEF Shape, RecipeMeans, R!IdleRecipe
<1>3. recipe'.at = "write" /\ recipe'.begun = {}
  BY DEF R!GenerateSlaveTokenList
<1>4. /\ (s \in recipe'.toAdd) = (s \in listed /\ token_dict[s] = None)
      /\ (s \in recipe'.toRemove) = (s \notin listed /\ token_dict[s] # None)
      /\ s \notin recipe'.toAdd => recipe'.token_dict[s] = IF s \in listed THEN token_dict[s] ELSE None
      /\ s \in recipe'.toAdd => recipe'.token_dict[s] \in tokens + 1 .. tokens'
  BY DEF R!GenerateSlaveTokenList
<1>5. tokens \in Nat /\ tokens' \in Nat /\ Given \subseteq Given'
  <2>1. Cardinality({r \in listed : token_dict[r] = None}) \in Nat
    <3>1. {r \in listed : token_dict[r] = None} \in SUBSET Slave
      BY DEF Shape, Types
    <3>2. IsFiniteSet({r \in listed : token_dict[r] = None})
      BY <3>1, FS_Subset DEF Re6stConstants
    <3> QED
      BY <3>2, FS_CardinalityType
  <2>2. tokens' = tokens + Cardinality({r \in listed : token_dict[r] = None})
    BY SameCardinality DEF R!GenerateSlaveTokenList
  <2>3. tokens \in Nat
    BY DEF Shape, Types
  <2> QED
    BY <2>1, <2>2, <2>3 DEF Given
<1>6. ~Gone(s) /\ (token_dict[s] # None => ~Gone(s)')
  BY <1>1, <1>3, <1>4 DEF Gone
<1>7. \A t \in Given : InForce(s, t) => InForce(s, t)'
  BY <1>1, <1>2, <1>6 DEF InForce, Re6stConstants, Given
<1>8. HasToken(s) => HasToken(s)'
  BY <1>5, <1>7 DEF HasToken
<1>9. (\A phase : Holds(s, phase)' = Holds(s, phase)) /\ Unlinking(s)' = Unlinking(s)
  BY <1>1 DEF Holds, Unlinking
<1>10. OneAccess(s)'
  <2>1. certificate'[s] \in {0, 1} /\ (registry'[s] # {} => certificate'[s] = 0)
    BY <1>1 DEF CleanAt, OneAccess
  <2>2. CASE s \in recipe'.toAdd
    <3>1. PICK t \in Nat : recipe'.token_dict[s] = t
      BY <1>4, <1>5, <2>2
    <3>2. Only(s, t)'
      BY <1>1, <1>4, <1>9, <2>2, <3>1, NoTokenYet DEF Only
    <3> QED
      BY <2>1, <3>2 DEF OneAccess
  <2>3. CASE s \notin recipe'.toAdd
    <3>1. PICK t \in Nat : Only(s, t)
      BY DEF CleanAt, OneAccess
    <3>2. Only(s, t)'
      BY <1>1, <1>4, <1>9, <2>3, <3>1 DEF Only
    <3> QED
      BY <2>1, <3>2 DEF OneAccess
  <2> QED
    BY <2>2, <2>3
<1>11. AccessIsOwned(s)' /\ RemovalMeans(s)'
  BY <1>1, <1>8, <1>9 DEF CleanAt, AccessIsOwned, RemovalMeans
<1>12. RequestsMean(s)'
  BY <1>1, <1>3, <1>4, <1>6, <1>8 DEF CleanAt, RequestsMean
<1>13. StatusMeans(s)'
  BY <1>1, <1>5, <1>7, <1>9 DEF CleanAt, StatusMeans
<1>14. ManagerKnows(s)'
  <2>1. manager.dict[s] # None => manager.dict[s] \in Given
    BY ManagerFields DEF Shape
  <2> QED
    BY <1>1, <1>7, <1>9, <2>1 DEF CleanAt, ManagerKnows
<1>15. OwnerKnows(s)'
  <2>1. \A t \in Given \cup {None} : t \notin tokens + 1 .. tokens'
    BY <1>5 DEF Given, Re6stConstants
  <2>2. manager.dict[s] \in Given \cup {None}
    BY ManagerFields DEF Shape
  <2>3. published[s] # None => published[s].token \in Given
    BY DEF Shape, Types, WorkTypes
  <2> QED
    BY <1>1, <1>3, <1>4, <2>1, <2>2, <2>3 DEF CleanAt, OwnerKnows
<1> QED
  BY <1>10, <1>11, <1>12, <1>13, <1>14, <1>15 DEF CleanAt

\* ... the requests to add ...
LEMMA WriteAddClean ==
    ASSUME Re6stConstants, Shape, Shape', NEW s \in Slave, CleanAt(s), NEW c \in Slave, R!WriteAdd(c)
    PROVE  CleanAt(s)'
<1>1. /\ c \in recipe.toAdd /\ add' = [add EXCEPT ![c] = IF @ = None THEN recipe.token_dict[c] ELSE @]
      /\ UNCHANGED <<listed, token_dict, remove, status, manager, registry, certificate, spent, published,
                     tokens>>
  BY DEF R!WriteAdd, R!accesses
<1>2. /\ recipe'.at = recipe.at /\ recipe'.token_dict = recipe.token_dict
      /\ recipe'.toAdd = recipe.toAdd \ {c} /\ recipe'.begun = recipe.begun \cup {c}
      /\ recipe'.toRemove = recipe.toRemove
  BY DEF R!WriteAdd, Shape, Types
<1>3. tokens' \in Nat /\ tokens <= tokens' /\ Given' = Given
  BY <1>1 DEF Shape, Types, Given
<1>4. \A r \in Slave \ {c} : add'[r] = add[r]
  BY <1>1
<1>5. CASE c # s
  <2>1. SameFiles(s) /\ SameRecipe(s)
    BY <1>1, <1>2, <1>3, <1>4, <1>5 DEF SameFiles, SameRecipe
  <2> QED
    BY <1>1, <2>1, NoManager, Untouched
<1>6. CASE c = s
  <2>1. /\ token_dict[s] = None /\ recipe.token_dict[s] \in Given /\ s \notin recipe.begun
        /\ recipe.at = "write" /\ s \in recipe.toAdd
    BY <1>1, <1>6, RecipeFields DEF Shape, RecipeMeans, R!IdleRecipe
  <2>2. \A t \in Given : ~InForce(s, t)
    BY <2>1 DEF InForce, Given, Re6stConstants
  <2>3. add[s] = None /\ add'[s] = recipe.token_dict[s]
    BY <1>1, <1>6, <2>2 DEF CleanAt, RequestsMean, HasToken, Shape, Types, WorkTypes
  <2>4. HasToken(s)'
    BY <1>2, <1>3, <1>6, <2>1 DEF HasToken, InForce
  <2>5. remove[s] = None
    BY <2>1 DEF CleanAt, RequestsMean
  <2>6. Gone(s)' = Gone(s) /\ ~Gone(s)
    BY <1>2, <2>1 DEF Gone, Given, Re6stConstants
  <2>7. (\A phase : Holds(s, phase)' = Holds(s, phase)) /\ Unlinking(s)' = Unlinking(s)
    BY <1>1 DEF Holds, Unlinking
  <2>8. OneAccess(s)'
    <3>1. PICK t \in Nat : Only(s, t)
      BY DEF CleanAt, OneAccess
    <3>2. recipe.token_dict[s] = t
      BY <2>1, <3>1 DEF Only, Given, Re6stConstants
    <3>3. Only(s, t)'
      BY <1>1, <1>2, <2>3, <2>7, <3>1, <3>2 DEF Only
    <3> QED
      BY <1>1, <3>3 DEF CleanAt, OneAccess
  <2>9. AccessIsOwned(s)' /\ RemovalMeans(s)'
    BY <1>1, <2>4, <2>7 DEF CleanAt, AccessIsOwned, RemovalMeans
  <2>10. RequestsMean(s)'
    BY <1>1, <1>2, <2>1, <2>4, <2>5, <2>6 DEF CleanAt, RequestsMean
  <2>11. StatusMeans(s)'
    BY <1>1, <2>2, <2>7 DEF CleanAt, StatusMeans
  <2>12. ManagerKnows(s)'
    <3>1. manager.dict[s] # None => manager.dict[s] \in Given
      BY ManagerFields DEF Shape
    <3> QED
      BY <1>1, <2>2, <2>7, <3>1 DEF CleanAt, ManagerKnows
  <2>13. OwnerKnows(s)'
    BY <1>1, <1>2 DEF CleanAt, OwnerKnows
  <2> QED
    BY <2>8, <2>9, <2>10, <2>11, <2>12, <2>13 DEF CleanAt
<1> QED
  BY <1>5, <1>6

\* ... and to remove, ...
LEMMA WriteRemoveClean ==
    ASSUME Re6stConstants, Shape, NEW s \in Slave, CleanAt(s), NEW c \in Slave, R!WriteRemove(c)
    PROVE  CleanAt(s)'
<1>1. /\ c \in recipe.toRemove /\ recipe.toAdd = {}
      /\ IF remove[c] = None
         THEN remove' = [remove EXCEPT ![c] = token_dict[c]] /\ add' = [add EXCEPT ![c] = None]
         ELSE UNCHANGED <<remove, add>>
      /\ UNCHANGED <<listed, token_dict, status, manager, registry, certificate, spent, published, tokens>>
  BY DEF R!WriteRemove, R!accesses
<1>2. /\ recipe'.at = recipe.at /\ recipe'.token_dict = recipe.token_dict /\ recipe'.toAdd = recipe.toAdd
      /\ recipe'.begun = recipe.begun /\ recipe'.toRemove = recipe.toRemove \ {c}
  BY DEF R!WriteRemove, Shape, Types
<1>3. tokens' \in Nat /\ tokens <= tokens' /\ Given' = Given
  BY <1>1 DEF Shape, Types, Given
<1>4. \A r \in Slave \ {c} : add'[r] = add[r] /\ remove'[r] = remove[r]
  BY <1>1 DEF Shape, Types, WorkTypes
<1>5. CASE c # s
  <2>1. SameFiles(s) /\ SameRecipe(s)
    BY <1>1, <1>2, <1>3, <1>4, <1>5 DEF SameFiles, SameRecipe
  <2> QED
    BY <1>1, <2>1, NoManager, Untouched
<1>6. CASE c = s
  <2>1. /\ token_dict[s] # None /\ recipe.token_dict[s] = None /\ s \notin recipe.begun
        /\ s \notin listed
    BY <1>1, <1>6 DEF Shape, RecipeMeans, CleanAt, RequestsMean, Given, Re6stConstants
  <2>2. add'[s] = None /\ remove'[s] # None /\ remove'[s] \in {remove[s], token_dict[s]}
    <3>1. CASE remove[s] = None
      BY <1>1, <1>6, <2>1, <3>1 DEF Shape, Types, WorkTypes
    <3>2. CASE remove[s] # None
      BY <1>1, <1>6, <3>2 DEF CleanAt, RequestsMean
    <3> QED
      BY <3>1, <3>2
  <2>3. (\A phase : Holds(s, phase)' = Holds(s, phase)) /\ Unlinking(s)' = Unlinking(s)
    BY <1>1 DEF Holds, Unlinking
  <2>4. OneAccess(s)'
    <3>1. PICK t \in Nat : Only(s, t)
      BY DEF CleanAt, OneAccess
    <3>2. Only(s, t)'
      BY <1>1, <1>2, <2>1, <2>2, <2>3, <3>1 DEF Only
    <3> QED
      BY <1>1, <3>2 DEF CleanAt, OneAccess
  <2>5. AccessIsOwned(s)' /\ RemovalMeans(s)' /\ StatusMeans(s)' /\ ManagerKnows(s)'
    BY <1>1, <2>2, <2>3 DEF CleanAt, AccessIsOwned, RemovalMeans, StatusMeans, ManagerKnows
  <2>6. RequestsMean(s)' /\ OwnerKnows(s)'
    BY <1>1, <1>2, <2>1, <2>2 DEF RequestsMean, OwnerKnows
  <2> QED
    BY <2>4, <2>5, <2>6 DEF CleanAt
<1> QED
  BY <1>5, <1>6

\* ... token.json, ...
LEMMA SaveClean ==
    ASSUME Re6stConstants, Shape, NEW s \in Slave, CleanAt(s), R!Save
    PROVE  CleanAt(s)'
<1>1. /\ recipe.at = "write" /\ recipe.toAdd = {} /\ recipe.toRemove = {}
      /\ token_dict' = recipe.token_dict /\ recipe' = R!IdleRecipe
      /\ UNCHANGED <<listed, add, remove, status, manager, registry, certificate, spent, published, tokens>>
  BY DEF R!Save, R!accesses
<1>2. /\ recipe'.at = "idle" /\ recipe'.toAdd = {} /\ recipe'.begun = {} /\ recipe'.toRemove = {}
  BY <1>1 DEF R!IdleRecipe
<1>3. ~Gone(s)' /\ Given' = Given
  BY <1>1, <1>2 DEF Gone, Given
<1>4. ASSUME NEW t \in Given, InForce(s, t) PROVE InForce(s, t)'
  <2>1. t # None
    BY DEF Given, Re6stConstants
  <2>2. CASE token_dict[s] = t /\ ~Gone(s)
    <3>1. recipe.token_dict[s] = token_dict[s]
      BY <1>1, <2>1, <2>2 DEF Gone, Shape, RecipeMeans
    <3> QED
      BY <1>1, <1>3, <2>2, <3>1 DEF InForce
  <2>3. CASE s \in recipe.begun /\ recipe.token_dict[s] = t
    BY <1>1, <1>3, <2>3 DEF InForce
  <2> QED
    BY <1>4, <2>2, <2>3 DEF InForce
<1>5. HasToken(s) => HasToken(s)'
  BY <1>3, <1>4 DEF HasToken
<1>6. (\A phase : Holds(s, phase)' = Holds(s, phase)) /\ Unlinking(s)' = Unlinking(s)
  BY <1>1 DEF Holds, Unlinking
<1>7. OneAccess(s)'
  <2>1. PICK t \in Nat : Only(s, t)
    BY DEF CleanAt, OneAccess
  <2>2. Only(s, t)'
    BY <1>1, <1>2, <1>6, <2>1 DEF Only
  <2> QED
    BY <1>1, <2>2 DEF CleanAt, OneAccess
<1>8. AccessIsOwned(s)' /\ RemovalMeans(s)'
  BY <1>1, <1>5, <1>6 DEF CleanAt, AccessIsOwned, RemovalMeans
<1>9. RequestsMean(s)'
  BY <1>1, <1>2, <1>3, <1>5 DEF CleanAt, RequestsMean
<1>10. StatusMeans(s)'
  BY <1>1, <1>3, <1>4, <1>6 DEF CleanAt, StatusMeans
<1>11. ManagerKnows(s)'
  <2>1. manager.dict[s] # None => manager.dict[s] \in Given
    BY ManagerFields DEF Shape
  <2> QED
    BY <1>1, <1>4, <1>6, <2>1 DEF CleanAt, ManagerKnows
<1>12. OwnerKnows(s)'
  <2>1. SUFFICES ASSUME s \in listed,
                        published[s] = [token |-> recipe.token_dict[s], info |-> "used"]
                 PROVE  recipe.token_dict[s] \in spent[s]
    BY <1>1, <1>2 DEF OwnerKnows
  <2>2. published[s] # None /\ published[s].token = recipe.token_dict[s]
    <3>1. recipe.token_dict[s] \in Given \cup {None}
      BY RecipeFields DEF Shape
    <3> QED
      BY <2>1, <3>1, SomethingPublished DEF Shape
  <2>3. published[s].token # None
    BY <2>2 DEF Shape, Types, WorkTypes, Given, Re6stConstants
  <2>4. s \notin recipe.begun
    BY <2>2 DEF CleanAt, OwnerKnows
  <2>5. recipe.token_dict[s] = token_dict[s]
    BY <1>1, <2>2, <2>3, <2>4 DEF Shape, RecipeMeans
  <2> QED
    BY <2>1, <2>5 DEF CleanAt, OwnerKnows
<1> QED
  BY <1>7, <1>8, <1>9, <1>10, <1>11, <1>12 DEF CleanAt

\* ... and a death, which spoils the instances it leaves something of.
LEMMA RecipeDiesClean ==
    ASSUME Re6stConstants, Shape, NEW s \in Slave \ R!Unsure', CleanAt(s), R!RecipeDies
    PROVE  CleanAt(s)'
<1>1. /\ recipe.at = "write" /\ recipe' = R!IdleRecipe
      /\ UNCHANGED <<listed, status, manager, registry, certificate, spent, published, tokens>>
  BY DEF R!RecipeDies, R!accesses
<1>2. /\ recipe'.at = "idle" /\ recipe'.toAdd = {} /\ recipe'.begun = {} /\ recipe'.toRemove = {}
  BY <1>1 DEF R!IdleRecipe
<1>3. /\ s \notin recipe.begun /\ token_dict'[s] = token_dict[s] /\ add'[s] = add[s]
      /\ \/ remove'[s] = remove[s]
         \/ /\ s \in recipe.toRemove /\ remove'[s] = token_dict[s] /\ add[s] = None
  <2>0. s \notin spoiled' /\ add \in [Slave -> Given \cup {R!Blank, None}]
        /\ remove \in [Slave -> Given \cup {R!Blank, None}]
    BY DEF R!Unsure, Shape, Types, WorkTypes
  <2>1. CASE spoiled' = spoiled \cup recipe.begun /\ UNCHANGED <<token_dict, add, remove>>
    BY <2>0, <2>1
  <2>2. CASE \E c \in recipe.toAdd :
                /\ add' = [add EXCEPT ![c] = R!Blank]
                /\ spoiled' = spoiled \cup recipe.begun \cup {c} /\ UNCHANGED <<token_dict, remove>>
    BY <2>0, <2>2
  <2>3. CASE \E c \in recipe.toRemove :
                /\ \E r \in {R!Blank, token_dict[c]} : remove' = [remove EXCEPT ![c] = r]
                /\ spoiled' = spoiled \cup recipe.begun
                                \cup (IF remove'[c] = R!Blank \/ add[c] # None THEN {c} ELSE {})
                /\ UNCHANGED <<token_dict, add>>
    <3>1. PICK c \in recipe.toRemove :
                /\ \E r \in {R!Blank, token_dict[c]} : remove' = [remove EXCEPT ![c] = r]
                /\ spoiled' = spoiled \cup recipe.begun
                                \cup (IF remove'[c] = R!Blank \/ add[c] # None THEN {c} ELSE {})
      BY <2>3
    <3>2. s \notin recipe.begun
      BY <2>0, <3>1
    <3>3. CASE c = s
      <4>1. remove'[s] \in {R!Blank, token_dict[s]}
        BY <2>0, <3>1, <3>3
      <4> QED
        BY <2>0, <2>3, <3>1, <3>2, <3>3, <4>1
    <3>4. CASE c # s
      <4>1. remove'[s] = remove[s]
        BY <2>0, <3>1, <3>4
      <4> QED
        BY <2>3, <3>2, <4>1
    <3> QED
      BY <3>3, <3>4
  <2>4. CASE spoiled' = Slave
    BY <2>0, <2>4
  <2> QED
    BY <2>1, <2>2, <2>3, <2>4 DEF R!RecipeDies
<1>4. ~Gone(s)' /\ Given' = Given
  BY <1>1, <1>2 DEF Gone, Given
<1>5. \A t : InForce(s, t) => InForce(s, t)'
  BY <1>3, <1>4 DEF InForce
<1>6. HasToken(s) => HasToken(s)'
  BY <1>4, <1>5 DEF HasToken
<1>7. (\A phase : Holds(s, phase)' = Holds(s, phase)) /\ Unlinking(s)' = Unlinking(s)
  BY <1>1 DEF Holds, Unlinking
<1>8. remove[s] # None => remove'[s] # None
  BY <1>3 DEF Shape, RecipeMeans
<1>9. OneAccess(s)'
  <2>1. PICK t \in Nat : Only(s, t)
    BY DEF CleanAt, OneAccess
  <2>2. Only(s, t)'
    BY <1>1, <1>2, <1>3, <1>7, <2>1 DEF Only
  <2> QED
    BY <1>1, <2>2 DEF CleanAt, OneAccess
<1>10. AccessIsOwned(s)' /\ RemovalMeans(s)'
  BY <1>1, <1>6, <1>7, <1>8 DEF CleanAt, AccessIsOwned, RemovalMeans
<1>11. RequestsMean(s)'
  <2>1. s \in recipe.toRemove => s \notin listed
    BY DEF CleanAt, RequestsMean
  <2> QED
    BY <1>1, <1>2, <1>3, <1>4, <1>6, <2>1 DEF CleanAt, RequestsMean
<1>12. StatusMeans(s)'
  BY <1>1, <1>4, <1>5, <1>7, <1>8 DEF CleanAt, StatusMeans
<1>13. ManagerKnows(s)'
  BY <1>1, <1>5, <1>7, <1>8 DEF CleanAt, ManagerKnows
<1>14. OwnerKnows(s)'
  BY <1>1, <1>2, <1>3 DEF CleanAt, OwnerKnows
<1> QED
  BY <1>9, <1>10, <1>11, <1>12, <1>13, <1>14 DEF CleanAt

\* The manager changes neither the list nor what the recipe and the owners have.
LEMMA ManagerLeaves ==
    ASSUME R!Manage \/ R!NextPhase \/ R!ManagerDies \/ \E c \in Slave : R!Manager(c) \/ R!CallFails(c)
    PROVE  UNCHANGED <<listed, recipe, token_dict, tokens, spent>>
<1>1. CASE R!Manage \/ R!NextPhase \/ R!ManagerDies
  BY <1>1 DEF R!Manage, R!NextPhase, R!ManagerDies, R!Keeps, R!files, R!accesses
<1>2. ASSUME NEW c \in Slave, R!Manager(c) \/ R!CallFails(c)
      PROVE  UNCHANGED <<listed, recipe, token_dict, tokens, spent>>
  BY <1>2 DEF R!Manager, R!CallFails, R!Read, R!AddToken, R!NoteAdded, R!UnlinkAdd, R!DeleteToken, R!Revoke,
     R!UnlinkRemove, R!UnlinkStatus, R!CheckToken, R!SetConnectionDict, R!Keeps, R!files, R!accesses
<1> QED
  BY <1>1, <1>2

\* So the tokens that an instance has stay the same.
LEMMA SameOwner ==
    ASSUME Types, UNCHANGED <<listed, recipe, token_dict, tokens, spent>>, NEW s
    PROVE  /\ Given' = Given /\ Gone(s)' = Gone(s) /\ HasToken(s)' = HasToken(s)
           /\ \A t : InForce(s, t)' = InForce(s, t)
           /\ SameRecipe(s) /\ tokens' \in Nat /\ tokens <= tokens'
<1>1. Given' = Given
  BY DEF Given
<1>2. \A t : InForce(s, t)' = InForce(s, t)
  BY DEF InForce, Gone
<1>3. tokens' \in Nat /\ tokens <= tokens'
  BY DEF Types
<1> QED
  BY <1>1, <1>2, <1>3 DEF Gone, HasToken, SameRecipe

\* What the manager ends with: an instance is over, or the manager itself.
LEMMA ManagerEnds ==
    ASSUME Re6stConstants, Shape, NEW s \in Slave, ~Unlinking(s),
           R!Done \/ manager' = R!IdleManager
    PROVE  SameManager(s)
<1>1. CASE R!Done
  <2>1. manager'.at = manager.at /\ manager'.on = None /\ manager'.dict = manager.dict
    BY <1>1 DEF R!Done, Shape, Types, ManagerKind
  <2> QED
    BY <2>1 DEF SameManager, Re6stConstants
<1>2. CASE manager' = R!IdleManager
  <2>1. manager'.at = "idle" /\ manager'.on = None /\ manager'.dict[s] = None
    BY <1>2 DEF R!IdleManager, R!Nothing
  <2> QED
    BY <2>1 DEF SameManager, Re6stConstants
<1> QED
  BY <1>1, <1>2

\* The manager begins or dies.
LEMMA ManageClean ==
    ASSUME Re6stConstants, Shape, NEW s \in Slave \ R!Unsure', CleanAt(s), R!Manage \/ R!ManagerDies
    PROVE  CleanAt(s)'
<1>1. UNCHANGED <<listed, recipe, token_dict, tokens, spent>>
  BY ManagerLeaves
<1>2. UNCHANGED <<add, remove, status, registry, certificate, published>>
  BY DEF R!Manage, R!ManagerDies, R!files, R!accesses
<1>3. SameFiles(s) /\ SameRecipe(s)
  BY <1>1, <1>2, SameOwner DEF SameFiles, Shape
<1>4. SameManager(s)
  <2>1. CASE R!Manage
    <3>1. /\ manager.at = "idle" /\ manager.on = None /\ manager'.on = None /\ manager'.at = "add"
          /\ manager'.dict[s] = None
      BY <2>1 DEF R!Manage, R!IdleManager, R!Nothing, Shape, ManagerMeans
    <3> QED
      BY <3>1 DEF SameManager, Unlinking, Holds, Re6stConstants
  <2>2. CASE R!ManagerDies
    <3>1. s \notin spoiled'
      BY DEF R!Unsure
    <3>2. ~Unlinking(s)
      BY <2>2, <3>1 DEF R!ManagerDies, Unlinking, Holds
    <3> QED
      BY <2>2, <3>2, ManagerEnds DEF R!ManagerDies
  <2> QED
    BY <2>1, <2>2
<1> QED
  BY <1>3, <1>4, Untouched

\* It goes on to the next phase: the tokens it loads are those of the instances.
LEMMA NextPhaseClean ==
    ASSUME Re6stConstants, Shape, NEW s \in Slave, CleanAt(s), R!NextPhase
    PROVE  CleanAt(s)'
<1>1. UNCHANGED <<listed, recipe, token_dict, tokens, spent>>
  BY ManagerLeaves
<1>2. /\ manager.step = "next" /\ manager.on = None
      /\ UNCHANGED <<add, remove, status, registry, certificate, published>>
  BY DEF R!NextPhase, R!files, R!accesses
<1>3. SameFiles(s) /\ SameRecipe(s)
  BY <1>1, <1>2, SameOwner DEF SameFiles, Shape
<1>4. ~Unlinking(s) /\ \A phase : ~Holds(s, phase)
  BY <1>2 DEF Unlinking, Holds, Re6stConstants
<1>5. CASE manager.at = "add"
  <2>1. manager' = [manager EXCEPT !.at = "remove", !.todo = R!Requested(remove)]
    BY <1>5 DEF R!NextPhase
  <2>2. manager'.at = "remove" /\ manager'.on = None /\ manager'.dict = manager.dict
    BY <1>2, <2>1 DEF Shape, Types, ManagerKind
  <2>3. SameManager(s)
    BY <1>4, <2>2 DEF SameManager, Re6stConstants
  <2> QED
    BY <1>3, <2>3, Untouched
<1>6. CASE manager.at = "remove" /\ ~R!Torn
  <2>1. manager' = [manager EXCEPT !.at = "check", !.todo = {r \in Slave : token_dict[r] # None},
                                   !.dict = token_dict]
    BY <1>6 DEF R!NextPhase
  <2>2. manager'.at = "check" /\ manager'.on = None /\ manager'.dict = token_dict
    BY <1>2, <2>1 DEF Shape, Types, ManagerKind
  <2>3. ~Unlinking(s)' /\ \A phase : ~Holds(s, phase)'
    BY <2>2 DEF Unlinking, Holds, Re6stConstants
  <2>4. /\ Given' = Given /\ Gone(s)' = Gone(s) /\ HasToken(s)' = HasToken(s)
        /\ \A t : InForce(s, t)' = InForce(s, t)
    BY <1>1, SameOwner DEF Shape
  <2>5. OneAccess(s)'
    <3>1. PICK t \in Nat : Only(s, t)
      BY DEF CleanAt, OneAccess
    <3>2. Only(s, t)'
      BY <1>1, <1>2, <2>3, <3>1 DEF Only
    <3> QED
      BY <1>1, <1>2, <3>2 DEF CleanAt, OneAccess
  <2>6. AccessIsOwned(s)' /\ RequestsMean(s)' /\ RemovalMeans(s)'
    BY <1>1, <1>2, <2>3, <2>4 DEF CleanAt, AccessIsOwned, RequestsMean, RemovalMeans
  <2>7. StatusMeans(s)'
    BY <1>1, <1>2, <1>4, <2>4 DEF CleanAt, StatusMeans
  <2>8. ManagerKnows(s)'
    <3>1. ASSUME token_dict[s] # None, remove[s] = None, status[s] # None
          PROVE  InForce(s, token_dict[s])
      <4>1. PICK t \in Given : InForce(s, t)
        BY <1>4, <3>1 DEF CleanAt, StatusMeans
      <4> QED
        BY <3>1, <4>1 DEF InForce, Shape, RecipeMeans
    <3> QED
      BY <1>2, <2>2, <2>3, <2>4, <3>1, <1>1 DEF ManagerKnows
  <2>9. OwnerKnows(s)'
    <3>1. s \in recipe.toAdd \cup recipe.begun => token_dict[s] # recipe.token_dict[s]
      BY DEF Shape, RecipeMeans, Given, Re6stConstants
    <3> QED
      BY <1>1, <1>2, <2>2, <3>1 DEF CleanAt, OwnerKnows
  <2> QED
    BY <2>5, <2>6, <2>7, <2>8, <2>9 DEF CleanAt
<1>7. CASE manager.at # "add" /\ ~(manager.at = "remove" /\ ~R!Torn)
  <2>1. manager' = R!IdleManager
    BY <1>7 DEF R!NextPhase
  <2> QED
    BY <1>3, <1>4, <2>1, ManagerEnds, Untouched
<1> QED
  BY <1>5, <1>6, <1>7

\* What the manager does for one instance leaves the others alone.
LEMMA ManagerElsewhere ==
    ASSUME Re6stConstants, Shape, NEW s \in Slave, CleanAt(s), NEW c \in Slave, c # s,
           R!Manager(c) \/ R!CallFails(c)
    PROVE  CleanAt(s)'
<1>1. UNCHANGED <<listed, recipe, token_dict, tokens, spent>>
  BY ManagerLeaves
<1>2. manager.on \in {c, None}
  <2>1. CASE R!CheckToken(c)
    BY <2>1 DEF R!CheckToken, R!AtNext, Shape, ManagerMeans
  <2> QED
    BY <2>1 DEF R!Manager, R!CallFails, R!Read, R!AddToken, R!NoteAdded, R!UnlinkAdd, R!DeleteToken,
       R!Revoke, R!UnlinkRemove, R!UnlinkStatus, R!SetConnectionDict
<1>3. ~Unlinking(s)
  BY <1>2 DEF Unlinking, Holds, Re6stConstants
<1>4. SameFiles(s) /\ SameRecipe(s)
  <2>1. /\ add'[s] = add[s] /\ remove'[s] = remove[s] /\ status'[s] = status[s]
        /\ registry'[s] = registry[s] /\ certificate'[s] = certificate[s] /\ published'[s] = published[s]
    <3>1. WorkTypes
      BY DEF Shape, Types
    <3>2. CASE R!CallFails(c) \/ R!Read(c, "add", add) \/ R!Read(c, "remove", remove)
      BY <3>2 DEF R!CallFails, R!Read, R!files, R!accesses
    <3>3. CASE R!AddToken(c) \/ R!DeleteToken(c)
      BY <3>1, <3>3 DEF R!AddToken, R!DeleteToken, R!files, WorkTypes
    <3>4. CASE R!NoteAdded(c) \/ R!UnlinkStatus(c) \/ R!CheckToken(c)
      BY <3>1, <3>4 DEF R!NoteAdded, R!UnlinkStatus, R!CheckToken, R!accesses, WorkTypes
    <3>5. CASE R!UnlinkAdd(c) \/ R!UnlinkRemove(c)
      BY <3>1, <3>5 DEF R!UnlinkAdd, R!UnlinkRemove, R!accesses, WorkTypes
    <3>6. CASE R!Revoke(c)
      BY <3>1, <3>6 DEF R!Revoke, R!files, WorkTypes
    <3>7. CASE R!SetConnectionDict(c)
      BY <3>1, <3>7 DEF R!SetConnectionDict, R!files, R!accesses, WorkTypes
    <3> QED
      BY <3>2, <3>3, <3>4, <3>5, <3>6, <3>7 DEF R!Manager
  <2> QED
    BY <1>1, <2>1, SameOwner DEF SameFiles, Shape
<1>5. SameManager(s)
  <2>1. CASE R!Done \/ manager' = R!IdleManager
    BY <1>3, <2>1, ManagerEnds
  <2>2. ASSUME NEW later, R!Goes(later) PROVE SameManager(s)
    <3>1. manager'.at = manager.at /\ manager'.on = manager.on /\ manager'.dict = manager.dict
      BY <2>2 DEF R!Goes, Shape, Types, ManagerKind
    <3> QED
      BY <1>2, <1>3, <3>1 DEF SameManager, Re6stConstants
  <2>3. CASE R!Read(c, "add", add) \/ R!Read(c, "remove", remove) \/ R!CheckToken(c)
    <3>1. manager'.at = manager.at /\ manager'.on \in {c, None} /\ manager'.dict = manager.dict
      BY <1>2, <2>3 DEF R!Read, R!CheckToken, Shape, Types, ManagerKind
    <3> QED
      BY <1>3, <3>1 DEF SameManager, Re6stConstants
  <2> QED
    BY <2>1, <2>2, <2>3 DEF R!Manager, R!CallFails, R!AddToken, R!NoteAdded, R!UnlinkAdd, R!DeleteToken,
       R!Revoke, R!UnlinkRemove, R!UnlinkStatus, R!SetConnectionDict
<1> QED
  BY <1>4, <1>5, Untouched

\* The fields of the manager after it goes on to another step.
LEMMA GoesTo ==
    ASSUME Shape, NEW later, R!Goes(later)
    PROVE  /\ manager'.at = manager.at /\ manager'.on = manager.on /\ manager'.step = later
           /\ manager'.token = manager.token /\ manager'.dict = manager.dict
BY DEF R!Goes, Shape, Types, ManagerKind

\* The three ways to leave an instance for the next time.
LEMMA LeftClean ==
    ASSUME Re6stConstants, Shape, NEW s \in Slave, CleanAt(s), ~Unlinking(s), R!Done \/ manager' = R!IdleManager,
           UNCHANGED <<listed, recipe, token_dict, tokens, spent, add, remove, status, registry, certificate,
                       published>>
    PROVE  CleanAt(s)'
<1>1. SameFiles(s) /\ SameRecipe(s)
  BY SameOwner DEF SameFiles, Shape
<1> QED
  BY <1>1, ManagerEnds, Untouched

\* A call that fails.
LEMMA CallFailsClean ==
    ASSUME Re6stConstants, Shape, NEW s \in Slave, CleanAt(s), R!CallFails(s)
    PROVE  CleanAt(s)'
<1>1. UNCHANGED <<listed, recipe, token_dict, tokens, spent>>
  BY ManagerLeaves
<1>2. ~Unlinking(s) /\ R!Done /\ UNCHANGED <<add, remove, status, registry, certificate, published>>
  BY DEF R!CallFails, Unlinking, R!files, R!accesses
<1> QED
  BY <1>1, <1>2, LeftClean

\* A request is read.
LEMMA ReadClean ==
    ASSUME Re6stConstants, Shape, NEW s \in Slave, CleanAt(s), R!Read(s, "add", add) \/ R!Read(s, "remove", remove)
    PROVE  CleanAt(s)'
<1>1. UNCHANGED <<listed, recipe, token_dict, tokens, spent>>
  BY ManagerLeaves DEF R!Manager
<1>2. /\ manager.step = "next" /\ manager.on = None
      /\ UNCHANGED <<add, remove, status, registry, certificate, published>>
  BY DEF R!Read, R!AtNext, R!files, R!accesses
<1>3. SameFiles(s) /\ SameRecipe(s)
  BY <1>1, <1>2, SameOwner DEF SameFiles, Shape
<1>4. ~Unlinking(s) /\ \A phase : ~Holds(s, phase)
  BY <1>2 DEF Unlinking, Holds, Re6stConstants
<1>5. CASE manager' = [manager EXCEPT !.todo = @ \ {s}]
  <2>1. manager'.at = manager.at /\ manager'.on = None /\ manager'.dict = manager.dict
    BY <1>2, <1>5 DEF Shape, Types, ManagerKind
  <2>2. SameManager(s)
    BY <1>4, <2>1 DEF SameManager, Re6stConstants
  <2> QED
    BY <1>3, <2>2, Untouched
<1>6. CASE manager' # [manager EXCEPT !.todo = @ \ {s}]
  <2>1. /\ manager'.at = manager.at /\ manager'.on = s /\ manager'.step = "next" /\ manager'.dict = manager.dict
        /\ \/ manager.at = "add" /\ add[s] # None /\ manager'.token = add[s]
           \/ manager.at = "remove" /\ remove[s] # None /\ manager'.token = remove[s]
    BY <1>2, <1>6 DEF R!Read, R!AtNext, Shape, Types, ManagerKind
  <2>2. ~Unlinking(s)'
    BY <2>1 DEF Unlinking
  <2>3. /\ Given' = Given /\ Gone(s)' = Gone(s) /\ HasToken(s)' = HasToken(s)
        /\ \A t : InForce(s, t)' = InForce(s, t)
    BY <1>1, SameOwner DEF Shape
  <2>4. OneAccess(s)'
    <3>1. PICK t \in Nat : Only(s, t)
      BY DEF CleanAt, OneAccess
    <3>2. Only(s, t)'
      BY <1>1, <1>2, <2>1, <2>2, <3>1 DEF Only, Holds
    <3> QED
      BY <1>1, <1>2, <3>2 DEF CleanAt, OneAccess
  <2>5. AccessIsOwned(s)'
    BY <1>1, <1>2, <2>1, <2>3 DEF CleanAt, AccessIsOwned, RequestsMean, Holds
  <2>6. RequestsMean(s)' /\ RemovalMeans(s)'
    BY <1>1, <1>2, <2>1, <2>3 DEF CleanAt, RequestsMean, RemovalMeans, Holds
  <2>7. StatusMeans(s)'
    BY <1>1, <1>2, <1>4, <2>3 DEF CleanAt, StatusMeans
  <2>8. ManagerKnows(s)' /\ OwnerKnows(s)'
    BY <1>1, <1>2, <2>1, <2>3 DEF CleanAt, ManagerKnows, OwnerKnows
  <2> QED
    BY <2>4, <2>5, <2>6, <2>7, <2>8 DEF CleanAt
<1> QED
  BY <1>5, <1>6

\* The token of an instance is the only one there is of it.
LEMMA OneToken ==
    ASSUME Re6stConstants, Shape, NEW s \in Slave, NEW u, Only(s, u), NEW t \in Given, InForce(s, t)
    PROVE  t = u
<1>1. t # None
  BY DEF Given, Re6stConstants
<1>2. s \in recipe.begun => recipe.at = "write"
  BY RecipeFields DEF Shape, RecipeMeans, R!IdleRecipe
<1> QED
  BY <1>1, <1>2 DEF InForce, Only

\* The token is added, ...
LEMMA AddTokenClean ==
    ASSUME Re6stConstants, Shape, NEW s \in Slave \ R!Unsure', CleanAt(s), R!AddToken(s)
    PROVE  CleanAt(s)'
<1>1. UNCHANGED <<listed, recipe, token_dict, tokens, spent>>
  BY ManagerLeaves DEF R!Manager
<1>2. /\ manager.at = "add" /\ manager.step = "next" /\ manager.on = s /\ Holds(s, "add")
      /\ UNCHANGED <<add, remove, status, certificate, published>>
  BY DEF R!AddToken, R!AtNext, R!files, Holds
<1>3. ~Unlinking(s)
  BY <1>2 DEF Unlinking
<1>4. CASE R!Done /\ registry' = registry
  BY <1>1, <1>2, <1>3, <1>4, LeftClean
<1>5. CASE ~(R!Done /\ registry' = registry)
  <2>1. /\ registry' = [registry EXCEPT ![s] = @ \cup {manager.token}] /\ R!Goes("added")
        /\ manager.token \notin spent[s]
    BY <1>5 DEF R!AddToken, R!Unsure
  <2>2. registry'[s] = registry[s] \cup {manager.token}
    BY <2>1 DEF Shape, Types, WorkTypes
  <2>3. /\ manager'.at = "add" /\ manager'.on = s /\ manager'.step = "added"
        /\ manager'.token = manager.token /\ manager'.dict = manager.dict
    BY <1>2, <2>1, GoesTo
  <2>4. Holds(s, "add")' /\ ~Holds(s, "remove")' /\ ~Unlinking(s)'
    BY <2>3 DEF Holds, Unlinking
  <2>5. /\ Given' = Given /\ Gone(s)' = Gone(s) /\ HasToken(s)' = HasToken(s)
        /\ \A t : InForce(s, t)' = InForce(s, t)
    BY <1>1, SameOwner DEF Shape
  <2>6. OneAccess(s)'
    <3>1. PICK t \in Nat : Only(s, t)
      BY DEF CleanAt, OneAccess
    <3>2. manager.token = t /\ certificate[s] = 0
      BY <1>2, <2>1, <3>1 DEF Only
    <3>3. Only(s, t)'
      BY <1>1, <1>2, <2>2, <2>3, <3>1, <3>2 DEF Only
    <3> QED
      BY <1>2, <3>2, <3>3 DEF OneAccess
  <2>7. AccessIsOwned(s)' /\ RequestsMean(s)' /\ RemovalMeans(s)'
    BY <1>1, <1>2, <2>4, <2>5 DEF CleanAt, AccessIsOwned, RequestsMean, RemovalMeans
  <2>8. StatusMeans(s)'
    BY <1>1, <1>2, <1>3, <2>2, <2>5 DEF CleanAt, StatusMeans
  <2>9. ManagerKnows(s)' /\ OwnerKnows(s)'
    BY <1>1, <1>2, <2>2, <2>3, <2>5 DEF CleanAt, ManagerKnows, OwnerKnows
  <2> QED
    BY <2>6, <2>7, <2>8, <2>9 DEF CleanAt
<1> QED
  BY <1>4, <1>5

\* ... its status noted ...
LEMMA NoteAddedClean ==
    ASSUME Re6stConstants, Shape, NEW s \in Slave, CleanAt(s), R!NoteAdded(s)
    PROVE  CleanAt(s)'
<1>1. UNCHANGED <<listed, recipe, token_dict, tokens, spent>>
  BY ManagerLeaves DEF R!Manager
<1>2. /\ manager.at = "add" /\ manager.step = "added" /\ manager.on = s /\ status'[s] = "added"
      /\ UNCHANGED <<add, remove, registry, certificate, published>>
  BY DEF R!NoteAdded, R!At, R!accesses, Shape, Types, WorkTypes
<1>3. /\ manager'.at = "add" /\ manager'.on = s /\ manager'.step = "noted"
      /\ manager'.token = manager.token /\ manager'.dict = manager.dict
  BY <1>2, GoesTo DEF R!NoteAdded
<1>4. Holds(s, "add") /\ Holds(s, "add")' /\ ~Holds(s, "remove")' /\ ~Unlinking(s) /\ ~Unlinking(s)'
  BY <1>2, <1>3 DEF Holds, Unlinking
<1>5. /\ Given' = Given /\ Gone(s)' = Gone(s) /\ HasToken(s)' = HasToken(s)
      /\ \A t : InForce(s, t)' = InForce(s, t)
  BY <1>1, SameOwner DEF Shape
<1>6. PICK u \in Nat : Only(s, u)
  BY DEF CleanAt, OneAccess
<1>7. OneAccess(s)'
  <2>1. Only(s, u)'
    BY <1>1, <1>2, <1>3, <1>4, <1>6 DEF Only
  <2> QED
    BY <1>2, <2>1 DEF CleanAt, OneAccess
<1>8. AccessIsOwned(s)' /\ RequestsMean(s)' /\ RemovalMeans(s)'
  BY <1>1, <1>2, <1>4, <1>5 DEF CleanAt, AccessIsOwned, RequestsMean, RemovalMeans
<1>9. StatusMeans(s)'
  <2>1. SUFFICES ASSUME remove[s] = None
                 PROVE  \E t \in Given : InForce(s, t) /\ t \in registry[s] \cup spent[s]
    BY <1>1, <1>2, <1>5 DEF StatusMeans
  <2>2. PICK t \in Given : InForce(s, t)
    BY <1>4, <2>1 DEF CleanAt, AccessIsOwned, HasToken
  <2>3. t = u /\ manager.token = u
    BY <1>4, <1>6, <2>2, OneToken DEF Only
  <2>4. manager.token \in registry[s] \cup spent[s]
    BY <1>2, <1>4 DEF CleanAt, ManagerKnows
  <2> QED
    BY <2>2, <2>3, <2>4
<1>10. ManagerKnows(s)' /\ OwnerKnows(s)'
  BY <1>1, <1>2, <1>3, <1>4, <1>5 DEF CleanAt, ManagerKnows, OwnerKnows
<1> QED
  BY <1>7, <1>8, <1>9, <1>10 DEF CleanAt

\* ... and the request unlinked.
LEMMA UnlinkAddClean ==
    ASSUME Re6stConstants, Shape, NEW s \in Slave, CleanAt(s), R!UnlinkAdd(s)
    PROVE  CleanAt(s)'
<1>1. UNCHANGED <<listed, recipe, token_dict, tokens, spent>>
  BY ManagerLeaves DEF R!Manager
<1>2. /\ manager.at = "add" /\ manager.on = s /\ add'[s] = None
      /\ UNCHANGED <<remove, status, registry, certificate, published>>
  BY DEF R!UnlinkAdd, R!At, R!accesses, Shape, Types, WorkTypes
<1>3. manager'.on = None /\ manager'.at # "check"
  <2>1. CASE R!Done
    BY <1>2, <2>1 DEF R!Done, Shape, Types, ManagerKind
  <2>2. CASE manager' = R!IdleManager
    BY <2>2 DEF R!IdleManager
  <2> QED
    BY <2>1, <2>2 DEF R!UnlinkAdd
<1>4. ~Unlinking(s) /\ ~Unlinking(s)' /\ \A phase : ~Holds(s, phase)'
  BY <1>2, <1>3 DEF Holds, Unlinking, Re6stConstants
<1>5. /\ Given' = Given /\ Gone(s)' = Gone(s) /\ HasToken(s)' = HasToken(s)
      /\ \A t : InForce(s, t)' = InForce(s, t)
  BY <1>1, SameOwner DEF Shape
<1>6. manager'.dict[s] \in {None, manager.dict[s]}
  <2>1. SameManager(s)
    BY <1>4, ManagerEnds DEF R!UnlinkAdd
  <2> QED
    BY <2>1 DEF SameManager
<1>7. OneAccess(s)'
  <2>1. PICK u \in Nat : Only(s, u)
    BY DEF CleanAt, OneAccess
  <2>2. Only(s, u)'
    BY <1>1, <1>2, <1>4, <2>1 DEF Only
  <2> QED
    BY <1>2, <2>2 DEF CleanAt, OneAccess
<1>8. AccessIsOwned(s)' /\ RequestsMean(s)' /\ RemovalMeans(s)'
  BY <1>1, <1>2, <1>4, <1>5 DEF CleanAt, AccessIsOwned, RequestsMean, RemovalMeans
<1>9. StatusMeans(s)'
  BY <1>1, <1>2, <1>4, <1>5 DEF CleanAt, StatusMeans
<1>10. ManagerKnows(s)'
  BY <1>3, <1>4 DEF ManagerKnows
<1>11. OwnerKnows(s)'
  <2>1. s \in recipe.toAdd \cup recipe.begun => recipe.token_dict[s] # None
    BY DEF Shape, RecipeMeans, Given, Re6stConstants
  <2> QED
    BY <1>1, <1>2, <1>6, <2>1 DEF CleanAt, OwnerKnows
<1> QED
  BY <1>7, <1>8, <1>9, <1>10, <1>11 DEF CleanAt

\* The removal of an instance: its token, its certificate, its request, ...
LEMMA RemoveClean ==
    ASSUME Re6stConstants, Shape, NEW s \in Slave, CleanAt(s),
           R!DeleteToken(s) \/ R!Revoke(s) \/ R!UnlinkRemove(s)
    PROVE  CleanAt(s)'
<1>1. UNCHANGED <<listed, recipe, token_dict, tokens, spent>>
  BY ManagerLeaves DEF R!Manager
<1>2. /\ manager.at = "remove" /\ manager.on = s /\ manager.step \in {"next", "deleted", "revoked"}
      /\ UNCHANGED <<add, status, published>>
  BY DEF R!DeleteToken, R!Revoke, R!UnlinkRemove, R!At, R!AtNext, R!files, R!accesses
<1>3. /\ manager'.at = "remove" /\ manager'.on = s /\ manager'.token = manager.token
      /\ manager'.dict = manager.dict
  BY <1>2, GoesTo DEF R!DeleteToken, R!Revoke, R!UnlinkRemove
<1>4. /\ Holds(s, "remove") /\ Holds(s, "remove")' /\ ~Holds(s, "add") /\ ~Holds(s, "add")'
      /\ ~Unlinking(s)
  BY <1>2, <1>3 DEF Holds, Unlinking
<1>5. /\ Given' = Given /\ Gone(s)' = Gone(s) /\ HasToken(s)' = HasToken(s)
      /\ \A t : InForce(s, t)' = InForce(s, t)
  BY <1>1, SameOwner DEF Shape
<1>6. PICK u \in Nat : Only(s, u)
  BY DEF CleanAt, OneAccess
<1>7. remove[s] # None /\ registry[s] \subseteq {manager.token} /\ certificate[s] \in {0, 1}
  BY <1>2, <1>4, <1>6 DEF CleanAt, RemovalMeans, OneAccess, Only
<1>8. /\ registry'[s] = {} \/ (registry'[s] = registry[s] /\ manager'.step = "next")
      /\ certificate'[s] = certificate[s] \/ certificate'[s] = 0
      /\ manager'.step \in {"revoked", "unlinked"} => certificate'[s] = 0
      /\ \/ manager'.step \in {"deleted", "revoked"} /\ remove'[s] = remove[s]
         \/ manager'.step = "unlinked" /\ remove'[s] = None
  <2>0. WorkTypes
    BY DEF Shape, Types
  <2>1. CASE R!DeleteToken(s)
    <3>1. manager'.step = "deleted"
      BY <2>1, GoesTo DEF R!DeleteToken
    <3>2. registry'[s] = {} /\ UNCHANGED <<remove, certificate>>
      BY <1>7, <2>0, <2>1 DEF R!DeleteToken, R!files, WorkTypes
    <3> QED
      BY <3>1, <3>2
  <2>2. CASE R!Revoke(s)
    <3>1. manager'.step = "revoked"
      BY <2>2, GoesTo DEF R!Revoke
    <3>2. registry'[s] = {} /\ remove' = remove
      BY <1>4, <2>2 DEF R!Revoke, R!At, R!files, CleanAt, RemovalMeans
    <3>3. certificate'[s] = 0
      BY <1>7, <2>0, <2>2 DEF R!Revoke, R!Revokes, WorkTypes
    <3> QED
      BY <3>1, <3>2, <3>3
  <2>3. CASE R!UnlinkRemove(s)
    <3>1. manager'.step = "unlinked"
      BY <2>3, GoesTo DEF R!UnlinkRemove
    <3>2. registry'[s] = {} /\ certificate'[s] = 0
      BY <1>4, <2>3 DEF R!UnlinkRemove, R!At, R!accesses, CleanAt, RemovalMeans
    <3>3. remove'[s] = None
      BY <2>0, <2>3 DEF R!UnlinkRemove, WorkTypes
    <3> QED
      BY <3>1, <3>2, <3>3
  <2> QED
    BY <2>1, <2>2, <2>3
<1>9. OneAccess(s)'
  <2>1. Only(s, u)'
    BY <1>1, <1>2, <1>3, <1>4, <1>6, <1>8 DEF Only
  <2> QED
    BY <1>7, <1>8, <2>1 DEF CleanAt, OneAccess
<1>10. AccessIsOwned(s)'
  BY <1>4, <1>7, <1>8 DEF AccessIsOwned
<1>11. RequestsMean(s)'
  BY <1>1, <1>2, <1>5, <1>7, <1>8 DEF CleanAt, RequestsMean
<1>12. RemovalMeans(s)'
  BY <1>7, <1>8 DEF RemovalMeans
<1>13. StatusMeans(s)'
  BY <1>4, <1>7, <1>8 DEF StatusMeans, Unlinking
<1>14. ManagerKnows(s)' /\ OwnerKnows(s)'
  BY <1>1, <1>2, <1>3, <1>4 DEF CleanAt, ManagerKnows, OwnerKnows
<1> QED
  BY <1>9, <1>10, <1>11, <1>12, <1>13, <1>14 DEF CleanAt

\* ... and its status.
LEMMA UnlinkStatusClean ==
    ASSUME Re6stConstants, Shape, NEW s \in Slave, CleanAt(s), R!UnlinkStatus(s)
    PROVE  CleanAt(s)'
<1>1. UNCHANGED <<listed, recipe, token_dict, tokens, spent>>
  BY ManagerLeaves DEF R!Manager
<1>2. /\ manager.at = "remove" /\ manager.on = s /\ manager.step = "unlinked" /\ status'[s] = None
      /\ UNCHANGED <<add, remove, registry, certificate, published>>
  BY DEF R!UnlinkStatus, R!At, R!accesses, Shape, Types, WorkTypes
<1>3. manager'.on = None /\ manager'.at = "remove" /\ manager'.dict = manager.dict
  BY <1>2 DEF R!UnlinkStatus, R!Done, Shape, Types, ManagerKind
<1>4. ~Unlinking(s)' /\ (\A phase : ~Holds(s, phase)') /\ Holds(s, "remove")
  BY <1>2, <1>3 DEF Holds, Unlinking, Re6stConstants
<1>5. /\ Given' = Given /\ Gone(s)' = Gone(s) /\ HasToken(s)' = HasToken(s)
      /\ \A t : InForce(s, t)' = InForce(s, t)
  BY <1>1, SameOwner DEF Shape
<1>6. registry[s] = {} /\ certificate[s] = 0
  BY <1>2, <1>4 DEF CleanAt, RemovalMeans
<1>7. OneAccess(s)'
  <2>1. PICK u \in Nat : Only(s, u)
    BY DEF CleanAt, OneAccess
  <2>2. Only(s, u)'
    BY <1>1, <1>2, <1>4, <2>1 DEF Only
  <2> QED
    BY <1>2, <2>2 DEF CleanAt, OneAccess
<1>8. AccessIsOwned(s)' /\ RequestsMean(s)' /\ RemovalMeans(s)' /\ StatusMeans(s)'
  BY <1>1, <1>2, <1>4, <1>5, <1>6 DEF CleanAt, AccessIsOwned, RequestsMean, RemovalMeans, StatusMeans
<1>9. ManagerKnows(s)' /\ OwnerKnows(s)'
  BY <1>1, <1>2, <1>3, <1>4 DEF CleanAt, ManagerKnows, OwnerKnows
<1> QED
  BY <1>7, <1>8, <1>9 DEF CleanAt

\* A status that is noted as used is that of the token of the instance, which was.
LEMMA CheckTokenClean ==
    ASSUME Re6stConstants, Shape, NEW s \in Slave, CleanAt(s), R!CheckToken(s)
    PROVE  CleanAt(s)'
<1>1. UNCHANGED <<listed, recipe, token_dict, tokens, spent>>
  BY ManagerLeaves DEF R!Manager
<1>2. /\ manager.at = "check" /\ manager.step = "next" /\ manager.on = None /\ s \in manager.todo
      /\ UNCHANGED <<add, remove, registry, certificate, published>>
  BY DEF R!CheckToken, R!AtNext, R!accesses, Shape, ManagerMeans
<1>3. ~Unlinking(s) /\ \A phase : ~Holds(s, phase)
  BY <1>2 DEF Unlinking, Holds, Re6stConstants
<1>4. CASE status[s] = None
  <2>1. manager' = [manager EXCEPT !.todo = @ \ {s}] /\ status' = status
    BY <1>4 DEF R!CheckToken
  <2>2. manager'.at = manager.at /\ manager'.on = None /\ manager'.dict = manager.dict
    BY <1>2, <2>1 DEF Shape, Types, ManagerKind
  <2>3. SameManager(s) /\ SameFiles(s) /\ SameRecipe(s)
    BY <1>1, <1>2, <1>3, <2>1, <2>2, SameOwner DEF SameManager, SameFiles, Shape, Re6stConstants
  <2> QED
    BY <2>3, Untouched
<1>5. CASE status[s] # None
  <2>1. /\ manager'.at = "check" /\ manager'.on = s /\ manager'.dict = manager.dict
        /\ status'[s] = IF manager.dict[s] \in registry[s] THEN status[s] ELSE "used"
    BY <1>2, <1>5 DEF R!CheckToken, Shape, Types, ManagerKind, WorkTypes
  <2>2. ~Unlinking(s)' /\ ~Holds(s, "add")' /\ ~Holds(s, "remove")'
    BY <2>1 DEF Unlinking, Holds
  <2>3. /\ Given' = Given /\ Gone(s)' = Gone(s) /\ HasToken(s)' = HasToken(s)
        /\ \A t : InForce(s, t)' = InForce(s, t)
    BY <1>1, SameOwner DEF Shape
  <2>4. PICK u \in Nat : Only(s, u)
    BY DEF CleanAt, OneAccess
  <2>5. OneAccess(s)'
    <3>1. Only(s, u)'
      BY <1>1, <1>2, <2>2, <2>4 DEF Only
    <3> QED
      BY <1>2, <3>1 DEF CleanAt, OneAccess
  <2>6. AccessIsOwned(s)' /\ RequestsMean(s)' /\ RemovalMeans(s)'
    BY <1>1, <1>2, <2>2, <2>3 DEF CleanAt, AccessIsOwned, RequestsMean, RemovalMeans
  <2>7. StatusMeans(s)'
    <3>1. SUFFICES ASSUME remove[s] = None
                   PROVE  \E t \in Given : /\ InForce(s, t) /\ t \in registry[s] \cup spent[s]
                                           /\ status'[s] = "used" => t \in spent[s]
      BY <1>1, <1>2, <2>3 DEF StatusMeans
    <3>2. PICK t \in Given : /\ InForce(s, t) /\ t \in registry[s] \cup spent[s]
                             /\ status[s] = "used" => t \in spent[s]
      BY <1>3, <1>5, <3>1 DEF CleanAt, StatusMeans
    <3>3. manager.dict[s] \in Given
      BY <1>2 DEF Shape, ManagerMeans
    <3>4. InForce(s, manager.dict[s])
      BY <1>2, <1>5, <3>1, <3>3 DEF CleanAt, ManagerKnows, Given, Re6stConstants
    <3>5. manager.dict[s] = t
      BY <2>4, <3>2, <3>3, <3>4, OneToken
    <3> QED
      BY <2>1, <3>2, <3>5
  <2>8. ManagerKnows(s)'
    BY <1>1, <1>2, <1>5, <2>1, <2>2, <2>3 DEF CleanAt, ManagerKnows
  <2>9. OwnerKnows(s)'
    BY <1>1, <1>2, <2>1 DEF CleanAt, OwnerKnows
  <2> QED
    BY <2>5, <2>6, <2>7, <2>8, <2>9 DEF CleanAt
<1> QED
  BY <1>4, <1>5

\* What the owner is told of its token is true.
LEMMA SetConnectionDictClean ==
    ASSUME Re6stConstants, Shape, NEW s \in Slave, CleanAt(s), R!SetConnectionDict(s)
    PROVE  CleanAt(s)'
<1>1. UNCHANGED <<listed, recipe, token_dict, tokens, spent>>
  BY ManagerLeaves DEF R!Manager
<1>2. /\ manager.at = "check" /\ manager.on = s
      /\ published'[s] = [token |-> manager.token, info |-> status[s]]
      /\ UNCHANGED <<add, remove, status, registry, certificate>>
  BY DEF R!SetConnectionDict, R!At, R!files, R!accesses, Shape, Types, WorkTypes
<1>3. manager'.on = None /\ manager'.at = "check" /\ manager'.dict = manager.dict
  BY <1>2 DEF R!SetConnectionDict, R!Done, Shape, Types, ManagerKind
<1>4. /\ ~Unlinking(s) /\ ~Unlinking(s)' /\ ~Holds(s, "add")' /\ ~Holds(s, "remove")'
      /\ ~Holds(s, "add") /\ ~Holds(s, "remove")
  BY <1>2, <1>3 DEF Holds, Unlinking, Re6stConstants
<1>5. /\ Given' = Given /\ Gone(s)' = Gone(s) /\ HasToken(s)' = HasToken(s)
      /\ \A t : InForce(s, t)' = InForce(s, t)
  BY <1>1, SameOwner DEF Shape
<1>6. PICK u \in Nat : Only(s, u)
  BY DEF CleanAt, OneAccess
<1>7. manager.token \in Given /\ manager.token = manager.dict[s] /\ status[s] # None
  BY <1>2 DEF Shape, ManagerMeans, Re6stConstants
<1>8. OneAccess(s)'
  <2>1. Only(s, u)'
    BY <1>1, <1>2, <1>4, <1>6 DEF Only
  <2> QED
    BY <1>2, <2>1 DEF CleanAt, OneAccess
<1>9. AccessIsOwned(s)' /\ RequestsMean(s)' /\ RemovalMeans(s)' /\ StatusMeans(s)'
  BY <1>1, <1>2, <1>4, <1>5 DEF CleanAt, AccessIsOwned, RequestsMean, RemovalMeans, StatusMeans
<1>10. ManagerKnows(s)'
  BY <1>1, <1>2, <1>3, <1>4, <1>5 DEF CleanAt, ManagerKnows
<1>11. OwnerKnows(s)'
  <2>1. s \in recipe.toAdd \cup recipe.begun => manager.dict[s] # recipe.token_dict[s]
    BY DEF CleanAt, OwnerKnows
  <2>2. ASSUME s \in listed, published'[s] = [token |-> token_dict[s], info |-> "used"]
        PROVE  token_dict[s] \in spent[s]
    <3>1. token_dict[s] = manager.token /\ status[s] = "used"
      BY <1>2, <2>2
    <3>2. remove[s] = None
      BY <2>2 DEF CleanAt, RequestsMean
    <3>3. PICK t \in Given : InForce(s, t) /\ t \in spent[s]
      BY <1>4, <1>7, <3>1, <3>2 DEF CleanAt, StatusMeans
    <3>4. t = u
      BY <1>6, <3>3, OneToken
    <3>5. token_dict[s] = u
      BY <1>6, <1>7, <3>1 DEF Only, Given, Re6stConstants
    <3> QED
      BY <3>3, <3>4, <3>5
  <2> QED
    BY <1>1, <1>2, <1>3, <1>7, <2>1, <2>2 DEF OwnerKnows
<1> QED
  BY <1>8, <1>9, <1>10, <1>11 DEF CleanAt

\* The inductive invariant: accesses follow what the recipe, the manager and the owners have.
Re6stInv == Shape /\ \A s \in Slave \ R!Unsure : CleanAt(s)

\* Nothing is there at first.
LEMMA Re6stInit == ASSUME Re6stConstants, R!Init PROVE Re6stInv
<1> USE DEF R!Init, R!IdleRecipe, R!IdleManager, R!Nothing, R!NoTokens
<1>1. Types
  <2>1. WorkTypes /\ spent \in [Slave -> SUBSET Given]
    BY DEF WorkTypes
  <2>2. manager \in ManagerKind
    BY DEF ManagerKind, R!Phase, R!Step
  <2> QED
    BY <2>1, <2>2 DEF Types, Re6stConstants
<1>2. RecipeMeans /\ ManagerMeans
  BY DEF RecipeMeans, ManagerMeans
<1>3. ASSUME NEW s \in Slave PROVE CleanAt(s)
  <2>1. manager.on # s
    BY DEF Re6stConstants
  <2>2. Only(s, 0)
    BY <2>1 DEF Only, Holds
  <2>3. OneAccess(s)
    BY <2>2 DEF OneAccess
  <2>4. AccessIsOwned(s) /\ RequestsMean(s) /\ RemovalMeans(s) /\ StatusMeans(s) /\ ManagerKnows(s)
    BY <2>1 DEF AccessIsOwned, RequestsMean, RemovalMeans, StatusMeans, ManagerKnows, Holds
  <2>5. OwnerKnows(s)
    BY DEF OwnerKnows
  <2> QED
    BY <2>3, <2>4, <2>5 DEF CleanAt
<1> QED
  BY <1>1, <1>2, <1>3 DEF Re6stInv, Shape

\* Every step keeps the invariant.
LEMMA Re6stStep == ASSUME Re6stConstants, Re6stInv, [R!Next]_R!vars PROVE Re6stInv'
<1>0. Shape
  BY DEF Re6stInv
<1>1. CASE UNCHANGED R!vars
  <2>1. UNCHANGED <<listed, token_dict, add, remove, status, recipe, manager, registry, certificate, spent,
                    published, spoiled, crossed, tokens, changes, failures>>
    BY <1>1 DEF R!vars, R!files, R!accesses
  <2>2. Shape'
    BY <1>0, <2>1 DEF Shape, Types, WorkTypes, ManagerKind, RecipeMeans, ManagerMeans, Given
  <2>3. ASSUME NEW s \in Slave, CleanAt(s) PROVE CleanAt(s)'
    <3>1. SameFiles(s) /\ SameRecipe(s)
      BY <1>0, <2>1, SameOwner DEF SameFiles, Shape
    <3> QED
      BY <1>0, <2>1, <2>3, <3>1, NoManager, Untouched
  <2> QED
    BY <2>1, <2>2, <2>3 DEF Re6stInv, R!Unsure
<1>2. CASE R!Next
  <2>1. Shape'
    <3>1. CASE R!ChangeList \/ R!Save \/ R!RecipeDies \/ \E s \in Slave : R!WriteAdd(s) \/ R!WriteRemove(s)
      BY <1>0, <3>1, RecipeShape
    <3>2. CASE R!GenerateSlaveTokenList
      BY <1>0, <3>2, GenerateShape
    <3>3. CASE R!Manage \/ R!NextPhase \/ R!ManagerDies \/ \E s \in Slave : R!Manager(s) \/ R!CallFails(s)
      BY <1>0, <3>3, ManagerTypes, ManagerMeansStep DEF Shape
    <3>4. CASE \E s \in Slave : R!UseToken(s)
      BY <1>0, <3>4, UseTokenShape
    <3> QED
      BY <1>2, <3>1, <3>2, <3>3, <3>4 DEF R!Next
  <2>2. ASSUME NEW s \in Slave \ R!Unsure' PROVE CleanAt(s)'
    <3>0. CleanAt(s)
      BY <1>0, <1>2, StaysClean DEF Re6stInv
    <3> HIDE DEF R!Unsure
    <3>1. CASE R!ChangeList \/ R!GenerateSlaveTokenList \/ R!Save \/ R!RecipeDies
      BY <1>0, <2>1, <3>0, <3>1, ChangeListClean, GenerateClean, SaveClean, RecipeDiesClean
    <3>2. CASE R!Manage \/ R!NextPhase \/ R!ManagerDies
      BY <1>0, <3>0, <3>2, ManageClean, NextPhaseClean
    <3>3. ASSUME NEW c \in Slave, R!UseToken(c) \/ R!WriteAdd(c) \/ R!WriteRemove(c) PROVE CleanAt(s)'
      BY <1>0, <2>1, <3>0, <3>3, UseTokenClean, WriteAddClean, WriteRemoveClean
    <3>4. ASSUME NEW c \in Slave, c # s, R!Manager(c) \/ R!CallFails(c) PROVE CleanAt(s)'
      BY <1>0, <3>0, <3>4, ManagerElsewhere
    <3>5. ASSUME R!Manager(s) PROVE CleanAt(s)'
      BY <1>0, <3>0, <3>5, ReadClean, AddTokenClean, NoteAddedClean, UnlinkAddClean, RemoveClean,
         UnlinkStatusClean, CheckTokenClean, SetConnectionDictClean DEF R!Manager
    <3>6. ASSUME R!CallFails(s) PROVE CleanAt(s)'
      BY <1>0, <3>0, <3>6, CallFailsClean
    <3> QED
      BY <1>2, <3>1, <3>2, <3>3, <3>4, <3>5, <3>6 DEF R!Next
  <2> QED
    BY <2>1, <2>2 DEF Re6stInv
<1> QED
  BY <1>1, <1>2

\* The bounds on the tokens are those of the module.
LEMMA Re6stTypes == ASSUME Re6stConstants, Types PROVE R!TypeOK
<1>1. Given \subseteq R!Token
  BY DEF Given, R!Token, Types, Re6stConstants
<1>2. /\ token_dict \in [Slave -> R!Token \cup {R!Blank, None}]
      /\ add \in [Slave -> R!Token \cup {R!Blank, None}] /\ remove \in [Slave -> R!Token \cup {R!Blank, None}]
  BY <1>1 DEF Types, WorkTypes
<1>3. /\ registry \in [Slave -> SUBSET R!Token] /\ spent \in [Slave -> SUBSET R!Token]
      /\ published \in [Slave -> [token : R!Token, info : {"added", "used"}] \cup {None}]
  BY <1>1 DEF Types, WorkTypes
<1>4. recipe \in [at : {"idle", "write"}, token_dict : [Slave -> R!Token \cup {None}],
                  toAdd : SUBSET Slave, toRemove : SUBSET Slave, begun : SUBSET Slave]
  BY <1>1 DEF Types
<1>5. manager \in [at : R!Phase, todo : SUBSET Slave, on : Slave \cup {None}, step : R!Step,
                   token : R!Token \cup {None}, dict : [Slave -> R!Token \cup {None}]]
  BY <1>1 DEF Types, ManagerKind
<1> QED
  BY <1>2, <1>3, <1>4, <1>5 DEF R!TypeOK, Types, WorkTypes

\* An instance that is removed has no token left that an access could be of.
LEMMA Re6stMeans == ASSUME Re6stConstants, Re6stInv PROVE R!AccessFollowsTheList
<1> SUFFICES ASSUME NEW s \in Slave \ R!Unsure
             PROVE  /\ R!Removed(s) => registry[s] = {} /\ certificate[s] = 0
                    /\ s \in listed /\ published[s] = [token |-> token_dict[s], info |-> "used"] =>
                          token_dict[s] \in spent[s]
  BY DEF R!AccessFollowsTheList
<1>1. CleanAt(s)
  BY DEF Re6stInv
<1>2. ASSUME R!Removed(s) PROVE registry[s] = {} /\ certificate[s] = 0
  <2>1. recipe.begun = {}
    BY <1>2 DEF Re6stInv, Shape, RecipeMeans, R!IdleRecipe, R!Removed
  <2>2. ~HasToken(s)
    BY <1>2, <2>1 DEF HasToken, InForce, Given, R!Removed, Re6stConstants
  <2> QED
    BY <1>1, <1>2, <2>2 DEF CleanAt, AccessIsOwned, R!Removed
<1> QED
  BY <1>1, <1>2 DEF CleanAt, OwnerKnows

\* The invariant holds of the program from its first state on.
LEMMA Re6stKept ==
    ASSUME Re6stConstants PROVE ProgramsSpec => [](program = "re6st" => Re6stInv)
<1> DEFINE IInv == program = "re6st" => Re6stInv
<1>1. ProgramsInit => IInv
  BY Re6stInit DEF ProgramsInit
<1>2. IInv /\ [ProgramsNext]_all => IInv'
  <2> SUFFICES ASSUME IInv, [ProgramsNext]_all, program' = "re6st" PROVE Re6stInv'
    OBVIOUS
  <2>1. CASE ProgramsNext
    BY <2>1, Re6stStep DEF ProgramsNext
  <2>2. CASE UNCHANGED all
    <3>1. program = "re6st" /\ UNCHANGED R!vars
      BY <2>2 DEF all, R!vars, R!files, R!accesses
    <3> QED
      BY <3>1, Re6stStep
  <2> QED
    BY <2>1, <2>2
<1> QED
  BY <1>1, <1>2, PTL DEF ProgramsSpec

\* An instance that was removed keeps no access, neither a token nor a certificate, and the owner
\* of one that was not is told that its token was used only if it was: for any number of
\* instances, tokens, failures and changes of the list.
THEOREM AccessIsRemoved ==
    ASSUME Re6stConstants PROVE ProgramsSpec => []AccessFollowsTheList
<1>1. (program = "re6st" => Re6stInv) => AccessFollowsTheList
  BY Re6stMeans DEF AccessFollowsTheList
<1> QED
  BY <1>1, Re6stKept, PTL
=============================================================================

------------------------- MODULE ParameterValidation -------------------------
(***************************************************************************)
(* The jsonschema recipes of slapos/recipe/slapconfiguration.py: the       *)
(* validation of the parameters of the instance, then of each shared       *)
(* instance by one DefaultValidator, which collects the sub-schemas that   *)
(* apply, gives typed values for strings and adds the defaults.            *)
(*                                                                         *)
(* What jsonschema itself decides is in the inputs: whether a shared       *)
(* instance is valid, also after its defaults were added, and which        *)
(* sub-schemas apply to it.  There is one property, of a type other than   *)
(* string, that each sub-schema may have a default for.                    *)
(***************************************************************************)
EXTENDS Integers, Sequences

CONSTANTS
    Options,        \* the options of the recipe
    Shared,         \* the lists of shared instances there may be, of Instance
    Schema,         \* sub-schemas with the property
    Tables,         \* the defaults, per sub-schema: a value, Bad or None
    Bad,            \* a default its own schema refuses
    None            \* the property is not given, or there is no default

Instance == [judged : {"valid", "invalid", "invalid with defaults"},
             given : {"text", None}, applies : SUBSET Schema]

VARIABLES
    options,        \* validate (main, shared), and for the shared ones defaults,
                    \* unstringify and report
    main,           \* the parameters of the instance: "valid", "invalid", "no schema"
    defaults,       \* of Tables
    shared,         \* the shared instances
    applied_schemas, \* <<i, s>>: s applies to i; of one validator for all shared instances
    applied_defaults, \* <<i, s>>: the default of s was collected for i
    value,          \* the property of each shared instance
    verdict,        \* per shared instance that was judged, whether it is valid
    reported,       \* shared instances whose errors were sent to SlapOS Master
    step            \* "main", "validate", "complete", "check", "report", "done", "failed"

inputs == <<options, main, defaults, shared>>
vars == <<options, main, defaults, shared, applied_schemas, applied_defaults, value, verdict,
          reported, step>>

Init ==
    /\ options \in Options
    /\ main \in {"valid", "invalid", "no schema"}
    /\ "main" \notin options.validate => main = "valid"
    /\ defaults \in Tables
    /\ shared \in Shared
    /\ applied_schemas = {} /\ applied_defaults = {}
    /\ value = [i \in DOMAIN shared |-> shared[i].given]
    /\ verdict = <<>> /\ reported = {} /\ step = "main"

-----------------------------------------------------------------------------
\* _expandParameterDict: the instance first; when it is not valid nothing else happens.
ValidateMain ==
    /\ step = "main"
    /\ step' = IF "main" \in options.validate /\ main # "valid" THEN "failed"
               ELSE IF "shared" \in options.validate THEN "validate" ELSE "done"
    /\ UNCHANGED <<inputs, applied_schemas, applied_defaults, value, verdict, reported>>

\* The shared instance under validation.
Current == Len(verdict) + 1

\* Variant of Collected: the sub-schemas of an instance that is not valid are kept.
CollectedAlways == {<<Current, s>> : s \in shared[Current].applies}

\* iter_errors drops the sub-schemas it collected when there is an error.
Collected ==
    {<<Current, s>> : s \in {t \in shared[Current].applies : shared[Current].judged # "invalid"}}

IterErrors ==
    /\ step = "validate" /\ Current <= Len(shared)
    /\ applied_schemas' = applied_schemas \cup Collected
    /\ IF shared[Current].judged = "invalid"
       THEN verdict' = Append(verdict, FALSE) /\ UNCHANGED step
       ELSE step' = "complete" /\ UNCHANGED verdict
    /\ UNCHANGED <<inputs, applied_defaults, value, reported>>

\* apply_unstringify, for every instance whose sub-schemas were collected so far.
Typed ==
    [i \in DOMAIN shared |->
        IF options.unstringify /\ value[i] = "text" /\ \E s \in Schema : <<i, s>> \in applied_schemas
        THEN "typed" ELSE value[i]]

\* collect_defaults: again for every instance, unless it has the property by now.
Missing ==
    {e \in applied_schemas : options.defaults /\ Typed[e[1]] = None /\ defaults[e[2]] # None}

Conflict(recorded) ==
    \E e, f \in recorded : e[1] = f[1] /\ defaults[e[2]] # defaults[f[2]]

\* apply_defaults
WithDefaults(recorded) ==
    [i \in DOMAIN shared |->
        IF \E s \in Schema : <<i, s>> \in recorded
        THEN defaults[CHOOSE s \in Schema : <<i, s>> \in recorded]
        ELSE Typed[i]]

\* A default that its own schema refuses, or two different ones, of any instance.
DefaultsFail ==
    \/ \E e \in Missing : defaults[e[2]] = Bad
    \/ Conflict(applied_defaults \cup Missing)

Complete ==
    /\ step = "complete" /\ ~DefaultsFail
    /\ applied_defaults' = applied_defaults \cup Missing
    /\ value' = WithDefaults(applied_defaults \cup Missing)
    /\ step' = "check"
    /\ UNCHANGED <<inputs, applied_schemas, verdict, reported>>

CompleteFails ==
    /\ step = "complete" /\ DefaultsFail
    /\ applied_defaults' = applied_defaults \cup Missing
    /\ value' = Typed
    /\ verdict' = Append(verdict, FALSE)
    /\ step' = "validate"
    /\ UNCHANGED <<inputs, applied_schemas, reported>>

\* The instance is validated again when it may have changed.
Check ==
    /\ step = "check" /\ step' = "validate"
    /\ verdict' = Append(verdict, ~(options.unstringify \/ options.defaults)
                                  \/ shared[Current].judged = "valid")
    /\ UNCHANGED <<inputs, applied_schemas, applied_defaults, value, reported>>

Report ==
    /\ step = "validate" /\ Current > Len(shared)
    /\ reported' = IF options.report THEN {i \in DOMAIN shared : ~verdict[i]} ELSE {}
    /\ step' = "done"
    /\ UNCHANGED <<inputs, applied_schemas, applied_defaults, value, verdict>>

Next == ValidateMain \/ IterErrors \/ Complete \/ CompleteFails \/ Check \/ Report

Spec == Init /\ [][Next]_vars

-----------------------------------------------------------------------------
\* The defaults of the sub-schemas of i cannot be added to it.
Poisons(i) ==
    /\ options.defaults /\ shared[i].given = None /\ shared[i].judged # "invalid"
    /\ LET found == {defaults[s] : s \in shared[i].applies} \ {None}
       IN  Bad \in found \/ \E d, e \in found : d # e

\* A shared instance is refused for what it is itself or, because one validator keeps what
\* it collected, for defaults of an earlier instance that could not be added: the only way
\* in which one tenant has an influence on the verdict of another.
RefusedForAReason ==
    \A i \in DOMAIN verdict :
        ~verdict[i] <=>
            \/ shared[i].judged = "invalid"
            \/ shared[i].judged = "invalid with defaults"
                  /\ (options.defaults \/ options.unstringify)
            \/ \E j \in 1..i : Poisons(j)
=============================================================================

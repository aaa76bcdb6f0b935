-------------------------- MODULE PlatformProperties --------------------------
(***************************************************************************)
(* Platform properties: what a worker offers and an action asks for        *)
(* (nativelink-util/src/platform_properties.rs), how the configuration     *)
(* types them (platform_property_manager.rs), how a                        *)
(* PropertyModifierScheduler rewrites what clients ask for and advertises  *)
(* names (property_modifier_scheduler.rs, capabilities_server.rs), and how *)
(* a worker's properties shrink and grow as actions run (worker.rs).       *)
(***************************************************************************)
EXTENDS Naturals, Sequences, SequencesExt, FiniteSets, FiniteSetsExt, Functions

CONSTANTS
    PropNames,      \* names of properties
    KnownTypes,     \* the configured names |-> "minimum" | "exact" | "priority"
    Offers,         \* name |-> value maps a worker connects with
    AsksFor,        \* name |-> value maps of actions
    ModLists,       \* lists of modifications [op, name, value]
    PropOps,        \* operations
    NotANumber      \* a value that does not parse as u64

VARIABLES
    mods,        \* modifications of the scheduler in front
    base,        \* {} or {properties the worker connected with}
    left,        \* what is left of them
    waiting,     \* operation |-> {} or {properties it asks for, modified}
    running,     \* operation |-> {} or {typed properties it runs with}
    advertised   \* {} or {known_properties cached for the instance}

propVars == <<mods, base, left, waiting, running, advertised>>

PropInit ==
    /\ mods \in ModLists
    /\ base = {} /\ left = <<>>
    /\ waiting = [o \in PropOps |-> {}]
    /\ running = [o \in PropOps |-> {}]
    /\ advertised = {}

-----------------------------------------------------------------------------
(* PlatformPropertyManager                                                  *)

\* value.parse::<u64>() succeeds
Parses(value) == value \in Nat /\ value # NotANumber

\* make_prop_value(), {} for an error
MakePropValue(name, value) ==
    IF name \notin DOMAIN KnownTypes \/ (KnownTypes[name] = "minimum" /\ ~Parses(value)) THEN {}
    ELSE {[type |-> KnownTypes[name], value |-> value]}

\* make_platform_properties(), {} for an error
MakePlatformProperties(props) ==
    IF \E n \in DOMAIN props : MakePropValue(n, props[n]) = {} THEN {}
    ELSE {[n \in DOMAIN props |-> CHOOSE p \in MakePropValue(n, props[n]) : TRUE]}

\* PlatformPropertyValue::is_satisfied_by()
ValueSatisfied(p, w) ==
    \/ p = w
    \/ p.type = "minimum" /\ w.type = "minimum" /\ w.value >= p.value
    \/ p.type = "priority"

\* Mutant: a property the worker lacks is passed over.
SatisfiedByAny(props, worker) ==
    \A n \in DOMAIN props \cap DOMAIN worker : ValueSatisfied(props[n], worker[n])

\* PlatformProperties::is_satisfied_by()
IsSatisfiedBy(props, worker) ==
    \A n \in DOMAIN props : n \in DOMAIN worker /\ ValueSatisfied(props[n], worker[n])

-----------------------------------------------------------------------------
(* PropertyModifierScheduler                                                *)

Added == {mods[i].name : i \in {j \in DOMAIN mods : mods[j].op = "add"}}
Removed == {mods[i].name : i \in {j \in DOMAIN mods : mods[j].op = "remove"}}

ApplyMod(props, m) ==
    IF m.op = "remove" THEN Restrict(props, DOMAIN props \ {m.name})
    ELSE [n \in DOMAIN props \cup {m.name} |-> IF n = m.name THEN m.value ELSE props[n]]

\* inner_add_action(): the modifications in the order they are configured.
Modified(props) == FoldLeft(ApplyMod, props, mods)

\* Mutant: only the names the inner scheduler knows.
KnownInnerOnly == DOMAIN KnownTypes

\* inner_get_known_properties(): names that are removed may be sent, too.
KnownProperties == DOMAIN KnownTypes \cup Removed

\* The names are asked for once and then kept.
GetCapabilities ==
    /\ advertised = {}
    /\ advertised' = {KnownProperties}
    /\ UNCHANGED <<mods, base, left, waiting, running>>

-----------------------------------------------------------------------------
(* The scheduler and its worker                                             *)

\* inner_connect_worker(): a bad property refuses the worker.
ConnectWorkerWith(offer) ==
    /\ base = {}
    /\ MakePlatformProperties(offer) # {}
    /\ base' = MakePlatformProperties(offer)
    /\ left' = CHOOSE p \in base' : TRUE
    /\ UNCHANGED <<mods, waiting, running, advertised>>

AddActionWith(o, ask) ==
    /\ waiting[o] = {} /\ running[o] = {}
    /\ waiting' = [waiting EXCEPT ![o] = {Modified(ask)}]
    /\ UNCHANGED <<mods, base, left, running, advertised>>

IsMinimum(props, n) == n \in DOMAIN props /\ props[n].type = "minimum"

\* reduce_platform_properties() and restore_platform_properties()
Reduce(worker, props) ==
    [n \in DOMAIN worker |-> IF IsMinimum(props, n) /\ IsMinimum(worker, n)
                             THEN [worker[n] EXCEPT !.value = @ - props[n].value] ELSE worker[n]]

\* Mutant: properties that were never taken are added, too.
RestoreAll(worker, props) ==
    [n \in DOMAIN worker |-> IF n \in DOMAIN props THEN [worker[n] EXCEPT !.value = @ + props[n].value] ELSE worker[n]]

Restore(worker, props) ==
    [n \in DOMAIN worker |-> IF IsMinimum(props, n) /\ IsMinimum(worker, n)
                             THEN [worker[n] EXCEPT !.value = @ + props[n].value] ELSE worker[n]]

\* do_try_match(): an action whose properties cannot be typed stays queued.
TryMatch(o) ==
    /\ base # {}
    /\ \E ask \in waiting[o] : \E props \in MakePlatformProperties(ask) :
        /\ IsSatisfiedBy(props, left)
        /\ left' = Reduce(left, props)
        /\ running' = [running EXCEPT ![o] = {props}]
    /\ waiting' = [waiting EXCEPT ![o] = {}]
    /\ UNCHANGED <<mods, base, advertised>>

CompleteOn(o) ==
    /\ \E props \in running[o] : left' = Restore(left, props)
    /\ running' = [running EXCEPT ![o] = {}]
    /\ UNCHANGED <<mods, base, waiting, advertised>>

PropNext ==
    \/ GetCapabilities
    \/ \E offer \in Offers : ConnectWorkerWith(offer)
    \/ \E o \in PropOps : TryMatch(o) \/ CompleteOn(o) \/ \E ask \in AsksFor : AddActionWith(o, ask)

PropSpec == PropInit /\ [][PropNext]_propVars

-----------------------------------------------------------------------------
RunningProps == UNION {running[o] : o \in PropOps}

\* What an action with these properties takes of property n.
Takes(props, n) == IF IsMinimum(props, n) THEN props[n].value ELSE 0

\* What the running actions took of a minimum property and what is left of it is
\* what the worker connected with, so it is never promised twice and comes back in
\* full; other properties are left alone (worker.rs:104).
PropertiesConserved ==
    \A b \in base : \A n \in DOMAIN b :
        left[n] = [b[n] EXCEPT !.value =
                     @ - MapThenSumSet(LAMBDA o : MapThenSumSet(LAMBDA p : Takes(p, n), running[o]), PropOps)]

\* "if a job states it needs a specific key, it will never be run on a worker that
\* does not have at least all the platform property keys configured on the worker"
\* (platform_properties.rs:27), after every modification of what it asked for.
RunsWhereItFits ==
    \A b \in base : \A props \in RunningProps :
        /\ \A n \in DOMAIN props : n \in DOMAIN b /\ (props[n].type = "exact" => props[n] = b[n])
        /\ \A n \in DOMAIN props : IsMinimum(props, n) => left[n].value >= 0

\* A name is advertised exactly when an action that uses it can be matched, as
\* long as the names that are added are known to the scheduler behind.
AdvertisedIsUsable ==
    Added \subseteq DOMAIN KnownTypes =>
        \A known \in advertised : \A n \in PropNames :
            n \in known <=> DOMAIN Modified([x \in {n} |-> 1]) \subseteq DOMAIN KnownTypes
=============================================================================

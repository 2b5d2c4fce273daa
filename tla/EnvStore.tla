------------------------------ MODULE EnvStore ------------------------------
(***************************************************************************)
(* What the boot environment promises its callers (the interface of        *)
(* ti_pspboot/env.h): a map from variables to values that each call reads  *)
(* or changes at one instant.  The promise ends with the first power       *)
(* failure; of that failure itself it still says that nothing is lost,     *)
(* unless the environment was being compacted, and that nothing is         *)
(* invented.                                                               *)
(***************************************************************************)
CONSTANTS
    Keys,       \* the variables
    Values,     \* what they are set to
    Protected,  \* variables that cannot be set
    None        \* no value, no call

VARIABLES
    env,        \* env[k]: the value of k, or None
    ret,        \* the last call that returned, or None
    compacting, \* the storage is being rewritten
    promised    \* no power failure so far

storeVars == <<env, ret, compacting, promised>>

Answer(op, k, v, status) == [op |-> op, key |-> k, val |-> v, status |-> status]

Init ==
    /\ env \in [Keys -> Values \union {None}]
    /\ ret = None
    /\ compacting = FALSE
    /\ promised = TRUE

Get(k) ==
    /\ ret' = Answer("get", k, env[k], "success")
    /\ UNCHANGED env

Set(k, v) ==
    /\ ret' = Answer("set", k, v, "success")
    /\ env' = [env EXCEPT ![k] = v]

\* A call that has no effect although it reports success.
Refuse(k, v) ==
    /\ k \in Protected
    /\ ret' = Answer("set", k, v, "success")
    /\ UNCHANGED env

Exhausted(k, v) ==
    /\ ret' = Answer("set", k, v, "exhausted")
    /\ UNCHANGED env

Unset(k) ==
    /\ env[k] # None
    /\ ret' = Answer("unset", k, None, "success")
    /\ env' = [env EXCEPT ![k] = None]

UnsetFails(k) ==
    /\ env[k] = None \/ k \in Protected
    /\ ret' = Answer("unset", k, None, "failure")
    /\ UNCHANGED env

Compacted(status) ==
    /\ ret' = Answer("defrag", None, None, status)
    /\ UNCHANGED env

Internal == UNCHANGED <<env, ret>>

Call ==
    /\ promised
    /\ promised' = TRUE
    /\ compacting' \in BOOLEAN
    /\ \/ \E k \in Keys : Get(k) \/ Unset(k) \/ UnsetFails(k)
       \/ \E k \in Keys, v \in Values : Set(k, v) \/ Refuse(k, v) \/ Exhausted(k, v)
       \/ \E s \in {"success", "exhausted"} : Compacted(s)
       \/ Internal

PowerFailure ==
    /\ promised
    /\ promised' = FALSE
    /\ ret' = None
    /\ compacting' = FALSE
    /\ env' \in [Keys -> Values \union {None}]
    /\ \A k \in Keys : env'[k] = env[k] \/ (compacting /\ env'[k] = None)

Broken ==
    /\ ~promised
    /\ promised' = FALSE

Next == Call \/ PowerFailure \/ Broken

Spec == Init /\ [][Next]_storeVars
=============================================================================

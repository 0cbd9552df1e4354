------------------------------- MODULE Signing -------------------------------
(***************************************************************************)
(* _get_credentials_for_sign: the senders of a producer get the keys for   *)
(* their requests from the credentials callback, if one is set, and        *)
(* otherwise from the configuration, whose keys the application may        *)
(* replace.  A callback is set, as sample/DynamicCredentials.md does,      *)
(* before the producer is created, or never.                               *)
(***************************************************************************)
EXTENDS Credentials

CONSTANTS Resetters, MaxResets  \* see SecurityToken

ASSUME KindsAssumption == Senders \cap Resetters = {}

VARIABLES
    callback,   \* whether credentials_callback is not NULL
    lock, inside, key, resets, place, number, copy, locked, states, since
                \* see SecurityToken

staticVars == <<lock, inside, key, resets, place, number, copy, locked, states, since>>

Static == INSTANCE SecurityToken

SigningInit == Init /\ Static!Init /\ callback \in BOOLEAN

SigningNext ==
    \/ callback /\ Next /\ UNCHANGED <<callback, staticVars>>
    \/ ~callback /\ Static!Next /\ UNCHANGED <<callback, vars>>

SigningSpec == SigningInit /\ [][SigningNext]_<<vars, callback, staticVars>>

\* The property of SecurityToken, of a producer without a callback.
ThreadSafe == Static!ThreadSafe
=============================================================================

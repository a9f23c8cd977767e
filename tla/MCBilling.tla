------------------------------ MODULE MCBilling ------------------------------
(***************************************************************************)
(* The rewards that users claim and the API requests they spend them on.   *)
(* A behaviour moves the rewards, a relay request or the arguments of a    *)
(* Gemini stream, and leaves the others as they started.                   *)
(***************************************************************************)
EXTENDS Wallet, Relay, GeminiStream, TLC
CONSTANTS k1, k2, p1, p2

\* The rewards have no games: funds move between wallet and play as inflight.
RewardMutations == {}
RewardSymmetry == Permutations({k1, k2}) \cup Permutations({p1, p2})

VARIABLE focus      \* what the behaviour moves

MCInit ==
    /\ focus \in {"rewards", "relay", "gemini"}
    /\ Init /\ RelayInit /\ GeminiInit
    /\ focus # "relay" => call.stream

MCNext ==
    \/ focus = "rewards" /\ Next /\ UNCHANGED <<focus, relayVars, geminiVars>>
    \/ focus = "relay" /\ RelayNext /\ UNCHANGED <<focus, vars, geminiVars>>
    \/ focus = "gemini" /\ GeminiNext /\ UNCHANGED <<focus, vars, relayVars>>

MCSpec == MCInit /\ [][MCNext]_<<focus, vars, relayVars, geminiVars>>
=============================================================================

------------------------------- MODULE MCGames -------------------------------
(***************************************************************************)
(* The modules of the single-player games in one instance.  A behaviour    *)
(* moves the rounds of one account (with or without the bot), a blackjack  *)
(* table or a game's configuration, and leaves the others as they are.     *)
(***************************************************************************)
EXTENDS BotGames, Blackjack, GameConfig

CONSTANTS WebPlayed, \* the games of Played on the website alone
          BotPlayed  \* those that the bot plays, too

VARIABLE focus      \* what the behaviour moves

mcVars == <<focus, roundVars, readable, botVars, table, configVars>>

MCInit ==
    /\ focus \in {"web", "bot", "table", "config"}
    /\ RoundInit /\ readable = TRUE /\ BotInit /\ ConfigInit
    /\ IF focus = "table" THEN TableInit ELSE table = NoTable
    /\ focus = "web" => game \in WebPlayed
    /\ focus = "bot" => game \in BotPlayed /\ policy /\ gate = "PLAY"
    /\ focus \in {"table", "config"} =>
          game = (CHOOSE g \in Played : TRUE) /\ policy /\ gate = "PLAY"

\* Beside the bot, the website plays with one key at an unchanging balance.
BesideBot ==
    \/ Bootstrap \/ Activate
    \/ \E n \in Nonces : Create(n, 1) \/ RevealComplete(n)

\* Another holding of the player goes under review, or is put in order: the asset
\* read of a policy notices, and a blackjack round waits for it.
Holdings == game = "blackjack" /\ policy /\ readable' = ~readable

MCNext ==
    \/ focus = "web" /\ RoundNext /\ UNCHANGED <<focus, readable, botVars, table, configVars>>
    \/ focus = "web" /\ Holdings /\ UNCHANGED <<focus, roundVars, botVars, table, configVars>>
    \/ focus = "bot" /\ BotNext /\ UNCHANGED <<focus, readable, table, configVars>>
    \/ focus = "bot" /\ BesideBot /\ UNCHANGED <<focus, readable, botVars, table, configVars>>
    \/ focus = "table" /\ TableNext /\ UNCHANGED <<focus, roundVars, readable, botVars, configVars>>
    \/ focus = "config" /\ ConfigNext /\ UNCHANGED <<focus, roundVars, readable, botVars, table>>

MCSpec == MCInit /\ [][MCNext]_mcVars /\ RoundFairness
=============================================================================

----------------------------- MODULE MCRoulette ------------------------------
(***************************************************************************)
(* The roulette modules in one instance.  They share no variable, so a     *)
(* behaviour moves one of them and leaves the others as they are.  The     *)
(* rooms are moved in two ways: one room with every player in it, and      *)
(* several smaller ones in the queue of the worker.                        *)
(***************************************************************************)
EXTENDS RouletteRules, Roulette, BotRoulette

CONSTANT Frail      \* the players whose holdings elsewhere may go under review, in the queue

VARIABLE focus      \* the module whose steps the behaviour takes

mcVars == <<focus, rule, roomVars, unwell, botVars>>

\* Rooms of two with one ready cycle, and no credits from elsewhere.
Pairs == INSTANCE Roulette WITH Target <- 2, MaxCycle <- 1, Lucky <- {}

\* A holding elsewhere goes under review, or is put in order.
Elsewhere(u) == unwell' = IF u \in unwell THEN unwell \ {u} ELSE unwell \cup {u}

\* Room 1 and nothing else, or rooms whose host has the room's number and enters no
\* other, while the rest of the players are guests of room 1.
Alone == \A r \in Rooms \ {1} : rooms'[r].state = "NONE"
AtHome ==
    \A r \in Rooms : /\ rooms'[r].host \in {0, r}
                     /\ \A u \in Players : seats'[r][u].active => u = r \/ (r = 1 /\ u \notin Rooms)

MCInit ==
    /\ focus \in {"rules", "rooms", "queue", "bot"}
    /\ IF focus = "rules" THEN RuleInit ELSE rule = NoRule
    /\ RoomInit /\ unwell = {}
    /\ BotInit
    /\ focus # "bot" => bound = CHOOSE a \in Accounts : TRUE

MCNext ==
    \/ focus = "rules" /\ RuleNext /\ UNCHANGED <<focus, roomVars, unwell, botVars>>
    \/ focus = "rooms" /\ RoomNext /\ Alone /\ UNCHANGED <<focus, rule, unwell, botVars>>
    \/ focus = "queue" /\ Pairs!RoomNext /\ AtHome /\ UNCHANGED <<focus, rule, unwell, botVars>>
    \/ focus = "queue" /\ (\E u \in Frail : Elsewhere(u)) /\ UNCHANGED <<focus, rule, roomVars, botVars>>
    \/ focus = "bot" /\ BotNext /\ UNCHANGED <<focus, rule, roomVars, unwell>>

MCSpec == MCInit /\ [][MCNext]_mcVars /\ RoomFairness
=============================================================================

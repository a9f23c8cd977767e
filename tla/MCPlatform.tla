----------------------------- MODULE MCPlatform -----------------------------
(***************************************************************************)
(* The safety of the platform's services in one instance.  A behaviour     *)
(* moves one of them and leaves the others as they started: they share no  *)
(* state but the ledger, and each module has what it needs of that.        *)
(***************************************************************************)
EXTENDS Wallet, Identity, Campaign, PokerControl, PokerTicket, PokerEntry, BotBlackjack, TLC
CONSTANTS u1, u2, x1, x2, y1, y2

\* A wager and a payout of one user, and a payout of another user that reuses
\* the business identity of the first.
GameMutation(u, b, delta) ==
    [user |-> u, asset |-> "CHIPS", delta |-> delta, biz |-> <<"GAME", b>>, entry |-> "GAME"]
LedgerMutations == {GameMutation(u1, 1, -1), GameMutation(u1, 2, 3), GameMutation(u2, 2, 3)}

\* Guests, sockets, calls and keys are alike, and so are the requests that create a
\* table, the processes and the tickets; one pair of values serves each kind, as no
\* two of them are in focus at a time.
Interchangeable == Permutations({x1, x2}) \cup Permutations({y1, y2})

VARIABLE focus      \* what the behaviour moves

\* A service out of focus has one initial state.
Still ==
    /\ focus # "identity" => account.exists /\ account.factor = "ON"
    /\ focus # "ticket" => attempt = [a \in Attempts |-> [stage |-> "NEW", ticket |-> y1]]
    /\ focus # "entry" => \A r, s \in Creates : create[r] = create[s] /\ create[r].password = "p1"

MCInit ==
    /\ focus \in {"wallet", "identity", "campaign", "control", "ticket", "entry", "bot"}
    /\ Init /\ IdentityInit /\ CampaignInit /\ ControlInit /\ TicketInit /\ EntryInit
    /\ BlackjackInit
    /\ Still

\* A step of the service in focus: the others keep what they have.
Focused(name) ==
    /\ focus = name /\ UNCHANGED focus
    /\ focus # "wallet" => UNCHANGED vars
    /\ focus # "identity" => UNCHANGED identityVars
    /\ focus # "campaign" => UNCHANGED campaignVars
    /\ focus # "control" => UNCHANGED controlVars
    /\ focus # "ticket" => UNCHANGED ticketVars
    /\ focus # "entry" => UNCHANGED entryVars
    /\ focus # "bot" => UNCHANGED tapVars

MCNext ==
    \/ Focused("wallet") /\ Next
    \/ Focused("identity") /\ IdentityNext
    \/ Focused("campaign") /\ CampaignNext
    \/ Focused("control") /\ ControlNext
    \/ Focused("ticket") /\ TicketNext
    \/ Focused("entry") /\ EntryNext
    \/ Focused("bot") /\ BlackjackNext

MCSpec == MCInit /\ [][MCNext]_<<focus, vars, identityVars, campaignVars, controlVars, ticketVars,
                                 entryVars, tapVars>>
=============================================================================

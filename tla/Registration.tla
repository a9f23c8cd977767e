----------------------------- MODULE Registration -----------------------------
(***************************************************************************)
(* From a Discord registration to its initial grant                        *)
(* (internal/identity/registration.go, internal/platform/admission.go, the *)
(* worker in cmd/momiao).  A registration leaves a numbered receipt; the   *)
(* workers of several processes read pages of receipts, take them into the *)
(* inbox with a grant and a job each, and issue the grants.  The answer to *)
(* a COMMIT may be lost, and a worker may die at any point.                *)
(***************************************************************************)
EXTENDS Naturals, Sequences, FiniteSets

CONSTANTS Subjects,      \* Discord accounts
          Registrars,    \* processes that run the worker
          PageLimit,     \* receipts of a page (100)
          MaxLost        \* bound on the failures

VARIABLES receipts,      \* momiao_admission.registration_receipts, by ordinal
          suspended,     \* maintenance of user writes and rewards
          cursor,        \* platform_meta.registration_cursor
          inbox,         \* identity.native_registration_inbox, the same
          grant,         \* per ordinal the status of its grant
          due,           \* the grants whose job may be tried now
          issued,        \* ordinals credited, with their row in registration_issuances
          registrar,     \* where each worker is
          lost           \* failures so far
registrationVars == <<receipts, suspended, cursor, inbox, grant, due, issued, registrar, lost>>

Ordinals == 1..Cardinality(Subjects)
CycleStart == [step |-> "CURSOR", after |-> 0, page |-> <<>>, claim |-> 0]

RegistrationInit ==
    /\ receipts = <<>> /\ suspended = FALSE /\ cursor = 0 /\ inbox = <<>> /\ lost = 0
    /\ grant = [o \in Ordinals |-> "NONE"] /\ due = {} /\ issued = {}
    /\ registrar = [w \in Registrars |-> CycleStart]

Set(w, value) == registrar' = [registrar EXCEPT ![w] = value]
Step(w, step) == Set(w, [registrar[w] EXCEPT !.step = step])
Fault == lost < MaxLost /\ lost' = lost + 1

\* registerDiscord: the lock of the counter orders the registrations and the account
\* is looked up under it, so that one rolled back takes no ordinal.
registerDiscord(s) ==
    /\ \A o \in DOMAIN receipts : receipts[o] # s
    /\ receipts' = Append(receipts, s)
    /\ UNCHANGED <<suspended, cursor, inbox, grant, due, issued, registrar, lost>>
SetSuspended ==
    /\ suspended' = ~suspended
    /\ UNCHANGED <<receipts, cursor, inbox, grant, due, issued, registrar, lost>>
-----------------------------------------------------------------------------
(* One cycle of a worker. *)

RegistrationCursor(w) ==
    /\ registrar[w].step = "CURSOR"
    /\ Set(w, [CycleStart EXCEPT !.step = "READ", !.after = cursor])
    /\ UNCHANGED <<receipts, suspended, cursor, inbox, grant, due, issued, lost>>

Smaller(a, b) == IF a <= b THEN a ELSE b
ReadRegistrationPage(w) ==
    LET after == registrar[w].after
        last == Smaller(Len(receipts), after + PageLimit)
    IN  /\ registrar[w].step = "READ"
        /\ Set(w, [registrar[w] EXCEPT !.step = "INGEST", !.page = SubSeq(receipts, after + 1, last)])
        /\ UNCHANGED <<receipts, suspended, cursor, inbox, grant, due, issued, lost>>

\* The receipts of a page that another worker was faster with are only compared.
advanced(after, page) == IF after + Len(page) > cursor THEN after + Len(page) ELSE cursor
IngestRegistrationPage(w) ==
    LET after == registrar[w].after
        page == registrar[w].page
        new == (cursor + 1)..advanced(after, page)
        agrees == \A o \in (after + 1)..cursor :
                     o - after <= Len(page) => inbox[o] = page[o - after]
    IN  /\ registrar[w].step = "INGEST" /\ Step(w, "GRANT")
        /\ IF suspended \/ ~agrees \/ new \cap DOMAIN inbox # {}
           THEN UNCHANGED <<cursor, inbox, grant, due>>
           ELSE /\ cursor' = advanced(after, page)
                /\ inbox' = [o \in (DOMAIN inbox) \cup new |->
                                IF o \in new THEN page[o - after] ELSE inbox[o]]
                /\ grant' = [o \in Ordinals |-> IF o \in new THEN "PENDING" ELSE grant[o]]
                /\ due' = due \cup new
        /\ UNCHANGED <<receipts, suspended, issued, lost>>

\* RecoverRegistrationGrant in one transaction under the locks of the job and the
\* grant: wallet, issuance, grant and job together.  An error, or a lost answer to
\* the COMMIT, leads to the deferred retry.
Claimable == {o \in due : grant[o] \in {"PENDING", "RECOVERING"}}
IssueGrant(w) ==
    /\ registrar[w].step = "GRANT"
    /\ \E o \in Claimable :
          /\ o \notin issued
          /\ grant' = [grant EXCEPT ![o] = "CONFIRMED"] /\ issued' = issued \cup {o}
          /\ \/ UNCHANGED <<registrar, lost>>
             \/ Set(w, [registrar[w] EXCEPT !.step = "RETRY", !.claim = o]) /\ Fault
    /\ UNCHANGED <<receipts, suspended, cursor, inbox, due>>
IssueFails(w) ==
    /\ registrar[w].step = "GRANT"
    /\ \E o \in Claimable :
          /\ IF o \in issued THEN UNCHANGED lost ELSE Fault
          /\ Set(w, [registrar[w] EXCEPT !.step = "RETRY", !.claim = o])
    /\ UNCHANGED <<receipts, suspended, cursor, inbox, grant, due, issued>>
NothingDue(w) ==
    /\ registrar[w].step = "GRANT" /\ Claimable = {} /\ Set(w, CycleStart)
    /\ UNCHANGED <<receipts, suspended, cursor, inbox, grant, due, issued, lost>>

\* Mutant: the retry does not look whether the COMMIT succeeded after all.
unconfirmedBefore(o) == grant[o] # "NONE"
\* The retry locks and reads the claim first: another worker, or the lost COMMIT,
\* may have confirmed it.
unconfirmed(o) == grant[o] # "CONFIRMED"
RetryLater(w) ==
    LET o == registrar[w].claim
    IN  /\ registrar[w].step = "RETRY" /\ Set(w, CycleStart)
        /\ IF unconfirmed(o)
           THEN grant' = [grant EXCEPT ![o] = "RECOVERING"] /\ due' = due \ {o}
           ELSE UNCHANGED <<grant, due>>
        /\ UNCHANGED <<receipts, suspended, cursor, inbox, issued, lost>>

\* Ten seconds after a failure.
RetryDue(o) ==
    /\ grant[o] = "RECOVERING" /\ o \notin due /\ due' = due \cup {o}
    /\ UNCHANGED <<receipts, suspended, cursor, inbox, grant, issued, registrar, lost>>
\* The process dies, or a query of the cycle fails.
CycleFails(w) ==
    /\ registrar[w] # CycleStart /\ Set(w, CycleStart) /\ Fault
    /\ UNCHANGED <<receipts, suspended, cursor, inbox, grant, due, issued>>

registrationWorkerCycle(w) ==
    \/ RegistrationCursor(w) \/ ReadRegistrationPage(w) \/ IngestRegistrationPage(w)
    \/ IssueGrant(w) \/ IssueFails(w) \/ NothingDue(w) \/ RetryLater(w)

RegistrationNext ==
    \/ \E s \in Subjects : registerDiscord(s)
    \/ SetSuspended
    \/ \E w \in Registrars : registrationWorkerCycle(w) \/ CycleFails(w)
    \/ \E o \in Ordinals : RetryDue(o)

\* The workers tick every two seconds, and the ten seconds of a retry pass.
RegistrationFairness ==
    /\ \A w \in Registrars : WF_registrationVars(registrationWorkerCycle(w))
    /\ \A o \in Ordinals : WF_registrationVars(RetryDue(o))
-----------------------------------------------------------------------------
\* Everybody who registered gets the initial grant, once: the inbox is the beginning
\* of the receipts as far as the cursor, a grant is confirmed exactly when it was
\* issued, and, unless maintenance goes on for ever, every receipt is confirmed in
\* the end, whichever worker read the same page, died or lost an answer.
GrantsIssued ==
    /\ [](/\ Len(inbox) = cursor /\ inbox = SubSeq(receipts, 1, cursor)
          /\ \A o \in Ordinals : grant[o] = "CONFIRMED" <=> o \in issued)
    /\ <>[](~suspended) => \A o \in Ordinals : []<>(Len(receipts) >= o => grant[o] = "CONFIRMED")
=============================================================================

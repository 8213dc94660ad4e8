---------------------------- MODULE LeaveLedger -----------------------------
(***************************************************************************)
(* What the leave balances promise an employee: a request reserves its     *)
(* units at once and only if they are available, and one decision turns    *)
(* the reservation into used units or gives it back.  A new year carries   *)
(* over what is left, up to a limit, and opens when nothing is reserved.   *)
(* Each is one atomic step.  LeaveApproval, where each is a database       *)
(* transaction of several statements, does the same as long as             *)
(* transactions do not cross and no year opens over a reservation.         *)
(***************************************************************************)
EXTENDS Integers

CONSTANTS
    Balances,       \* the rows of LeaveBalance
    Requests,       \* identifiers of leave requests (bounds their number)
    UnitChoices,    \* the amounts an employee may ask for
    GrantChoices,   \* the entitlements a new year may bring
    CarryLimit      \* the most a new year carries over

VARIABLES
    book,           \* per balance: entitled, used and pending units
    entry           \* per request: its state, its balance and its units

ledger == <<book, entry>>

NoEntry == [state |-> "none"]

Available(b) == book[b].entitled - book[b].used - book[b].pending

Init ==
    /\ book \in [Balances -> [entitled : Nat, used : {0}, pending : {0}]]
    /\ entry = [r \in Requests |-> NoEntry]

Reserve(r, b, u) ==
    /\ entry[r] = NoEntry
    /\ u > 0 /\ u <= Available(b)
    /\ entry' = [entry EXCEPT ![r] = [state |-> "pending", bal |-> b, units |-> u]]
    /\ book' = [book EXCEPT ![b].pending = @ + u]

Settle(r, used) ==
    LET e == entry[r]
        old == book[e.bal]
    IN  /\ e.state = "pending"
        /\ entry' = [entry EXCEPT ![r].state = IF used THEN "approved" ELSE "rejected"]
        /\ book' = [book EXCEPT ![e.bal] =
                       [entitled |-> old.entitled,
                        used     |-> old.used + (IF used THEN e.units ELSE 0),
                        pending  |-> old.pending - e.units]]

Carried(b) == IF Available(b) < CarryLimit THEN Available(b) ELSE CarryLimit

Renew(S, year) ==
    /\ \A b \in S : book[b].pending = 0
    /\ book' = [b \in Balances |->
         IF b \in S THEN [entitled |-> Carried(b) + year[b], used |-> 0, pending |-> 0]
         ELSE book[b]]
    /\ UNCHANGED entry

Next ==
    \/ \E r \in Requests, b \in Balances, u \in UnitChoices : Reserve(r, b, u)
    \/ \E r \in Requests, used \in BOOLEAN : Settle(r, used)
    \/ \E S \in SUBSET Balances : \E year \in [S -> GrantChoices] : Renew(S, year)

Spec == Init /\ [][Next]_ledger
=============================================================================

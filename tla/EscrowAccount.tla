----------------------------- MODULE EscrowAccount -----------------------------
(***************************************************************************)
(* What an escrow promises about its deposit, without milestones, disputes  *)
(* or requests: how money may leave it, and when it may no more.            *)
(***************************************************************************)
EXTENDS Integers

CONSTANT TotalAmount  \* the deposit

VARIABLES
    balance,  \* what the parties still have in the escrow
    paid,     \* what has left the contract
    penalty,  \* what a slash holds back
    lost,     \* what stays in the contract for nobody
    final,    \* the parties can move nothing more
    sound     \* none of the calls that break the books was made

account == <<balance, paid, penalty, lost, final, sound>>

Init ==
    /\ balance = TotalAmount /\ paid = 0
    /\ penalty = 0 /\ lost = 0
    /\ final = FALSE /\ sound = TRUE

\* A milestone is paid, or a part refunded, out of what the parties have.
PayOut ==
    /\ sound /\ ~final
    /\ balance' < balance /\ balance' >= 0
    /\ paid' = paid + (balance - balance')
    /\ UNCHANGED <<penalty, lost, sound>>

\* Everything that is left goes out at once, but for a penalty.
Settle ==
    /\ sound /\ ~final
    /\ penalty' >= penalty /\ penalty' - penalty <= balance
    /\ paid' = paid + balance - (penalty' - penalty)
    /\ balance' = 0
    /\ UNCHANGED <<lost, sound>>

\* The penalty of a closed account is paid, or lost to everybody.
EndPenalty ==
    /\ sound /\ final
    /\ penalty' = 0
    /\ \/ paid' = paid + penalty /\ UNCHANGED lost
       \/ lost' = lost + penalty /\ UNCHANGED paid
    /\ UNCHANGED <<balance, final, sound>>

\* A request for cancellation, or a refusal, changes no amount.
Conclude == sound /\ ~final /\ UNCHANGED <<balance, paid, penalty, lost, sound>>

\* The rent has run out: the rest is refunded and the records are deleted.
Remove ==
    /\ sound
    /\ final' = TRUE
    /\ paid' = paid + balance /\ balance' = 0
    /\ lost' = lost + penalty /\ penalty' = 0
    /\ UNCHANGED sound

\* A call that breaks the books, and all that comes after: what is left of the
\* promise is that no token stays in the contract without a record.
Break ==
    /\ ~sound'
    /\ TotalAmount - paid' <= balance' + penalty' + lost'

Next == PayOut \/ Settle \/ EndPenalty \/ Conclude \/ Remove \/ Break

AccountSpec == Init /\ [][Next]_account
=============================================================================

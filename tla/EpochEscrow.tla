---------------------------- MODULE EpochEscrow ----------------------------
(***************************************************************************)
(* What a market promises its two sides, without vaults, balances of       *)
(* holders, sends or controllers: each epoch is an escrow of its own with  *)
(* one pot per side.  The pots fill before the epoch begins, are settled   *)
(* once, together, in one of three ways, and are then shared out pro rata. *)
(* Amounts are read off the change of a pot, so nothing bounds them here.  *)
(***************************************************************************)
EXTENDS Integers

CONSTANTS
    Buyers, Sellers,   \* the side that pays the premium, the side that insures
    Epochs             \* escrows <<begin, end>>

VARIABLES
    clock,
    rate,      \* protocol fee of an epoch, in basis points
    open,      \* the epochs that take part
    settled,   \* the epochs that are over
    shares,    \* per side and epoch: what the parties can claim with
    pot,       \* per side and epoch: the money held for them
    stake,     \* the shares at settlement
    claim      \* the pot at settlement

vars == <<clock, rate, open, settled, shares, pot, stake, claim>>

Sides == {Buyers, Sellers}
Other(s) == IF s = Buyers THEN Sellers ELSE Buyers

Empty == [s \in Sides |-> [e \in Epochs |-> 0]]

Init ==
    /\ rate = [e \in Epochs |-> 0]
    /\ open = {} /\ settled = {}
    /\ shares = Empty /\ pot = Empty /\ stake = Empty /\ claim = Empty

Advance ==
    /\ clock' > clock
    /\ UNCHANGED <<rate, open, settled, shares, pot, stake, claim>>

Open(e) ==
    /\ e \notin open
    /\ open' = open \cup {e}
    /\ rate' = [rate EXCEPT ![e] = rate'[e]]
    /\ UNCHANGED <<clock, settled, shares, pot, stake, claim>>

\* One unit of money buys one share, and only before the epoch begins.
Join(s, e) ==
    LET amount == pot'[s][e] - pot[s][e]
    IN  /\ e \in open \ settled
        /\ clock <= e[1]
        /\ amount > 0
        /\ pot' = [pot EXCEPT ![s][e] = @ + amount]
        /\ shares' = [shares EXCEPT ![s][e] = @ + amount]
        /\ UNCHANGED <<clock, rate, open, settled, stake, claim>>

\* The same at the begin itself, when the escrow is already settled: the money
\* joins the pot, and the claims of all shares stay what they are.
JoinLate(s, e) ==
    LET amount == pot'[s][e] - pot[s][e]
    IN  /\ e \in settled
        /\ clock = e[1]
        /\ amount > 0
        /\ pot' = [pot EXCEPT ![s][e] = @ + amount]
        /\ shares' = [shares EXCEPT ![s][e] = @ + amount]
        /\ UNCHANGED <<clock, rate, open, settled, stake, claim>>

\* c is n less the protocol fee of e.
IsNet(c, n, e) == 0 <= c /\ c <= n /\ (n - c) * 10000 <= n * rate[e]

\* The insured event happened during the epoch: the pots change sides.
Insured(e) ==
    /\ e[1] <= clock /\ clock <= e[2]
    /\ \A s \in Sides : shares[s][e] > 0
    /\ \A s \in Sides : IsNet(claim'[s][e], shares[Other(s)][e], e)

\* The epoch ran out: the premium goes to the sellers.
Expired(e) ==
    /\ clock > e[2]
    /\ claim'[Buyers][e] = 0
    /\ IsNet(claim'[Sellers][e] - shares[Sellers][e], shares[Buyers][e], e)

\* There is nobody on the other side: no fee is taken.
Refunded(e) ==
    /\ \E s \in Sides : shares[s][e] = 0
    /\ \A s \in Sides : claim'[s][e] = shares[s][e]

Settle(e) ==
    /\ e \in open \ settled
    /\ clock >= e[1]
    /\ settled' = settled \cup {e}
    /\ Insured(e) \/ Expired(e) \/ Refunded(e)
    /\ stake' = [s \in Sides |-> [stake[s] EXCEPT ![e] = shares[s][e]]]
    /\ claim' = [s \in Sides |-> [claim[s] EXCEPT ![e] = claim'[s][e]]]
    /\ pot' = [s \in Sides |-> [pot[s] EXCEPT ![e] = claim'[s][e]]]
    /\ UNCHANGED <<clock, rate, open, shares>>

\* n shares leave with n/stake of the claim, rounded down; of a claim that is
\* the stake, with n.
Leave(s, e) ==
    LET n == shares[s][e] - shares'[s][e]
        pay == pot[s][e] - pot'[s][e]
    IN  /\ e \in settled
        /\ n > 0 /\ pay >= 0
        /\ \/ claim[s][e] = stake[s][e] /\ pay = n
           \/ /\ pay * stake[s][e] <= n * claim[s][e]
              /\ n * claim[s][e] < (pay + 1) * stake[s][e]
        /\ shares' = [shares EXCEPT ![s][e] = @ - n]
        /\ pot' = [pot EXCEPT ![s][e] = @ - pay]
        /\ UNCHANGED <<clock, rate, open, settled, stake, claim>>

Next ==
    \/ Advance
    \/ \E e \in Epochs :
          \/ Open(e)
          \/ Settle(e)
          \/ \E s \in Sides : Join(s, e) \/ JoinLate(s, e) \/ Leave(s, e)

Spec == Init /\ [][Next]_vars
=============================================================================

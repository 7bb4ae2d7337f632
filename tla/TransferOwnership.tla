-------------------------- MODULE TransferOwnership --------------------------
(***************************************************************************)
(* What the attended transfer of one call promises, with no database row,  *)
(* no event ledger and no threads: every attempt holds a right that it     *)
(* wins at most once, at most one attempt holds one at a time, and only    *)
(* the holder ever asks the provider to bridge the caller -- until the     *)
(* promise is broken, which is told, and after which nothing is promised.  *)
(* CallTransfer implements it (product/telephony/calls.py, transfer.py).   *)
(***************************************************************************)
CONSTANT Attempts    \* the attempt ids initiate_transfer() may generate

VARIABLES line,      \* "setup", "up" or "ended": what the call can still do
          right,     \* right[a]: how far attempt a has come
          broken     \* whether an attempt ever acted without the right to

aVars == <<line, right, broken>>

Rights == {"fresh", "claimed", "bridging", "spent"}

AInit == /\ line = "setup"
         /\ right = [a \in Attempts |-> "fresh"]
         /\ broken = FALSE

Live == {a \in Attempts : right[a] \in {"claimed", "bridging"}}

Connect == /\ line = "setup"
           /\ line' = "up"
           /\ UNCHANGED right

\* The call ends: a claim that was not yet consumed is worth nothing any more.
HangUp == /\ line # "ended"
          /\ line' = "ended"
          /\ right' = [a \in Attempts |-> IF right[a] = "claimed" THEN "spent"
                                                                  ELSE right[a]]

Claim(a) == /\ line = "up"
            /\ Live = {}
            /\ right[a] = "fresh"
            /\ right' = [right EXCEPT ![a] = "claimed"]
            /\ UNCHANGED line

Consume(a) == /\ line = "up"
              /\ right[a] = "claimed"
              /\ right' = [right EXCEPT ![a] = "bridging"]
              /\ UNCHANGED line

\* The attempt fails, finishes, loses the claim, or its process dies.
Surrender(a) == /\ right[a] # "spent"
                /\ right' = [right EXCEPT ![a] = "spent"]
                /\ UNCHANGED line

Keeps == \/ Connect
         \/ HangUp
         \/ \E a \in Attempts : Claim(a) \/ Consume(a) \/ Surrender(a)

ANext == \/ Keeps /\ broken' = broken
         \/ broken' = TRUE

ASpec == AInit /\ [][ANext]_aVars
=============================================================================

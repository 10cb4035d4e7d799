---------------------------- MODULE FundsCustody ----------------------------
(***************************************************************************)
(* What a universal swap promises about the user's tokens, whatever the    *)
(* number of chains, paths and failures in between: they leave the wallet  *)
(* at most once, they come to rest at most once, and a swap all of whose   *)
(* transfers can be recovered comes to rest with an owner, never with a    *)
(* contract.                                                               *)
(***************************************************************************)
VARIABLES
  guarded,  \* every transfer names somebody to recover the tokens
  place     \* "wallet", "transit", "owner" or "contract"

vars == <<guarded, place>>

Init == guarded \in BOOLEAN /\ place = "wallet"

\* The user's transaction takes the tokens.
Leave == place = "wallet" /\ place' = "transit" /\ UNCHANGED guarded

\* It ends on the same chain, or fails there.
Stay == place = "wallet" /\ place' = "owner" /\ UNCHANGED guarded

Arrive == place = "transit" /\ place' = "owner" /\ UNCHANGED guarded

Strand == ~guarded /\ place = "transit" /\ place' = "contract" /\ UNCHANGED guarded

Next == Leave \/ Stay \/ Arrive \/ Strand

Spec == Init /\ [][Next]_vars
=============================================================================

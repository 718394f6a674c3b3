------------------------- MODULE OwnershipAgreement -------------------------
(***************************************************************************)
(* What the transfer service promises of the ownership of a book, whatever *)
(* authors, targets, reviewers, admins and clocks do: at most one offer of *)
(* a book stands; it is made by the owner, and lapses when its target does *)
(* not answer in time; only an offer its target accepted while it stood is *)
(* completed, only from the owner who made it, and to that target.  Apart  *)
(* from that the owner changes by an override only, which leaves the       *)
(* standing offer as it is.  One step may move several books.              *)
(***************************************************************************)
CONSTANTS Books, Users, FirstOwner, None

VARIABLES holder, offer

Offer == [from: Users, to: Users, stage: {"made", "lapsed", "accepted"}]

Init == /\ holder = [b \in Books |-> FirstOwner]
        /\ offer = [b \in Books |-> None]

Standing(b) == offer[b] \in Offer
Kept(b) == holder'[b] = holder[b]

Make(b) ==
  /\ Standing(b) => offer[b].stage = "lapsed"
  /\ \E to \in Users \ {holder[b]} :
       offer'[b] = [from |-> holder[b], to |-> to, stage |-> "made"]
  /\ Kept(b)
Lapse(b) ==
  /\ Standing(b) /\ offer[b].stage = "made"
  /\ offer'[b] = [offer[b] EXCEPT !.stage = "lapsed"]
  /\ Kept(b)
Accept(b) ==
  /\ Standing(b) /\ offer[b].stage = "made"
  /\ offer'[b] = [offer[b] EXCEPT !.stage = "accepted"]
  /\ Kept(b)
Drop(b) == Standing(b) /\ offer'[b] = None /\ Kept(b)
Complete(b) ==
  /\ Standing(b) /\ offer[b].stage = "accepted" /\ offer[b].from = holder[b]
  /\ holder'[b] = offer[b].to /\ offer'[b] = None
Override(b) ==
  /\ holder'[b] \in Users \ {holder[b]}
  /\ offer'[b] = offer[b]

Move(b) ==
  \/ offer'[b] = offer[b] /\ Kept(b)
  \/ Make(b) \/ Lapse(b) \/ Accept(b) \/ Drop(b) \/ Complete(b) \/ Override(b)

Next ==
  /\ holder' \in [Books -> Users]
  /\ offer' \in [Books -> Offer \cup {None}]
  /\ \A b \in Books : Move(b)

Spec == Init /\ [][Next]_<<holder, offer>>
=============================================================================

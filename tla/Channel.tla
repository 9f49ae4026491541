------------------------------ MODULE Channel -------------------------------
(* What the directions of the bridge promise (spec section 3): the frames  *)
(* handed to a direction are delivered in the order they were handed      *)
(* over, each exactly once and unchanged, until the direction is closed;  *)
(* a frame that waits while its direction stays open is eventually        *)
(* delivered.  The directions are independent of each other.  Pump and    *)
(* Forwarder show that their directions implement this by an              *)
(* INSTANCE ... WITH refinement mapping.                                  *)
EXTENDS Naturals, Sequences

CONSTANT Dirs  \* the directions

VARIABLES
    sent,      \* sent[d]: the frames handed to direction d, in order
    delivered, \* delivered[d]: the frames d has delivered, in order
    open       \* open[d]: direction d still runs

vars == <<sent, delivered, open>>

Init ==
    /\ sent = [d \in Dirs |-> <<>>]
    /\ delivered = [d \in Dirs |-> <<>>]
    /\ open = [d \in Dirs |-> TRUE]

\* a frame is handed to d (its contents are whatever the sender chose)
Send(d) ==
    /\ Len(sent'[d]) = Len(sent[d]) + 1
    /\ SubSeq(sent'[d], 1, Len(sent[d])) = sent[d]
    /\ \A e \in Dirs \ {d} : sent'[e] = sent[e]
    /\ DOMAIN sent' = Dirs
    /\ UNCHANGED <<delivered, open>>

\* the oldest frame d has not yet delivered is delivered; it may be the
\* last thing d does
Deliver(d) ==
    /\ open[d]
    /\ Len(delivered[d]) < Len(sent[d])
    /\ delivered' = [delivered EXCEPT ![d] = Append(@, sent[d][Len(@) + 1])]
    /\ open' \in {open, [open EXCEPT ![d] = FALSE]}
    /\ UNCHANGED sent

\* some open directions stop for good, at once
Close ==
    /\ open' # open
    /\ open' \in [Dirs -> BOOLEAN]
    /\ \A d \in Dirs : open'[d] => open[d]
    /\ UNCHANGED <<sent, delivered>>

Next == (\E d \in Dirs : Send(d) \/ Deliver(d)) \/ Close

Spec == Init /\ [][Next]_vars /\ \A d \in Dirs : WF_vars(Deliver(d))

=============================================================================

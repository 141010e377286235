--------------------------- MODULE Subscriptions ---------------------------
(***************************************************************************)
(* What label discovery promises, without broadcasts, handles and threads: *)
(* every node offers labels, each of one size, and serves an offered label *)
(* to a set of nodes.  A node enters that set only if it has asked for the *)
(* label in the offered size, nodes come and go one at a time, and a label *)
(* that is no longer offered is served to nobody.  A node that stops       *)
(* withdraws all its labels at once.                                       *)
(***************************************************************************)
CONSTANTS Nodes, Labels, Sizes

VARIABLES
    asked,  \* <<node, label, size>>: what nodes have ever asked for
    offer,  \* the size in which each node offers each label, 0 if it does not
    served  \* whom each node sends each label to

vars == <<asked, offer, served>>

Init ==
    /\ asked = {}
    /\ offer = [n \in Nodes |-> [l \in Labels |-> 0]]
    /\ served = [n \in Nodes |-> [l \in Labels |-> {}]]

Ask(n, l, s) ==
    /\ asked' = asked \union {<<n, l, s>>}
    /\ UNCHANGED <<offer, served>>

Offer(n, l, s) ==
    /\ offer[n][l] = 0
    /\ offer' = [offer EXCEPT ![n][l] = s]
    /\ UNCHANGED <<asked, served>>

Withdraw(n, l) ==
    /\ offer' = [offer EXCEPT ![n][l] = 0]
    /\ served' = [served EXCEPT ![n][l] = {}]
    /\ UNCHANGED asked

Serve(n, l, m) ==
    /\ offer[n][l] # 0 /\ <<m, l, offer[n][l]>> \in asked
    /\ served' = [served EXCEPT ![n][l] = @ \union {m}]
    /\ UNCHANGED <<asked, offer>>

Drop(n, l, m) ==
    /\ served' = [served EXCEPT ![n][l] = @ \ {m}]
    /\ UNCHANGED <<asked, offer>>

Leave(n) ==
    /\ offer' = [offer EXCEPT ![n] = [l \in Labels |-> 0]]
    /\ served' = [served EXCEPT ![n] = [l \in Labels |-> {}]]
    /\ UNCHANGED asked

Next ==
    \/ \E n \in Nodes : Leave(n)
    \/ \E n \in Nodes, l \in Labels :
          \/ \E s \in Sizes : Ask(n, l, s) \/ Offer(n, l, s)
          \/ Withdraw(n, l)
          \/ \E m \in Nodes : Serve(n, l, m) \/ Drop(n, l, m)

Spec == Init /\ [][Next]_vars
=============================================================================

-------------------------------- MODULE Inbox --------------------------------
(***************************************************************************)
(* What the notification service promises its users, without queue,        *)
(* processes and retries: a published event may put one notification into  *)
(* the inbox of each of its addressees, unread, at any time and for some   *)
(* of them first; what a user has is the user's to read and to delete; and *)
(* the event is settled only when every active addressee has been          *)
(* notified. A deleted notification may come back, as a new one.           *)
(***************************************************************************)
CONSTANTS Events, Users,
          Addressees     \* Addressees[e]: the users that e is for

VARIABLES
  active,     \* users that have not been deactivated
  published,  \* events whose publication was asked for
  settled,    \* events that count as delivered
  inbox       \* inbox[e][u]: the notification of e that u has, or had

vars == <<active, published, settled, inbox>>

Held == {"unread", "read"}
Has(e, u) == inbox[e][u] \in Held

Init ==
  /\ active = Users
  /\ published = {} /\ settled = {}
  /\ inbox = [e \in Events |-> [u \in Users |-> "none"]]

Publish(e) ==
  /\ published' = published \cup {e}
  /\ UNCHANGED <<active, settled, inbox>>

Notify(e, us) ==
  /\ e \in published /\ us \subseteq Addressees[e]
  /\ inbox' = [inbox EXCEPT ![e] =
       [u \in Users |-> IF u \in us /\ ~Has(e, u) THEN "unread" ELSE @[u]]]
  /\ UNCHANGED <<active, published, settled>>

Settle(e) ==
  /\ e \in published
  /\ \A u \in Addressees[e] \cap active : inbox[e][u] # "none"
  /\ settled' = settled \cup {e}
  /\ UNCHANGED <<active, published, inbox>>

MarkReadState(e, u, state) ==
  /\ Has(e, u) /\ state \in Held
  /\ inbox' = [inbox EXCEPT ![e][u] = state]
  /\ UNCHANGED <<active, published, settled>>

MarkAllAsRead(u) ==
  /\ inbox' = [e \in Events |-> [inbox[e] EXCEPT ![u] = IF @ = "unread" THEN "read" ELSE @]]
  /\ UNCHANGED <<active, published, settled>>

Delete(e, u) ==
  /\ Has(e, u)
  /\ inbox' = [inbox EXCEPT ![e][u] = "deleted"]
  /\ UNCHANGED <<active, published, settled>>

Deactivate(u) ==
  /\ active' = active \ {u}
  /\ UNCHANGED <<published, settled, inbox>>

Next ==
  \/ \E e \in Events : Publish(e) \/ Settle(e) \/ \E us \in SUBSET Users : Notify(e, us)
  \/ \E e \in Events, u \in Users : Delete(e, u) \/ \E state \in Held : MarkReadState(e, u, state)
  \/ \E u \in Users : MarkAllAsRead(u) \/ Deactivate(u)

Spec == Init /\ [][Next]_vars
=============================================================================

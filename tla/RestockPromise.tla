--------------------------- MODULE RestockPromise ---------------------------
(***************************************************************************)
(* What the Customers service promises a subscriber, without transactions, *)
(* queues or read models: a subscription waits until it is processed or    *)
(* deleted; only a subscription that was processed while it existed is     *)
(* notified; and one that stays processed is notified in the end.          *)
(***************************************************************************)
CONSTANT Subs

VARIABLES
  status,     \* "none", "waiting", "processed" or "deleted"
  due,        \* subscriptions whose subscriber may be written to
  notified    \* subscriptions whose subscriber has been written to

vars == <<status, due, notified>>

Init ==
  /\ status = [s \in Subs |-> "none"]
  /\ due = {}
  /\ notified = {}

Become(S, new) == status' = [s \in Subs |-> IF s \in S THEN new ELSE status[s]]

Subscribe(s) ==
  /\ status[s] = "none"
  /\ Become({s}, "waiting")
  /\ UNCHANGED <<due, notified>>

\* The product is back: some of those who waited are processed.
Restock(S) ==
  /\ \A s \in S : status[s] = "waiting"
  /\ Become(S, "processed")
  /\ due' = due \cup S
  /\ UNCHANGED notified

\* A deletion ends the promise, but a notification may be under way.
Cancel(S) ==
  /\ \A s \in S : status[s] # "none"
  /\ Become(S, "deleted")
  /\ due' \in {due \ T : T \in SUBSET S}
  /\ UNCHANGED notified

Notify(s) ==
  /\ s \in due
  /\ notified' = notified \cup {s}
  /\ due' = due \/ (status[s] = "deleted" /\ due' = due \ {s})
  /\ UNCHANGED status

Withdraw(s) ==
  /\ status[s] = "deleted"
  /\ due' = due \ {s}
  /\ UNCHANGED <<status, notified>>

Next ==
  \/ \E s \in Subs : Subscribe(s) \/ Notify(s) \/ Withdraw(s)
  \/ \E S \in SUBSET Subs : Restock(S) \/ Cancel(S)

Spec == Init /\ [][Next]_vars /\ \A s \in Subs : WF_vars(Notify(s))
=============================================================================

------------------------------- MODULE MCSpa --------------------------------
(***************************************************************************)
(* Spa on small sets.  A behaviour has one of several scopes: the routes   *)
(* it visits, the sessions there are, the loads of the document, and one   *)
(* of the two failures without a title that does not occur.  Where there   *)
(* are no loads there is no login or logout either.                        *)
(***************************************************************************)
EXTENDS Spa

VARIABLE scope

\* A problem that states no status of its own, a problem with an empty body, a
\* status missing in the table, and no response.
MCFailures ==
  {[status |-> 404,  problem |-> TRUE,  body |-> "object", ownStatus |-> None, errors |-> FALSE],
   [status |-> 502,  problem |-> TRUE,  body |-> "other",  ownStatus |-> None, errors |-> FALSE],
   [status |-> 429,  problem |-> FALSE, body |-> "object", ownStatus |-> None, errors |-> FALSE],
   [status |-> None, problem |-> FALSE, body |-> "other",  ownStatus |-> None, errors |-> FALSE]}

MCHistory == [name : {"details", "edit"}, id : Products]

Scope(names, ids, sessions, maxLoads, without) ==
  [routes |-> {r \in Route : r.name \in names /\ r.id \in ids \cup {NoProduct}},
   sessions |-> sessions \cup {NoSession}, maxLoads |-> maxLoads, without |-> without]

Scopes ==
  LET p == CHOOSE p \in Products : TRUE
  IN  {Scope({"products", "new"}, {}, {}, 0, 502),
       Scope({"details", "edit"}, Products, {}, 0, 502),
       Scope({"products", "details", "edit"}, {p}, {}, 0, 429),
       Scope({"home", "account"}, {}, Sessions, 0, 429),
       Scope({"account"}, {}, Sessions, MaxLoads, 429),
       Scope({"account", "edit"}, {p}, {}, MaxLoads, 429)}

Within ==
  /\ route \in scope.routes /\ session \in scope.sessions
  /\ \A f \in unnamed : f.status # scope.without
  /\ scope.maxLoads = 0 => loads = 0 /\ leaving = Nowhere

MCInit == scope \in Scopes /\ Init /\ Within

MCNext == Next /\ scope' = scope /\ Within'

MCSpec ==
  /\ MCInit /\ [][MCNext]_<<vars, scope>>
  /\ WF_vars(PageAnswered) /\ WF_vars(SessionAsked)
=============================================================================

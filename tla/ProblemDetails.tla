--------------------------- MODULE ProblemDetails ---------------------------
(***************************************************************************)
(* What the single-page application makes of a request that failed: the    *)
(* interceptor of axios-utils.ts turns the response into problem details   *)
(* with a title, shows the title in a toast and rejects with it.  When the *)
(* table of defaults has no entry for the status, getDefaultProblemDetails *)
(* throws inside the interceptor, and so does applyDefaults for a body     *)
(* that is no object: the request is then rejected with a plain Error,     *)
(* without a title, and nothing is shown.                                  *)
(*                                                                         *)
(* A failure is [status, problem, body, ownStatus, errors]: the HTTP       *)
(* status (None when no response came), whether the response is recognised *)
(* as problem details, whether its body is an object, the status the body  *)
(* states (None when it states none), and whether it has a member errors.  *)
(***************************************************************************)
EXTENDS Naturals

None == 0

Status == {None} \cup 100 .. 599

\* A body that is no object (an empty one, say) has no members; the content type
\* alone may declare it problem details.
Failure ==
  [status : Status, problem : BOOLEAN, body : {"object"}, ownStatus : Status,
   errors : BOOLEAN]
    \cup [status : Status, problem : BOOLEAN, body : {"other"}, ownStatus : {None},
          errors : {FALSE}]

\* The statuses ProblemDetailsDefaults has a type and a title for.
KnownStatuses ==
  {400, 401} \cup 403 .. 417 \cup {421, 422, 426} \cup 500 .. 505

StatusWithoutFallback(problem, statusCode) ==
  IF problem.status # None THEN problem.status ELSE statusCode

\* ProblemDetailsUtils.applyDefaults, up to the look-up in the table.
FinalStatus(problem, statusCode) ==
  IF problem.status # None THEN problem.status
  ELSE IF statusCode # None THEN statusCode
  ELSE IF problem.errors THEN 400 ELSE 500

\* getProblemDetails: a body that is problem details is kept, anything else is
\* replaced by details made from the status.
Recognised(f) == f.status # None /\ f.problem

ProblemOf(f) ==
  IF Recognised(f) THEN [status |-> f.ownStatus, errors |-> f.errors]
  ELSE [status |-> f.status, errors |-> FALSE]

\* applyDefaults and getDefaultProblemDetails return for the failures that are
\* titled.  applyDefaults cannot set the status of what is no object.
Titled(f) ==
  /\ Recognised(f) => f.body = "object"
  /\ FinalStatus(ProblemOf(f), f.status) \in KnownStatuses

\* A toast with the title appears, and the title reaches the caller, or neither.
Toasted(f) == Titled(f)

CallerError(f) == IF Titled(f) THEN "message" ELSE "blank"
=============================================================================

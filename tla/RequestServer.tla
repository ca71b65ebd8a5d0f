---------------------------- MODULE RequestServer ----------------------------
(***************************************************************************)
(* What one connection promises a client that keeps to the framing: its    *)
(* requests are answered one by one and in order, with an answer that fits *)
(* the request.  Nothing else is ever sent, and a request that fails to    *)
(* authorize, and those after it, are never answered.                      *)
(***************************************************************************)
EXTENDS Naturals, Sequences

CONSTANT Requests   \* what a client may send

VARIABLES
    password,       \* is a password configured
    requests,       \* what the client has sent
    answers         \* what it was answered

vars == <<password, requests, answers>>

Authorizes(request) == request.json /\ request.auth = "right"

(* May the k-th request be executed? *)
Unlocked(k) == ~password \/ \E j \in 1 .. k - 1 : Authorizes(requests[j])

(* What a request that may be executed is answered. *)
CommandAnswers(request) ==
    CASE request.cmd = "none" -> {"NO_COMMAND_SPECIFIED"}
      [] request.cmd = "unknown" -> {"UNKNOWN_COMMAND"}
      [] request.cmd = "LIST" -> {"list"}
      [] request.cmd \in {"QUERY", "DELETE_DB"} /\ ~request.db -> {"NO_DATABASE_SPECIFIED"}
      [] request.cmd = "QUERY" /\ request.db -> {"rows", "sqlError"}
      [] request.cmd = "DELETE_DB" /\ request.db -> {"ok", "error"}

AnswersTo(k) ==
    IF ~requests[k].json THEN {"INVALID_FORMAT"}
    ELSE IF Unlocked(k) THEN CommandAnswers(requests[k])
    ELSE IF Authorizes(requests[k]) THEN {"ok"} ELSE {}

Init == password \in BOOLEAN /\ requests = <<>> /\ answers = <<>>

Ask ==
    /\ \E r \in Requests : requests' = Append(requests, r)
    /\ UNCHANGED <<password, answers>>

Answer ==
    /\ Len(answers) < Len(requests)
    /\ \E a \in AnswersTo(Len(answers) + 1) : answers' = Append(answers, a)
    /\ UNCHANGED <<password, requests>>

Spec == Init /\ [][Ask \/ Answer]_vars

=============================================================================

------------------------------ MODULE MCSession ------------------------------
(* Instantiates Session for TLC: one configured user, a second unknown one, *)
(* and the Authorization headers that exercise every early return of       *)
(* session::authenticate.                                                  *)
EXTENDS Session

CONSTANTS u1, u2, p1, p2

MCCredentials == [u \in {u1} |-> p1]

MCAuthHeaders ==
  { [scheme |-> "Basic",  user |-> u1,      pass |-> p1],   \* valid
    [scheme |-> "Basic",  user |-> u1,      pass |-> p2],   \* wrong password
    [scheme |-> "Basic",  user |-> u2,      pass |-> p1],   \* unknown user
    [scheme |-> "Basic",  user |-> NoColon, pass |-> p1],   \* no ':'
    [scheme |-> "Bearer", user |-> u1,      pass |-> p1] }  \* not Basic

ValidHeader == [scheme |-> "Basic", user |-> u1, pass |-> p1]

=============================================================================

---------------------------- MODULE RequestBoard ----------------------------
(***************************************************************************)
(* What access requests promise: a person has one open request per          *)
(* application, a request is decided once, and an approval issues one grant *)
(* of its own.                                                               *)
(***************************************************************************)
EXTENDS Naturals, Sequences

CONSTANTS Users, Apps

VARIABLES
    requests,  \* rows [status, user, of, grant], in the order they were filed
    issued     \* grants issued so far; the next one has the next number

boardVars == <<requests, issued>>

Open(u, a) ==
    \E i \in DOMAIN requests :
        requests[i].status = "PENDING" /\ requests[i].user = u /\ requests[i].of = a

File(u, a) ==
    /\ ~ Open(u, a)
    /\ requests' = Append(requests, [status |-> "PENDING", user |-> u, of |-> a, grant |-> 0])
    /\ UNCHANGED issued

Approve(i) ==
    /\ requests[i].status = "PENDING"
    /\ issued' = issued + 1
    /\ requests' = [requests EXCEPT ![i].status = "APPROVED", ![i].grant = issued']

Deny(i) ==
    /\ requests[i].status = "PENDING"
    /\ requests' = [requests EXCEPT ![i].status = "DENIED"]
    /\ UNCHANGED issued

GrantDirectly == issued' = issued + 1 /\ UNCHANGED requests

Init == requests = <<>> /\ issued \in Nat

Next ==
    \/ \E u \in Users, a \in Apps : File(u, a)
    \/ \E i \in DOMAIN requests : Approve(i) \/ Deny(i)
    \/ GrantDirectly

Spec == Init /\ [][Next]_boardVars
=============================================================================

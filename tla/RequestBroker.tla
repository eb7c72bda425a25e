--------------------------- MODULE RequestBroker ----------------------------
(***************************************************************************)
(* What the mux promises its clients, whatever goes on inside: clients     *)
(* come and go and ask; each request is answered once or not at all, with  *)
(* an error or with the response to a request it may stand for; an answer  *)
(* is never taken back or changed, and nobody is answered after leaving.   *)
(***************************************************************************)
EXTENDS Sequences

CONSTANT Request   \* pairs whose first component is the client

VARIABLES
    members,   \* the clients that are registered
    asked,     \* what each request asked, none before it is made
    answers    \* what each request was answered

\* An error, or a response: to the call itself, to some initialize.
MayAnswer(a, r, kinds) ==
    \/ a = {}
    \/ \E q \in Request :
         a = {q} /\ kinds[q] = kinds[r] /\ (kinds[r] = "call" => q = r)

Init ==
    /\ members = {}
    /\ asked = [r \in Request |-> "none"]
    /\ answers = [r \in Request |-> <<>>]

ComeAndGo == members' # members /\ UNCHANGED <<asked, answers>>

\* Some of the requests made and not answered get their answer.
Answering ==
    \A r \in Request :
        \/ answers'[r] = answers[r]
        \/ /\ answers[r] = <<>> /\ asked'[r] # "none" /\ r[1] \in members
           /\ Len(answers'[r]) = 1 /\ MayAnswer(answers'[r][1], r, asked')

\* A request is made, and may be answered at once.
Ask ==
    /\ \E r \in Request, k \in {"initialize", "call", "large"} :
         asked[r] = "none" /\ asked' = [asked EXCEPT ![r] = k]
    /\ Answering /\ UNCHANGED members

Answer == answers' # answers /\ Answering /\ UNCHANGED <<members, asked>>

Next == ComeAndGo \/ Ask \/ Answer

Spec == Init /\ [][Next]_<<members, asked, answers>>

=============================================================================

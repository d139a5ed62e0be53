---------------------------- MODULE ApprovalGate ----------------------------
(***************************************************************************)
(* What the approval flow promises to the user of FreeCLI, with nothing of *)
(* how it is done: a mutating worker operation is requested, the user may  *)
(* answer its prompt once, and the operation ends performed or denied.     *)
(* Only an approved operation may be performed; an approved one may still  *)
(* be denied (the answer came after the deadline).                         *)
(*                                                                         *)
(* ApprovalBus is the detailed specification and implements this one.      *)
(***************************************************************************)

CONSTANT Ops     \* the requested operations, named by their corr_id

VARIABLES status, \* what became of each operation
          yes,    \* operations whose prompt the user answered Y
          no      \* operations whose prompt the user answered N

vars == <<status, yes, no>>

Status == {"idle", "open", "performed", "denied"}

TypeOK ==
    /\ status \in [Ops -> Status]
    /\ yes \subseteq Ops
    /\ no \subseteq Ops

Init ==
    /\ status = [c \in Ops |-> "idle"]
    /\ yes = {}
    /\ no = {}

\* The user asks for an operation.
Request(c) ==
    /\ status[c] = "idle"
    /\ status' = [status EXCEPT ![c] = "open"]
    /\ UNCHANGED <<yes, no>>

\* The user answers the prompt of an operation, once; the operation may
\* have been denied by the deadline already.
Answer(c) ==
    /\ status[c] # "idle"
    /\ c \notin yes \cup no
    /\ \/ yes' = yes \cup {c} /\ no' = no
       \/ no' = no \cup {c} /\ yes' = yes
    /\ UNCHANGED status

Perform(c) ==
    /\ status[c] = "open"
    /\ c \in yes
    /\ status' = [status EXCEPT ![c] = "performed"]
    /\ UNCHANGED <<yes, no>>

Deny(c) ==
    /\ status[c] = "open"
    /\ status' = [status EXCEPT ![c] = "denied"]
    /\ UNCHANGED <<yes, no>>

Next == \E c \in Ops : Request(c) \/ Answer(c) \/ Perform(c) \/ Deny(c)

Spec == Init /\ [][Next]_vars

\* Every requested operation is eventually closed one way or the other.
Fairness == \A c \in Ops : WF_vars(Perform(c) \/ Deny(c))
FairSpec == Spec /\ Fairness
=============================================================================

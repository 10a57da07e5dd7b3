-------------------------- MODULE CommandDelivery --------------------------
(***************************************************************************)
(* What the control plane and a relay promise together about the commands  *)
(* of one deployment, whatever is lost on the way: a command is answered   *)
(* at most once, it is answered "succeeded" only when its work in AWS      *)
(* succeeded, and no work starts again after that.                         *)
(*                                                                         *)
(* RelayCommands implements this specification.                            *)
(***************************************************************************)
CONSTANTS
    Commands,
    Unawaited   \* commands whose success may be told before their work ends

VARIABLES
    answer,  \* what the vendor is told: "none", "open", "succeeded", "failed"
    work     \* what happens in AWS: "none", "running", "ok", "failed"

vars == << answer, work >>

Answers == { "none", "open", "succeeded", "failed" }
Works == { "none", "running", "ok", "failed" }

TypeOK ==
    /\ answer \in [ Commands -> Answers ]
    /\ work \in [ Commands -> Works ]

Init ==
    /\ answer = [ c \in Commands |-> "none" ]
    /\ work = [ c \in Commands |-> "none" ]

\* A command is requested; that may end another one that it makes obsolete.
Request(c) ==
    /\ answer[c] = "none"
    /\ \E obsolete \in SUBSET { d \in Commands : answer[d] = "open" } :
           answer' = [ d \in Commands |-> IF d = c THEN "open"
                                          ELSE IF d \in obsolete THEN "failed"
                                          ELSE answer[d] ]
    /\ UNCHANGED work

\* Work starts, and may end at once.  It may outlive a command that was
\* given up, but none starts after a success.
Begin(c) ==
    /\ answer[c] \in { "open", "failed" }
    /\ \E now \in Works \ { "none" } : work' = [ work EXCEPT ![c] = now ]
    /\ UNCHANGED answer

End(c) ==
    /\ work[c] = "running"
    /\ \E outcome \in { "ok", "failed" } : work' = [ work EXCEPT ![c] = outcome ]
    /\ UNCHANGED answer

Succeed(c) ==
    /\ answer[c] = "open"
    /\ work[c] = "ok" \/ (c \in Unawaited /\ work[c] # "none")
    /\ answer' = [ answer EXCEPT ![c] = "succeeded" ]
    /\ UNCHANGED work

Fail(c) ==
    /\ answer[c] = "open"
    /\ answer' = [ answer EXCEPT ![c] = "failed" ]
    /\ UNCHANGED work

Next == \E c \in Commands :
            Request(c) \/ Begin(c) \/ End(c) \/ Succeed(c) \/ Fail(c)

Spec == Init /\ [][Next]_vars

=============================================================================

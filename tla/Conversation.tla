---------------------------- MODULE Conversation ----------------------------
(***************************************************************************)
(* What the host's end of the plugin protocol promises its callers: a call *)
(* begins only while the conversation lasts, is answered with what the     *)
(* plugin said to that very call, and fails for the end of the             *)
(* conversation only when it has ended; one that was given up stays so.    *)
(***************************************************************************)
CONSTANT Calls

VARIABLES
    fate,  \* what each call came to, as its caller sees it
    said,  \* what the plugin answered each call
    over   \* the conversation has ended

convVars == <<fate, said, over>>

ConvInit ==
    /\ fate = [c \in Calls |-> "new"]
    /\ said = [c \in Calls |-> "nothing"]
    /\ over = FALSE

Begin(c) ==
    /\ fate[c] = "new"
    /\ ~over
    /\ fate' = [fate EXCEPT ![c] = "open"]
    /\ UNCHANGED <<said, over>>

Say(c) ==
    /\ fate[c] # "new"
    /\ said[c] = "nothing"
    /\ \E r \in {"value", "error"} : said' = [said EXCEPT ![c] = r]
    /\ UNCHANGED <<fate, over>>

Finish(c) ==
    /\ fate[c] = "open"
    /\ said[c] # "nothing"
    /\ fate' = [fate EXCEPT ![c] = said[c]]
    /\ UNCHANGED <<said, over>>

Fail(c) ==
    /\ fate[c] \in {"new", "open"}
    /\ over
    /\ fate' = [fate EXCEPT ![c] = "closed"]
    /\ UNCHANGED <<said, over>>

Abandon(c) ==
    /\ fate[c] = "open"
    /\ fate' = [fate EXCEPT ![c] = "given up"]
    /\ UNCHANGED <<said, over>>

End == over' = TRUE /\ UNCHANGED <<fate, said>>

ConvNext ==
    \/ End
    \/ \E c \in Calls : Begin(c) \/ Say(c) \/ Finish(c) \/ Fail(c) \/ Abandon(c)

ConvSpec == ConvInit /\ [][ConvNext]_convVars
=============================================================================

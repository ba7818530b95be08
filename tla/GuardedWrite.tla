---------------------------- MODULE GuardedWrite ----------------------------
(***************************************************************************)
(* What Dexo promises the person whose database an agent writes to: a      *)
(* write runs under an access that covers it, after the person said yes    *)
(* to it under that very access, or because the access lets it run without *)
(* asking; no access runs anything once it is taken back; a request is     *)
(* answered once; and one operation id is run once.                        *)
(***************************************************************************)
CONSTANTS
    Grants,  \* the accesses a person may give
    Calls,   \* the agents' calls
    Ids      \* the operation ids, of each server

VARIABLES
    access,   \* whether each access was given, and taken back
    covers,   \* the accesses that cover each call's write
    exempt,   \* those that let it run without asking
    id,       \* the operation id of each call, once it is made
    about,    \* the access the person is asked about
    answer,   \* what became of the request
    word,     \* what the person was told their answer did
    stage,    \* how far each write is
    under,    \* the access it runs under
    claimed,  \* the operation ids that are run, or were
    written   \* the writes that are in the database

guardVars ==
    <<access, covers, exempt, id, about, answer, word, stage, under, claimed, written>>

GuardInit ==
    /\ access = [g \in Grants |-> "none"]
    /\ covers = [c \in Calls |-> {}]
    /\ exempt = [c \in Calls |-> {}]
    /\ id = [c \in Calls |-> {}]
    /\ about = [c \in Calls |-> {}]
    /\ answer = [c \in Calls |-> "none"]
    /\ word = [c \in Calls |-> {}]
    /\ stage = [c \in Calls |-> "waits"]
    /\ under = [c \in Calls |-> {}]
    /\ claimed = {}
    /\ written = {}

\* What a person lets run, and without asking, is never less than it was while the access
\* lasts: it is taken back as a whole.
Widen == \A c \in Calls : covers[c] \subseteq covers'[c] /\ exempt[c] \subseteq exempt'[c]

\* A call is made, or refused at once.
Arrive(c, i) ==
    /\ id[c] = {}
    /\ id' = [id EXCEPT ![c] = {i}]
    /\ stage' \in {stage, [stage EXCEPT ![c] = "over"]}
    /\ Widen
    /\ UNCHANGED <<access, about, answer, word, under, claimed, written>>

AskFor(c, g) ==
    /\ stage[c] = "waits" /\ answer[c] = "none"
    /\ access[g] = "live" /\ g \in covers[c] \ exempt[c]
    /\ about' = [about EXCEPT ![c] = {g}]
    /\ answer' = [answer EXCEPT ![c] = "open"]
    /\ UNCHANGED <<access, covers, exempt, id, word, stage, under, claimed, written>>

\* The person answers, once, and is told so.
Say(c, decision, told) ==
    /\ answer[c] = "open"
    /\ answer' = [answer EXCEPT ![c] = decision]
    /\ word' = [word EXCEPT ![c] = @ \cup {told}]
    /\ UNCHANGED <<access, covers, exempt, id, about, stage, under, claimed, written>>

Approve(c) == Say(c, "yes", "approved")
Deny(c)    == Say(c, "no", "denied")

Clear(c, g) ==
    /\ stage[c] = "waits"
    /\ access[g] = "live" /\ g \in covers[c]
    /\ \/ answer[c] = "yes" /\ about[c] = {g}
       \/ answer[c] = "none" /\ g \in exempt[c]
    /\ stage' = [stage EXCEPT ![c] = "cleared"]
    /\ under' = [under EXCEPT ![c] = {g}]
    /\ UNCHANGED <<access, covers, exempt, id, about, answer, word, claimed, written>>

Claim(c) ==
    /\ stage[c] = "cleared"
    /\ id[c] \cap claimed = {}
    /\ stage' = [stage EXCEPT ![c] = "claimed"]
    /\ claimed' = claimed \cup id[c]
    /\ UNCHANGED <<access, covers, exempt, id, about, answer, word, under, written>>

Start(c) ==
    /\ stage[c] = "claimed"
    /\ \A g \in under[c] : access[g] = "live"
    /\ stage' = [stage EXCEPT ![c] = "running"]
    /\ UNCHANGED <<access, covers, exempt, id, about, answer, word, under, claimed, written>>

Commit(c) ==
    /\ stage[c] = "running"
    /\ stage' = [stage EXCEPT ![c] = "over"]
    /\ written' = written \cup {c}
    /\ UNCHANGED <<access, covers, exempt, id, about, answer, word, under, claimed>>

\* Anything else gives an access or takes it back, turns requests down or forgets them, and
\* ends calls, any number of them at once.
Fades(old, new) ==
    \/ new = old
    \/ old = "open" /\ new = "no"
    \/ old # "none" /\ new = "gone"

Turn ==
    /\ \A g \in Grants : <<access[g], access'[g]>> \in
           {<<access[g], access[g]>>, <<"none", "live">>, <<"live", "revoked">>}
    /\ \A c \in Calls : Fades(answer[c], answer'[c])
    /\ \A c \in Calls : stage'[c] \in {stage[c], "over"}
    /\ Widen
    /\ UNCHANGED <<id, about, word, under, claimed, written>>

GuardNext ==
    \/ Turn
    \/ \E c \in Calls : \/ \E i \in Ids : Arrive(c, i)
                        \/ \E g \in Grants : AskFor(c, g) \/ Clear(c, g)
                        \/ Approve(c) \/ Deny(c)
                        \/ Claim(c) \/ Start(c) \/ Commit(c)

GuardedSpec == GuardInit /\ [][GuardNext]_guardVars
=============================================================================

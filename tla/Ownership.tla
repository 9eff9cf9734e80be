------------------------------ MODULE Ownership ------------------------------
(***************************************************************************)
(* What handoff promises, without transactions, requests or a clock: the    *)
(* conversation is with the AI, in a queue or with an agent, and each       *)
(* change of hands is one step that also leaves its word in the thread.     *)
(***************************************************************************)
CONSTANTS Agents, None

VARIABLES
    state,   \* who answers next
    agent,   \* the member who claimed the conversation, or None
    word     \* what the thread last said about who is answering

vars == <<state, agent, word>>

Init == state = "ai_active" /\ agent = None /\ word = "nothing"

(* A visitor or an agent asks for a human: never while an agent has it. *)
Transfer ==
    /\ state \notin {"assigned", "human_active"}
    /\ state' \in {"handoff_requested", "unassigned"}
    /\ agent' = None
    /\ word' = "transferred"

(* Of the agents who want a queued conversation, one gets it. *)
Claim ==
    /\ state = "unassigned"
    /\ state' = "assigned"
    /\ agent' \in Agents
    /\ UNCHANGED word

(* An agent may speak in any state, and then the AI is quiet. *)
Reply ==
    /\ state' = "human_active"
    /\ word' = "agent"
    /\ UNCHANGED agent

GiveToAi ==
    /\ state' = "ai_active"
    /\ agent' = None
    /\ word' \in {"back", "unavailable"}

Next == Transfer \/ Claim \/ Reply \/ GiveToAi

Spec == Init /\ [][Next]_vars

=============================================================================

--------------------------- MODULE NotificationEdges ---------------------------
(***************************************************************************)
(* What of the notification package stands beside the engine: the channels *)
(* at its far end and the linking of Telegram accounts.  They share        *)
(* neither state nor callers, so that a behaviour runs one of them.        *)
(***************************************************************************)
EXTENDS NotificationChannels, TelegramLinking

VARIABLE part

vars == <<part, channelVars, linkingVars>>

\* A job nobody looks at.
Idle == channel = "telegram" /\ message.to = "none" /\ message.options = {}
        /\ message.flaw = "none" /\ config = {}

Init ==
    /\ part \in {"channels", "linking"}
    /\ InitChannels /\ InitLinking
    /\ part = "linking" => Idle

Delivering == part = "channels" /\ NextChannels /\ UNCHANGED linkingVars
LinkingAccounts == part = "linking" /\ NextLinking /\ UNCHANGED channelVars

Next == (Delivering \/ LinkingAccounts) /\ UNCHANGED part

\* BullMQ runs its workers, and every request to a provider ends: no timeout is configured, so
\* that this is the peer's doing, or the operating system's that gives the connection up.  The
\* handler of a posted update runs on; nobody is obliged to ask for a token or to send one.
Working == part = "channels" /\ Process /\ UNCHANGED <<part, linkingVars>>
Handling(p) == part = "linking" /\ Handle(p) /\ UNCHANGED <<part, channelVars>>

Spec ==
    /\ Init /\ [][Next]_vars
    /\ WF_vars(Working) /\ \A p \in Update : WF_vars(Handling(p))

\* The jobs, the user rows and the runs of the handler stay in their ranges, and no job
\* is tried more often than its channel's policy says.
TypeOK == ChannelTypes /\ LinkingTypes
=============================================================================

------------------------------- MODULE PubSub -------------------------------
(***************************************************************************)
(* PubSubRedisService: subscriptions over a second connection, which is    *)
(* made by the first of them, and the handler that parses a message and    *)
(* calls the subscriber's callback.                                        *)
(***************************************************************************)
EXTENDS Integers, FiniteSets

CONSTANTS
    Subs,           \* subscriptions
    ChannelOf,      \* the channel, or the pattern, of each
    Channels,
    MaxMessages,    \* BOUND on messages
    MaxBreaks       \* BOUND on lost connections

ASSUME PubSubAssumption == ChannelOf \in [Subs -> Channels] /\ MaxMessages \in Nat /\ MaxBreaks \in Nat

VARIABLES
    client,     \* subscriberClient: none, connecting, open, reconnecting or closed
    sub,        \* per subscription new, connecting, queued, on, refused or off
    sent,       \* messages published so far: each is <<number, channel>>
    wanted,     \* per subscription, the messages published while it was on
    inbox,      \* per subscription, those that have reached the process
    handled,    \* per subscription and message, how often the callback was called
    threw,      \* the pairs for which the callback threw
    missed,     \* per subscription, what was lost with the connection
    breaks

psVars == <<client, sub, sent, wanted, inbox, handled, threw, missed, breaks>>

AllMessages == (1..MaxMessages) \X Channels
subVars == <<sent, wanted, inbox, handled, threw, missed>>

InitPubSub ==
    /\ client = "none"
    /\ sub = [s \in Subs |-> "new"]
    /\ sent = {}
    /\ wanted = [s \in Subs |-> {}]
    /\ inbox = [s \in Subs |-> {}]
    /\ handled = [s \in Subs |-> [m \in AllMessages |-> 0]]
    /\ threw = {}
    /\ missed = [s \in Subs |-> {}]
    /\ breaks = 0

-----------------------------------------------------------------------------
(* subscribe and pSubscribe: getSubscriberClient, then SUBSCRIBE, which    *)
(* waits in the client's queue until the connection is there.              *)

Subscribe(s) ==
    /\ sub[s] = "new"
    /\ client' = IF client = "none" THEN "connecting" ELSE client
    /\ sub' = [sub EXCEPT ![s] = CASE client = "none" -> "connecting"
                                   [] client = "closed" -> "refused"
                                   [] OTHER -> "queued"]
    /\ UNCHANGED <<subVars, breaks>>

Connected ==
    /\ client = "connecting" /\ client' = "open"
    /\ sub' = [s \in Subs |-> IF sub[s] = "connecting" THEN "queued" ELSE sub[s]]
    /\ UNCHANGED <<subVars, breaks>>

\* connect() rejects.  The field keeps the client: every later subscription is refused.
ConnectFails ==
    /\ client = "connecting" /\ client' = "closed"
    /\ sub' = [s \in Subs |-> IF sub[s] \in {"connecting", "queued"} THEN "refused" ELSE sub[s]]
    /\ UNCHANGED <<subVars, breaks>>

Accept(s) ==
    /\ client = "open" /\ sub[s] = "queued"
    /\ sub' = [sub EXCEPT ![s] = "on"]
    /\ UNCHANGED <<client, subVars, breaks>>

\* unsubscribe and pUnsubscribe end all subscriptions to the channel, and do nothing before
\* there is a client; a client that is closed refuses.
Unsubscribe(ch) ==
    /\ client \in {"open", "reconnecting"}
    /\ sub' = [s \in Subs |-> IF sub[s] = "on" /\ ChannelOf[s] = ch THEN "off" ELSE sub[s]]
    /\ UNCHANGED <<client, subVars, breaks>>

OnModuleDestroy ==
    /\ client \in {"open", "reconnecting"} /\ client' = "closed"
    /\ sub' = [s \in Subs |-> IF sub[s] = "on" THEN "off"
                              ELSE IF sub[s] = "queued" THEN "refused" ELSE sub[s]]
    /\ UNCHANGED <<subVars, breaks>>

-----------------------------------------------------------------------------
\* publish, on the first connection.
Publish(ch) ==
    /\ Cardinality(sent) < MaxMessages
    /\ LET m == <<Cardinality(sent) + 1, ch>>
           hears(s) == sub[s] = "on" /\ ChannelOf[s] = ch
       IN  /\ sent' = sent \cup {m}
           /\ wanted' = [s \in Subs |-> IF hears(s) THEN wanted[s] \cup {m} ELSE wanted[s]]
           /\ inbox' = [s \in Subs |-> IF hears(s) /\ client = "open" THEN inbox[s] \cup {m} ELSE inbox[s]]
           /\ missed' = [s \in Subs |-> IF hears(s) /\ client # "open" THEN missed[s] \cup {m} ELSE missed[s]]
    /\ UNCHANGED <<client, sub, handled, threw, breaks>>

\* The handler calls the callback with the parsed message and, when the parse or the callback
\* throws, with the raw one.
Called(s, m, times) == handled' = [handled EXCEPT ![s][m] = @ + times]

\* MUTANT of Handles: the raw message in any case.
HandlesBoth(s, m, parses, throws) == Called(s, m, IF parses THEN 2 ELSE 1)
\* createMessageHandler
Handles(s, m, parses, throws) == Called(s, m, IF parses /\ throws THEN 2 ELSE 1)

Deliver(s) ==
    \E m \in inbox[s] :
        /\ \A n \in inbox[s] : m[1] <= n[1]
        /\ inbox' = [inbox EXCEPT ![s] = @ \ {m}]
        /\ \E parses, throws \in BOOLEAN :
             /\ Handles(s, m, parses, throws)
             /\ threw' = IF throws THEN threw \cup {<<s, m>>} ELSE threw
        /\ UNCHANGED <<client, sub, sent, wanted, missed, breaks>>

-----------------------------------------------------------------------------
(* The connection is lost; the client connects and subscribes again, or    *)
(* stops trying after five attempts.                                       *)

Break ==
    /\ client = "open" /\ breaks < MaxBreaks
    /\ client' = "reconnecting" /\ breaks' = breaks + 1
    /\ missed' = [s \in Subs |-> missed[s] \cup inbox[s]]
    /\ inbox' = [s \in Subs |-> {}]
    /\ UNCHANGED <<sub, sent, wanted, handled, threw>>

Reconnected ==
    /\ client = "reconnecting" /\ client' = "open"
    /\ UNCHANGED <<sub, subVars, breaks>>

StopsTrying ==
    /\ client = "reconnecting" /\ client' = "closed"
    /\ sub' = [s \in Subs |-> IF sub[s] = "queued" THEN "refused" ELSE sub[s]]
    /\ UNCHANGED <<subVars, breaks>>

NextPubSub ==
    \/ \E s \in Subs : Subscribe(s) \/ Accept(s) \/ Deliver(s)
    \/ \E ch \in Channels : Unsubscribe(ch) \/ Publish(ch)
    \/ Connected \/ ConnectFails \/ OnModuleDestroy
    \/ Break \/ Reconnected \/ StopsTrying

PubSubSpec == InitPubSub /\ [][NextPubSub]_psVars

-----------------------------------------------------------------------------
\* A message published while a subscription is on reaches its callback, unless the connection
\* was lost before it came, and reaches it once, unless it threw the first time.
AcceptedIsHeardOnce ==
    \A s \in Subs :
        /\ \A m \in wanted[s] : handled[s][m] > 0 \/ m \in inbox[s] \/ m \in missed[s]
        /\ \A m \in AllMessages : handled[s][m] > 1 => handled[s][m] = 2 /\ <<s, m>> \in threw
=============================================================================

--------------------------- MODULE TelegramLinking ---------------------------
(***************************************************************************)
(* How a user and a Telegram chat find each other.  TelegramService saves  *)
(* a token in the user's row and shows it to the user, who sends it to the *)
(* bot; Telegram posts the message to TelegramController.handleWebhook,    *)
(* again and again until a run of it answers 200.  Runs of the handler     *)
(* interleave at every await, with each other and with new tokens.         *)
(***************************************************************************)
EXTENDS Naturals, FiniteSets

CONSTANTS
    User, Chat,
    Update,         \* messages posted to the webhook
    None,           \* a null column, no user found, a text without a token
    MaxTokens,      \* BOUND on the tokens of one user
    MaxFaults       \* BOUND on failing calls

\* crypto.randomBytes(4): two tokens are never equal.
Token == User \X (1..MaxTokens)
Owner(t) == t[1]

ASSUME LinkingAssumption ==
    MaxTokens \in Nat /\ MaxFaults \in Nat /\ None \notin User \cup Chat \cup Token

VARIABLES
    telegramLinkToken, telegram_chat_id,    \* the user rows
    issued, shown,                          \* tokens saved so far, tokens users know
    phase, chat, text, token, found,        \* runs of handleWebhook
    told, faults,
    \* history: the chats a token has linked, tokens that a run has looked up, tokens
    \* that two runs held at a time, tokens saved while a run held an older one
    linked, used, raced, overtaken

rows == <<telegramLinkToken, telegram_chat_id>>
posts == <<chat, text, token>>
history == <<linked, used, raced, overtaken>>
linkingVars == <<rows, issued, shown, phase, posts, found, told, faults, history>>

InitLinking ==
    /\ telegramLinkToken = [u \in User |-> None]
    /\ telegram_chat_id = [u \in User |-> None]
    /\ issued = [u \in User |-> 0] /\ shown = {}
    /\ phase = [p \in Update |-> "unsent"]
    /\ chat = [p \in Update |-> None]
    /\ text = [p \in Update |-> "empty"]
    /\ token = [p \in Update |-> None]
    /\ found = [p \in Update |-> None]
    /\ told = [p \in Update |-> {}]
    /\ faults = 0
    /\ linked = [t \in Token |-> {}] /\ used = {} /\ raced = {} /\ overtaken = {}

Fault == faults < MaxFaults /\ faults' = faults + 1

\* Runs that have found user u and are about to write its row.
Linking(u) == {p \in Update : phase[p] = "found" /\ found[p] = u}

-----------------------------------------------------------------------------
(* TelegramService.generateTelegramLinkToken *)

\* Mutant of SaveToken: an update without its condition writes every row.
SaveTokenForAll(u, t) == telegramLinkToken' = [v \in User |-> t]

SaveToken(u, t) == telegramLinkToken' = [telegramLinkToken EXCEPT ![u] = t]

\* The row is written, then the answer is made, which fails without a translation or
\* without setUserResponseClass: the token is saved and nobody knows it.
Generate(u) ==
    LET t == <<u, issued[u] + 1>>
    IN /\ issued[u] < MaxTokens
       /\ issued' = [issued EXCEPT ![u] = @ + 1]
       /\ SaveToken(u, t)
       /\ \/ shown' = shown \cup {t} /\ UNCHANGED faults
          \/ Fault /\ UNCHANGED shown
       /\ overtaken' = IF Linking(u) = {} THEN overtaken ELSE overtaken \cup {t}
       /\ UNCHANGED <<telegram_chat_id, phase, posts, found, told, linked, used, raced>>

-----------------------------------------------------------------------------
(* TelegramController.handleWebhook *)

GoTo(p, label) == phase' = [phase EXCEPT ![p] = label]

\* A chat sends a token it was shown, or something else: "/start" with a token, say.
Post(p) ==
    /\ phase[p] = "unsent" /\ GoTo(p, "posted")
    /\ \E c \in Chat : chat' = [chat EXCEPT ![p] = c]
    /\ \/ \E t \in shown :
              /\ token' = [token EXCEPT ![p] = t]
              /\ text' = [text EXCEPT ![p] = "token"]
       \/ \E form \in {"empty", "other"} :
              /\ text' = [text EXCEPT ![p] = form]
              /\ UNCHANGED token
    /\ UNCHANGED <<rows, issued, shown, found, told, faults, history>>

\* findByLinkToken with the whole text, in capitals: "/START C5F178C3" is no token.
FindUser(p) ==
    LET t == token[p]
    IN /\ phase[p] = "posted"
       /\ \/ /\ text[p] = "empty" /\ GoTo(p, "done")
             /\ UNCHANGED <<found, used, raced>>
          \/ /\ text[p] = "token" /\ telegramLinkToken[Owner(t)] = t
             /\ GoTo(p, "found")
             /\ found' = [found EXCEPT ![p] = Owner(t)]
             /\ used' = used \cup {t}
             /\ raced' = IF \E q \in Linking(Owner(t)) : token[q] = t
                         THEN raced \cup {t} ELSE raced
          \/ /\ \/ text[p] = "other"
                \/ text[p] = "token" /\ telegramLinkToken[Owner(t)] # t
             /\ GoTo(p, "unknown")
             /\ UNCHANGED <<found, used, raced>>
       /\ UNCHANGED <<rows, issued, shown, posts, told, faults, linked, overtaken>>

\* Mutant of WriteChat: the token stays.
WriteChatOnly(u, c) ==
    /\ telegram_chat_id' = [telegram_chat_id EXCEPT ![u] = c]
    /\ UNCHANGED telegramLinkToken

\* updateTelegramChatId clears whatever token the row has by now.
WriteChat(u, c) ==
    /\ telegram_chat_id' = [telegram_chat_id EXCEPT ![u] = c]
    /\ telegramLinkToken' = [telegramLinkToken EXCEPT ![u] = None]

LinkChat(p) ==
    /\ phase[p] = "found" /\ GoTo(p, "linked")
    /\ WriteChat(found[p], chat[p])
    /\ linked' = [linked EXCEPT ![token[p]] = @ \cup {chat[p]}]
    /\ UNCHANGED <<issued, shown, posts, found, told, faults, used, raced, overtaken>>

Say(p, what) ==
    /\ GoTo(p, "done")
    /\ told' = [told EXCEPT ![p] = @ \cup {what}]
    /\ UNCHANGED <<rows, issued, shown, posts, found, faults, history>>

\* notificationService.send has queued the answer.
Answer(p) ==
    \/ phase[p] = "linked" /\ Say(p, "welcome")
    \/ phase[p] = "unknown" /\ Say(p, "invalid")

\* Mutant of Repost: an error is answered with 200.
RepostNothing(p) == GoTo(p, "done")

\* A look-up, a write or a send throws, or the answer is lost: Telegram posts again.
Repost(p) == GoTo(p, "posted")

Fail(p) ==
    /\ phase[p] \in {"posted", "found", "linked", "unknown", "done"}
    /\ text[p] # "empty"
    /\ Fault /\ Repost(p)
    /\ UNCHANGED <<rows, issued, shown, posts, found, told, history>>

Handle(p) == FindUser(p) \/ LinkChat(p) \/ Answer(p)

NextLinking ==
    \/ \E u \in User : Generate(u)
    \/ \E p \in Update : Post(p) \/ Handle(p) \/ Fail(p)

-----------------------------------------------------------------------------
(* Properties *)

\* The rows and the runs stay in their ranges.
LinkingTypes ==
    /\ telegramLinkToken \in [User -> Token \cup {None}]
    /\ telegram_chat_id \in [User -> Chat \cup {None}]
    /\ \A u \in User : telegramLinkToken[u] # None => Owner(telegramLinkToken[u]) = u
    /\ issued \in [User -> 0..MaxTokens] /\ shown \subseteq Token
    /\ phase \in [Update -> {"unsent", "posted", "found", "linked", "unknown", "done"}]
    /\ chat \in [Update -> Chat \cup {None}]
    /\ text \in [Update -> {"empty", "other", "token"}]
    /\ token \in [Update -> Token \cup {None}]
    /\ found \in [Update -> User \cup {None}]
    /\ \A p \in Update : phase[p] \in {"found", "linked"} => found[p] \in User
    /\ told \in [Update -> SUBSET {"welcome", "invalid"}]
    /\ faults \in 0..MaxFaults
    /\ linked \in [Token -> SUBSET Chat]

\* A token links one chat, although Telegram posts messages again and two chats may
\* send it: the write that links also takes the token away.  Only runs that hold the
\* token at the same time link a second one.
TokenLinksOneChat == \A t \in Token : Cardinality(linked[t]) > 1 => t \in raced

\* The token a user was shown last, and nobody has sent yet, is the one in the row: an
\* older token takes it away only when its run found the user before the new one was saved.
FreshTokenIsKept ==
    \A u \in User :
        LET t == <<u, issued[u]>>
        IN t \in shown \ (used \cup overtaken) => telegramLinkToken[u] = t

\* A chat that was welcomed had been written into the row.
WelcomeIsTrue == \A p \in Update : "welcome" \in told[p] => chat[p] \in linked[token[p]]

\* Rows, tokens and answers agree, however the runs of the handler interleave with each
\* other and with new tokens: the three parts above.
LinksAreSound == TokenLinksOneChat /\ FreshTokenIsKept /\ WelcomeIsTrue

\* Why they hold: the inductive invariant.  Nobody has a token that was not shown, and a
\* row has the newest one of its user or none.
TokensAreShown ==
    /\ \A t \in shown : t \in Token /\ t[2] <= issued[Owner(t)]
    /\ \A p \in Update : text[p] = "token" => token[p] \in shown
    /\ \A t \in Token : linked[t] # {} => t \in shown
    /\ \A u \in User : telegramLinkToken[u] \in {None, <<u, issued[u]>>}

\* A run that has found a user has a token of that user, and one that has linked a chat
\* has linked its own.
RunsHaveTokens ==
    \A p \in Update :
        /\ phase[p] = "unsent" => told[p] = {}
        /\ phase[p] # "unsent" => chat[p] \in Chat
        /\ phase[p] \in {"found", "linked"} => text[p] = "token" /\ found[p] = Owner(token[p])
        /\ phase[p] = "linked" => chat[p] \in linked[token[p]]

\* A token that has linked a chat is in no row, and two runs that have both found its
\* user, or one that has and a chat already linked, have raced for it.
UsedTokensAreGone ==
    /\ \A t \in Token : linked[t] # {} => telegramLinkToken[Owner(t)] # t
    /\ \A p, q \in Update :
          p # q /\ phase[p] = "found" /\ phase[q] = "found" /\ token[p] = token[q]
              => token[p] \in raced
    /\ \A p \in Update : phase[p] = "found" /\ linked[token[p]] # {} => token[p] \in raced

\* A token nobody raced for has linked no two chats.
UnracedLinksOne == \A t \in Token \ raced : \A c, d \in linked[t] : c = d

\* The row that a run is about to clear has no token its user still waits to send.
ClearsNothingFresh ==
    \A p \in Update :
        phase[p] = "found" =>
            LET t == <<found[p], issued[found[p]]>> IN t \notin shown \/ t \in used \cup overtaken

LinkingInv ==
    /\ TokensAreShown /\ RunsHaveTokens /\ UsedTokensAreGone /\ UnracedLinksOne
    /\ ClearsNothingFresh /\ FreshTokenIsKept /\ WelcomeIsTrue

Waits(p) ==
    phase[p] = "posted" /\ text[p] = "token" /\ telegramLinkToken[Owner(token[p])] = token[p]
Taken(p) == telegramLinkToken[Owner(token[p])] # token[p]

\* A token that was sent while it was the one in the row is used in the end, or
\* replaced: errors of the handler reach Telegram, which posts the message again.
SentTokenIsTaken == \A p \in Update : Waits(p) ~> (token[p] # None /\ Taken(p))
=============================================================================

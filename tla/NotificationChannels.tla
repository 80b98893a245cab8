------------------------ MODULE NotificationChannels ------------------------
(***************************************************************************)
(* What NotificationPipeline leaves open, a channel's send(): the queue of *)
(* one channel works through one job.  An attempt renders the message,     *)
(* picks the provider, checks its arguments and its configuration in the   *)
(* order of the code, calls the provider and reads the answer; the thrown  *)
(* error decides whether BullMQ tries again.  An answer is what send() can *)
(* see of it, a status and a code or name, and what it means, which no     *)
(* channel sees: whether the provider took the message.                    *)
(*                                                                         *)
(* Options and settings are names: "key" and "secret" are the credentials  *)
(* (a token, an account), "from" the sender, "url" a webhook, "user" the   *)
(* SMTP user with its password.                                            *)
(***************************************************************************)
EXTENDS Naturals

CONSTANT MaxAttempts    \* ChannelRetryPolicy.attempts

ASSUME ChannelsAssumption == MaxAttempts \in Nat \ {0}

VARIABLES
    channel, provider,  \* the queue, and the provider key options or settings name
    message,            \* recipientId, subject, channelOptions, and what is wrong with it
    config,             \* the settings NotificationConfigService finds
    state, attempts, error,     \* the job, as BullMQ sees it
    calls, accepted, lost,      \* requests, those the provider took, and those whose answer hid it
    reply

channelVars == <<channel, provider, message, config, state, attempts, error, calls, accepted,
                 lost, reply>>

\* The options send() reads, the settings it falls back to, and the recipients
\* that make a difference, channel by channel.
Account == {"key", "secret"}
Options == [telegram |-> {"key"}, discord |-> {"url"}, teams |-> {"url"},
            firebase_fcm |-> {}, facebook_messenger |-> {}, webhook |-> {},
            whatsapp |-> Account \cup {"from"}, sms |-> Account \cup {"from"},
            email |-> {"from", "smtp"}, slack |-> {"url", "key", "channel"},
            onesignal |-> Account, web_push |-> Account \cup {"from", "subscription"},
            in_app |-> Account]
Channel == DOMAIN Options
Settings == [Options EXCEPT !.firebase_fcm = {"key"}, !.facebook_messenger = {"key"},
                            !.email = {"from", "user", "key"},
                            !.web_push = Account \cup {"from"}]
Recipients ==
    [c \in Channel |->
        CASE c \in {"discord", "teams"} -> {"default", "url"}
          [] c = "slack" -> {"none", "default", "plain", "url"}
          [] c = "webhook" -> {"none", "plain", "url"}
          [] c = "web_push" -> {"default", "plain", "subscription", "json"}
          [] OTHER -> {"none", "plain"}]
Providers ==
    [c \in Channel |->
        CASE c = "email" -> {"nodemailer", "twilio-mail", "twilio", "sendgrid", "ses", "aws"}
          [] c = "sms" -> {"twilio", "smsmisr", "vonage"}
          [] OTHER -> {"only"}]
Flaw == {"none", "template", "account"}

\* What an answer means: the message was taken, or some of its parts; it was refused; it was
\* not for now, as the sender sends too much or the provider is down; it was taken, and the
\* answer does not tell.
Meaning == {"taken", "partly", "refused", "limited", "down", "lost"}
Outage == {"limited", "down", "lost"}

Reply(status, code, means) == [status |-> status, code |-> code, means |-> means]
NoReply == Reply(0, "none", "none")

-----------------------------------------------------------------------------
(* The conditions of send() *)

Addressed == message.to # "none"
Titled == message.subject

\* channelOptions?.x || configService.x
Given(name) == name \in message.options \cup config

\* The client made of both credentials in the options, or at start of both settings.
Client == Account \subseteq message.options \/ Account \subseteq config

\* new Twilio(...) throws for an account id that is none.
Malformed == message.flaw = "account" /\ Account \subseteq message.options

\* A check and the error it throws: the caller's fault, or ours.
Callers(condition) == [met |-> condition, error |-> "client"]
Ours(condition) == [met |-> condition, error |-> "provider"]

\* Mutant of IsClient: everything from 400 on.
IsClientFrom400(answer) == 400 <= answer.status

\* 400 <= status < 500
IsClient(answer) == 400 <= answer.status /\ answer.status < 500

\* The request resolves; every other answer is an exception.
Resolves(answer) == 200 <= answer.status /\ answer.status < 300

ErrorOf(resolved, clients) == IF resolved THEN "none" ELSE IF clients THEN "client" ELSE "provider"

\* A send(): its checks in order, and the error it throws for each answer, when the status
\* decides, when the name of an exception does, and when a code inside a response that
\* resolves does.
ByStatus(checks, answers) ==
    [checks |-> checks, error |-> [a \in answers |-> ErrorOf(Resolves(a), IsClient(a))]]
ByName(checks, answers, clients) ==
    [checks |-> checks, error |-> [a \in answers |-> ErrorOf(Resolves(a), a.code \in clients)]]
ByBody(checks, answers, successes, clients) ==
    [checks |-> checks,
     error |-> [a \in answers |->
        IF Resolves(a) THEN ErrorOf(a.code \in successes, a.code \in clients)
        ELSE ErrorOf(FALSE, IsClient(a))]]

-----------------------------------------------------------------------------
(* What providers answer *)

\* No response at all: nobody was there, or the response did not come back.
Silence == {Reply(0, "none", "down"), Reply(0, "none", "lost")}

Failures == Silence \cup {Reply(400, "none", "refused"), Reply(429, "none", "limited"),
                         Reply(503, "none", "down"), Reply(504, "none", "lost")}
Http == Failures \cup {Reply(200, "none", "taken")}

Smtp == Silence \cup {Reply(250, "none", "taken"), Reply(550, "none", "refused"),
                     Reply(421, "none", "down"), Reply(452, "none", "limited")}

\* Exceptions that carry a name and no status, and bodies of a successful response.
Named(codes, means) == {Reply(0, code, means) : code \in codes}
Bodies(codes, means) == {Reply(200, code, means) : code \in codes}

-----------------------------------------------------------------------------
(* The channels *)

TelegramSend == ByStatus(<<Ours(Given("key")), Callers(Addressed)>>, Http)

DiscordSend == ByStatus(<<Ours(message.to = "url" \/ Given("url"))>>, Http)

TeamsSend ==
    ByStatus(<<Ours(message.to = "url" \/ Given("url"))>>, Http \cup Bodies({"errors"}, "refused"))

FcmRefusals == {"invalid-registration-token", "registration-token-not-registered",
                "invalid-argument", "invalid-payload"}
FcmAnswers ==
    Silence \cup {Reply(200, "none", "taken")}
    \cup Named(FcmRefusals \cup {"authentication-error"}, "refused")
    \cup Named({"message-rate-exceeded"}, "limited") \cup Named({"server-unavailable"}, "down")
    \cup Named({"internal-error"}, "lost")

FirebaseSend == ByName(<<Ours("key" \in config), Callers(Addressed)>>, FcmAnswers, FcmRefusals)

MessengerSend == ByStatus(<<Ours("key" \in config)>>, Http)

WebhookSend == ByStatus(<<Callers(message.to = "url")>>, Http)

WhatsAppSend ==
    ByStatus(<<Ours(~Malformed), Ours(Client), Ours(Given("from")), Callers(Addressed)>>,
             Http)

\* Refusals that a response with status 200 lists are not read, here and by Teams.
OneSignalSend ==
    ByStatus(<<Ours(Given("key")), Ours(Given("secret"))>>, Http \cup Bodies({"errors"}, "refused"))

\* A recipientId that parses as JSON hides channelOptions.subscription.
WebPushSend ==
    LET subscribed == \/ message.to = "subscription"
                      \/ message.to # "json" /\ "subscription" \in message.options
    IN ByStatus(<<Callers(subscribed), Ours(Given("key")), Ours(Given("secret")),
                  Ours(Given("from"))>>, Http)

\* The words that the message of Pusher's error is searched for.
PusherAnswers ==
    Silence \cup {Reply(200, "none", "taken")} \cup Named({"invalid", "missing", "other"}, "refused")
    \cup Named({"other"}, "limited")

PusherSend == ByName(<<Callers(Addressed), Ours(Client)>>, PusherAnswers, {"invalid", "missing"})

TwilioSend == ByStatus(<<Ours(~Malformed), Ours(Client), Callers(Addressed)>>, Http)

SmsMisrRefusals == {"1905", "8001", "1909", "8002"}
SmsMisrAnswers ==
    Failures \cup Bodies({"1901", "6000"}, "taken")
    \cup Bodies(SmsMisrRefusals \cup {"1903"}, "refused") \cup Bodies({"1907"}, "down")
    \cup Bodies({"empty"}, "lost")

SmsMisrSend ==
    ByBody(<<Ours(Given("key") /\ Given("secret")), Ours(Given("from")), Callers(Addressed)>>,
           SmsMisrAnswers, {"1901", "6000"}, SmsMisrRefusals)

\* Of a message in several parts, the code is that of the first.
VonageRefusals == {"2", "3", "6", "7", "11", "12", "13", "15"}
VonageAnswers ==
    Failures \cup Bodies({"0"}, "taken") \cup Bodies({"0", "1"}, "partly")
    \cup Bodies(VonageRefusals \cup {"9"}, "refused") \cup Bodies({"1"}, "limited")
    \cup Bodies({"5"}, "down") \cup Bodies({"empty"}, "lost")

VonageSend ==
    ByBody(<<Ours(Given("key") /\ Given("secret")), Ours(Given("from")), Callers(Addressed)>>,
           VonageAnswers, {"0"}, VonageRefusals)

\* EmailChannel's own check: emailSender falls back to EMAIL_USER.
Sender == Callers(Given("from") \/ "user" \in config)

\* The response code is SMTP's, whose temporary failures go from 400 to 499 and whose
\* refusals from 500 on.
NodemailerSend ==
    ByStatus(<<Sender, Callers(Addressed), Callers(Titled),
               Ours("smtp" \in message.options \/ "user" \in config)>>, Smtp)

SendGridSend ==
    ByStatus(<<Sender, Ours("key" \in config), Callers(Addressed), Callers(Titled)>>,
             Http)

SesRefusals == {"MessageRejected", "InvalidParameterValueException"}
SesAnswers ==
    Http \cup {Reply(400, name, "refused") : name \in SesRefusals}
    \cup {Reply(400, name, "limited") : name \in {"Throttling", "ThrottlingException"}}

\* Without credentials the SDK looks for some elsewhere, and fails as a provider does.
SesSend ==
    [checks |-> <<Sender, Callers(Addressed), Callers(Titled)>>,
     error |-> [a \in SesAnswers |->
        ErrorOf(Resolves(a), a.code \in SesRefusals \/ (IsClient(a) /\ a.code # "ThrottlingException"))]]

SlackRefusals == {"channel_not_found", "not_in_channel", "invalid_auth", "token_revoked", "user_is_bot"}
SlackAnswers ==
    Failures \cup Bodies({"ok", "empty"}, "taken")
    \cup Bodies(SlackRefusals \cup {"account_inactive"}, "refused")
    \cup Bodies({"ratelimited"}, "limited") \cup Bodies({"internal_error", "empty"}, "down")

\* The configured webhook counts only when there is no token.  A response without ok is success.
SlackSend ==
    LET url == message.to = "url" \/ "url" \in message.options
        hook == url \/ (~Given("key") /\ "url" \in config)
        target == message.to = "plain" \/ Given("channel")
    IN IF hook THEN ByStatus(<<>>, Http)
       ELSE ByBody(<<Ours(Given("key")), Callers(target)>>, SlackAnswers, {"ok", "empty"}, SlackRefusals)

\* EmailChannel and SmsChannel route by the provider key, an unknown one to the default.
MailSend ==
    CASE provider \in {"twilio", "sendgrid"} -> SendGridSend
      [] provider \in {"ses", "aws"} -> SesSend
      [] OTHER -> NodemailerSend

SmsSend ==
    CASE provider = "smsmisr" -> SmsMisrSend
      [] provider = "vonage" -> VonageSend
      [] OTHER -> TwilioSend

\* channelFactory.getChannel(channel).send
Send ==
    CASE channel = "telegram" -> TelegramSend
      [] channel = "discord" -> DiscordSend
      [] channel = "teams" -> TeamsSend
      [] channel = "firebase_fcm" -> FirebaseSend
      [] channel = "facebook_messenger" -> MessengerSend
      [] channel = "webhook" -> WebhookSend
      [] channel = "whatsapp" -> WhatsAppSend
      [] channel = "onesignal" -> OneSignalSend
      [] channel = "web_push" -> WebPushSend
      [] channel = "in_app" -> PusherSend
      [] channel = "sms" -> SmsSend
      [] channel = "email" -> MailSend
      [] channel = "slack" -> SlackSend

-----------------------------------------------------------------------------
(* The job *)

InitChannels ==
    /\ channel \in Channel
    /\ provider \in Providers[channel]
    /\ message \in [to : Recipients[channel], options : SUBSET Options[channel],
                    subject : IF channel = "email" THEN BOOLEAN ELSE {TRUE}, flaw : Flaw]
    /\ config \in SUBSET Settings[channel]
    /\ state = "new" /\ attempts = 0 /\ error = "none"
    /\ calls = 0 /\ accepted = 0 /\ lost = 0 /\ reply = NoReply

\* queue.add
Enqueue ==
    /\ state = "new" /\ state' = "waiting"
    /\ UNCHANGED <<channel, provider, message, config, attempts, error, calls, accepted,
                   lost, reply>>

\* The checks of send() in order: the first one that is not met throws.
FirstUnmet(i) ==
    /\ i \in DOMAIN Send.checks /\ ~Send.checks[i].met
    /\ \A j \in DOMAIN Send.checks : j < i => Send.checks[j].met

\* process() up to the request: the template, then the checks.
Attempt ==
    /\ state = "waiting"
    /\ reply' = NoReply
    /\ \/ /\ message.flaw = "template"
          /\ state' = "closing" /\ error' = "provider"
       \/ /\ message.flaw # "template"
          /\ \E i \in DOMAIN Send.checks : FirstUnmet(i) /\ error' = Send.checks[i].error
          /\ state' = "closing"
       \/ /\ message.flaw # "template"
          /\ \A i \in DOMAIN Send.checks : Send.checks[i].met
          /\ state' = "calling" /\ error' = "none"
    /\ UNCHANGED <<channel, provider, message, config, attempts, calls, accepted, lost>>

\* The provider answers, and send() throws or returns.
Call ==
    /\ state = "calling" /\ state' = "closing"
    /\ \E answer \in DOMAIN Send.error :
          /\ reply' = answer
          /\ error' = Send.error[answer]
          /\ accepted' = accepted + (IF answer.means \in {"taken", "partly", "lost"} THEN 1 ELSE 0)
          /\ lost' = lost + (IF answer.means \in {"partly", "lost"} THEN 1 ELSE 0)
    /\ calls' = calls + 1
    /\ UNCHANGED <<channel, provider, message, config, attempts>>

\* Mutant of GivesUp: off by one.
GivesUpLate == error = "client" \/ attempts + 1 > MaxAttempts

\* UnrecoverableError, or the last attempt.
GivesUp == error = "client" \/ attempts + 1 >= MaxAttempts

Close ==
    /\ state = "closing"
    /\ attempts' = attempts + 1
    /\ state' = IF error = "none" THEN "completed" ELSE IF GivesUp THEN "failed" ELSE "waiting"
    /\ UNCHANGED <<channel, provider, message, config, error, calls, accepted, lost, reply>>

Process == Attempt \/ Call \/ Close

NextChannels == Enqueue \/ Process

-----------------------------------------------------------------------------
(* Properties *)

\* Types; no job is tried more often than configured.
ChannelTypes ==
    /\ channel \in Channel /\ provider \in Providers[channel]
    /\ config \subseteq Settings[channel] /\ message.options \subseteq Options[channel]
    /\ state \in {"new", "waiting", "calling", "closing", "completed", "failed"}
    /\ attempts \in 0..MaxAttempts /\ error \in {"none", "client", "provider"}
    /\ reply.means \in Meaning \cup {"none"}
    /\ lost \in 0..accepted /\ accepted \in 0..calls /\ calls \in 0..MaxAttempts

\* What is inside a successful response and no channel reads: OneSignal's and Teams' errors, and
\* a body of Slack's that says neither yes nor no.
Unread == reply.code \in {"errors", "empty"}

\* A job that completes was taken by the provider, or a part of it was: a refusal inside a
\* successful HTTP response (Slack, SMS Misr, Vonage) is not taken for success where it is read.
CompletedIsAccepted == state = "completed" => reply.means \in {"taken", "partly"} \/ Unread

\* A provider takes a message once, and once more for each answer that did not tell: no channel
\* throws after an answer that says the message was taken.
AcceptedOnceUnlessLost == accepted <= 1 + lost

\* The outages that a channel takes for the caller's fault, against NotificationError.ts:34-38: a
\* limit with a status from 400 to 499, and SMTP's 421, service not available.
Mistaken ==
    \/ reply.means = "limited" /\ reply.status \in 400..499
    \/ reply.means = "down" /\ channel = "email" /\ reply.status = 421

\* A provider that is down, that limits the sender or whose answer does not come never ends the
\* job before its attempts are used up, but for those.
OtherOutagesAreRetried ==
    state = "failed" /\ reply.means \in Outage => attempts = MaxAttempts \/ Mistaken

\* A message that needs nothing of the configuration.
Overriding ==
    /\ message.options = Options[channel] /\ message.options # {}
    /\ channel = "email" => message.subject /\ provider \notin {"twilio", "sendgrid"}
    /\ message.flaw = "none" /\ message.to \notin {"none", "json"}

\* A message that brings all its channel's options reaches the provider, whatever is
\* missing in the configuration.
OverrideSuffices == state \in {"completed", "failed"} /\ Overriding => calls > 0

\* However a job ends, it ends for a reason that the provider or the caller gave: the
\* four parts above, which every channel's own sorting of answers must keep.
JobsEndRightly ==
    CompletedIsAccepted /\ AcceptedOnceUnlessLost /\ OtherOutagesAreRetried /\ OverrideSuffices

\* Why they hold: the inductive invariant.  A job has been called for at most once per
\* attempt; the provider's acceptances are the answers that did not tell and the one that did,
\* which ends the job; what the job will be closed with is what the last answer was.
AttemptsLeft == state \in {"new", "waiting", "calling", "closing"} => attempts < MaxAttempts

CallsAreAttempts == calls <= attempts + (IF state = "closing" THEN 1 ELSE 0)

AcceptancesAreKnown == accepted = lost + (IF reply.means = "taken" THEN 1 ELSE 0)

TakenEndsTheJob ==
    reply.means = "taken" => state = "completed" \/ (state = "closing" /\ error = "none")

AnswersAreSorted ==
    state = "closing" =>
        /\ error = "none" => reply.means \in {"taken", "partly"} \/ Unread
        /\ error = "client" /\ reply.means \in Outage => Mistaken

OverridingIsCalled == Overriding /\ state = "closing" => calls > 0

ChannelsInv ==
    /\ AttemptsLeft /\ CallsAreAttempts /\ AcceptancesAreKnown /\ TakenEndsTheJob
    /\ AnswersAreSorted /\ OverridingIsCalled
    /\ CompletedIsAccepted /\ OtherOutagesAreRetried /\ OverrideSuffices

\* A job keeps what NotificationContract promises of a request: it is settled in the
\* end, and calls its provider at most once per attempt.
Status == [r \in {"job"} |->
    CASE state = "new" -> "new"
      [] state \in {"waiting", "calling", "closing"} -> "accepted"
      [] OTHER -> "settled"]
Contract == INSTANCE NotificationContract
    WITH Request <- {"job"}, MaxSends <- MaxAttempts, status <- Status,
         sends <- [r \in {"job"} |-> calls]
KeepsContract == Contract!FairSpec
=============================================================================

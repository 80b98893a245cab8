------------------------ MODULE NotificationEdgesProofs ------------------------
(***************************************************************************)
(* That every channel sorts its provider's answers rightly, for any number *)
(* of attempts, and that linking Telegram accounts is sound for any number *)
(* of users, chats, updates, tokens and failing calls.                     *)
(***************************************************************************)
EXTENDS NotificationEdges, FiniteSetTheorems, TLAPS

-----------------------------------------------------------------------------
(* What the send() of every channel is like *)

\* What an attempt may make of one answer: it reports success only of what was taken or is not
\* read, throws nothing at what was taken, and takes no outage for the caller's fault but the
\* mistaken ones.
SortsAnswer(a, thrown) ==
    /\ a.means \in Meaning /\ thrown \in {"none", "client", "provider"}
    /\ thrown = "none" => a.means \in {"taken", "partly"} \/ a.code \in {"errors", "empty"}
    /\ a.means = "taken" => thrown = "none"
    /\ thrown = "client" /\ a.means \in Outage =>
          \/ a.means = "limited" /\ a.status \in 400 .. 499
          \/ a.means = "down" /\ channel = "email" /\ a.status = 421

Sorted(f) == \A a \in DOMAIN f : SortsAnswer(a, f[a])

\* Every check throws one of the two errors, and the answers are sorted.
Sorts(s) ==
    /\ Sorted(s.error)
    /\ \A i \in DOMAIN s.checks : s.checks[i].error \in {"client", "provider"}

\* All checks are met.
Passes(s) == \A i \in DOMAIN s.checks : s.checks[i].met

\* The send() of a channel does so, and passes a message that brings all options.
Suits(name, s) == channel = name => Sorts(s) /\ (Overriding => Passes(s))

\* A check that is met passes; one that is not throws its error.
LEMMA CheckThrows ==
    ASSUME NEW p
    PROVE  /\ Ours(p).error = "provider" /\ Callers(p).error = "client"
           /\ p => Ours(p).met /\ Callers(p).met
BY DEF Ours, Callers

\* The three ways of sorting.
StatusErrors(answers) == [a \in answers |-> ErrorOf(Resolves(a), IsClient(a))]
NameErrors(answers, clients) == [a \in answers |-> ErrorOf(Resolves(a), a.code \in clients)]
BodyErrors(answers, successes, clients) ==
    [a \in answers |->
        IF Resolves(a) THEN ErrorOf(a.code \in successes, a.code \in clients)
        ELSE ErrorOf(FALSE, IsClient(a))]

\* What the fields of an answer are.
LEMMA ReplyFields ==
    ASSUME NEW n, NEW c, NEW m
    PROVE  Reply(n, c, m).status = n /\ Reply(n, c, m).code = c /\ Reply(n, c, m).means = m
BY DEF Reply

\* A failed request: its status is none or from 400 on, it means no success, and only a limit has
\* a status below 500 that is not a refusal.
LEMMA FailuresFail ==
    ASSUME NEW a \in Failures
    PROVE  /\ ~Resolves(a) /\ a.means \in Meaning \ {"taken", "partly"}
           /\ IsClient(a) /\ a.means \in Outage => a.means = "limited" /\ a.status \in 400 .. 499
BY ReplyFields DEF Failures, Silence, Resolves, IsClient, Meaning, Outage

\* What a body, and what a named exception, is.
LEMMA BodyFields ==
    ASSUME NEW C, NEW m, NEW a \in Bodies(C, m)
    PROVE  a.status = 200 /\ a.code \in C /\ a.means = m
BY ReplyFields DEF Bodies

LEMMA NamedFields ==
    ASSUME NEW C, NEW m, NEW a \in Named(C, m)
    PROVE  a.status = 0 /\ a.code \in C /\ a.means = m
BY ReplyFields DEF Named

\* By its status, an answer over HTTP is sorted, and an unread refusal completes the job.
LEMMA HttpSorted ==
    /\ Sorted(StatusErrors(Http))
    /\ Sorted(StatusErrors(Http \cup Bodies({"errors"}, "refused")))
<1>1. ASSUME NEW a \in Http PROVE SortsAnswer(a, ErrorOf(Resolves(a), IsClient(a)))
  <2>1. CASE a \in Failures
    BY <2>1, FailuresFail DEF SortsAnswer, ErrorOf
  <2>2. CASE a = Reply(200, "none", "taken")
    BY <2>2, ReplyFields DEF SortsAnswer, ErrorOf, Resolves, Meaning, Outage
  <2> QED BY <2>1, <2>2 DEF Http
<1>2. ASSUME NEW a \in Bodies({"errors"}, "refused")
      PROVE  SortsAnswer(a, ErrorOf(Resolves(a), IsClient(a)))
  BY BodyFields DEF SortsAnswer, ErrorOf, Resolves, Meaning, Outage
<1> QED BY <1>1, <1>2 DEF Sorted, StatusErrors

\* SMTP's answers are sorted, but for 421 and the limits.
LEMMA SmtpSorted == channel = "email" => Sorted(StatusErrors(Smtp))
<1> SUFFICES ASSUME channel = "email", NEW a \in Smtp
             PROVE  SortsAnswer(a, ErrorOf(Resolves(a), IsClient(a)))
  BY DEF Sorted, StatusErrors
<1>1. CASE a \in Silence
  BY <1>1, ReplyFields DEF Silence, SortsAnswer, ErrorOf, Resolves, IsClient, Meaning, Outage
<1>2. CASE a \in {Reply(250, "none", "taken"), Reply(550, "none", "refused")}
  BY <1>2, ReplyFields DEF SortsAnswer, ErrorOf, Resolves, IsClient, Meaning, Outage
<1>3. CASE a \in {Reply(421, "none", "down"), Reply(452, "none", "limited")}
  BY <1>3, ReplyFields DEF SortsAnswer, ErrorOf, Resolves, IsClient, Meaning, Outage
<1> QED BY <1>1, <1>2, <1>3 DEF Smtp

\* An answer that names a refusal is one.
LEMMA FcmSorted == Sorted(NameErrors(FcmAnswers, FcmRefusals))
<1> SUFFICES ASSUME NEW a \in FcmAnswers
             PROVE  SortsAnswer(a, ErrorOf(Resolves(a), a.code \in FcmRefusals))
  BY DEF Sorted, NameErrors
<1>1. CASE a \in Silence
  BY <1>1, ReplyFields DEF Silence, FcmRefusals, SortsAnswer, ErrorOf, Resolves, Meaning, Outage
<1>2. CASE a = Reply(200, "none", "taken")
  BY <1>2, ReplyFields DEF SortsAnswer, ErrorOf, Resolves, Meaning, Outage
<1>3. CASE a \in Named(FcmRefusals \cup {"authentication-error"}, "refused")
  <2>1. a.status = 0 /\ a.means = "refused"
    BY <1>3, NamedFields
  <2> QED BY <2>1 DEF SortsAnswer, ErrorOf, Resolves, Meaning, Outage
<1>4. CASE a \in Named({"message-rate-exceeded"}, "limited") \cup Named({"server-unavailable"}, "down")
                 \cup Named({"internal-error"}, "lost")
  <2>1. /\ a.status = 0 /\ a.means \in Outage
        /\ a.code \in {"message-rate-exceeded", "server-unavailable", "internal-error"}
    BY <1>4, NamedFields DEF Outage
  <2>2. ~Resolves(a) /\ a.code \notin FcmRefusals
    BY <2>1 DEF Resolves, FcmRefusals
  <2> QED BY <2>1, <2>2 DEF SortsAnswer, ErrorOf, Meaning, Outage
<1> QED BY <1>1, <1>2, <1>3, <1>4 DEF FcmAnswers

LEMMA PusherSorted == Sorted(NameErrors(PusherAnswers, {"invalid", "missing"}))
<1> SUFFICES ASSUME NEW a \in PusherAnswers
             PROVE  SortsAnswer(a, ErrorOf(Resolves(a), a.code \in {"invalid", "missing"}))
  BY DEF Sorted, NameErrors
<1>1. CASE a \in Silence
  BY <1>1, ReplyFields DEF Silence, SortsAnswer, ErrorOf, Resolves, Meaning, Outage
<1>2. CASE a = Reply(200, "none", "taken")
  BY <1>2, ReplyFields DEF SortsAnswer, ErrorOf, Resolves, Meaning, Outage
<1>3. CASE a \in Named({"invalid", "missing", "other"}, "refused")
  <2>1. a.status = 0 /\ a.means = "refused"
    BY <1>3, NamedFields
  <2> QED BY <2>1 DEF SortsAnswer, ErrorOf, Resolves, Meaning, Outage
<1>4. CASE a \in Named({"other"}, "limited")
  <2>1. a.status = 0 /\ a.means = "limited" /\ a.code = "other"
    BY <1>4, NamedFields
  <2> QED BY <2>1 DEF SortsAnswer, ErrorOf, Resolves, Meaning, Outage
<1> QED BY <1>1, <1>2, <1>3, <1>4 DEF PusherAnswers

\* A body's code is a success only where the message, or a part of it, was taken, and names the
\* caller's fault only where it was refused.
LEMMA FailedBodySorts ==
    ASSUME NEW a \in Failures, NEW S, NEW C
    PROVE  SortsAnswer(a, BodyErrors({a}, S, C)[a])
BY FailuresFail DEF SortsAnswer, ErrorOf, BodyErrors

LEMMA BodySorts ==
    ASSUME NEW a, a.status = 200, a.means \in Meaning, NEW S, NEW C,
           a.code \in S => a.means \in {"taken", "partly"} \/ a.code = "empty",
           a.means = "taken" => a.code \in S,
           a.code \in C => a.code \in S \/ a.means \notin Outage
    PROVE  SortsAnswer(a, BodyErrors({a}, S, C)[a])
BY DEF SortsAnswer, ErrorOf, BodyErrors, Resolves

LEMMA BodyErrorsSort ==
    ASSUME NEW A, NEW S, NEW C, \A a \in A : SortsAnswer(a, BodyErrors({a}, S, C)[a])
    PROVE  Sorted(BodyErrors(A, S, C))
BY DEF Sorted, BodyErrors

LEMMA SmsMisrSorted == Sorted(BodyErrors(SmsMisrAnswers, {"1901", "6000"}, SmsMisrRefusals))
<1> SUFFICES ASSUME NEW a \in SmsMisrAnswers \ Failures
             PROVE  SortsAnswer(a, BodyErrors({a}, {"1901", "6000"}, SmsMisrRefusals)[a])
  BY FailedBodySorts, BodyErrorsSort
<1>1. /\ a.status = 200 /\ a.means \in {"taken", "refused", "down", "lost"}
      /\ a.means = "taken" <=> a.code \in {"1901", "6000"}
      /\ a.code \in SmsMisrRefusals => a.means = "refused"
  BY BodyFields DEF SmsMisrAnswers, SmsMisrRefusals
<1> QED BY <1>1, BodySorts DEF Meaning, Outage

LEMMA VonageSorted == Sorted(BodyErrors(VonageAnswers, {"0"}, VonageRefusals))
<1> SUFFICES ASSUME NEW a \in VonageAnswers \ Failures
             PROVE  SortsAnswer(a, BodyErrors({a}, {"0"}, VonageRefusals)[a])
  BY FailedBodySorts, BodyErrorsSort
<1>1. /\ a.status = 200 /\ a.means \in Meaning
      /\ a.means = "taken" => a.code = "0"
      /\ a.code = "0" => a.means \in {"taken", "partly"}
      /\ a.code \in VonageRefusals => a.means = "refused"
  BY BodyFields DEF VonageAnswers, VonageRefusals, Meaning
<1> QED BY <1>1, BodySorts DEF Outage

LEMMA SlackSorted == Sorted(BodyErrors(SlackAnswers, {"ok", "empty"}, SlackRefusals))
<1> SUFFICES ASSUME NEW a \in SlackAnswers \ Failures
             PROVE  SortsAnswer(a, BodyErrors({a}, {"ok", "empty"}, SlackRefusals)[a])
  BY FailedBodySorts, BodyErrorsSort
<1>1. /\ a.status = 200 /\ a.means \in Meaning
      /\ a.means = "taken" => a.code \in {"ok", "empty"}
      /\ a.code = "ok" => a.means = "taken"
      /\ a.code \in SlackRefusals => a.means = "refused"
  BY BodyFields DEF SlackAnswers, SlackRefusals, Meaning
<1> QED BY <1>1, BodySorts DEF Outage

\* SES: every status from 400 to 499 is the caller's fault but one exception's name.
SesErrors ==
    [a \in SesAnswers |->
        ErrorOf(Resolves(a), a.code \in SesRefusals \/ (IsClient(a) /\ a.code # "ThrottlingException"))]

LEMMA SesSorted == Sorted(SesErrors)
<1> SUFFICES ASSUME NEW a \in SesAnswers
             PROVE  SortsAnswer(a, SesErrors[a])
  BY DEF Sorted, SesErrors
<1> DEFINE clients == a.code \in SesRefusals \/ (IsClient(a) /\ a.code # "ThrottlingException")
<1>0. SesErrors[a] = ErrorOf(Resolves(a), clients)
  BY DEF SesErrors
<1>1. CASE a \in Failures
  <2>1. a.code = "none"
    BY <1>1, ReplyFields DEF Failures, Silence
  <2>2. clients => IsClient(a)
    BY <2>1 DEF SesRefusals
  <2> HIDE DEF clients
  <2> QED BY <1>0, <1>1, <2>2, FailuresFail DEF SortsAnswer, ErrorOf
<1>2. CASE a = Reply(200, "none", "taken")
  <2>1. a.status = 200 /\ a.means = "taken"
    BY <1>2, ReplyFields
  <2> HIDE DEF clients
  <2> QED BY <1>0, <2>1 DEF SortsAnswer, ErrorOf, Resolves, Meaning, Outage
<1>3. CASE \/ a \in {Reply(400, name, "refused") : name \in SesRefusals}
           \/ a \in {Reply(400, name, "limited") : name \in {"Throttling", "ThrottlingException"}}
  <2>1. a.status = 400 /\ a.means \in {"refused", "limited"}
    BY <1>3, ReplyFields
  <2> HIDE DEF clients
  <2> QED BY <1>0, <2>1 DEF SortsAnswer, ErrorOf, Resolves, Meaning, Outage
<1> QED BY <1>1, <1>2, <1>3 DEF SesAnswers, Http

\* A send() with a list of checks that throw one of the two errors.
Checked(checks, errors) == [checks |-> checks, error |-> errors]
Throws(check) == check.error \in {"client", "provider"}

LEMMA NoChecks ==
    ASSUME NEW f, Sorted(f)
    PROVE  Sorts(Checked(<<>>, f)) /\ Passes(Checked(<<>>, f))
BY DEF Checked, Sorts, Passes

LEMMA OneCheck ==
    ASSUME NEW w, Throws(w),
           NEW f, Sorted(f)
    PROVE  LET s == Checked(<<w>>, f)
           IN  Sorts(s) /\ (w.met => Passes(s))
<1> DEFINE s == Checked(<<w>>, f)
<1>1. s.checks = <<w>> /\ s.error = f
  BY DEF Checked
<1>2. DOMAIN s.checks = 1 .. 1 /\ \A i \in 1 .. 1 : s.checks[i] = w
  BY <1>1
<1>3. Sorts(s) /\ (w.met => Passes(s))
  <2> HIDE DEF s
  <2> QED BY <1>1, <1>2 DEF Sorts, Passes, Throws
<1> QED BY <1>3

LEMMA TwoChecks ==
    ASSUME NEW w, NEW x, Throws(w), Throws(x),
           NEW f, Sorted(f)
    PROVE  LET s == Checked(<<w, x>>, f)
           IN  Sorts(s) /\ (w.met /\ x.met => Passes(s))
<1> DEFINE s == Checked(<<w, x>>, f)
<1>1. s.checks = <<w, x>> /\ s.error = f
  BY DEF Checked
<1>2. DOMAIN s.checks = 1 .. 2 /\ \A i \in 1 .. 2 : s.checks[i] = w \/ s.checks[i] = x
  BY <1>1
<1>3. Sorts(s) /\ (w.met /\ x.met => Passes(s))
  <2> HIDE DEF s
  <2> QED BY <1>1, <1>2 DEF Sorts, Passes, Throws
<1> QED BY <1>3

LEMMA ThreeChecks ==
    ASSUME NEW w, NEW x, NEW y, Throws(w), Throws(x), Throws(y),
           NEW f, Sorted(f)
    PROVE  LET s == Checked(<<w, x, y>>, f)
           IN  Sorts(s) /\ (w.met /\ x.met /\ y.met => Passes(s))
<1> DEFINE s == Checked(<<w, x, y>>, f)
<1>1. s.checks = <<w, x, y>> /\ s.error = f
  BY DEF Checked
<1>2. DOMAIN s.checks = 1 .. 3 /\ \A i \in 1 .. 3 : s.checks[i] = w \/ s.checks[i] = x \/ s.checks[i] = y
  BY <1>1
<1>3. Sorts(s) /\ (w.met /\ x.met /\ y.met => Passes(s))
  <2> HIDE DEF s
  <2> QED BY <1>1, <1>2 DEF Sorts, Passes, Throws
<1> QED BY <1>3

LEMMA FourChecks ==
    ASSUME NEW w, NEW x, NEW y, NEW z, Throws(w), Throws(x), Throws(y), Throws(z),
           NEW f, Sorted(f)
    PROVE  LET s == Checked(<<w, x, y, z>>, f)
           IN  Sorts(s) /\ (w.met /\ x.met /\ y.met /\ z.met => Passes(s))
<1> DEFINE s == Checked(<<w, x, y, z>>, f)
<1>1. s.checks = <<w, x, y, z>> /\ s.error = f
  BY DEF Checked
<1>2. DOMAIN s.checks = 1 .. 4 /\ \A i \in 1 .. 4 : s.checks[i] = w \/ s.checks[i] = x \/ s.checks[i] = y \/ s.checks[i] = z
  BY <1>1
<1>3. Sorts(s) /\ (w.met /\ x.met /\ y.met /\ z.met => Passes(s))
  <2> HIDE DEF s
  <2> QED BY <1>1, <1>2 DEF Sorts, Passes, Throws
<1> QED BY <1>3

LEMMA TelegramSuits == Suits("telegram", TelegramSend)
<1> DEFINE w == Ours(Given("key"))
           x == Callers(Addressed)
<1>1. TelegramSend = Checked(<<w, x>>, StatusErrors(Http))
  BY DEF TelegramSend, ByStatus, StatusErrors, Checked
<1>2. Throws(w) /\ Throws(x)
  BY CheckThrows DEF Throws
<1>3. ASSUME channel = "telegram", Overriding PROVE w.met /\ x.met
  <2>1. Given("key") /\ Addressed
    BY <1>3 DEF Overriding, Options, Account, Given, Addressed
  <2> QED BY <2>1, CheckThrows
<1> HIDE DEF w, x
<1> QED BY <1>1, <1>2, <1>3, HttpSorted, TwoChecks DEF Suits

LEMMA DiscordSuits == Suits("discord", DiscordSend)
<1> DEFINE w == Ours(message.to = "url" \/ Given("url"))
<1>1. DiscordSend = Checked(<<w>>, StatusErrors(Http))
  BY DEF DiscordSend, ByStatus, StatusErrors, Checked
<1>2. Throws(w)
  BY CheckThrows DEF Throws
<1>3. ASSUME channel = "discord", Overriding PROVE w.met
  <2>1. Given("url")
    BY <1>3 DEF Overriding, Options, Account, Given
  <2> QED BY <2>1, CheckThrows
<1> HIDE DEF w
<1> QED BY <1>1, <1>2, <1>3, HttpSorted, OneCheck DEF Suits

LEMMA TeamsSuits == Suits("teams", TeamsSend)
<1> DEFINE w == Ours(message.to = "url" \/ Given("url"))
<1>1. TeamsSend = Checked(<<w>>, StatusErrors(Http \cup Bodies({"errors"}, "refused")))
  BY DEF TeamsSend, ByStatus, StatusErrors, Checked
<1>2. Throws(w)
  BY CheckThrows DEF Throws
<1>3. ASSUME channel = "teams", Overriding PROVE w.met
  <2>1. Given("url")
    BY <1>3 DEF Overriding, Options, Account, Given
  <2> QED BY <2>1, CheckThrows
<1> HIDE DEF w
<1> QED BY <1>1, <1>2, <1>3, HttpSorted, OneCheck DEF Suits

LEMMA FirebaseSuits == Suits("firebase_fcm", FirebaseSend)
<1> DEFINE w == Ours("key" \in config)
           x == Callers(Addressed)
<1>1. FirebaseSend = Checked(<<w, x>>, NameErrors(FcmAnswers, FcmRefusals))
  BY DEF FirebaseSend, ByName, NameErrors, Checked
<1>2. Throws(w) /\ Throws(x)
  BY CheckThrows DEF Throws
<1>3. ASSUME channel = "firebase_fcm", Overriding PROVE w.met /\ x.met
  <2>1. FALSE
    BY <1>3 DEF Overriding, Options, Account, Given
  <2> QED BY <2>1, CheckThrows
<1> HIDE DEF w, x
<1> QED BY <1>1, <1>2, <1>3, FcmSorted, TwoChecks DEF Suits

LEMMA MessengerSuits == Suits("facebook_messenger", MessengerSend)
<1> DEFINE w == Ours("key" \in config)
<1>1. MessengerSend = Checked(<<w>>, StatusErrors(Http))
  BY DEF MessengerSend, ByStatus, StatusErrors, Checked
<1>2. Throws(w)
  BY CheckThrows DEF Throws
<1>3. ASSUME channel = "facebook_messenger", Overriding PROVE w.met
  <2>1. FALSE
    BY <1>3 DEF Overriding, Options, Account, Given
  <2> QED BY <2>1, CheckThrows
<1> HIDE DEF w
<1> QED BY <1>1, <1>2, <1>3, HttpSorted, OneCheck DEF Suits

LEMMA WebhookSuits == Suits("webhook", WebhookSend)
<1> DEFINE w == Callers(message.to = "url")
<1>1. WebhookSend = Checked(<<w>>, StatusErrors(Http))
  BY DEF WebhookSend, ByStatus, StatusErrors, Checked
<1>2. Throws(w)
  BY CheckThrows DEF Throws
<1>3. ASSUME channel = "webhook", Overriding PROVE w.met
  <2>1. FALSE
    BY <1>3 DEF Overriding, Options, Account, Given
  <2> QED BY <2>1, CheckThrows
<1> HIDE DEF w
<1> QED BY <1>1, <1>2, <1>3, HttpSorted, OneCheck DEF Suits

LEMMA WhatsAppSuits == Suits("whatsapp", WhatsAppSend)
<1> DEFINE w == Ours(~Malformed)
           x == Ours(Client)
           y == Ours(Given("from"))
           z == Callers(Addressed)
<1>1. WhatsAppSend = Checked(<<w, x, y, z>>, StatusErrors(Http))
  BY DEF WhatsAppSend, ByStatus, StatusErrors, Checked
<1>2. Throws(w) /\ Throws(x) /\ Throws(y) /\ Throws(z)
  BY CheckThrows DEF Throws
<1>3. ASSUME channel = "whatsapp", Overriding PROVE w.met /\ x.met /\ y.met /\ z.met
  <2>1. ~Malformed /\ Client /\ Given("from") /\ Addressed
    BY <1>3 DEF Overriding, Options, Account, Given, Client, Malformed, Addressed
  <2> QED BY <2>1, CheckThrows
<1> HIDE DEF w, x, y, z
<1> QED BY <1>1, <1>2, <1>3, HttpSorted, FourChecks DEF Suits

LEMMA OneSignalSuits == Suits("onesignal", OneSignalSend)
<1> DEFINE w == Ours(Given("key"))
           x == Ours(Given("secret"))
<1>1. OneSignalSend = Checked(<<w, x>>, StatusErrors(Http \cup Bodies({"errors"}, "refused")))
  BY DEF OneSignalSend, ByStatus, StatusErrors, Checked
<1>2. Throws(w) /\ Throws(x)
  BY CheckThrows DEF Throws
<1>3. ASSUME channel = "onesignal", Overriding PROVE w.met /\ x.met
  <2>1. Given("key") /\ Given("secret")
    BY <1>3 DEF Overriding, Options, Account, Given
  <2> QED BY <2>1, CheckThrows
<1> HIDE DEF w, x
<1> QED BY <1>1, <1>2, <1>3, HttpSorted, TwoChecks DEF Suits

LEMMA WebPushSuits == Suits("web_push", WebPushSend)
<1> DEFINE w == Callers(message.to = "subscription" \/ (message.to # "json" /\ "subscription" \in message.options))
           x == Ours(Given("key"))
           y == Ours(Given("secret"))
           z == Ours(Given("from"))
<1>1. WebPushSend = Checked(<<w, x, y, z>>, StatusErrors(Http))
  BY DEF WebPushSend, ByStatus, StatusErrors, Checked
<1>2. Throws(w) /\ Throws(x) /\ Throws(y) /\ Throws(z)
  BY CheckThrows DEF Throws
<1>3. ASSUME channel = "web_push", Overriding PROVE w.met /\ x.met /\ y.met /\ z.met
  <2>1. /\ message.to # "json" /\ "subscription" \in message.options
        /\ Given("key") /\ Given("secret") /\ Given("from")
    BY <1>3 DEF Overriding, Options, Account, Given
  <2> QED BY <2>1, CheckThrows
<1> HIDE DEF w, x, y, z
<1> QED BY <1>1, <1>2, <1>3, HttpSorted, FourChecks DEF Suits

LEMMA PusherSuits == Suits("in_app", PusherSend)
<1> DEFINE w == Callers(Addressed)
           x == Ours(Client)
<1>1. PusherSend = Checked(<<w, x>>, NameErrors(PusherAnswers, {"invalid", "missing"}))
  BY DEF PusherSend, ByName, NameErrors, Checked
<1>2. Throws(w) /\ Throws(x)
  BY CheckThrows DEF Throws
<1>3. ASSUME channel = "in_app", Overriding PROVE w.met /\ x.met
  <2>1. Addressed /\ Client
    BY <1>3 DEF Overriding, Options, Account, Given, Client, Addressed
  <2> QED BY <2>1, CheckThrows
<1> HIDE DEF w, x
<1> QED BY <1>1, <1>2, <1>3, PusherSorted, TwoChecks DEF Suits

LEMMA TwilioSuits == Suits("sms", TwilioSend)
<1> DEFINE w == Ours(~Malformed)
           x == Ours(Client)
           y == Callers(Addressed)
<1>1. TwilioSend = Checked(<<w, x, y>>, StatusErrors(Http))
  BY DEF TwilioSend, ByStatus, StatusErrors, Checked
<1>2. Throws(w) /\ Throws(x) /\ Throws(y)
  BY CheckThrows DEF Throws
<1>3. ASSUME channel = "sms", Overriding PROVE w.met /\ x.met /\ y.met
  <2>1. ~Malformed /\ Client /\ Addressed
    BY <1>3 DEF Overriding, Options, Account, Given, Client, Malformed, Addressed
  <2> QED BY <2>1, CheckThrows
<1> HIDE DEF w, x, y
<1> QED BY <1>1, <1>2, <1>3, HttpSorted, ThreeChecks DEF Suits

LEMMA SmsMisrSuits == Suits("sms", SmsMisrSend)
<1> DEFINE w == Ours(Given("key") /\ Given("secret"))
           x == Ours(Given("from"))
           y == Callers(Addressed)
<1>1. SmsMisrSend = Checked(<<w, x, y>>, BodyErrors(SmsMisrAnswers, {"1901", "6000"}, SmsMisrRefusals))
  BY DEF SmsMisrSend, ByBody, BodyErrors, Checked
<1>2. Throws(w) /\ Throws(x) /\ Throws(y)
  BY CheckThrows DEF Throws
<1>3. ASSUME channel = "sms", Overriding PROVE w.met /\ x.met /\ y.met
  <2>1. Given("key") /\ Given("secret") /\ Given("from") /\ Addressed
    BY <1>3 DEF Overriding, Options, Account, Given, Addressed
  <2> QED BY <2>1, CheckThrows
<1> HIDE DEF w, x, y
<1> QED BY <1>1, <1>2, <1>3, SmsMisrSorted, ThreeChecks DEF Suits

LEMMA VonageSuits == Suits("sms", VonageSend)
<1> DEFINE w == Ours(Given("key") /\ Given("secret"))
           x == Ours(Given("from"))
           y == Callers(Addressed)
<1>1. VonageSend = Checked(<<w, x, y>>, BodyErrors(VonageAnswers, {"0"}, VonageRefusals))
  BY DEF VonageSend, ByBody, BodyErrors, Checked
<1>2. Throws(w) /\ Throws(x) /\ Throws(y)
  BY CheckThrows DEF Throws
<1>3. ASSUME channel = "sms", Overriding PROVE w.met /\ x.met /\ y.met
  <2>1. Given("key") /\ Given("secret") /\ Given("from") /\ Addressed
    BY <1>3 DEF Overriding, Options, Account, Given, Addressed
  <2> QED BY <2>1, CheckThrows
<1> HIDE DEF w, x, y
<1> QED BY <1>1, <1>2, <1>3, VonageSorted, ThreeChecks DEF Suits

LEMMA NodemailerSuits == Suits("email", NodemailerSend)
<1> DEFINE w == Callers(Given("from") \/ "user" \in config)
           x == Callers(Addressed)
           y == Callers(Titled)
           z == Ours("smtp" \in message.options \/ "user" \in config)
<1>1. NodemailerSend = Checked(<<w, x, y, z>>, StatusErrors(Smtp))
  BY DEF NodemailerSend, ByStatus, StatusErrors, Checked, Sender
<1>2. Throws(w) /\ Throws(x) /\ Throws(y) /\ Throws(z)
  BY CheckThrows DEF Throws
<1>3. ASSUME channel = "email", Overriding PROVE w.met /\ x.met /\ y.met /\ z.met
  <2>1. Given("from") /\ Addressed /\ Titled /\ "smtp" \in message.options
    BY <1>3 DEF Overriding, Options, Account, Given, Addressed, Titled
  <2> QED BY <2>1, CheckThrows
<1> HIDE DEF w, x, y, z
<1> QED BY <1>1, <1>2, <1>3, SmtpSorted, FourChecks DEF Suits

LEMMA SesSuits == Suits("email", SesSend)
<1> DEFINE w == Callers(Given("from") \/ "user" \in config)
           x == Callers(Addressed)
           y == Callers(Titled)
<1>1. SesSend = Checked(<<w, x, y>>, SesErrors)
  BY DEF SesSend, SesErrors, Checked, Sender
<1>2. Throws(w) /\ Throws(x) /\ Throws(y)
  BY CheckThrows DEF Throws
<1>3. ASSUME channel = "email", Overriding PROVE w.met /\ x.met /\ y.met
  <2>1. Given("from") /\ Addressed /\ Titled
    BY <1>3 DEF Overriding, Options, Account, Given, Addressed, Titled
  <2> QED BY <2>1, CheckThrows
<1> HIDE DEF w, x, y
<1> QED BY <1>1, <1>2, <1>3, SesSorted, ThreeChecks DEF Suits

\* SendGrid's key comes from the settings alone, so that options do not suffice for it.
LEMMA SendGridSorts == Sorts(SendGridSend)
<1> DEFINE w == Sender
           x == Ours("key" \in config)
           y == Callers(Addressed)
           z == Callers(Titled)
<1>1. SendGridSend = Checked(<<w, x, y, z>>, StatusErrors(Http))
  BY DEF SendGridSend, ByStatus, StatusErrors, Checked
<1>2. Throws(w) /\ Throws(x) /\ Throws(y) /\ Throws(z)
  BY CheckThrows DEF Throws, Sender
<1> HIDE DEF w, x, y, z
<1> QED BY <1>1, <1>2, HttpSorted, FourChecks

LEMMA SlackSuits == Suits("slack", SlackSend)
<1> DEFINE url == message.to = "url" \/ "url" \in message.options
           hook == url \/ (~Given("key") /\ "url" \in config)
           w == Ours(Given("key"))
           x == Callers(message.to = "plain" \/ Given("channel"))
<1>1. /\ hook => SlackSend = Checked(<<>>, StatusErrors(Http))
      /\ ~hook => SlackSend = Checked(<<w, x>>, BodyErrors(SlackAnswers, {"ok", "empty"}, SlackRefusals))
  BY DEF SlackSend, ByStatus, ByBody, StatusErrors, BodyErrors, Checked
<1>2. Throws(w) /\ Throws(x)
  BY CheckThrows DEF Throws
<1>3. channel = "slack" /\ Overriding => hook
  BY DEF Overriding, Options
<1> HIDE DEF hook, w, x
<1> QED BY <1>1, <1>2, <1>3, HttpSorted, SlackSorted, NoChecks, TwoChecks DEF Suits

\* Whatever channel and provider a job has, its send() sorts answers and lets a message
\* pass that brings all options.
LEMMA SendSuits ==
    ASSUME ChannelTypes
    PROVE  Sorts(Send) /\ (Overriding => Passes(Send))
<1>1. channel \in {"telegram", "discord", "teams", "firebase_fcm", "facebook_messenger", "webhook",
                  "whatsapp", "sms", "email", "slack", "onesignal", "web_push", "in_app"}
  BY DEF ChannelTypes, Channel, Options
<1>2. CASE channel = "email"
  <2>1. Send = MailSend
    BY <1>2 DEF Send
  <2>2. CASE provider \in {"twilio", "sendgrid"}
    BY <1>2, <2>1, <2>2, SendGridSorts DEF MailSend, Overriding
  <2>3. CASE provider \in {"ses", "aws"}
    BY <1>2, <2>1, <2>3, SesSuits DEF MailSend, Suits
  <2>4. CASE provider \notin {"twilio", "sendgrid", "ses", "aws"}
    BY <1>2, <2>1, <2>4, NodemailerSuits DEF MailSend, Suits
  <2> QED BY <2>2, <2>3, <2>4
<1>3. CASE channel = "sms"
  BY <1>3, TwilioSuits, SmsMisrSuits, VonageSuits DEF Send, SmsSend, Suits
<1>4. CASE channel \in {"telegram", "discord", "teams", "firebase_fcm"}
  BY <1>4, TelegramSuits, DiscordSuits, TeamsSuits, FirebaseSuits DEF Send, Suits
<1>5. CASE channel \in {"facebook_messenger", "webhook", "whatsapp", "slack"}
  BY <1>5, MessengerSuits, WebhookSuits, WhatsAppSuits, SlackSuits DEF Send, Suits
<1>6. CASE channel \in {"onesignal", "web_push", "in_app"}
  BY <1>6, OneSignalSuits, WebPushSuits, PusherSuits DEF Send, Suits
<1> QED BY <1>1, <1>2, <1>3, <1>4, <1>5, <1>6

-----------------------------------------------------------------------------
(* The job *)

LEMMA ChannelsInit == InitChannels => ChannelTypes /\ ChannelsInv
<1> SUFFICES ASSUME InitChannels PROVE ChannelTypes /\ ChannelsInv
  OBVIOUS
<1>1. ChannelTypes
  BY ChannelsAssumption DEF InitChannels, ChannelTypes, NoReply, Reply
<1>2. ChannelsInv
  BY ChannelsAssumption DEF InitChannels, ChannelsInv, AttemptsLeft, CallsAreAttempts,
     AcceptancesAreKnown, TakenEndsTheJob, AnswersAreSorted, OverridingIsCalled, CompletedIsAccepted,
     OtherOutagesAreRetried, OverrideSuffices, NoReply, Reply
<1> QED BY <1>1, <1>2

LEMMA ChannelsStep ==
    ASSUME ChannelTypes, ChannelsInv, [NextChannels]_channelVars
    PROVE  ChannelTypes' /\ ChannelsInv'
<1> USE ChannelsAssumption
        DEF ChannelTypes, ChannelsInv, AttemptsLeft, CallsAreAttempts, AcceptancesAreKnown,
            TakenEndsTheJob, AnswersAreSorted, OverridingIsCalled, CompletedIsAccepted,
            OtherOutagesAreRetried, OverrideSuffices, Mistaken, Unread
<1>1. CASE UNCHANGED channelVars
  BY <1>1 DEF channelVars, Overriding
<1>2. CASE Enqueue
  BY <1>2 DEF Enqueue, Overriding
<1>3. CASE Attempt
  <2>1. Sorts(Send) /\ (Overriding => Passes(Send))
    BY SendSuits
  <2>2. /\ state = "waiting" /\ reply' = NoReply
        /\ \/ state' = "calling" /\ error' = "none"
           \/ state' = "closing" /\ error' \in {"client", "provider"} /\ ~Overriding
        /\ UNCHANGED <<channel, provider, message, config, attempts, calls, accepted, lost>>
    BY <1>3, <2>1 DEF Attempt, FirstUnmet, Sorts, Passes, Overriding
  <2>3. reply'.means = "none" /\ "none" \notin Meaning
    BY <2>2, ReplyFields DEF NoReply, Meaning
  <2>4. ChannelTypes'
    BY <2>2, <2>3
  <2>5. ChannelsInv'
    BY <2>2, <2>3 DEF Overriding, Outage
  <2> QED BY <2>4, <2>5
<1>4. CASE Call
  <2>1. Sorts(Send)
    BY SendSuits
  <2>2. PICK answer \in DOMAIN Send.error :
            /\ reply' = answer
            /\ error' = Send.error[answer]
            /\ accepted' = accepted + (IF answer.means \in {"taken", "partly", "lost"} THEN 1 ELSE 0)
            /\ lost' = lost + (IF answer.means \in {"partly", "lost"} THEN 1 ELSE 0)
    BY <1>4 DEF Call
  <2>3. /\ state = "calling" /\ state' = "closing" /\ calls' = calls + 1
        /\ UNCHANGED <<channel, provider, message, config, attempts>>
    BY <1>4 DEF Call
  <2>4. SortsAnswer(reply', error')
    BY <2>1, <2>2 DEF Sorts, Sorted
  <2>5. ChannelTypes'
    BY <2>2, <2>3, <2>4 DEF SortsAnswer
  <2>6. accepted = lost
    BY <2>3
  <2>7. AcceptancesAreKnown' /\ TakenEndsTheJob' /\ AnswersAreSorted'
    BY <2>2, <2>3, <2>4, <2>6 DEF SortsAnswer
  <2>8. /\ AttemptsLeft' /\ CallsAreAttempts' /\ OverridingIsCalled' /\ CompletedIsAccepted'
        /\ OtherOutagesAreRetried' /\ OverrideSuffices'
    BY <2>3, <2>5
  <2> QED BY <2>5, <2>7, <2>8
<1>5. CASE Close
  <2>1. /\ state = "closing" /\ attempts' = attempts + 1
        /\ \/ error = "none" /\ state' = "completed"
           \/ error = "client" /\ state' = "failed"
           \/ error = "provider" /\ attempts + 1 >= MaxAttempts /\ state' = "failed"
           \/ error = "provider" /\ ~(attempts + 1 >= MaxAttempts) /\ state' = "waiting"
        /\ UNCHANGED <<channel, provider, message, config, error, calls, accepted, lost, reply>>
    BY <1>5 DEF Close, GivesUp
  <2>2. ChannelTypes'
    BY <2>1
  <2>3. /\ AttemptsLeft' /\ CallsAreAttempts' /\ AcceptancesAreKnown' /\ TakenEndsTheJob'
        /\ AnswersAreSorted'
    BY <2>1
  <2>4. CompletedIsAccepted' /\ OtherOutagesAreRetried'
    BY <2>1
  <2>5. OverridingIsCalled' /\ OverrideSuffices'
    BY <2>1 DEF Overriding
  <2> QED BY <2>2, <2>3, <2>4, <2>5
<1> QED BY <1>1, <1>2, <1>3, <1>4, <1>5 DEF NextChannels, Process

\* Every step of the job is one of the contract's, or is invisible there.
LEMMA JobContractStep ==
    ASSUME ChannelTypes, ChannelsInv, [NextChannels]_channelVars
    PROVE  [Contract!Next]_(Contract!contractVars)
<1> USE ChannelsAssumption DEF Status, Contract!contractVars
<1>1. CASE UNCHANGED channelVars
  BY <1>1 DEF channelVars
<1>2. CASE Enqueue
  <2>1. Contract!Accept("job")
    BY <1>2 DEF Enqueue, Contract!Accept, Contract!Become
  <2> QED BY <2>1 DEF Contract!Next
<1>3. CASE Attempt
  BY <1>3 DEF Attempt
<1>4. CASE Call
  <2>1. /\ state = "calling" /\ state' = "closing" /\ calls' = calls + 1
    BY <1>4 DEF Call
  <2>2. calls < MaxAttempts
    BY <2>1 DEF ChannelTypes, ChannelsInv, AttemptsLeft, CallsAreAttempts
  <2>3. Contract!Dispatch("job")
    BY <2>1, <2>2 DEF Contract!Dispatch
  <2> QED BY <2>3 DEF Contract!Next
<1>5. CASE Close
  <2>1. /\ state = "closing" /\ state' \in {"completed", "failed", "waiting"}
        /\ UNCHANGED calls
    BY <1>5 DEF Close
  <2>2. state' # "waiting" => Contract!Settle("job")
    BY <2>1 DEF Contract!Settle, Contract!Become
  <2> QED BY <2>1, <2>2 DEF Contract!Next
<1> QED BY <1>1, <1>2, <1>3, <1>4, <1>5 DEF NextChannels, Process

-----------------------------------------------------------------------------
(* Linking *)

LEMMA LinkingInit == InitLinking => LinkingTypes /\ LinkingInv
<1> SUFFICES ASSUME InitLinking PROVE LinkingTypes /\ LinkingInv
  OBVIOUS
<1> USE LinkingAssumption
<1>1. LinkingTypes
  BY DEF InitLinking, LinkingTypes
<1>2. TokensAreShown /\ RunsHaveTokens /\ UsedTokensAreGone /\ ClearsNothingFresh
  BY DEF InitLinking, TokensAreShown, RunsHaveTokens, UsedTokensAreGone, ClearsNothingFresh
<1>3. UnracedLinksOne /\ FreshTokenIsKept /\ WelcomeIsTrue
  BY DEF InitLinking, UnracedLinksOne, FreshTokenIsKept, WelcomeIsTrue
<1> QED BY <1>1, <1>2, <1>3 DEF LinkingInv

LEMMA LinkingStep ==
    ASSUME LinkingTypes, LinkingInv, [NextLinking]_linkingVars
    PROVE  LinkingTypes' /\ LinkingInv'
<1> USE LinkingAssumption DEF rows, posts, history, GoTo
<1>0. /\ TokensAreShown /\ RunsHaveTokens /\ UsedTokensAreGone /\ UnracedLinksOne
      /\ ClearsNothingFresh /\ FreshTokenIsKept /\ WelcomeIsTrue
  BY DEF LinkingInv
<1>a. \A t \in Token : Owner(t) \in User /\ t[2] \in 1 .. MaxTokens /\ t = <<Owner(t), t[2]>>
  BY DEF Token, Owner
<1>b. \A p \in Update : text[p] = "token" => token[p] \in Token
  BY <1>0 DEF TokensAreShown
<1>1. CASE UNCHANGED linkingVars
  <2>1. UNCHANGED <<telegramLinkToken, telegram_chat_id, issued, shown, phase, chat, text, token,
                    found, told, faults, linked, used, raced, overtaken>>
    BY <1>1 DEF linkingVars
  <2> QED BY <1>0, <2>1
          DEF LinkingTypes, LinkingInv, TokensAreShown, RunsHaveTokens, UsedTokensAreGone,
              UnracedLinksOne, ClearsNothingFresh, FreshTokenIsKept, WelcomeIsTrue
<1>2. ASSUME NEW u \in User, Generate(u) PROVE LinkingTypes' /\ LinkingInv'
  <2> DEFINE t == <<u, issued[u] + 1>>
  <2>1. /\ issued[u] < MaxTokens /\ issued' = [issued EXCEPT ![u] = issued[u] + 1]
        /\ telegramLinkToken' = [telegramLinkToken EXCEPT ![u] = t]
        /\ shown' = shown \/ shown' = shown \cup {t}
        /\ faults' \in {faults, faults + 1} /\ faults' <= MaxFaults
        /\ overtaken' = IF Linking(u) = {} THEN overtaken ELSE overtaken \cup {t}
        /\ UNCHANGED <<telegram_chat_id, phase, chat, text, token, found, told, linked, used, raced>>
    BY <1>2 DEF Generate, SaveToken, Fault, LinkingTypes
  <2>2. t \in Token /\ Owner(t) = u /\ t[2] = issued[u] + 1
    BY <2>1 DEF Token, Owner, LinkingTypes
  <2>3. t \notin shown /\ linked[t] = {}
    BY <1>0, <2>2 DEF TokensAreShown, LinkingTypes
  <2>4. LinkingTypes'
    BY <2>1, <2>2 DEF LinkingTypes
  <2>5. /\ issued'[u] = issued[u] + 1 /\ telegramLinkToken'[u] = t
        /\ \A v \in User : v # u => issued'[v] = issued[v] /\ telegramLinkToken'[v] = telegramLinkToken[v]
        /\ \A v \in User : issued[v] \in Nat
    BY <2>1 DEF LinkingTypes
  <2>6. TokensAreShown'
    <3>1. \A s \in shown' : s \in Token /\ s[2] <= issued'[Owner(s)]
      BY <1>0, <1>a, <2>1, <2>2, <2>5 DEF TokensAreShown
    <3> QED BY <1>0, <2>1, <2>5, <3>1 DEF TokensAreShown
  <2>7. RunsHaveTokens' /\ UnracedLinksOne' /\ WelcomeIsTrue'
    BY <1>0, <2>1 DEF RunsHaveTokens, UnracedLinksOne, WelcomeIsTrue
  <2>8. UsedTokensAreGone'
    <3>1. \A s \in Token : linked[s] # {} => telegramLinkToken'[Owner(s)] # s
      BY <1>0, <1>a, <2>3, <2>5 DEF UsedTokensAreGone
    <3> QED BY <1>0, <2>1, <3>1 DEF UsedTokensAreGone
  <2>9. ClearsNothingFresh'
    <3> SUFFICES ASSUME NEW p \in Update, phase[p] = "found"
                 PROVE  \/ <<found[p], issued'[found[p]]>> \notin shown'
                        \/ <<found[p], issued'[found[p]]>> \in used \cup overtaken'
      BY <2>1 DEF ClearsNothingFresh
    <3>1. CASE found[p] = u
      BY <2>1, <2>5, <3>1 DEF Linking
    <3>2. CASE found[p] # u
      <4>1. found[p] \in User
        BY DEF LinkingTypes
      <4>2. <<found[p], issued'[found[p]]>> = <<found[p], issued[found[p]]>>
        BY <2>5, <3>2, <4>1
      <4>3. <<found[p], issued[found[p]]>> # t
        BY <3>2
      <4> QED BY <1>0, <2>1, <4>2, <4>3 DEF ClearsNothingFresh
    <3> QED BY <3>1, <3>2
  <2>10. FreshTokenIsKept'
    <3> SUFFICES ASSUME NEW v \in User, <<v, issued'[v]>> \in shown' \ (used \cup overtaken')
                 PROVE  telegramLinkToken'[v] = <<v, issued'[v]>>
      BY <2>1 DEF FreshTokenIsKept
    <3>1. CASE v = u
      BY <2>5, <3>1
    <3>2. CASE v # u
      <4>1. <<v, issued[v]>> # t /\ issued'[v] = issued[v] /\ telegramLinkToken'[v] = telegramLinkToken[v]
        BY <2>5, <3>2
      <4> QED BY <1>0, <2>1, <4>1 DEF FreshTokenIsKept
    <3> QED BY <3>1, <3>2
  <2> QED BY <2>4, <2>6, <2>7, <2>8, <2>9, <2>10 DEF LinkingInv
<1>3. ASSUME NEW p \in Update, Post(p) PROVE LinkingTypes' /\ LinkingInv'
  <2>1. /\ phase[p] = "unsent" /\ phase' = [phase EXCEPT ![p] = "posted"]
        /\ \E c \in Chat : chat' = [chat EXCEPT ![p] = c]
        /\ \/ \E t \in shown : token' = [token EXCEPT ![p] = t] /\ text' = [text EXCEPT ![p] = "token"]
           \/ \E form \in {"empty", "other"} : text' = [text EXCEPT ![p] = form] /\ token' = token
        /\ UNCHANGED <<telegramLinkToken, telegram_chat_id, issued, shown, found, told, faults,
                       linked, used, raced, overtaken>>
    BY <1>3 DEF Post
  <2>2. LinkingTypes'
    BY <2>1 DEF LinkingTypes
  <2>3. \A q \in Update : q # p => /\ phase'[q] = phase[q] /\ chat'[q] = chat[q]
                                   /\ token'[q] = token[q] /\ text'[q] = text[q]
    BY <2>1 DEF LinkingTypes
  <2>4. phase'[p] = "posted" /\ chat'[p] \in Chat /\ (text'[p] = "token" => token'[p] \in shown) /\ told[p] = {}
    BY <1>0, <2>1 DEF LinkingTypes, RunsHaveTokens
  <2>5. TokensAreShown' /\ RunsHaveTokens'
    BY <1>0, <2>1, <2>3, <2>4 DEF TokensAreShown, RunsHaveTokens
  <2>6. UsedTokensAreGone' /\ UnracedLinksOne' /\ ClearsNothingFresh' /\ FreshTokenIsKept' /\ WelcomeIsTrue'
    BY <1>0, <2>1, <2>3, <2>4
       DEF UsedTokensAreGone, UnracedLinksOne, ClearsNothingFresh, FreshTokenIsKept, WelcomeIsTrue
  <2> QED BY <2>2, <2>5, <2>6 DEF LinkingInv
<1>4. ASSUME NEW p \in Update, FindUser(p) PROVE LinkingTypes' /\ LinkingInv'
  <2> DEFINE t == token[p]
  <2>1. UNCHANGED <<telegramLinkToken, telegram_chat_id, issued, shown, chat, text, token, told, faults,
                    linked, overtaken>>
    BY <1>4 DEF FindUser
  <2>2. CASE /\ text[p] = "token" /\ telegramLinkToken[Owner(t)] = t
             /\ phase' = [phase EXCEPT ![p] = "found"] /\ phase[p] = "posted"
             /\ found' = [found EXCEPT ![p] = Owner(t)]
             /\ used' = used \cup {t}
             /\ raced' = IF \E q \in Linking(Owner(t)) : token[q] = t THEN raced \cup {t} ELSE raced
    <3>1. t \in Token /\ Owner(t) \in User
      BY <1>a, <1>b, <2>2
    <3>2. LinkingTypes'
      BY <2>1, <2>2, <3>1 DEF LinkingTypes
    <3>3. /\ phase'[p] = "found" /\ found'[p] = Owner(t)
          /\ \A q \in Update : q # p => phase'[q] = phase[q] /\ found'[q] = found[q]
      BY <2>2 DEF LinkingTypes
    <3>4. TokensAreShown' /\ RunsHaveTokens' /\ WelcomeIsTrue' /\ FreshTokenIsKept'
      BY <1>0, <2>1, <2>2, <3>3 DEF TokensAreShown, RunsHaveTokens, WelcomeIsTrue, FreshTokenIsKept
    <3>5. raced \subseteq raced' /\ UnracedLinksOne'
      BY <1>0, <2>1, <2>2 DEF UnracedLinksOne
    <3>6. linked[t] = {}
      BY <1>0, <2>2, <3>1 DEF UsedTokensAreGone
    <3>7. \A q \in Update : q # p /\ phase[q] = "found" /\ token[q] = t => t \in raced'
      BY <1>0, <2>2 DEF Linking, RunsHaveTokens
    <3>8. UsedTokensAreGone'
      BY <1>0, <2>1, <3>3, <3>5, <3>6, <3>7 DEF UsedTokensAreGone
    <3>9. t = <<Owner(t), issued[Owner(t)]>>
      BY <1>0, <2>2, <3>1 DEF TokensAreShown
    <3>10. ClearsNothingFresh'
      BY <1>0, <2>1, <2>2, <3>3, <3>9 DEF ClearsNothingFresh
    <3> QED BY <3>2, <3>4, <3>5, <3>8, <3>10 DEF LinkingInv
  <2>3. CASE /\ \E label \in {"done", "unknown"} : phase' = [phase EXCEPT ![p] = label]
             /\ phase[p] = "posted"
             /\ UNCHANGED <<found, used, raced>>
    <3>1. LinkingTypes'
      BY <2>1, <2>3 DEF LinkingTypes
    <3>2. /\ phase'[p] \in {"done", "unknown"}
          /\ \A q \in Update : q # p => phase'[q] = phase[q]
      BY <2>3 DEF LinkingTypes
    <3>3. LinkingInv'
      BY <1>0, <2>1, <2>3, <3>2
         DEF LinkingInv, TokensAreShown, RunsHaveTokens, UsedTokensAreGone, UnracedLinksOne,
             ClearsNothingFresh, FreshTokenIsKept, WelcomeIsTrue
    <3> QED BY <3>1, <3>3
  <2> QED BY <1>4, <2>2, <2>3 DEF FindUser
<1>5. ASSUME NEW p \in Update, LinkChat(p) PROVE LinkingTypes' /\ LinkingInv'
  <2> DEFINE t == token[p]
             u == found[p]
  <2>1. /\ phase[p] = "found" /\ phase' = [phase EXCEPT ![p] = "linked"]
        /\ telegram_chat_id' = [telegram_chat_id EXCEPT ![u] = chat[p]]
        /\ telegramLinkToken' = [telegramLinkToken EXCEPT ![u] = None]
        /\ linked' = [linked EXCEPT ![t] = linked[t] \cup {chat[p]}]
        /\ UNCHANGED <<issued, shown, chat, text, token, found, told, faults, used, raced, overtaken>>
    BY <1>5 DEF LinkChat, WriteChat
  <2>2. t \in shown /\ t \in Token /\ u = Owner(t) /\ u \in User /\ chat[p] \in Chat
    BY <1>0, <1>a, <1>b, <2>1 DEF RunsHaveTokens, TokensAreShown
  <2>3. LinkingTypes'
    BY <2>1, <2>2 DEF LinkingTypes
  <2>4. /\ phase'[p] = "linked" /\ \A q \in Update : q # p => phase'[q] = phase[q]
        /\ linked'[t] = linked[t] \cup {chat[p]} /\ \A s \in Token : s # t => linked'[s] = linked[s]
        /\ telegramLinkToken'[u] = None
        /\ \A v \in User : v # u => telegramLinkToken'[v] = telegramLinkToken[v]
    BY <2>1, <2>2 DEF LinkingTypes
  <2>5. TokensAreShown'
    BY <1>0, <2>1, <2>2, <2>4 DEF TokensAreShown
  <2>6. RunsHaveTokens' /\ WelcomeIsTrue'
    <3>1. \A q \in Update : phase[q] = "linked" \/ "welcome" \in told[q] => chat[q] \in linked[token[q]]
      BY <1>0 DEF RunsHaveTokens, WelcomeIsTrue
    <3>2. \A s : linked[s] \subseteq linked'[s]
      BY <2>1, <2>2 DEF LinkingTypes
    <3>3. WelcomeIsTrue'
      BY <2>1, <3>1, <3>2 DEF WelcomeIsTrue
    <3>4. RunsHaveTokens'
      BY <1>0, <2>1, <2>2, <2>4, <3>1, <3>2 DEF RunsHaveTokens
    <3> QED BY <3>3, <3>4
  <2>7. UsedTokensAreGone'
    <3>1. \A s \in Token : linked'[s] # {} => telegramLinkToken'[Owner(s)] # s
      BY <1>0, <1>a, <2>2, <2>4 DEF UsedTokensAreGone
    <3>2. \A q \in Update : phase'[q] = "found" => q # p /\ phase[q] = "found"
      BY <2>4
    <3>3. \A q \in Update : phase'[q] = "found" /\ linked'[token[q]] # {} => token[q] \in raced
      <4> SUFFICES ASSUME NEW q \in Update, phase'[q] = "found", linked'[token[q]] # {}
                   PROVE  token[q] \in raced
        OBVIOUS
      <4>1. q # p /\ phase[q] = "found" /\ token[q] \in Token
        BY <1>0, <1>b, <3>2 DEF RunsHaveTokens
      <4> QED BY <1>0, <2>1, <2>4, <4>1 DEF UsedTokensAreGone
    <3> QED BY <1>0, <2>1, <3>1, <3>2, <3>3 DEF UsedTokensAreGone
  <2>8. UnracedLinksOne'
    <3>1. t \notin raced => linked[t] = {}
      BY <1>0, <2>1 DEF UsedTokensAreGone
    <3> QED BY <1>0, <2>1, <2>4, <3>1 DEF UnracedLinksOne
  <2>9. ClearsNothingFresh'
    BY <1>0, <2>1, <2>4 DEF ClearsNothingFresh
  <2>10. FreshTokenIsKept'
    BY <1>0, <2>1, <2>4 DEF FreshTokenIsKept, ClearsNothingFresh
  <2> QED BY <2>3, <2>5, <2>6, <2>7, <2>8, <2>9, <2>10 DEF LinkingInv
<1>6. ASSUME NEW p \in Update, Answer(p) \/ Fail(p) PROVE LinkingTypes' /\ LinkingInv'
  <2>1. /\ \/ /\ phase[p] = "linked" /\ told' = [told EXCEPT ![p] = told[p] \cup {"welcome"}]
           \/ /\ phase[p] = "unknown" /\ told' = [told EXCEPT ![p] = told[p] \cup {"invalid"}]
           \/ /\ phase[p] \in {"posted", "found", "linked", "unknown", "done"} /\ told' = told
        /\ \E label \in {"posted", "done"} : phase' = [phase EXCEPT ![p] = label]
        /\ faults' \in {faults, faults + 1} /\ faults' <= MaxFaults
        /\ UNCHANGED <<telegramLinkToken, telegram_chat_id, issued, shown, chat, text, token, found,
                       linked, used, raced, overtaken>>
    BY <1>6 DEF Answer, Say, Fail, Repost, Fault, LinkingTypes
  <2>2. LinkingTypes'
    <3>1. told' \in [Update -> SUBSET {"welcome", "invalid"}]
      BY <2>1 DEF LinkingTypes
    <3>2. /\ phase' \in [Update -> {"unsent", "posted", "found", "linked", "unknown", "done"}]
          /\ \A q \in Update : phase'[q] \in {"found", "linked"} => phase[q] = phase'[q]
      BY <2>1 DEF LinkingTypes
    <3>3. faults' \in 0..MaxFaults
      BY <2>1, LinkingAssumption DEF LinkingTypes
    <3> QED BY <2>1, <3>1, <3>2, <3>3 DEF LinkingTypes
  <2>3. /\ phase[p] # "unsent" /\ phase'[p] \in {"posted", "done"}
        /\ \A q \in Update : q # p => phase'[q] = phase[q] /\ told'[q] = told[q]
        /\ "welcome" \in told'[p] => "welcome" \in told[p] \/ phase[p] = "linked"
    BY <2>1 DEF LinkingTypes
  <2>4. TokensAreShown' /\ RunsHaveTokens' /\ WelcomeIsTrue'
    BY <1>0, <2>1, <2>3 DEF TokensAreShown, RunsHaveTokens, WelcomeIsTrue
  <2>5. UsedTokensAreGone' /\ UnracedLinksOne' /\ ClearsNothingFresh' /\ FreshTokenIsKept'
    BY <1>0, <2>1, <2>3 DEF UsedTokensAreGone, UnracedLinksOne, ClearsNothingFresh, FreshTokenIsKept
  <2> QED BY <2>2, <2>4, <2>5 DEF LinkingInv
<1> QED BY <1>1, <1>2, <1>3, <1>4, <1>5, <1>6 DEF NextLinking, Handle

-----------------------------------------------------------------------------
(* The whole *)

EdgesInv == TypeOK /\ ChannelsInv /\ LinkingInv

LEMMA EdgesInductive == Spec => []EdgesInv
<1>1. Init => EdgesInv
  BY ChannelsInit, LinkingInit DEF Init, EdgesInv, TypeOK
<1>2. EdgesInv /\ [Next]_vars => EdgesInv'
  <2> SUFFICES ASSUME EdgesInv, [Next]_vars PROVE EdgesInv'
    OBVIOUS
  <2>1. [NextChannels]_channelVars /\ [NextLinking]_linkingVars
    BY DEF Next, Delivering, LinkingAccounts, vars
  <2> QED BY <2>1, ChannelsStep, LinkingStep DEF EdgesInv, TypeOK
<1> QED BY <1>1, <1>2, PTL DEF Spec

\* A set whose members are all equal has one at most.
LEMMA SoleMember ==
    ASSUME NEW S, \A a, b \in S : a = b
    PROVE  Cardinality(S) \in {0, 1}
<1>1. CASE S = {}
  BY <1>1, FS_EmptySet
<1>2. ASSUME NEW a \in S PROVE Cardinality(S) = 1
  <2>1. S = {a}
    OBVIOUS
  <2> QED BY <2>1, FS_Singleton
<1> QED BY <1>1, <1>2

\* Jobs, user rows and runs of the webhook's handler stay in their ranges, and no job is
\* tried more often than its channel's policy says, whatever that policy is.
THEOREM EdgesTyping == Spec => []TypeOK
<1>1. EdgesInv => TypeOK
  BY DEF EdgesInv
<1> QED BY <1>1, EdgesInductive, PTL

\* However a job of any of the 13 channels ends, the provider or the caller gave the
\* reason: of a completed one a part was taken, or its refusal is one that no channel reads; one
\* is taken twice only after an answer that hid it; no outage ends a job early but the limits with
\* a status from 400 to 499 and SMTP's 421; a message that brings all options reaches the provider.
THEOREM JobsEnd == Spec => []JobsEndRightly
<1>1. EdgesInv => JobsEndRightly
  <2> SUFFICES ASSUME EdgesInv PROVE JobsEndRightly
    OBVIOUS
  <2>1. lost \in Nat /\ accepted \in Nat
    BY DEF EdgesInv, TypeOK, ChannelTypes
  <2>2. CompletedIsAccepted /\ AcceptedOnceUnlessLost
    BY <2>1 DEF EdgesInv, ChannelsInv, AcceptancesAreKnown, CompletedIsAccepted, AcceptedOnceUnlessLost
  <2> QED BY <2>2 DEF EdgesInv, ChannelsInv, JobsEndRightly
<1> QED BY <1>1, EdgesInductive, PTL

\* A job implements, as one request, what the pipeline promises of all of them: it is
\* accepted once, calls its provider at most once per attempt, and is settled once.
THEOREM ChannelsKeepContract == Spec => Contract!Spec
<1>1. Init => Contract!Init
  BY DEF Init, InitChannels, Contract!Init, Status
<1>2. EdgesInv /\ [Next]_vars => [Contract!Next]_(Contract!contractVars)
  <2> SUFFICES ASSUME EdgesInv, [Next]_vars PROVE [Contract!Next]_(Contract!contractVars)
    OBVIOUS
  <2>1. [NextChannels]_channelVars
    BY DEF Next, Delivering, LinkingAccounts, vars
  <2> QED BY <2>1, JobContractStep DEF EdgesInv, TypeOK
<1> QED BY <1>1, <1>2, EdgesInductive, PTL DEF Spec, Contract!Spec

\* However the runs of the webhook's handler interleave with each other and with new
\* tokens, a token links one chat unless two runs held it at a time, a new token is not
\* lost to a run that started after it, and only linked chats are welcomed.
THEOREM LinkingIsSound == Spec => []LinksAreSound
<1>1. EdgesInv => LinksAreSound
  <2> SUFFICES ASSUME EdgesInv PROVE LinksAreSound
    OBVIOUS
  <2>1. TokenLinksOneChat
    <3> SUFFICES ASSUME NEW t \in Token, Cardinality(linked[t]) > 1, t \notin raced PROVE FALSE
      BY DEF TokenLinksOneChat
    <3>1. \A c, d \in linked[t] : c = d
      BY DEF EdgesInv, LinkingInv, UnracedLinksOne
    <3>2. Cardinality(linked[t]) \in {0, 1}
      BY <3>1, SoleMember
    <3> QED BY <3>2
  <2> QED BY <2>1 DEF EdgesInv, LinkingInv, LinksAreSound
<1> QED BY <1>1, EdgesInductive, PTL
=============================================================================

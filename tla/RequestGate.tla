------------------------------ MODULE RequestGate ------------------------------
(***************************************************************************)
(* What stands before a procedure of the API: the session of the request,  *)
(* the rate limit of its procedure, and the guard.  Times are minutes.     *)
(* A request is [at, path, cookie, ip, oauth]: cookie is Nobody or         *)
(* [openId, app, signed, session]; oauth the user the sign-in service      *)
(* names for the cookie, Nobody when it cannot be asked.  users maps the   *)
(* known users to the time they were last seen.                            *)
(***************************************************************************)
EXTENDS Integers, Sequences, FiniteSets

CONSTANTS Nobody,    \* no user, no cookie, no address
          AppId,     \* ENV.appId
          Throttle   \* LAST_SIGNED_IN_WRITE_THROTTLE_MS, in minutes

HeavyReads == {"analysis.getSnapshot", "analysis.getSymbolsPage", "analysis.getFieldsPage",
               "analysis.getRisksPage", "analysis.getRulesPage", "analysis.getDependenciesPage",
               "analysis.getFieldDependenciesPage", "analysis.getImpact"}
PublicProcedures == {"auth.me", "auth.logout", "system.health"}

\* defaultConfigs and getProcedureRateLimitBucket.
Config ==
  [api |-> [window |-> 15, max |-> 100], upload |-> [window |-> 60, max |-> 10],
   clone |-> [window |-> 15, max |-> 5], analysis |-> [window |-> 10, max |-> 6],
   heavyRead |-> [window |-> 1, max |-> 12]]

BucketOf(path) ==
  CASE path = "projects.uploadFiles" -> "upload" [] path = "projects.cloneGit" -> "clone"
    [] path = "analysis.trigger" -> "analysis" [] path \in HeavyReads -> "heavyRead" [] OTHER -> "api"

\* authenticateRequest: the user and the users as they are afterwards.  A user the
\* table does not know is the one the sign-in service answers with.
VerifySession(cookie) == cookie # Nobody /\ cookie.signed /\ cookie.app = AppId

SeenAt(users, openId, now) == [user \in DOMAIN users \cup {openId} |-> IF user = openId THEN now ELSE users[user]]

SyncedUser(request, users) == IF request.cookie.openId \in DOMAIN users THEN request.cookie.openId ELSE request.oauth

AuthenticateRequest(request, users) ==
  LET user  == SyncedUser(request, users)
      fresh == request.cookie.openId \in DOMAIN users /\ request.at - users[user] < Throttle
  IN  IF ~VerifySession(request.cookie) \/ SyncedUser(request, users) = Nobody
      THEN [user |-> Nobody, users |-> users]
      ELSE [user |-> user, users |-> IF fresh THEN users ELSE SeenAt(users, user, request.at)]

\* buildProcedureRateLimitKey: the user, else the session the cookie claims, else
\* the address, and the path: a procedure has a limit of its own.
PartyOf(user, request) ==
  CASE user # Nobody -> <<"user", user>>
    [] user = Nobody /\ request.cookie # Nobody -> <<"session", request.cookie.session>>
    [] OTHER -> <<"ip", request.ip>>

RateLimitKey(user, request) == <<BucketOf(request.path), PartyOf(user, request), request.path>>

\* consumeProcedureRateLimit: the window of a key starts with its first request.
\* Variant for the mutants: one request more than the limit gets through.
FullLate(existing, config) == existing.count > config.max
IsFull(existing, config) == existing.count >= config.max
IsOver(existing, now) == existing.resetAt <= now

Consume(store, key, now) ==
  LET config   == Config[key[1]]
      isNew    == key \notin DOMAIN store \/ IsOver(store[key], now)
      Write(entry) == [k \in DOMAIN store \cup {key} |-> IF k = key THEN entry ELSE store[k]]
  IN  CASE isNew -> [allowed |-> TRUE, retryAfter |-> 0, store |-> Write([count |-> 1, resetAt |-> now + config.window])]
        [] ~isNew /\ IsFull(store[key], config) ->
             [allowed |-> FALSE, retryAfter |-> store[key].resetAt - now, store |-> store]
        [] OTHER -> [allowed |-> TRUE, retryAfter |-> 0, store |-> Write([store[key] EXCEPT !.count = @ + 1])]

\* A procedure: the limit is taken first, then the guard looks for the user.
Admitted(path, user, metered) ==
  CASE ~metered.allowed -> "TOO_MANY_REQUESTS"
    [] metered.allowed /\ path \notin PublicProcedures /\ user = Nobody -> "UNAUTHORIZED"
    [] OTHER -> "answered"

\* The gate after a request, and what the request was answered.
Handle(gate, request) ==
  LET signedIn == AuthenticateRequest(request, gate.users)
      key      == RateLimitKey(signedIn.user, request)
      metered  == Consume(gate.store, key, request.at)
  IN  [users |-> signedIn.users, store |-> metered.store,
       answer |-> [at |-> request.at, key |-> key, user |-> signedIn.user,
                   code |-> Admitted(request.path, signedIn.user, metered), retryAfter |-> metered.retryAfter]]

EmptyStore == [key \in {} |-> 0]
Opened(users) == [users |-> users, store |-> EmptyStore, answer |-> Nobody]

\* The gate after the first n requests, for each n.
Gates(requests, users) ==
  LET after[n \in 0..Len(requests)] == IF n = 0 THEN Opened(users) ELSE Handle(after[n - 1], requests[n])
  IN  after

AnswersOf(requests, users) ==
  LET after == Gates(requests, users) IN [n \in DOMAIN requests |-> after[n].answer]

-----------------------------------------------------------------------------
Passed(answer) == answer.code # "TOO_MANY_REQUESTS"

PassesOf(answers, key, from, to) ==
  {i \in DOMAIN answers : Passed(answers[i]) /\ answers[i].key = key /\ from <= answers[i].at /\ answers[i].at < to}

\* In no span of one window does a key get through twice its limit, and the requests
\* of a key that stay within the limit in every span are never refused.
LimitsHold(answers) ==
  \A i \in DOMAIN answers :
    LET key    == answers[i].key
        config == Config[key[1]]
        at     == answers[i].at
    IN  /\ Cardinality(PassesOf(answers, key, at, at + config.window)) < 2 * config.max
        /\ ~Passed(answers[i]) => Cardinality(PassesOf(answers, key, at - config.window, at + 1)) >= config.max

\* A refused request passes when it is made again after the time it was told.
RetryHelps(requests, users) ==
  \A i \in DOMAIN requests :
    LET first == Gates(requests, users)[i]
        told  == first.answer
        again == [requests[i] EXCEPT !.at = @ + told.retryAfter]
    IN  ~Passed(told) => told.retryAfter > 0 /\ Passed(Handle(first, again).answer)

\* What a key is told when the requests of other keys are not made.
Alone(answers, key) ==
  LET after[n \in 0..Len(answers)] ==
        CASE n = 0 -> [allowed |-> TRUE, retryAfter |-> 0, store |-> EmptyStore]
          [] n > 0 /\ answers[n].key = key -> Consume(after[n - 1].store, key, answers[n].at)
          [] OTHER -> after[n - 1]
  IN  after

\* The requests of other keys change nothing for a key.
KeysAreApart(answers) ==
  \A i \in DOMAIN answers :
    LET alone == Alone(answers, answers[i].key)[i]
    IN  alone.allowed = Passed(answers[i]) /\ alone.retryAfter = answers[i].retryAfter

RequestsAreMetered(requests, users) ==
  LET answers == AnswersOf(requests, users)
  IN  LimitsHold(answers) /\ KeysAreApart(answers) /\ RetryHelps(requests, users)
=============================================================================

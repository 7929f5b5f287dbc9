------------------------------ MODULE Sessions ------------------------------
(***************************************************************************)
(* The auth service: a login through the Telegram bot (a nonce in Redis    *)
(* that the browser polls and the webhook confirms), refresh tokens with   *)
(* rotation and families, logout, and the consumer of bans.                *)
(*                                                                         *)
(* users    the rows of users by Telegram id, which stands for the id too  *)
(* created  how many user.created events the outbox holds for a user       *)
(* nonces   auth:nonce:* in Redis                                          *)
(* login    auth:login:* in Redis: the nonce a user is logging in with     *)
(* tokens   the rows of refresh_tokens in the order of their insertion     *)
(* call     what each connection to the service is in the middle of        *)
(* bans     user.banned messages that the consumer has not acknowledged    *)
(* budget   how often each input may still happen                          *)
(*                                                                         *)
(* A transaction that changes rows takes effect at its commit.  An UPDATE  *)
(* of the live rows of a family or a user sees the rows that are there     *)
(* when it starts (snapshot), waits for those that others hold, and skips  *)
(* the ones that are no longer live by then.                               *)
(***************************************************************************)
EXTENDS Integers, Sequences, FiniteSets

CONSTANTS Telegram, Nonce, Conn, None, Budgets, MaxTokens

VARIABLES users, created, nonces, login, tokens, call, bans, budget

(* History.                                                                *)
VARIABLES
  started,    \* <<user, nonce>> that a /start of the user linked
  issued,     \* how many families each nonce has been exchanged for
  confirmed,  \* how often each nonce has been set to confirmed
  killed,     \* families that a finished revocation was about
  raced       \* families that got a row while a revocation was about them

redisVars == <<nonces, login>>
history == <<started, issued, confirmed, killed, raced>>
vars == <<users, created, redisVars, tokens, call, bans, budget, history>>

Token == [user : Telegram, family : Nat, revoked : BOOLEAN, expired : BOOLEAN]

(* What Redis has under a nonce; unused is one that Init has not drawn.    *)
Session == [status : {"unused", "gone", "pending", "confirmed"},
            user : Telegram \cup {None}, ttl : BOOLEAN]

Key(status) == [status |-> status, user |-> None, ttl |-> TRUE]
Idle == [op |-> "idle"]

May(input) == budget[input] > 0
Spend(input) == budget' = [budget EXCEPT ![input] = @ - 1]

Init ==
  /\ users = [t \in Telegram |-> "absent"]
  /\ created = [t \in Telegram |-> 0]
  /\ nonces = [n \in Nonce |-> Key("unused")]
  /\ login = [t \in Telegram |-> None]
  /\ tokens = <<>> /\ bans = {}
  /\ call = [c \in Conn |-> Idle]
  /\ budget \in Budgets
  /\ started = {} /\ killed = {} /\ raced = {}
  /\ issued = [n \in Nonce |-> 0] /\ confirmed = [n \in Nonce |-> 0]

(***************************************************************************)
(* Calls: what a connection goes through, one statement at a time.         *)
(***************************************************************************)
At(c, op, step) == call[c].op = op /\ call[c].step = step
Begin(c, r) == call[c] = Idle /\ call' = [call EXCEPT ![c] = r]
GoTo(c, r) == call' = [call EXCEPT ![c] = r]
Return(c) == GoTo(c, Idle)

(* A request fails or its process dies between two statements: an open     *)
(* transaction is rolled back, what Redis did stays.  The consumer of bans *)
(* gets its message again.                                                 *)
Fail(c) ==
  /\ call[c] # Idle /\ May("failures")
  /\ Spend("failures")
  /\ Return(c)
  /\ UNCHANGED <<users, created, redisVars, tokens, bans, history>>

(***************************************************************************)
(* The nonce of a login.                                                   *)
(***************************************************************************)
Present(n) == nonces[n].status \in {"pending", "confirmed"}

Confirmed(n) == nonces[n].status = "confirmed"

(* session.Store.Init                                                      *)
InitLogin(n) ==
  /\ nonces[n].status = "unused"
  /\ May("logins") /\ Spend("logins")
  /\ nonces' = [nonces EXCEPT ![n] = Key("pending")]
  /\ UNCHANGED <<users, created, login, tokens, call, bans, history>>

(* Redis drops the keys of a login when their three minutes are over.      *)
NonceRunsOut(n) ==
  /\ Present(n) /\ nonces[n].ttl
  /\ May("timeouts") /\ Spend("timeouts")
  /\ nonces' = [nonces EXCEPT ![n] = Key("gone")]
  /\ UNCHANGED <<users, created, login, tokens, call, bans, history>>

LinkRunsOut(t) ==
  /\ login[t] # None
  /\ May("timeouts") /\ Spend("timeouts")
  /\ login' = [login EXCEPT ![t] = None]
  /\ UNCHANGED <<users, created, nonces, tokens, call, bans, history>>

(* /start <nonce> in the bot: Link reads the nonce, then binds it.         *)
Start(c, t, n) ==
  /\ nonces[n].status = "pending"
  /\ May("starts") /\ Spend("starts")
  /\ Begin(c, [op |-> "link", step |-> "set", user |-> t, nonce |-> n])
  /\ UNCHANGED <<users, created, redisVars, tokens, bans, history>>

SetLink(c) ==
  /\ At(c, "link", "set")
  /\ login' = [login EXCEPT ![call[c].user] = call[c].nonce]
  /\ started' = started \cup {<<call[c].user, call[c].nonce>>}
  /\ Return(c)
  /\ UNCHANGED <<users, created, nonces, tokens, bans, budget,
                 issued, confirmed, killed, raced>>

(* The user shares a contact: the row is inserted or updated, with one     *)
(* user.created for an insertion, and the handler goes on to Confirm.      *)
UpsertUser(t) ==
  users' = [users EXCEPT ![t] = IF @ = "absent" THEN "active" ELSE @]

(* The event enqueued whether or not the row is new.                       *)
UpsertAlwaysTells(t) ==
  /\ UpsertUser(t)
  /\ created' = [created EXCEPT ![t] = @ + 1]

RegisterContact(t) ==
  /\ UpsertUser(t)
  /\ created' = [created EXCEPT ![t] = IF users[t] = "absent" THEN @ + 1 ELSE @]

Contact(c, t) ==
  /\ May("contacts") /\ Spend("contacts")
  /\ RegisterContact(t)
  /\ Begin(c, [op |-> "confirm", step |-> "link", user |-> t, nonce |-> None])
  /\ UNCHANGED <<redisVars, tokens, bans, history>>

(* One key for all users in place of one for each.                         *)
ReadSharedLink(c) ==
  /\ At(c, "confirm", "link")
  /\ \E t \in Telegram :
       IF login[t] = None THEN Return(c)
       ELSE GoTo(c, [call[c] EXCEPT !.step = "nonce", !.nonce = login[t]])
  /\ UNCHANGED <<users, created, redisVars, tokens, bans, budget, history>>

ReadLink(c) ==
  LET t == call[c].user IN
  /\ At(c, "confirm", "link")
  /\ IF login[t] = None THEN Return(c)
     ELSE GoTo(c, [call[c] EXCEPT !.step = "nonce", !.nonce = login[t]])
  /\ UNCHANGED <<users, created, redisVars, tokens, bans, budget, history>>

ReadNonce(c) ==
  /\ At(c, "confirm", "nonce")
  /\ GoTo(c, [call[c] EXCEPT !.step =
                IF Present(call[c].nonce) THEN "confirm" ELSE "unlink"])
  /\ UNCHANGED <<users, created, redisVars, tokens, bans, budget, history>>

(* SET ... KEEPTTL: a nonce that has gone since it was read comes back,    *)
(* and without a time to live.                                             *)
Confirm(c) ==
  LET n == call[c].nonce IN
  /\ At(c, "confirm", "confirm")
  /\ nonces' = [nonces EXCEPT ![n] =
                  [status |-> "confirmed", user |-> call[c].user,
                   ttl |-> Present(n) /\ nonces[n].ttl]]
  /\ confirmed' = [confirmed EXCEPT ![n] = @ + 1]
  /\ GoTo(c, [call[c] EXCEPT !.step = "unlink"])
  /\ UNCHANGED <<users, created, login, tokens, bans, budget,
                 started, issued, killed, raced>>

Unlink(c) ==
  /\ At(c, "confirm", "unlink")
  /\ login' = [login EXCEPT ![call[c].user] = None]
  /\ Return(c)
  /\ UNCHANGED <<users, created, nonces, tokens, bans, budget, history>>

(* The browser polls the nonce and finds it confirmed: it is taken out of  *)
(* Redis, then a family of tokens begins.                                  *)
Poll(c, n) ==
  /\ Confirmed(n)
  /\ May("polls") /\ Spend("polls")
  /\ Begin(c, [op |-> "login", step |-> "consume", user |-> None, nonce |-> n])
  /\ UNCHANGED <<users, created, redisVars, tokens, bans, history>>

(* Status as it would be with a GET in place of the GETDEL.                *)
ConsumeByRead(c) ==
  LET n == call[c].nonce IN
  /\ At(c, "login", "consume")
  /\ IF Confirmed(n)
     THEN GoTo(c, [call[c] EXCEPT !.step = "insert", !.user = nonces[n].user])
     ELSE Return(c)
  /\ UNCHANGED <<users, created, redisVars, tokens, bans, budget, history>>

Consume(c) ==
  LET n == call[c].nonce IN
  /\ At(c, "login", "consume")
  /\ IF Confirmed(n)
     THEN GoTo(c, [call[c] EXCEPT !.step = "insert", !.user = nonces[n].user])
     ELSE Return(c)
  /\ nonces' = [nonces EXCEPT ![n] = Key("gone")]
  /\ UNCHANGED <<users, created, login, tokens, bans, budget, history>>

Row(t, f) == [user |-> t, family |-> f, revoked |-> FALSE, expired |-> FALSE]

IssueForUser(c) ==
  /\ At(c, "login", "insert")
  /\ Len(tokens) < MaxTokens
  /\ tokens' = Append(tokens, Row(call[c].user, Len(tokens) + 1))
  /\ issued' = [issued EXCEPT ![call[c].nonce] = @ + 1]
  /\ Return(c)
  /\ UNCHANGED <<users, created, redisVars, bans, budget,
                 started, confirmed, killed, raced>>

(***************************************************************************)
(* Rotation, logout and bans.                                              *)
(***************************************************************************)
Ids == DOMAIN tokens

Live(i) == ~tokens[i].revoked

Locked(i) == \E c \in Conn : call[c].op = "rotate" /\ call[c].token = i

FamilyOf(i) == tokens[i].family

LiveOfFamily(f) == {i \in Ids : FamilyOf(i) = f /\ Live(i)}

LiveOfUser(t) == {i \in Ids : tokens[i].user = t /\ Live(i)}

FamiliesOfUser(t) == {FamilyOf(i) : i \in {j \in Ids : tokens[j].user = t}}

(* The families an UPDATE that has its rows, but is not committed, is      *)
(* about.                                                                  *)
BeingRevoked ==
  UNION {call[c].families : c \in {k \in Conn : call[k].op = "revoke"
                                                /\ call[k].step = "update"}}

(* Rotate as it would be if it looked at the time alone.                   *)
OutcomeByTime(i, sameDevice) ==
  CASE tokens[i].expired -> "expired"
    [] ~tokens[i].expired /\ ~sameDevice -> "mismatch"
    [] OTHER -> "rotated"

(* RefreshRepo.Rotate: the row under FOR UPDATE, then what becomes of it.  *)
Outcome(i, sameDevice) ==
  CASE tokens[i].revoked -> "reuse"
    [] ~tokens[i].revoked /\ tokens[i].expired -> "expired"
    [] Live(i) /\ ~tokens[i].expired /\ ~sameDevice -> "mismatch"
    [] OTHER -> "rotated"

(* The row read without FOR UPDATE.                                        *)
RefreshUnlocked(c, i, sameDevice) ==
  /\ May("refreshes") /\ Spend("refreshes")
  /\ Begin(c, [op |-> "rotate", step |-> Outcome(i, sameDevice), token |-> i])
  /\ UNCHANGED <<users, created, redisVars, tokens, bans, history>>

Refresh(c, i, sameDevice) ==
  /\ ~Locked(i)
  /\ May("refreshes") /\ Spend("refreshes")
  /\ Begin(c, [op |-> "rotate", step |-> Outcome(i, sameDevice), token |-> i])
  /\ UNCHANGED <<users, created, redisVars, tokens, bans, history>>

Rotate(c) ==
  LET i == call[c].token  f == FamilyOf(i) IN
  /\ At(c, "rotate", "rotated")
  /\ Len(tokens) < MaxTokens
  /\ tokens' = Append([tokens EXCEPT ![i].revoked = TRUE], Row(tokens[i].user, f))
  /\ raced' = IF f \in BeingRevoked THEN raced \cup {f} ELSE raced
  /\ Return(c)
  /\ UNCHANGED <<users, created, redisVars, bans, budget,
                 started, issued, confirmed, killed>>

(* An expired token is revoked, a foreign device changes nothing; both     *)
(* transactions commit.                                                    *)
Refuse(c) ==
  /\ At(c, "rotate", "expired") \/ At(c, "rotate", "mismatch")
  /\ tokens' = IF call[c].step = "expired"
               THEN [tokens EXCEPT ![call[c].token].revoked = TRUE] ELSE tokens
  /\ Return(c)
  /\ UNCHANGED <<users, created, redisVars, bans, budget, history>>

Revocation(rows, families, user) ==
  [op |-> "revoke", step |-> "update", rows |-> rows, families |-> families,
   user |-> user]

(* A token that was revoked already is presented again: the transaction    *)
(* goes on to the live rows of its family.                                 *)
Reuse(c) ==
  LET f == FamilyOf(call[c].token) IN
  /\ At(c, "rotate", "reuse")
  /\ GoTo(c, Revocation(LiveOfFamily(f), {f}, None))
  /\ UNCHANGED <<users, created, redisVars, tokens, bans, budget, history>>

(* RefreshRepo.RevokeFamily                                                *)
Logout(c, i) ==
  /\ May("logouts") /\ Spend("logouts")
  /\ Begin(c, Revocation(LiveOfFamily(FamilyOf(i)), {FamilyOf(i)}, None))
  /\ UNCHANGED <<users, created, redisVars, tokens, bans, history>>

(* A moderator bans a user: the event waits for the consumer auth-ban.     *)
PublishBan(t) ==
  /\ users[t] = "active"
  /\ May("bans") /\ Spend("bans")
  /\ bans' = bans \cup {t}
  /\ UNCHANGED <<users, created, redisVars, tokens, call, history>>

(* Banner.Handle, UserRepo.BanUser: both UPDATEs are one transaction.      *)
BanUser(c) ==
  \E t \in bans :
    /\ \A k \in Conn : call[k].op = "revoke" => call[k].user # t
    /\ Begin(c, Revocation(LiveOfUser(t), FamiliesOfUser(t), t))
    /\ UNCHANGED <<users, created, redisVars, tokens, bans, budget, history>>

(* The tokens revoked and the status of the user left alone.               *)
RevokeForgetsBan(c) ==
  /\ call[c].op = "revoke"
  /\ \A i \in call[c].rows : ~Locked(i)
  /\ tokens' = [i \in Ids |->
       [tokens[i] EXCEPT !.revoked = @ \/ i \in call[c].rows]]
  /\ bans' = bans \ {call[c].user}
  /\ killed' = killed \cup call[c].families
  /\ Return(c)
  /\ UNCHANGED <<users, created, redisVars, budget, started, issued,
                 confirmed, raced>>

(* The UPDATE has all its rows, those that are still live are revoked, the *)
(* transaction commits, and a ban is acknowledged.                         *)
Revoke(c) ==
  /\ call[c].op = "revoke"
  /\ \A i \in call[c].rows : ~Locked(i)
  /\ tokens' = [i \in Ids |->
       [tokens[i] EXCEPT !.revoked = @ \/ i \in call[c].rows]]
  /\ users' = IF call[c].user = None THEN users
              ELSE [users EXCEPT ![call[c].user] = "banned"]
  /\ bans' = bans \ {call[c].user}
  /\ killed' = killed \cup call[c].families
  /\ Return(c)
  /\ UNCHANGED <<created, redisVars, budget, started, issued, confirmed, raced>>

(* Thirty days go by.                                                      *)
RefreshRunsOut(i) ==
  /\ ~tokens[i].expired
  /\ May("expiries") /\ Spend("expiries")
  /\ tokens' = [tokens EXCEPT ![i].expired = TRUE]
  /\ UNCHANGED <<users, created, redisVars, call, bans, history>>

Handler(c) ==
  \/ SetLink(c) \/ ReadLink(c) \/ ReadNonce(c) \/ Confirm(c) \/ Unlink(c)
  \/ Consume(c) \/ IssueForUser(c)
  \/ Rotate(c) \/ Refuse(c) \/ Reuse(c) \/ Revoke(c)

Next ==
  \/ \E n \in Nonce : InitLogin(n) \/ NonceRunsOut(n)
  \/ \E t \in Telegram : LinkRunsOut(t) \/ PublishBan(t)
  \/ \E c \in Conn :
       \/ \E t \in Telegram : Contact(c, t) \/ \E n \in Nonce : Start(c, t, n)
       \/ \E n \in Nonce : Poll(c, n)
       \/ \E i \in Ids : Logout(c, i) \/ \E same \in BOOLEAN : Refresh(c, i, same)
       \/ BanUser(c)
       \/ Handler(c)
       \/ Fail(c)
  \/ \E i \in Ids : RefreshRunsOut(i)

(* A request that is being served goes on, and the consumer takes its      *)
(* messages.                                                               *)
Fairness ==
  /\ WF_vars(\E c \in Conn : Handler(c))
  /\ WF_vars(\E c \in Conn : BanUser(c))

Spec == Init /\ [][Next]_vars /\ Fairness

(***************************************************************************)
(* Properties.                                                             *)
(***************************************************************************)
TypeOK ==
  /\ users \in [Telegram -> {"absent", "active", "banned"}]
  /\ nonces \in [Nonce -> Session]
  /\ login \in [Telegram -> Nonce \cup {None}]
  /\ \A i \in Ids : tokens[i] \in Token

(* Two requests with one refresh token, in any order and with any failure, *)
(* never leave a session with two tokens that both refresh it (the row     *)
(* lock of Rotate).                                                        *)
OneLiveTokenPerFamily ==
  \A i, j \in Ids : Live(i) /\ Live(j) /\ FamilyOf(i) = FamilyOf(j) => i = j

(* A logout, a detected reuse or a ban ends the sessions it is about:      *)
(* nothing refreshes them afterwards.  The exception is a rotation that    *)
(* commits while the UPDATE waits for the row it rotates: the new row is   *)
(* not in the snapshot of the UPDATE and survives it.                      *)
RevocationHoldsUnlessRaced ==
  \A i \in Ids : FamilyOf(i) \in killed \ raced => ~Live(i)

(* A login is exchanged for tokens once, however many polls meet, unless   *)
(* the webhook is delivered again and confirms a nonce that is already     *)
(* consumed (Confirm writes it back, KeepTTL or not).                      *)
LoginIssuesOncePerConfirmation == \A n \in Nonce : issued[n] <= confirmed[n]

(* Whoever polls gets the session of a user who has opened this login in   *)
(* the bot himself, although links are overwritten, dropped and expire     *)
(* between the statements of Link and Confirm.                             *)
LoginBelongsToWhoStartedIt ==
  \A n \in Nonce : Confirmed(n) => <<nonces[n].user, n>> \in started

(* user.created is published once for a user, whatever is redelivered.     *)
UserCreatedOnce ==
  \A t \in Telegram : created[t] = IF users[t] = "absent" THEN 0 ELSE 1

(* A ban that was published takes effect in spite of failures.             *)
BanIsApplied == \A t \in Telegram : (t \in bans) ~> (users[t] = "banned")

(* A session has one token that refreshes it, and none once it was ended   *)
(* (repo/refresh.go, repo/user.go).                                        *)
SessionsHold == TypeOK /\ OneLiveTokenPerFamily /\ RevocationHoldsUnlessRaced

(* A login through the bot is exchanged once, for a session of the user    *)
(* who started it, whose registration is told once (session/store.go,      *)
(* transport/webhook.go).                                                  *)
LoginIsGenuine ==
  /\ LoginBelongsToWhoStartedIt
  /\ LoginIssuesOncePerConfirmation
  /\ UserCreatedOnce
=============================================================================

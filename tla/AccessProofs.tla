---------------------------- MODULE AccessProofs ----------------------------
(***************************************************************************)
(* Proofs about who is let in: the sessions of auth (Sessions), for any    *)
(* number of users, logins, connections, tokens and failures, and any      *)
(* budget; the limits of the gateway and of auth (RateLimits, Edge), for   *)
(* any rates, sizes and clients; and the way of a request through the      *)
(* gateway to the handler (Edge), for its routes and those of the services.*)
(***************************************************************************)
EXTENDS Sessions, Edge, SequenceTheorems, FiniteSetTheorems, TLAPS

(***************************************************************************)
(* Sessions. The inductive invariant adds to the properties what the       *)
(* connections know. Of the tokens: who rotates a row has it alone, and a  *)
(* revocation that waits has in its snapshot every live row of its         *)
(* families, but for the families in raced. Of the logins: who confirms a  *)
(* nonce has started it, and every insertion that is still to come has a   *)
(* confirmation of its own, which the GETDEL took out of Redis.            *)
(***************************************************************************)
Linking == [op : {"link"}, step : {"set"}, user : Telegram, nonce : Nonce]

Confirming == [op : {"confirm"}, step : {"link", "nonce", "confirm", "unlink"},
               user : Telegram, nonce : Nonce \cup {None}]

LoggingIn == [op : {"login"}, step : {"consume", "insert"},
              user : Telegram \cup {None}, nonce : Nonce]

Rotating == [op : {"rotate"}, step : {"reuse", "expired", "mismatch", "rotated"}, token : Nat]

Revoking == [op : {"revoke"}, step : {"update"}, rows : SUBSET Nat, families : SUBSET Nat,
             user : Telegram \cup {None}]

Calls == {Idle} \cup Linking \cup Confirming \cup LoggingIn \cup Rotating \cup Revoking

Rotates(c) == call[c].op = "rotate"
Revokes(c) == call[c].op = "revoke"

-----------------------------------------------------------------------------
(* The tokens.                                                             *)

(* The family of a login is the id of its first row.                       *)
FamiliesAreOld == \A i \in Ids : FamilyOf(i) <= i

FamilyHasOneUser ==
  \A i, j \in Ids : FamilyOf(i) = FamilyOf(j) => tokens[i].user = tokens[j].user

KnownFamily(f) == \E i \in Ids : FamilyOf(i) = f

RevocationsKnowFamilies ==
  /\ \A f \in killed : KnownFamily(f)
  /\ \A c \in Conn : Revokes(c) => \A f \in call[c].families : KnownFamily(f)

(* FOR UPDATE: a row is rotated by one connection, which read it live if   *)
(* it is to be replaced, and nobody has changed it since.                  *)
RowsAreLocked ==
  /\ \A c \in Conn : Rotates(c) => call[c].token \in Ids
  /\ \A c, d \in Conn : Rotates(c) /\ Rotates(d) /\ call[c].token = call[d].token => c = d
  /\ \A c \in Conn : At(c, "rotate", "rotated") => Live(call[c].token)

(* What was inserted into a family after the UPDATE took its snapshot was  *)
(* a rotation, which is in raced.                                          *)
SnapshotsAreWhole ==
  \A c \in Conn : Revokes(c) =>
    \A i \in Ids : Live(i) /\ FamilyOf(i) \in call[c].families \ raced => i \in call[c].rows

TokensHold ==
  /\ tokens \in Seq(Token)
  /\ FamiliesAreOld /\ FamilyHasOneUser /\ RevocationsKnowFamilies
  /\ RowsAreLocked /\ SnapshotsAreWhole
  /\ OneLiveTokenPerFamily /\ RevocationHoldsUnlessRaced

-----------------------------------------------------------------------------
(* The logins.                                                             *)

(* A link in Redis, and a confirmation that follows one, are of a nonce    *)
(* that the user has opened himself.                                       *)
LinksAreStarted ==
  /\ \A t \in Telegram : login[t] # None => <<t, login[t]>> \in started
  /\ \A c \in Conn :
       At(c, "confirm", "nonce") \/ At(c, "confirm", "confirm") =>
         call[c].nonce \in Nonce /\ <<call[c].user, call[c].nonce>> \in started
  /\ \A n \in Nonce : Confirmed(n) => nonces[n].user \in Telegram

(* Connections that have taken the nonce out of Redis and will insert.     *)
Inserting(n) == {c \in Conn : At(c, "login", "insert") /\ call[c].nonce = n}

InsertingHaveUsers == \A c \in Conn : At(c, "login", "insert") => call[c].user \in Telegram

Open(n) == IF Confirmed(n) THEN 1 ELSE 0

EachInsertIsConfirmed ==
  \A n \in Nonce :
    /\ IsFiniteSet(Inserting(n))
    /\ issued[n] + Cardinality(Inserting(n)) + Open(n) <= confirmed[n]

(* Only a user who is registered is banned.                                *)
BannedAreRegistered ==
  /\ bans \subseteq Telegram /\ \A t \in bans : users[t] # "absent"
  /\ \A c \in Conn : Revokes(c) /\ call[c].user # None => users[call[c].user] # "absent"

LoginsHold ==
  /\ users \in [Telegram -> {"absent", "active", "banned"}]
  /\ created \in [Telegram -> Nat]
  /\ nonces \in [Nonce -> Session]
  /\ login \in [Telegram -> Nonce \cup {None}]
  /\ issued \in [Nonce -> Nat] /\ confirmed \in [Nonce -> Nat]
  /\ LinksAreStarted /\ InsertingHaveUsers /\ EachInsertIsConfirmed /\ BannedAreRegistered
  /\ LoginBelongsToWhoStartedIt /\ UserCreatedOnce

Inv == call \in [Conn -> Calls] /\ TokensHold /\ LoginsHold
-----------------------------------------------------------------------------
(* What a call in progress keeps, by its kind.                             *)
LEMMA CallOf ==
  ASSUME call \in [Conn -> Calls], NEW c \in Conn
  PROVE  /\ call[c].op = "link" => call[c] \in Linking
         /\ call[c].op = "confirm" => call[c] \in Confirming
         /\ call[c].op = "login" => call[c] \in LoggingIn
         /\ Rotates(c) => call[c] \in Rotating
         /\ Revokes(c) => call[c] \in Revoking
  BY DEF Calls, Idle, Linking, Confirming, LoggingIn, Rotating, Revoking, Rotates, Revokes

(* The ids of tokens count their rows.                                     *)
LEMMA IdIsNat ==
  ASSUME tokens \in Seq(Token)
  PROVE  /\ Ids = 1..Len(tokens) /\ Len(tokens) \in Nat /\ Ids \subseteq Nat
         /\ Len(tokens) + 1 \in Nat /\ Len(tokens) + 1 \notin Ids
         /\ \A i \in Ids : /\ tokens[i] \in Token /\ tokens[i].user \in Telegram
                           /\ FamilyOf(i) \in Nat /\ tokens[i].revoked \in BOOLEAN
<1>1. Ids = 1..Len(tokens) /\ Len(tokens) \in Nat
  BY LenProperties DEF Ids
<1>2. \A i \in Ids : tokens[i] \in Token
  BY <1>1, ElementOfSeq
<1> QED
  BY <1>1, <1>2 DEF Token, FamilyOf

(* The invariant holds before the first login.                             *)
LEMMA InitInv == Init => Inv
<1> SUFFICES ASSUME Init PROVE Inv
  OBVIOUS
<1>1. Ids = {} /\ tokens \in Seq(Token)
  BY DEF Init, Ids
<1>2. call \in [Conn -> Calls] /\ \A c \in Conn : call[c].op = "idle"
  BY DEF Init, Calls, Idle
<1>3. TokensHold
  BY <1>1, <1>2
  DEF Init, TokensHold, FamiliesAreOld, FamilyHasOneUser, RevocationsKnowFamilies, RowsAreLocked,
      SnapshotsAreWhole, OneLiveTokenPerFamily, RevocationHoldsUnlessRaced, Rotates, Revokes, At
<1>4. \A n \in Nonce : Inserting(n) = {} /\ Open(n) = 0 /\ nonces[n] \in Session
  BY <1>2 DEF Init, Inserting, At, Open, Confirmed, Key, Session
<1>5. \A n \in Nonce : IsFiniteSet(Inserting(n)) /\ Cardinality(Inserting(n)) = 0
  BY <1>4, FS_EmptySet
<1>6. EachInsertIsConfirmed
  BY <1>4, <1>5 DEF Init, EachInsertIsConfirmed
<1>7. LoginsHold
  BY <1>2, <1>4, <1>6
  DEF Init, LoginsHold, LinksAreStarted, InsertingHaveUsers, BannedAreRegistered, Revokes,
      LoginBelongsToWhoStartedIt, UserCreatedOnce, At, Confirmed, Key
<1> QED
  BY <1>2, <1>3, <1>7 DEF Inv

-----------------------------------------------------------------------------
(* What steps do to the tokens.                                            *)

(* A connection that goes on from r, without a change of the tokens.       *)
LEMMA TokensUntouched ==
  ASSUME call \in [Conn -> Calls], TokensHold, UNCHANGED <<tokens, killed, raced>>,
         NEW c \in Conn, NEW r, call' = [call EXCEPT ![c] = r],
         r.op = "rotate" =>
           /\ r.token \in Ids
           /\ \A d \in Conn \ {c} : Rotates(d) => call[d].token # r.token
           /\ r.step = "rotated" => Live(r.token),
         r.op = "revoke" =>
           /\ \A f \in r.families : KnownFamily(f)
           /\ \A i \in Ids : Live(i) /\ FamilyOf(i) \in r.families \ raced => i \in r.rows
  PROVE  TokensHold'
<1>1. call'[c] = r /\ \A d \in Conn \ {c} : call'[d] = call[d]
  OBVIOUS
<1>2. \A i : Live(i)' <=> Live(i)
  BY DEF Live
<1>3. Ids' = Ids /\ \A i : FamilyOf(i)' = FamilyOf(i)
  BY DEF Ids, FamilyOf
<1>4. \A f : KnownFamily(f)' <=> KnownFamily(f)
  BY <1>3 DEF KnownFamily
<1>5. RevocationsKnowFamilies'
  BY <1>1, <1>4 DEF TokensHold, RevocationsKnowFamilies, Revokes
<1>6. RowsAreLocked'
  BY <1>1, <1>2, <1>3 DEF TokensHold, RowsAreLocked, Rotates, At, Live
<1>7. SnapshotsAreWhole'
  BY <1>1, <1>2, <1>3 DEF TokensHold, SnapshotsAreWhole, Revokes
<1>8. FamiliesAreOld' /\ FamilyHasOneUser' /\ OneLiveTokenPerFamily' /\ RevocationHoldsUnlessRaced'
  BY <1>2, <1>3
  DEF TokensHold, FamiliesAreOld, FamilyHasOneUser, OneLiveTokenPerFamily,
      RevocationHoldsUnlessRaced
<1> QED
  BY <1>5, <1>6, <1>7, <1>8 DEF TokensHold

(* No connection and no token changes.                                     *)
LEMMA TokensAndCallsKept ==
  ASSUME TokensHold, UNCHANGED <<tokens, killed, raced, call>>
  PROVE  TokensHold'
  BY DEF TokensHold, FamiliesAreOld, FamilyHasOneUser, RevocationsKnowFamilies, RowsAreLocked,
         SnapshotsAreWhole, OneLiveTokenPerFamily, RevocationHoldsUnlessRaced, Rotates, Revokes,
         At, Live, FamilyOf, KnownFamily, Ids

(* Rows that change in place are never live again.                         *)
RowsEnd ==
  \A i \in Ids : /\ tokens'[i].family = tokens[i].family /\ tokens'[i].user = tokens[i].user
                 /\ tokens[i].revoked => tokens'[i].revoked

(* A connection is as it was, or done; who rotates a row has it as it was. *)
CallsEnd ==
  \A d \in Conn :
    \/ call'[d] = Idle
    \/ /\ call'[d] = call[d]
       /\ At(d, "rotate", "rotated") => ~tokens'[call[d].token].revoked

(* Rows that end, and calls that end, keep the invariant of tokens.        *)
LEMMA RowsEndKeeps ==
  ASSUME TokensHold, tokens' \in Seq(Token), DOMAIN tokens' = DOMAIN tokens,
         RowsEnd, CallsEnd, raced' = raced,
         \A f \in killed' : KnownFamily(f),
         \A i \in Ids : FamilyOf(i) \in killed' \ raced => tokens'[i].revoked
  PROVE  TokensHold'
<1>1. Ids' = Ids /\ \A i \in Ids : FamilyOf(i)' = FamilyOf(i) /\ (Live(i)' => Live(i))
  BY DEF Ids, FamilyOf, Live, RowsEnd
<1>2. \A f : KnownFamily(f) => KnownFamily(f)'
  BY <1>1 DEF KnownFamily
<1>3. \A d \in Conn : Rotates(d)' \/ Revokes(d)' => call'[d] = call[d]
  BY DEF CallsEnd, Rotates, Revokes, Idle
<1>4. RevocationsKnowFamilies'
  BY <1>2, <1>3 DEF TokensHold, RevocationsKnowFamilies, Revokes
<1>5. RowsAreLocked'
  BY <1>1, <1>3 DEF TokensHold, RowsAreLocked, Rotates, At, Live, CallsEnd, Idle
<1>6. SnapshotsAreWhole'
  BY <1>1, <1>3 DEF TokensHold, SnapshotsAreWhole, Revokes
<1>7. FamiliesAreOld' /\ FamilyHasOneUser'
  BY <1>1 DEF TokensHold, FamiliesAreOld, FamilyHasOneUser, RowsEnd
<1>8. OneLiveTokenPerFamily'
  BY <1>1 DEF TokensHold, OneLiveTokenPerFamily
<1>9. RevocationHoldsUnlessRaced'
  BY <1>1 DEF RevocationHoldsUnlessRaced, Live
<1> QED
  BY <1>4, <1>5, <1>6, <1>7, <1>8, <1>9 DEF TokensHold

(* A row is added to a family without live rows, which is new, or is told  *)
(* of in raced if a revocation is about it.                                *)
LEMMA RowAddedKeeps ==
  ASSUME TokensHold, tokens' \in Seq(Token), DOMAIN tokens' = DOMAIN tokens \cup {Len(tokens) + 1},
         RowsEnd, CallsEnd, killed' = killed, raced \subseteq raced',
         NEW f \in Nat, f <= Len(tokens) + 1, tokens'[Len(tokens) + 1].family = f,
         \A j \in Ids : FamilyOf(j) = f =>
            tokens'[j].revoked /\ tokens[j].user = tokens'[Len(tokens) + 1].user,
         f \in killed => f \in raced',
         \A d \in Conn : Revokes(d) /\ f \in call[d].families => f \in raced' \/ call'[d] = Idle
  PROVE  TokensHold'
<1>1. PICK n \in Nat : n = Len(tokens) + 1 /\ n \notin Ids /\ Ids \subseteq Nat
  BY IdIsNat DEF TokensHold
<1>2. Ids' = Ids \cup {n} /\ FamilyOf(n)' = f
  BY <1>1 DEF Ids, FamilyOf
<1>3. \A i \in Ids : FamilyOf(i)' = FamilyOf(i) /\ (Live(i)' => Live(i))
  BY DEF FamilyOf, Live, RowsEnd
<1>4. \A j \in Ids : FamilyOf(j) = f => ~Live(j)'
  BY DEF Live
<1>5. \A g : KnownFamily(g) => KnownFamily(g)'
  BY <1>2, <1>3 DEF KnownFamily
<1>6. \A d \in Conn : Rotates(d)' \/ Revokes(d)' => call'[d] = call[d] /\ call[d] # Idle
  BY DEF CallsEnd, Rotates, Revokes, Idle
<1>7. RevocationsKnowFamilies'
  BY <1>5, <1>6 DEF TokensHold, RevocationsKnowFamilies, Revokes
<1>8. RowsAreLocked'
  BY <1>2, <1>3, <1>6 DEF TokensHold, RowsAreLocked, Rotates, At, Live, CallsEnd, Idle
<1>9. SnapshotsAreWhole'
  <2> SUFFICES ASSUME NEW d \in Conn, Revokes(d)', NEW i \in Ids', Live(i)',
                      FamilyOf(i)' \in call'[d].families \ raced'
               PROVE  i \in call'[d].rows
    BY DEF SnapshotsAreWhole
  <2>1. call'[d] = call[d] /\ Revokes(d) /\ call'[d] # Idle
    BY <1>6 DEF Revokes
  <2>2. CASE i \in Ids
    BY <1>3, <2>1, <2>2 DEF TokensHold, SnapshotsAreWhole
  <2>3. CASE i = n
    BY <1>2, <2>1, <2>3
  <2> QED
    BY <1>2, <2>2, <2>3
<1>10. FamiliesAreOld'
  BY <1>1, <1>2, <1>3 DEF TokensHold, FamiliesAreOld
<1>11. FamilyHasOneUser'
  BY <1>1, <1>2, <1>3 DEF TokensHold, FamilyHasOneUser, RowsEnd
<1>12. OneLiveTokenPerFamily'
  BY <1>2, <1>3, <1>4 DEF TokensHold, OneLiveTokenPerFamily
<1>13. RevocationHoldsUnlessRaced'
  BY <1>2, <1>3 DEF TokensHold, RevocationHoldsUnlessRaced
<1> QED
  BY <1>7, <1>8, <1>9, <1>10, <1>11, <1>12, <1>13 DEF TokensHold

(* A confirmation goes on, or ends for want of a link.                     *)
LEMMA ConfirmingCalls ==
  ASSUME call \in [Conn -> Calls], login \in [Telegram -> Nonce \cup {None}],
         NEW c \in Conn, ReadLink(c) \/ ReadNonce(c) \/ Confirm(c)
  PROVE  /\ UNCHANGED <<tokens, killed, raced>>
         /\ \E r \in {Idle} \cup Confirming : call' = [call EXCEPT ![c] = r]
<1>1. call[c] \in Confirming
  BY CallOf DEF ReadLink, ReadNonce, Confirm, At
<1>2. UNCHANGED <<tokens, killed, raced>>
  BY DEF ReadLink, ReadNonce, Confirm, history
<1>3. CASE ReadLink(c)
  <2>1. [call[c] EXCEPT !.step = "nonce", !.nonce = login[call[c].user]] \in Confirming
    BY <1>1 DEF Confirming
  <2> QED
    BY <1>2, <1>3, <2>1 DEF ReadLink, Return, GoTo
<1>4. CASE ReadNonce(c)
  <2>1. [call[c] EXCEPT !.step = IF Present(call[c].nonce) THEN "confirm" ELSE "unlink"]
          \in Confirming
    BY <1>1 DEF Confirming
  <2> QED
    BY <1>2, <1>4, <2>1 DEF ReadNonce, GoTo
<1>5. CASE Confirm(c)
  <2>1. [call[c] EXCEPT !.step = "unlink"] \in Confirming
    BY <1>1 DEF Confirming
  <2> QED
    BY <1>2, <1>5, <2>1 DEF Confirm, GoTo
<1> QED
  BY <1>3, <1>4, <1>5

Others == {Idle} \cup Linking \cup Confirming \cup LoggingIn

(* Requests that are about no token: what the connection is in afterwards. *)
LEMMA OtherCalls ==
  ASSUME call \in [Conn -> Calls], login \in [Telegram -> Nonce \cup {None}],
         nonces \in [Nonce -> Session], NEW c \in Conn,
         \/ \E t \in Telegram : Contact(c, t) \/ \E n \in Nonce : Start(c, t, n)
         \/ \E n \in Nonce : Poll(c, n)
         \/ SetLink(c) \/ ReadLink(c) \/ ReadNonce(c) \/ Confirm(c) \/ Unlink(c) \/ Consume(c)
         \/ Fail(c)
  PROVE  /\ UNCHANGED <<tokens, killed, raced>>
         /\ \E r \in Others : call' = [call EXCEPT ![c] = r]
<1> USE DEF Others
<1>1. CASE \E t \in Telegram : Contact(c, t)
  BY <1>1 DEF Contact, Begin, Confirming, history
<1>2. CASE \E t \in Telegram, n \in Nonce : Start(c, t, n)
  BY <1>2 DEF Start, Begin, Linking, history
<1>3. CASE \E n \in Nonce : Poll(c, n)
  BY <1>3 DEF Poll, Begin, LoggingIn, history
<1>4. CASE SetLink(c) \/ Unlink(c) \/ Fail(c)
  BY <1>4 DEF SetLink, Unlink, Fail, Return, GoTo, history
<1>5. CASE ReadLink(c) \/ ReadNonce(c) \/ Confirm(c)
  BY <1>5, ConfirmingCalls
<1>6. CASE Consume(c)
  <2>1. call[c] \in LoggingIn
    BY <1>6, CallOf DEF Consume, At
  <2>2. [call[c] EXCEPT !.step = "insert", !.user = nonces[call[c].nonce].user] \in LoggingIn
    BY <2>1 DEF LoggingIn, Session
  <2> QED
    BY <1>6, <2>2 DEF Consume, Return, GoTo, history
<1> QED
  BY <1>1, <1>2, <1>3, <1>4, <1>5, <1>6

(* Calls that hold no token keep the invariant of tokens.                  *)
LEMMA OtherCallsKeepTokens ==
  ASSUME call \in [Conn -> Calls], TokensHold, UNCHANGED <<tokens, killed, raced>>,
         NEW c \in Conn, NEW r \in Others, call' = [call EXCEPT ![c] = r]
  PROVE  call' \in [Conn -> Calls] /\ TokensHold'
<1>1. r.op # "rotate" /\ r.op # "revoke" /\ r \in Calls
  BY DEF Others, Calls, Idle, Linking, Confirming, LoggingIn
<1> QED
  BY <1>1, TokensUntouched

(* A request with a refresh token takes the lock of its row.               *)
LEMMA RefreshKeepsTokens ==
  ASSUME call \in [Conn -> Calls], TokensHold, NEW c \in Conn, NEW i \in Ids,
         NEW same \in BOOLEAN, Refresh(c, i, same)
  PROVE  call' \in [Conn -> Calls] /\ TokensHold'
<1> DEFINE r == [op |-> "rotate", step |-> Outcome(i, same), token |-> i]
<1>1. /\ call' = [call EXCEPT ![c] = r] /\ ~Locked(i)
      /\ UNCHANGED <<tokens, killed, raced>>
  BY DEF Refresh, Begin, history
<1>2. i \in Nat /\ tokens[i].revoked \in BOOLEAN
  BY IdIsNat DEF TokensHold
<1>3. /\ Outcome(i, same) \in {"reuse", "expired", "mismatch", "rotated"}
      /\ Outcome(i, same) = "rotated" => Live(i)
  BY <1>2 DEF Outcome, Live
<1>4. r \in Calls /\ r.op = "rotate" /\ r.token = i /\ (r.step = "rotated" => Live(i))
  BY <1>2, <1>3 DEF Calls, Rotating
<1>5. \A d \in Conn \ {c} : Rotates(d) => call[d].token # i
  BY <1>1 DEF Locked, Rotates
<1> HIDE DEF r
<1>6. TokensHold'
  BY <1>1, <1>4, <1>5, TokensUntouched
<1> QED
  BY <1>1, <1>4, <1>6

(* An UPDATE takes its snapshot: the live rows of its families.            *)
LEMMA SnapshotKeepsTokens ==
  ASSUME call \in [Conn -> Calls], TokensHold, UNCHANGED <<tokens, killed, raced>>,
         NEW c \in Conn, NEW rows, NEW families, NEW u \in Telegram \cup {None},
         call' = [call EXCEPT ![c] = Revocation(rows, families, u)],
         rows \subseteq Ids, \A f \in families : KnownFamily(f),
         \A i \in Ids : Live(i) /\ FamilyOf(i) \in families => i \in rows
  PROVE  call' \in [Conn -> Calls] /\ TokensHold'
<1> DEFINE r == Revocation(rows, families, u)
<1>1. rows \subseteq Nat /\ families \subseteq Nat
  BY IdIsNat DEF TokensHold, KnownFamily
<1>2. r \in Calls /\ r.op = "revoke" /\ r.rows = rows /\ r.families = families
  BY <1>1 DEF Calls, Revoking, Revocation
<1>3. call' = [call EXCEPT ![c] = r]
  OBVIOUS
<1> HIDE DEF r
<1>4. TokensHold'
  BY <1>2, <1>3, TokensUntouched
<1> QED
  BY <1>2, <1>3, <1>4

(* A call that is about to revoke has revoked nothing.                     *)
LEMMA RevocationBegins ==
  ASSUME call \in [Conn -> Calls], TokensHold, bans \subseteq Telegram, NEW c \in Conn,
         Reuse(c) \/ (\E i \in Ids : Logout(c, i)) \/ BanUser(c)
  PROVE  call' \in [Conn -> Calls] /\ TokensHold'
<1>1. ASSUME NEW i \in Ids, UNCHANGED <<tokens, killed, raced>>,
             call' = [call EXCEPT ![c] =
                        Revocation(LiveOfFamily(FamilyOf(i)), {FamilyOf(i)}, None)]
      PROVE  call' \in [Conn -> Calls] /\ TokensHold'
  <2>1. /\ LiveOfFamily(FamilyOf(i)) \subseteq Ids /\ KnownFamily(FamilyOf(i))
        /\ \A j \in Ids : Live(j) /\ FamilyOf(j) \in {FamilyOf(i)} =>
             j \in LiveOfFamily(FamilyOf(i))
    BY DEF LiveOfFamily, KnownFamily
  <2> QED
    BY <1>1, <2>1, SnapshotKeepsTokens
<1>2. CASE Reuse(c)
  <2>1. call[c].token \in Ids
    BY <1>2 DEF Reuse, At, TokensHold, RowsAreLocked, Rotates
  <2> QED
    BY <1>1, <1>2, <2>1 DEF Reuse, GoTo, history
<1>3. CASE \E i \in Ids : Logout(c, i)
  BY <1>1, <1>3 DEF Logout, Begin, history
<1>4. CASE BanUser(c)
  <2>1. PICK t \in bans : /\ call' = [call EXCEPT ![c] =
                                        Revocation(LiveOfUser(t), FamiliesOfUser(t), t)]
                          /\ UNCHANGED <<tokens, killed, raced>>
    BY <1>4 DEF BanUser, Begin, history
  <2>2. LiveOfUser(t) \subseteq Ids /\ \A f \in FamiliesOfUser(t) : KnownFamily(f)
    BY DEF LiveOfUser, FamiliesOfUser, KnownFamily
  <2>3. \A j \in Ids : Live(j) /\ FamilyOf(j) \in FamiliesOfUser(t) => j \in LiveOfUser(t)
    BY DEF LiveOfUser, FamiliesOfUser, TokensHold, FamilyHasOneUser
  <2> QED
    BY <2>1, <2>2, <2>3, SnapshotKeepsTokens
<1> QED
  BY <1>2, <1>3, <1>4

(* Rows that are changed in place.                                         *)
LEMMA CallEnds ==
  ASSUME call \in [Conn -> Calls], NEW c \in Conn, Return(c)
  PROVE  /\ call' \in [Conn -> Calls] /\ call'[c] = Idle
         /\ \A d \in Conn \ {c} : call'[d] = call[d]
  BY DEF Return, GoTo, Calls

(* A row that is written leaves the others alone.                          *)
LEMMA OneRowChanges ==
  ASSUME tokens \in Seq(Token), NEW i \in Ids, NEW x \in Token, tokens' = [tokens EXCEPT ![i] = x]
  PROVE  /\ tokens' \in Seq(Token) /\ DOMAIN tokens' = DOMAIN tokens /\ tokens'[i] = x
         /\ \A j \in Ids \ {i} : tokens'[j] = tokens[j]
<1>1. Ids = 1..Len(tokens)
  BY IdIsNat
<1>2. tokens' \in Seq(Token)
  BY <1>1, ExceptSeq
<1> QED
  BY <1>2 DEF Ids

(* A call that is refused ends.                                            *)
LEMMA RefuseKeepsTokens ==
  ASSUME call \in [Conn -> Calls], TokensHold, NEW c \in Conn, Refuse(c)
  PROVE  call' \in [Conn -> Calls] /\ TokensHold'
<1>1. /\ Rotates(c) /\ Return(c) /\ UNCHANGED <<killed, raced>>
      /\ \/ tokens' = [tokens EXCEPT ![call[c].token].revoked = TRUE]
         \/ tokens' = tokens
  BY DEF Refuse, At, Rotates, history
<1>2. PICK i \in Ids : call[c].token = i
  BY <1>1 DEF TokensHold, RowsAreLocked
<1>3. /\ call' \in [Conn -> Calls] /\ call'[c] = Idle
      /\ \A d \in Conn \ {c} : call'[d] = call[d]
  BY <1>1, CallEnds
<1>4. /\ tokens' \in Seq(Token) /\ DOMAIN tokens' = DOMAIN tokens /\ RowsEnd
      /\ \A j \in Ids \ {i} : tokens'[j] = tokens[j]
  <2>1. CASE tokens' = tokens
    BY <2>1 DEF RowsEnd, TokensHold
  <2>2. CASE tokens' = [tokens EXCEPT ![i].revoked = TRUE]
    <3> DEFINE x == [tokens[i] EXCEPT !.revoked = TRUE]
    <3>1. tokens[i] \in Token /\ tokens \in Seq(Token)
      BY IdIsNat DEF TokensHold
    <3>2. /\ x \in Token /\ x.revoked /\ x.family = tokens[i].family
          /\ x.user = tokens[i].user
      BY <3>1 DEF Token
    <3>3. tokens' = [tokens EXCEPT ![i] = x]
      BY <2>2 DEF Ids
    <3> HIDE DEF x
    <3>4. /\ tokens' \in Seq(Token) /\ DOMAIN tokens' = DOMAIN tokens /\ tokens'[i] = x
          /\ \A j \in Ids \ {i} : tokens'[j] = tokens[j]
      BY <3>1, <3>2, <3>3, OneRowChanges
    <3> QED
      BY <3>2, <3>4 DEF RowsEnd
  <2> QED
    BY <1>1, <1>2, <2>1, <2>2
<1>5. CallsEnd
  BY <1>1, <1>2, <1>3, <1>4 DEF CallsEnd, TokensHold, RowsAreLocked, Rotates, At, Live
<1>6. /\ \A f \in killed' : KnownFamily(f)
      /\ \A j \in Ids : FamilyOf(j) \in killed' \ raced => tokens'[j].revoked
  BY <1>1, <1>4
  DEF TokensHold, RevocationsKnowFamilies, RevocationHoldsUnlessRaced, RowsEnd, Live
<1>7. TokensHold'
  BY <1>1, <1>4, <1>5, <1>6, RowsEndKeeps
<1> QED
  BY <1>3, <1>7

(* A token that expires is no longer good.                                 *)
LEMMA ExpiryKeepsTokens ==
  ASSUME TokensHold, NEW i \in Ids, RefreshRunsOut(i)
  PROVE  TokensHold'
<1> DEFINE x == [tokens[i] EXCEPT !.expired = TRUE]
<1>1. tokens' = [tokens EXCEPT ![i] = x] /\ UNCHANGED <<call, killed, raced>>
  BY DEF RefreshRunsOut, Ids, history
<1>2. tokens[i] \in Token /\ tokens \in Seq(Token)
  BY IdIsNat DEF TokensHold
<1>3. /\ x \in Token /\ x.revoked = tokens[i].revoked /\ x.family = tokens[i].family
      /\ x.user = tokens[i].user
  BY <1>2 DEF Token
<1> HIDE DEF x
<1>4. /\ tokens' \in Seq(Token) /\ DOMAIN tokens' = DOMAIN tokens /\ tokens'[i] = x
      /\ \A j \in Ids \ {i} : tokens'[j] = tokens[j]
  BY <1>1, <1>2, <1>3, OneRowChanges
<1>5. RowsEnd /\ \A j \in Ids : tokens'[j].revoked = tokens[j].revoked
  BY <1>3, <1>4 DEF RowsEnd
<1>6. CallsEnd
  BY <1>1, <1>5 DEF CallsEnd, TokensHold, RowsAreLocked, Rotates, At, Live
<1>7. /\ \A f \in killed' : KnownFamily(f)
      /\ \A j \in Ids : FamilyOf(j) \in killed' \ raced => tokens'[j].revoked
  BY <1>1, <1>5 DEF TokensHold, RevocationsKnowFamilies, RevocationHoldsUnlessRaced, Live
<1> QED
  BY <1>1, <1>4, <1>5, <1>6, <1>7, RowsEndKeeps

(* A revocation has waited for the rows of its snapshot: nobody rotates    *)
(* one of them, and no other row of its families is live.                  *)
LEMMA RevokeKeepsTokens ==
  ASSUME call \in [Conn -> Calls], TokensHold, NEW c \in Conn, Revoke(c)
  PROVE  call' \in [Conn -> Calls] /\ TokensHold'
<1> DEFINE Own == call[c].rows
           F == call[c].families
<1>1. /\ Revokes(c) /\ Return(c) /\ raced' = raced /\ killed' = killed \cup F
      /\ \A i \in Own : ~Locked(i)
      /\ tokens' = [i \in Ids |-> [tokens[i] EXCEPT !.revoked = @ \/ i \in Own]]
  BY DEF Revoke, Revokes
<1>2. /\ call' \in [Conn -> Calls] /\ call'[c] = Idle
      /\ \A d \in Conn \ {c} : call'[d] = call[d]
  BY <1>1, CallEnds
<1>3. /\ \A f \in F : KnownFamily(f)
      /\ \A i \in Ids : Live(i) /\ FamilyOf(i) \in F \ raced => i \in Own
  BY <1>1 DEF TokensHold, RevocationsKnowFamilies, SnapshotsAreWhole
<1> HIDE DEF Own, F
<1>4. \A i \in Ids : tokens[i] \in Token /\ tokens[i].revoked \in BOOLEAN
  BY IdIsNat DEF TokensHold
<1>5. \A i \in Ids : [tokens[i] EXCEPT !.revoked = @ \/ i \in Own] \in Token
  BY <1>4 DEF Token
<1>6. Ids = 1..Len(tokens) /\ Len(tokens) \in Nat
  BY IdIsNat DEF TokensHold
<1>7. tokens' \in Seq(Token) /\ DOMAIN tokens' = DOMAIN tokens
  BY <1>1, <1>5, <1>6, SeqDef DEF Ids
<1>8. \A i \in Ids : /\ tokens'[i].family = tokens[i].family /\ tokens'[i].user = tokens[i].user
                     /\ tokens'[i].revoked <=> tokens[i].revoked \/ i \in Own
  BY <1>1, <1>4 DEF Token
<1>9. RowsEnd
  BY <1>8 DEF RowsEnd
<1>10. CallsEnd
  BY <1>1, <1>2, <1>8 DEF CallsEnd, TokensHold, RowsAreLocked, Rotates, At, Live, Locked
<1>11. /\ \A f \in killed' : KnownFamily(f)
       /\ \A j \in Ids : FamilyOf(j) \in killed' \ raced => tokens'[j].revoked
  BY <1>1, <1>3, <1>8 DEF TokensHold, RevocationsKnowFamilies, RevocationHoldsUnlessRaced, Live
<1>12. TokensHold'
  BY <1>1, <1>7, <1>9, <1>10, <1>11, RowsEndKeeps
<1> QED
  BY <1>2, <1>12

-----------------------------------------------------------------------------
(* Rows that are added.                                                    *)
LEMMA RowIsAppended ==
  ASSUME NEW s \in Seq(Token), NEW x \in Token, tokens' = Append(s, x)
  PROVE  /\ tokens' \in Seq(Token) /\ DOMAIN tokens' = DOMAIN s \cup {Len(s) + 1}
         /\ \A i \in DOMAIN s : tokens'[i] = s[i]
         /\ tokens'[Len(s) + 1] = x
<1>1. DOMAIN s = 1..Len(s) /\ Len(s) \in Nat
  BY LenProperties
<1>2. /\ tokens' \in Seq(Token) /\ Len(tokens') = Len(s) + 1
      /\ \A i \in 1..Len(s) : tokens'[i] = s[i]
      /\ tokens'[Len(s) + 1] = x
  BY AppendProperties
<1>3. DOMAIN tokens' = 1..(Len(s) + 1)
  BY <1>2, LenProperties
<1> QED
  BY <1>1, <1>2, <1>3

(* A login issues the first token of a new family.                         *)
LEMMA IssueKeepsTokens ==
  ASSUME call \in [Conn -> Calls], TokensHold, InsertingHaveUsers, NEW c \in Conn, IssueForUser(c)
  PROVE  call' \in [Conn -> Calls] /\ TokensHold'
<1> DEFINE n == Len(tokens) + 1
           x == Row(call[c].user, n)
<1>1. Return(c) /\ tokens' = Append(tokens, x) /\ UNCHANGED <<killed, raced>>
  BY DEF IssueForUser
<1>2. /\ call' \in [Conn -> Calls] /\ call'[c] = Idle
      /\ \A d \in Conn \ {c} : call'[d] = call[d]
  BY <1>1, CallEnds
<1>3. tokens \in Seq(Token) /\ n \in Nat /\ Ids = 1..Len(tokens) /\ Len(tokens) \in Nat
  BY IdIsNat DEF TokensHold
<1>4. call[c].user \in Telegram
  BY DEF IssueForUser, InsertingHaveUsers
<1>5. x \in Token /\ x.family = n
  BY <1>3, <1>4 DEF Row, Token
<1> HIDE DEF x
<1>6. /\ tokens' \in Seq(Token) /\ DOMAIN tokens' = DOMAIN tokens \cup {n}
      /\ \A i \in Ids : tokens'[i] = tokens[i]
      /\ tokens'[n].family = n
  BY <1>1, <1>3, <1>5, RowIsAppended DEF Ids
<1>7. \A i \in Ids : FamilyOf(i) # n
  BY <1>3, IdIsNat DEF TokensHold, FamiliesAreOld
<1>8. ~KnownFamily(n)
  BY <1>7 DEF KnownFamily
<1>9. n \notin killed /\ \A d \in Conn : Revokes(d) => n \notin call[d].families
  BY <1>8 DEF TokensHold, RevocationsKnowFamilies
<1>10. RowsEnd
  BY <1>6 DEF RowsEnd
<1>11. CallsEnd
  BY <1>2, <1>6 DEF CallsEnd, TokensHold, RowsAreLocked, Rotates, At, Live
<1>12. n <= Len(tokens) + 1
  BY <1>3
<1>13. TokensHold'
  BY <1>1, <1>3, <1>6, <1>7, <1>9, <1>10, <1>11, <1>12, RowAddedKeeps
<1> QED
  BY <1>2, <1>13

(* The row that is rotated is the only live one of its family, and whoever *)
(* is about to revoke the family will not see the new one.                 *)
LEMMA RotateKeepsTokens ==
  ASSUME call \in [Conn -> Calls], TokensHold, NEW c \in Conn, Rotate(c)
  PROVE  call' \in [Conn -> Calls] /\ TokensHold'
<1>1. PICK i \in Ids : i = call[c].token
  BY DEF Rotate, At, TokensHold, RowsAreLocked, Rotates
<1> DEFINE f == FamilyOf(i)
           old == [tokens[i] EXCEPT !.revoked = TRUE]
           s == [tokens EXCEPT ![i].revoked = TRUE]
           x == Row(tokens[i].user, f)
           n == Len(tokens) + 1
<1>2. /\ Return(c) /\ Rotates(c) /\ At(c, "rotate", "rotated") /\ killed' = killed
      /\ tokens' = Append(s, x)
      /\ raced' = IF f \in BeingRevoked THEN raced \cup {f} ELSE raced
  BY <1>1 DEF Rotate, Rotates, At
<1>3. /\ call' \in [Conn -> Calls] /\ call'[c] = Idle
      /\ \A d \in Conn \ {c} : call'[d] = call[d]
  BY <1>2, CallEnds
<1>4. /\ tokens \in Seq(Token) /\ n \in Nat /\ Ids = 1..Len(tokens) /\ Len(tokens) \in Nat
      /\ tokens[i] \in Token /\ tokens[i].user \in Telegram /\ f \in Nat
  BY IdIsNat DEF TokensHold
<1>5. x \in Token /\ x.family = f /\ x.user = tokens[i].user
  BY <1>4 DEF Row, Token
<1>6. old \in Token /\ old.revoked /\ old.family = f /\ old.user = tokens[i].user
  BY <1>4 DEF Token, FamilyOf
<1>7. s = [tokens EXCEPT ![i] = old]
  BY DEF Ids
<1> HIDE DEF old
<1>8. /\ s \in Seq(Token) /\ DOMAIN s = DOMAIN tokens /\ s[i] = old
      /\ \A j \in Ids \ {i} : s[j] = tokens[j]
  BY <1>4, <1>6, <1>7, ExceptSeq DEF Ids
<1>9. Len(s) = Len(tokens)
  BY <1>4, <1>8, LenProperties
<1> HIDE DEF s, x
<1>10. /\ tokens' \in Seq(Token) /\ DOMAIN tokens' = DOMAIN tokens \cup {n}
       /\ \A j \in Ids : tokens'[j] = s[j]
       /\ tokens'[n] = x
  BY <1>2, <1>5, <1>8, <1>9, RowIsAppended DEF Ids
<1>11. RowsEnd
  BY <1>6, <1>8, <1>10 DEF RowsEnd, FamilyOf
<1>12. Live(i)
  BY <1>1, <1>2 DEF TokensHold, RowsAreLocked
<1>13. \A j \in Ids : FamilyOf(j) = f => tokens'[j].revoked /\ tokens[j].user = tokens[i].user
  <2> SUFFICES ASSUME NEW j \in Ids, FamilyOf(j) = f
               PROVE  tokens'[j].revoked /\ tokens[j].user = tokens[i].user
    OBVIOUS
  <2>1. tokens[j].user = tokens[i].user
    BY DEF TokensHold, FamilyHasOneUser
  <2>2. CASE j = i
    BY <1>6, <1>8, <1>10, <2>1, <2>2
  <2>3. CASE j # i
    <3>1. ~Live(j)
      BY <1>12, <2>3 DEF TokensHold, OneLiveTokenPerFamily
    <3> QED
      BY <1>8, <1>10, <2>1, <2>3, <3>1 DEF Live
  <2> QED
    BY <2>2, <2>3
<1>14. CallsEnd
  <2> SUFFICES ASSUME NEW d \in Conn \ {c}, At(d, "rotate", "rotated")
               PROVE  ~tokens'[call[d].token].revoked
    BY <1>3 DEF CallsEnd
  <2>1. call[d].token \in Ids /\ Live(call[d].token)
    BY DEF TokensHold, RowsAreLocked, Rotates, At
  <2>2. call[d].token # i
    BY <1>1, <1>2 DEF TokensHold, RowsAreLocked, Rotates, At
  <2> QED
    BY <1>8, <1>10, <2>1, <2>2 DEF Live
<1>15. f \in killed => f \in raced
  BY <1>12 DEF TokensHold, RevocationHoldsUnlessRaced
<1>16. \A d \in Conn : Revokes(d) /\ f \in call[d].families => f \in BeingRevoked
  BY CallOf DEF BeingRevoked, Revokes, Revoking
<1>17. f <= Len(tokens) + 1
  BY <1>4 DEF TokensHold, FamiliesAreOld
<1> HIDE DEF f
<1>18. TokensHold'
  BY <1>2, <1>4, <1>5, <1>10, <1>11, <1>13, <1>14, <1>15, <1>16, <1>17, RowAddedKeeps
<1> QED
  BY <1>3, <1>18

(* Every step keeps the invariant of tokens.                               *)
LEMMA NextKeepsTokens ==
  ASSUME Inv, Next
  PROVE  call' \in [Conn -> Calls] /\ TokensHold'
<1>1. /\ call \in [Conn -> Calls] /\ TokensHold /\ InsertingHaveUsers /\ bans \subseteq Telegram
      /\ login \in [Telegram -> Nonce \cup {None}] /\ nonces \in [Nonce -> Session]
  BY DEF Inv, LoginsHold, BannedAreRegistered
<1>2. ASSUME \/ \E n \in Nonce : InitLogin(n) \/ NonceRunsOut(n)
             \/ \E t \in Telegram : LinkRunsOut(t) \/ PublishBan(t)
      PROVE  call' \in [Conn -> Calls] /\ TokensHold'
  <2>1. UNCHANGED <<tokens, killed, raced, call>>
    BY <1>2 DEF InitLogin, NonceRunsOut, LinkRunsOut, PublishBan, history
  <2> QED
    BY <1>1, <2>1, TokensAndCallsKept
<1>3. ASSUME NEW c \in Conn,
             \/ \E t \in Telegram : Contact(c, t) \/ \E n \in Nonce : Start(c, t, n)
             \/ \E n \in Nonce : Poll(c, n)
             \/ SetLink(c) \/ ReadLink(c) \/ ReadNonce(c) \/ Confirm(c) \/ Unlink(c)
             \/ Consume(c) \/ Fail(c)
      PROVE  call' \in [Conn -> Calls] /\ TokensHold'
  <2>1. /\ UNCHANGED <<tokens, killed, raced>>
        /\ \E r \in Others : call' = [call EXCEPT ![c] = r]
    BY <1>1, <1>3, OtherCalls
  <2> QED
    BY <1>1, <2>1, OtherCallsKeepTokens
<1>4. ASSUME NEW c \in Conn, NEW i \in Ids, NEW same \in BOOLEAN, Refresh(c, i, same)
      PROVE  call' \in [Conn -> Calls] /\ TokensHold'
  BY <1>1, <1>4, RefreshKeepsTokens
<1>5. ASSUME NEW c \in Conn, Reuse(c) \/ (\E i \in Ids : Logout(c, i)) \/ BanUser(c)
      PROVE  call' \in [Conn -> Calls] /\ TokensHold'
  BY <1>1, <1>5, RevocationBegins
<1>6. ASSUME NEW c \in Conn, IssueForUser(c) \/ Rotate(c) \/ Refuse(c) \/ Revoke(c)
      PROVE  call' \in [Conn -> Calls] /\ TokensHold'
  BY <1>1, <1>6, IssueKeepsTokens, RotateKeepsTokens, RefuseKeepsTokens, RevokeKeepsTokens
<1>7. ASSUME NEW i \in Ids, RefreshRunsOut(i)
      PROVE  call' \in [Conn -> Calls] /\ TokensHold'
  BY <1>1, <1>7, ExpiryKeepsTokens DEF RefreshRunsOut
<1> QED
  BY <1>2, <1>3, <1>4, <1>5, <1>6, <1>7 DEF Next, Handler

-----------------------------------------------------------------------------
(* What steps do to the logins: who started them.                          *)

(* A link, a confirmed nonce and a connection are as they were, or of a    *)
(* user who has started the login.                                         *)
LEMMA LinksKept ==
  ASSUME LinksAreStarted, LoginBelongsToWhoStartedIt, started \subseteq started',
         \A t \in Telegram : login'[t] = login[t] \/ login'[t] = None
                             \/ <<t, login'[t]>> \in started',
         \A n \in Nonce :
            \/ nonces'[n] = nonces[n] \/ nonces'[n].status # "confirmed"
            \/ nonces'[n].user \in Telegram /\ <<nonces'[n].user, n>> \in started',
         \A d \in Conn :
            \/ call'[d] = call[d] \/ call'[d].op # "confirm"
            \/ call'[d].step \notin {"nonce", "confirm"}
            \/ call'[d].nonce \in Nonce /\ <<call'[d].user, call'[d].nonce>> \in started'
  PROVE  LinksAreStarted' /\ LoginBelongsToWhoStartedIt'
<1>1. \A n \in Nonce : Confirmed(n)' =>
        nonces'[n].user \in Telegram /\ <<nonces'[n].user, n>> \in started'
  BY DEF LinksAreStarted, LoginBelongsToWhoStartedIt, Confirmed
<1>2. \A t \in Telegram : login'[t] # None => <<t, login'[t]>> \in started'
  BY DEF LinksAreStarted
<1>3. \A d \in Conn : At(d, "confirm", "nonce")' \/ At(d, "confirm", "confirm")' =>
        call'[d].nonce \in Nonce /\ <<call'[d].user, call'[d].nonce>> \in started'
  BY DEF LinksAreStarted, At
<1> QED
  BY <1>1, <1>2, <1>3 DEF LinksAreStarted, LoginBelongsToWhoStartedIt

(* Every step keeps the invariant of links and nonces.                     *)
LEMMA NextKeepsLinks ==
  ASSUME Inv, Next
  PROVE  /\ nonces' \in [Nonce -> Session] /\ login' \in [Telegram -> Nonce \cup {None}]
         /\ LinksAreStarted' /\ LoginBelongsToWhoStartedIt'
<1>1. /\ call \in [Conn -> Calls] /\ nonces \in [Nonce -> Session]
      /\ login \in [Telegram -> Nonce \cup {None}]
      /\ LinksAreStarted /\ LoginBelongsToWhoStartedIt
  BY DEF Inv, LoginsHold
<1> DEFINE Goal == /\ nonces' \in [Nonce -> Session] /\ login' \in [Telegram -> Nonce \cup {None}]
                   /\ LinksAreStarted' /\ LoginBelongsToWhoStartedIt'
<1>2. ASSUME NEW n \in Nonce, InitLogin(n) \/ NonceRunsOut(n)
      PROVE  Goal
  <2>1. /\ \E s \in {"pending", "gone"} : nonces' = [nonces EXCEPT ![n] = Key(s)]
        /\ UNCHANGED <<login, call, started>>
    BY <1>2 DEF InitLogin, NonceRunsOut, history
  <2>2. nonces' \in [Nonce -> Session]
        /\ \A m \in Nonce : nonces'[m] = nonces[m] \/ nonces'[m].status # "confirmed"
    BY <1>1, <2>1 DEF Key, Session
  <2> QED
    BY <1>1, <2>1, <2>2, LinksKept
<1>3. ASSUME NEW t \in Telegram, LinkRunsOut(t)
      PROVE  Goal
  BY <1>1, <1>3, LinksKept DEF LinkRunsOut, history
<1>4. ASSUME UNCHANGED <<nonces, login, started>>,
             \A d \in Conn :
               \/ call'[d] = call[d] \/ call'[d].op # "confirm"
               \/ call'[d].step \notin {"nonce", "confirm"}
      PROVE  Goal
  BY <1>1, <1>4, LinksKept
<1>5. ASSUME \/ \E t \in Telegram : PublishBan(t)
             \/ \E i \in Ids : RefreshRunsOut(i)
      PROVE  Goal
  BY <1>4, <1>5 DEF PublishBan, RefreshRunsOut, redisVars, history
<1>6. ASSUME NEW c \in Conn,
             \/ \E t \in Telegram : Contact(c, t) \/ \E n \in Nonce : Start(c, t, n)
             \/ \E n \in Nonce : Poll(c, n)
             \/ \E i \in Ids : Logout(c, i) \/ \E same \in BOOLEAN : Refresh(c, i, same)
             \/ BanUser(c) \/ Reuse(c)
      PROVE  Goal
  <2>1. /\ UNCHANGED <<nonces, login, started>>
        /\ \A d \in Conn \ {c} : call'[d] = call[d]
        /\ call'[c].op # "confirm" \/ call'[c].step = "link"
    BY <1>1, <1>6
    DEF Contact, Start, Poll, Logout, Refresh, BanUser, Reuse, Begin, GoTo, Revocation, redisVars,
        history
  <2> QED
    BY <1>1, <1>4, <2>1
<1>7. ASSUME NEW c \in Conn,
             IssueForUser(c) \/ Rotate(c) \/ Refuse(c) \/ Revoke(c) \/ Fail(c)
      PROVE  Goal
  <2>1. UNCHANGED <<nonces, login, started>> /\ Return(c)
    BY <1>7 DEF IssueForUser, Rotate, Refuse, Revoke, Fail, redisVars, history
  <2> QED
    BY <1>1, <1>4, <2>1, CallEnds DEF Idle
<1>8. ASSUME NEW c \in Conn, SetLink(c)
      PROVE  Goal
  <2>1. /\ login' = [login EXCEPT ![call[c].user] = call[c].nonce]
        /\ started' = started \cup {<<call[c].user, call[c].nonce>>}
        /\ Return(c) /\ nonces' = nonces
    BY <1>8 DEF SetLink
  <2>2. call[c].user \in Telegram /\ call[c].nonce \in Nonce
    BY <1>1, <1>8, CallOf DEF SetLink, At, Linking
  <2> QED
    BY <1>1, <2>1, <2>2, CallEnds, LinksKept DEF Idle
<1>9. ASSUME NEW c \in Conn, ReadLink(c)
      PROVE  Goal
  <2>1. UNCHANGED <<nonces, login, started>>
    BY <1>9 DEF ReadLink, redisVars, history
  <2>2. call[c] \in Confirming
    BY <1>1, <1>9, CallOf DEF ReadLink, At
  <2> DEFINE t == call[c].user
             r == [call[c] EXCEPT !.step = "nonce", !.nonce = login[t]]
  <2>3. CASE login[t] = None
    BY <1>1, <1>4, <1>9, <2>1, <2>3, CallEnds DEF ReadLink, Idle
  <2>4. CASE login[t] # None
    <3>1. r.user = t /\ r.nonce = login[t] /\ t \in Telegram
      BY <2>2 DEF Confirming
    <3>2. login[t] \in Nonce /\ <<t, login[t]>> \in started
      BY <1>1, <2>4, <3>1 DEF LinksAreStarted
    <3>3. call' = [call EXCEPT ![c] = r]
      BY <1>9, <2>4 DEF ReadLink, GoTo
    <3> HIDE DEF r
    <3>4. call'[c] = r /\ \A d \in Conn \ {c} : call'[d] = call[d]
      BY <1>1, <3>3
    <3> QED
      BY <1>1, <2>1, <3>1, <3>2, <3>4, LinksKept
  <2> QED
    BY <2>3, <2>4
<1>10. ASSUME NEW c \in Conn, ReadNonce(c) \/ Confirm(c)
       PROVE  Goal
  <2>1. /\ call[c] \in Confirming
        /\ call[c].nonce \in Nonce /\ <<call[c].user, call[c].nonce>> \in started
    BY <1>1, <1>10, CallOf DEF ReadNonce, Confirm, At, LinksAreStarted
  <2>2. /\ UNCHANGED <<login, started>>
        /\ \E s : call' = [call EXCEPT ![c] = [call[c] EXCEPT !.step = s]]
    BY <1>10 DEF ReadNonce, Confirm, GoTo, redisVars, history
  <2>3. /\ call'[c].user = call[c].user /\ call'[c].nonce = call[c].nonce
        /\ \A d \in Conn \ {c} : call'[d] = call[d]
    BY <1>1, <2>1, <2>2 DEF Confirming
  <2>4. CASE ReadNonce(c)
    <3>1. UNCHANGED nonces
      BY <2>4 DEF ReadNonce, redisVars
    <3> QED
      BY <1>1, <2>1, <2>2, <2>3, <3>1, LinksKept
  <2>5. CASE Confirm(c)
    <3> DEFINE n == call[c].nonce
               k == [status |-> "confirmed", user |-> call[c].user,
                     ttl |-> Present(n) /\ nonces[n].ttl]
    <3>1. nonces' = [nonces EXCEPT ![n] = k] /\ k.user = call[c].user
      BY <2>5 DEF Confirm
    <3>2. k \in Session /\ k.user \in Telegram
      <4>1. nonces[n].ttl \in BOOLEAN
        BY <1>1, <2>1 DEF Session
      <4>2. (Present(n) /\ nonces[n].ttl) \in BOOLEAN
        BY <4>1 DEF Present
      <4> QED
        BY <2>1, <4>2 DEF Confirming, Session
    <3> HIDE DEF k
    <3>3. /\ nonces'[n] = k /\ \A m \in Nonce \ {n} : nonces'[m] = nonces[m]
          /\ nonces' \in [Nonce -> Session]
      BY <1>1, <2>1, <3>1, <3>2
    <3> QED
      BY <1>1, <2>1, <2>2, <2>3, <3>1, <3>2, <3>3, LinksKept
  <2> QED
    BY <1>10, <2>4, <2>5
<1>11. ASSUME NEW c \in Conn, Unlink(c)
       PROVE  Goal
  <2>1. /\ login' = [login EXCEPT ![call[c].user] = None]
        /\ Return(c) /\ UNCHANGED <<nonces, started>>
    BY <1>11 DEF Unlink, history
  <2>2. \A d \in Conn : call'[d] = call[d] \/ call'[d].op # "confirm"
    BY <1>1, <2>1, CallEnds DEF Idle
  <2>3. login' \in [Telegram -> Nonce \cup {None}]
    BY <1>1, <2>1
  <2>4. \A t \in Telegram : login'[t] = login[t] \/ login'[t] = None
    BY <1>1, <2>1
  <2> QED
    BY <1>1, <2>1, <2>2, <2>3, <2>4, LinksKept
<1>12. ASSUME NEW c \in Conn, Consume(c)
       PROVE  Goal
  <2> DEFINE n == call[c].nonce
             r == [call[c] EXCEPT !.step = "insert", !.user = nonces[n].user]
  <2>1. /\ nonces' = [nonces EXCEPT ![n] = Key("gone")]
        /\ UNCHANGED <<login, started>>
        /\ Return(c) \/ call' = [call EXCEPT ![c] = r]
    BY <1>12 DEF Consume, GoTo, history
  <2>2. call[c] \in LoggingIn /\ n \in Nonce
    BY <1>1, <1>12, CallOf DEF Consume, At, LoggingIn
  <2>3. r.op # "confirm"
    BY <2>2 DEF LoggingIn
  <2>4. /\ nonces' \in [Nonce -> Session]
        /\ \A m \in Nonce : nonces'[m] = nonces[m] \/ nonces'[m].status # "confirmed"
    BY <1>1, <2>1, <2>2 DEF Key, Session
  <2> HIDE DEF r
  <2>5. \A d \in Conn : call'[d] = call[d] \/ call'[d].op # "confirm"
    BY <1>1, <2>1, <2>3, CallEnds DEF Idle
  <2> QED
    BY <1>1, <2>1, <2>4, <2>5, LinksKept
<1> HIDE DEF Goal
<1>13. Goal
  BY <1>2, <1>3, <1>5, <1>6, <1>7, <1>8, <1>9, <1>10, <1>11, <1>12 DEF Next, Handler
<1> QED
  BY <1>13 DEF Goal

-----------------------------------------------------------------------------
(* What steps do to the logins: how often they are exchanged.              *)
(* When no connection gets to the insertion, the sum does not grow unless  *)
(* the confirmations do.                                                   *)
LEMMA InsertsKept ==
  ASSUME EachInsertIsConfirmed, InsertingHaveUsers,
         issued \in [Nonce -> Nat], confirmed \in [Nonce -> Nat], issued' = issued,
         confirmed' \in [Nonce -> Nat],
         \A n \in Nonce : confirmed[n] <= confirmed'[n]
                          /\ (Open(n)' <= Open(n) \/ confirmed[n] < confirmed'[n]),
         \A d \in Conn : \/ call'[d] = call[d]
                         \/ call'[d].op # "login" \/ call'[d].step # "insert"
  PROVE  EachInsertIsConfirmed' /\ InsertingHaveUsers'
<1>1. InsertingHaveUsers'
  BY DEF InsertingHaveUsers, At
<1>2. SUFFICES ASSUME NEW n \in Nonce
               PROVE  /\ IsFiniteSet(Inserting(n)')
                      /\ issued'[n] + Cardinality(Inserting(n)') + Open(n)' <= confirmed'[n]
  BY <1>1 DEF EachInsertIsConfirmed
<1>3. /\ IsFiniteSet(Inserting(n))
      /\ issued[n] + Cardinality(Inserting(n)) + Open(n) <= confirmed[n]
  BY DEF EachInsertIsConfirmed
<1>4. Inserting(n)' \subseteq Inserting(n)
  BY DEF Inserting, At
<1>5. /\ IsFiniteSet(Inserting(n)') /\ Cardinality(Inserting(n)') <= Cardinality(Inserting(n))
      /\ Cardinality(Inserting(n)) \in Nat /\ Cardinality(Inserting(n)') \in Nat
  BY <1>3, <1>4, FS_Subset, FS_CardinalityType
<1>6. Open(n) \in {0, 1} /\ Open(n)' \in {0, 1}
  BY DEF Open
<1> QED
  BY <1>3, <1>5, <1>6

(* A nonce is consumed once for one login.                                 *)
LEMMA ConsumeKeepsInserts ==
  ASSUME Inv, NEW c \in Conn, Consume(c)
  PROVE  EachInsertIsConfirmed' /\ InsertingHaveUsers'
<1>1. /\ call \in [Conn -> Calls] /\ EachInsertIsConfirmed /\ InsertingHaveUsers
      /\ issued \in [Nonce -> Nat] /\ confirmed \in [Nonce -> Nat] /\ nonces \in [Nonce -> Session]
      /\ \A n \in Nonce : Confirmed(n) => nonces[n].user \in Telegram
  BY DEF Inv, LoginsHold, LinksAreStarted
<1>2. call[c] \in LoggingIn
  BY <1>1, CallOf DEF Consume, At
<1>3. PICK m \in Nonce : m = call[c].nonce
  BY <1>2 DEF LoggingIn
<1> DEFINE r == [call[c] EXCEPT !.step = "insert", !.user = nonces[m].user]
<1>4. /\ At(c, "login", "consume") /\ UNCHANGED <<issued, confirmed>>
      /\ nonces' = [nonces EXCEPT ![m] = Key("gone")]
      /\ IF Confirmed(m) THEN call' = [call EXCEPT ![c] = r] ELSE Return(c)
  BY <1>3 DEF Consume, GoTo, history
<1>5. /\ r.op = "login" /\ r.step = "insert" /\ r.nonce = m /\ r.user = nonces[m].user
  BY <1>2, <1>3 DEF LoggingIn
<1>6. /\ ~Confirmed(m)' /\ Open(m)' = 0
      /\ \A n \in Nonce \ {m} : Open(n)' = Open(n)
  BY <1>1, <1>4, <1>2 DEF Key, Confirmed, Open
<1>7. CASE ~Confirmed(m)
  <2>1. \A n \in Nonce : Open(n)' <= Open(n)
    BY <1>2, <1>6 DEF Open
  <2>2. \A n \in Nonce : confirmed[n] <= confirmed'[n]
    BY <1>1, <1>4
  <2>3. \A d \in Conn : call'[d] = call[d] \/ call'[d].op # "login" \/ call'[d].step # "insert"
    BY <1>1, <1>4, <1>7, CallEnds DEF Idle
  <2> QED
    BY <1>1, <1>4, <2>1, <2>2, <2>3, InsertsKept
<1>8. CASE Confirmed(m)
  <2> HIDE DEF r
  <2>1. call'[c] = r /\ \A d \in Conn \ {c} : call'[d] = call[d]
    BY <1>1, <1>4, <1>8
  <2>2. c \notin Inserting(m)
    BY <1>4 DEF Inserting, At
  <2>3. InsertingHaveUsers'
    BY <1>1, <1>8, <1>5, <2>1 DEF InsertingHaveUsers, At
  <2>4. Inserting(m)' = Inserting(m) \cup {c}
    BY <1>5, <2>1 DEF Inserting, At
  <2>5. \A n \in Nonce \ {m} : Inserting(n)' = Inserting(n)
    BY <1>4, <1>5, <2>1 DEF Inserting, At
  <2>6. Open(m) = 1
    BY <1>8 DEF Open
  <2>7. /\ IsFiniteSet(Inserting(m)')
        /\ issued'[m] + Cardinality(Inserting(m)') + Open(m)' <= confirmed'[m]
    <3>1. /\ IsFiniteSet(Inserting(m))
          /\ issued[m] + Cardinality(Inserting(m)) + Open(m) <= confirmed[m]
      BY <1>1, <1>2 DEF EachInsertIsConfirmed
    <3>2. /\ IsFiniteSet(Inserting(m)')
          /\ Cardinality(Inserting(m)') = Cardinality(Inserting(m)) + 1
          /\ Cardinality(Inserting(m)) \in Nat
      BY <2>2, <2>4, <3>1, FS_AddElement, FS_CardinalityType
    <3> QED
      BY <1>1, <1>4, <1>2, <1>6, <2>6, <3>1, <3>2
  <2>8. \A n \in Nonce \ {m} :
          /\ IsFiniteSet(Inserting(n)')
          /\ issued'[n] + Cardinality(Inserting(n)') + Open(n)' <= confirmed'[n]
    BY <1>1, <1>4, <1>6, <2>5 DEF EachInsertIsConfirmed
  <2>9. \A n \in Nonce :
          /\ IsFiniteSet(Inserting(n)')
          /\ issued'[n] + Cardinality(Inserting(n)') + Open(n)' <= confirmed'[n]
    BY <2>7, <2>8
  <2> QED
    BY <2>3, <2>9 DEF EachInsertIsConfirmed
<1> QED
  BY <1>7, <1>8

(* A login issues one pair of tokens for its nonce.                        *)
LEMMA IssueKeepsInserts ==
  ASSUME Inv, NEW c \in Conn, IssueForUser(c)
  PROVE  /\ EachInsertIsConfirmed' /\ InsertingHaveUsers'
         /\ issued' \in [Nonce -> Nat]
<1>1. /\ call \in [Conn -> Calls] /\ EachInsertIsConfirmed /\ InsertingHaveUsers
      /\ issued \in [Nonce -> Nat] /\ confirmed \in [Nonce -> Nat]
  BY DEF Inv, LoginsHold
<1>2. call[c] \in LoggingIn
  BY <1>1, CallOf DEF IssueForUser, At
<1>3. PICK m \in Nonce : m = call[c].nonce
  BY <1>2 DEF LoggingIn
<1>4. /\ At(c, "login", "insert") /\ UNCHANGED <<nonces, confirmed>> /\ Return(c)
      /\ issued' = [issued EXCEPT ![m] = @ + 1]
  BY <1>3 DEF IssueForUser, redisVars
<1>5. /\ issued' \in [Nonce -> Nat] /\ issued'[m] = issued[m] + 1 /\ issued[m] \in Nat
      /\ \A n \in Nonce \ {m} : issued'[n] = issued[n]
  BY <1>1, <1>4
<1>6. call'[c] = Idle /\ \A d \in Conn \ {c} : call'[d] = call[d]
  BY <1>1, <1>4, CallEnds
<1>7. InsertingHaveUsers'
  BY <1>1, <1>6 DEF InsertingHaveUsers, At, Idle
<1>8. /\ c \in Inserting(m) /\ Inserting(m)' = Inserting(m) \ {c}
      /\ \A n \in Nonce \ {m} : Inserting(n)' = Inserting(n)
  BY <1>3, <1>4, <1>6 DEF Inserting, At, Idle
<1>9. \A n : Open(n)' = Open(n)
  BY <1>4 DEF Open, Confirmed
<1>10. /\ IsFiniteSet(Inserting(m)')
       /\ issued'[m] + Cardinality(Inserting(m)') + Open(m)' <= confirmed'[m]
  <2>1. /\ IsFiniteSet(Inserting(m))
        /\ issued[m] + Cardinality(Inserting(m)) + Open(m) <= confirmed[m]
    BY <1>1 DEF EachInsertIsConfirmed
  <2>2. /\ IsFiniteSet(Inserting(m)')
        /\ Cardinality(Inserting(m)') = Cardinality(Inserting(m)) - 1
        /\ Cardinality(Inserting(m)) \in Nat
    BY <1>8, <2>1, FS_RemoveElement, FS_CardinalityType
  <2>3. Open(m) \in {0, 1}
    BY DEF Open
  <2> QED
    BY <1>1, <1>4, <1>5, <1>9, <2>1, <2>2, <2>3
<1>11. \A n \in Nonce \ {m} :
         /\ IsFiniteSet(Inserting(n)')
         /\ issued'[n] + Cardinality(Inserting(n)') + Open(n)' <= confirmed'[n]
  BY <1>1, <1>4, <1>5, <1>8, <1>9 DEF EachInsertIsConfirmed
<1>12. \A n \in Nonce :
         /\ IsFiniteSet(Inserting(n)')
         /\ issued'[n] + Cardinality(Inserting(n)') + Open(n)' <= confirmed'[n]
  BY <1>10, <1>11
<1> QED
  BY <1>5, <1>7, <1>12 DEF EachInsertIsConfirmed

(* Every step keeps the invariant of logins under way.                     *)
LEMMA NextKeepsInserts ==
  ASSUME Inv, Next
  PROVE  /\ EachInsertIsConfirmed' /\ InsertingHaveUsers'
         /\ issued' \in [Nonce -> Nat] /\ confirmed' \in [Nonce -> Nat]
<1>1. /\ call \in [Conn -> Calls] /\ EachInsertIsConfirmed /\ InsertingHaveUsers
      /\ issued \in [Nonce -> Nat] /\ confirmed \in [Nonce -> Nat]
      /\ nonces \in [Nonce -> Session] /\ login \in [Telegram -> Nonce \cup {None}]
  BY DEF Inv, LoginsHold
<1> DEFINE Goal == /\ EachInsertIsConfirmed' /\ InsertingHaveUsers'
                   /\ issued' \in [Nonce -> Nat] /\ confirmed' \in [Nonce -> Nat]
<1>2. ASSUME UNCHANGED <<issued, confirmed>>,
             \A n \in Nonce : nonces'[n] = nonces[n] \/ nonces'[n].status # "confirmed",
             \A d \in Conn : \/ call'[d] = call[d]
                             \/ call'[d].op # "login" \/ call'[d].step # "insert"
      PROVE  Goal
  <2>1. \A n \in Nonce : Open(n)' <= Open(n)
    BY <1>2 DEF Open, Confirmed
  <2>2. \A n \in Nonce : confirmed[n] <= confirmed'[n]
    BY <1>1, <1>2
  <2> QED
    BY <1>1, <1>2, <2>1, <2>2, InsertsKept
<1>3. ASSUME NEW n \in Nonce, InitLogin(n) \/ NonceRunsOut(n)
      PROVE  Goal
  <2>1. /\ \E s \in {"pending", "gone"} : nonces' = [nonces EXCEPT ![n] = Key(s)]
        /\ UNCHANGED <<call, issued, confirmed>>
    BY <1>3 DEF InitLogin, NonceRunsOut, history
  <2> QED
    BY <1>1, <1>2, <2>1 DEF Key
<1>4. ASSUME \/ \E t \in Telegram : LinkRunsOut(t) \/ PublishBan(t)
             \/ \E i \in Ids : RefreshRunsOut(i)
      PROVE  Goal
  BY <1>2, <1>4 DEF LinkRunsOut, PublishBan, RefreshRunsOut, redisVars, history
<1>5. ASSUME NEW c \in Conn,
             \/ \E t \in Telegram : Contact(c, t) \/ \E n \in Nonce : Start(c, t, n)
             \/ \E n \in Nonce : Poll(c, n)
             \/ \E i \in Ids : Logout(c, i) \/ \E same \in BOOLEAN : Refresh(c, i, same)
             \/ BanUser(c) \/ Reuse(c)
      PROVE  Goal
  <2>1. /\ UNCHANGED <<nonces, issued, confirmed>>
        /\ \A d \in Conn \ {c} : call'[d] = call[d]
        /\ call'[c].op # "login" \/ call'[c].step # "insert"
    BY <1>1, <1>5
    DEF Contact, Start, Poll, Logout, Refresh, BanUser, Reuse, Begin, GoTo, Revocation, redisVars,
        history
  <2> QED
    BY <1>2, <2>1
<1>6. ASSUME NEW c \in Conn,
             SetLink(c) \/ Unlink(c) \/ Rotate(c) \/ Refuse(c) \/ Revoke(c) \/ Fail(c)
      PROVE  Goal
  <2>1. UNCHANGED <<nonces, issued, confirmed>> /\ Return(c)
    BY <1>6 DEF SetLink, Unlink, Rotate, Refuse, Revoke, Fail, redisVars, history
  <2>2. call'[c] = Idle /\ \A d \in Conn \ {c} : call'[d] = call[d]
    BY <1>1, <2>1, CallEnds
  <2> QED
    BY <1>2, <2>1, <2>2 DEF Idle
<1>7. ASSUME NEW c \in Conn, ReadLink(c) \/ ReadNonce(c) \/ Confirm(c)
      PROVE  \A d \in Conn : call'[d] = call[d] \/ call'[d].op # "login"
  <2>1. PICK r \in {Idle} \cup Confirming : call' = [call EXCEPT ![c] = r]
    BY <1>1, <1>7, ConfirmingCalls
  <2>2. r.op # "login"
    BY DEF Idle, Confirming
  <2> QED
    BY <1>1, <2>1, <2>2
<1>8. ASSUME NEW c \in Conn, ReadLink(c) \/ ReadNonce(c)
      PROVE  Goal
  BY <1>2, <1>7, <1>8 DEF ReadLink, ReadNonce, redisVars, history
<1>9. ASSUME NEW c \in Conn, Confirm(c)
      PROVE  Goal
  <2> DEFINE m == call[c].nonce
  <2>1. m \in Nonce
    BY <1>9 DEF Confirm, Inv, LoginsHold, LinksAreStarted
  <2>2. /\ confirmed' = [confirmed EXCEPT ![m] = @ + 1] /\ issued' = issued
        /\ \E k : nonces' = [nonces EXCEPT ![m] = k]
    BY <1>9 DEF Confirm
  <2> HIDE DEF m
  <2>3. /\ confirmed' \in [Nonce -> Nat] /\ confirmed[m] < confirmed'[m]
        /\ \A n \in Nonce : confirmed[n] <= confirmed'[n]
    BY <1>1, <2>1, <2>2
  <2>4. \A n \in Nonce : Open(n)' <= Open(n) \/ confirmed[n] < confirmed'[n]
    BY <1>1, <2>1, <2>2, <2>3 DEF Open, Confirmed
  <2> QED
    BY <1>1, <1>7, <1>9, <2>2, <2>3, <2>4, InsertsKept
<1>10. ASSUME NEW c \in Conn, Consume(c)
       PROVE  Goal
  BY <1>1, <1>10, ConsumeKeepsInserts DEF Consume, history
<1>11. ASSUME NEW c \in Conn, IssueForUser(c)
       PROVE  Goal
  BY <1>1, <1>11, IssueKeepsInserts DEF IssueForUser
<1> HIDE DEF Goal
<1>12. Goal
  BY <1>3, <1>4, <1>5, <1>6, <1>8, <1>9, <1>10, <1>11 DEF Next, Handler
<1> QED
  BY <1>12 DEF Goal

-----------------------------------------------------------------------------
(* What steps do to the users.                                             *)

(* Users who are registered stay so, and no other is about to be banned.   *)
LEMMA RegistrationsKept ==
  ASSUME BannedAreRegistered, bans' \subseteq Telegram,
         \A t \in Telegram : users[t] # "absent" => users'[t] # "absent",
         \A t \in bans' : users'[t] # "absent",
         \A c \in Conn : Revokes(c) => call[c].user \in Telegram \cup {None},
         \A c \in Conn :
            \/ call'[c] = call[c] \/ call'[c].op # "revoke"
            \/ call'[c].user = None \/ call'[c].user \in bans'
  PROVE  BannedAreRegistered'
  BY DEF BannedAreRegistered, Revokes

(* Every step keeps the invariant of users.                                *)
LEMMA NextKeepsUsers ==
  ASSUME Inv, Next
  PROVE  /\ users' \in [Telegram -> {"absent", "active", "banned"}]
         /\ created' \in [Telegram -> Nat]
         /\ BannedAreRegistered' /\ UserCreatedOnce'
<1>1. /\ call \in [Conn -> Calls] /\ BannedAreRegistered /\ UserCreatedOnce
      /\ users \in [Telegram -> {"absent", "active", "banned"}] /\ created \in [Telegram -> Nat]
      /\ login \in [Telegram -> Nonce \cup {None}] /\ nonces \in [Nonce -> Session]
      /\ bans \subseteq Telegram /\ \A t \in bans : users[t] # "absent"
  BY DEF Inv, LoginsHold, BannedAreRegistered
<1>2. \A c \in Conn : Revokes(c) => call[c].user \in Telegram \cup {None}
  BY <1>1, CallOf DEF Revoking
<1> DEFINE Goal == /\ users' \in [Telegram -> {"absent", "active", "banned"}]
                   /\ created' \in [Telegram -> Nat]
                   /\ BannedAreRegistered' /\ UserCreatedOnce'
<1>3. ASSUME UNCHANGED <<users, created, bans>>,
             \A c \in Conn :
               \/ call'[c] = call[c] \/ call'[c].op # "revoke"
               \/ call'[c].user = None \/ call'[c].user \in bans
      PROVE  Goal
  <2>1. BannedAreRegistered'
    BY <1>1, <1>2, <1>3, RegistrationsKept
  <2> QED
    BY <1>1, <1>3, <2>1 DEF UserCreatedOnce
<1>4. ASSUME \/ \E n \in Nonce : InitLogin(n) \/ NonceRunsOut(n)
             \/ \E t \in Telegram : LinkRunsOut(t)
             \/ \E i \in Ids : RefreshRunsOut(i)
      PROVE  Goal
  BY <1>3, <1>4 DEF InitLogin, NonceRunsOut, LinkRunsOut, RefreshRunsOut
<1>5. ASSUME NEW t \in Telegram, PublishBan(t)
      PROVE  Goal
  <2>1. /\ users[t] = "active" /\ bans' = bans \cup {t} /\ UNCHANGED <<users, created, call>>
    BY <1>5 DEF PublishBan
  <2>2. BannedAreRegistered'
    BY <1>1, <1>2, <2>1, RegistrationsKept
  <2> QED
    BY <1>1, <2>1, <2>2 DEF UserCreatedOnce
<1>6. ASSUME NEW c \in Conn, NEW t \in Telegram, Contact(c, t)
      PROVE  Goal
  <2>1. /\ users' = [users EXCEPT ![t] = IF @ = "absent" THEN "active" ELSE @]
        /\ created' = [created EXCEPT ![t] = IF users[t] = "absent" THEN @ + 1 ELSE @]
        /\ bans' = bans
    BY <1>6 DEF Contact, RegisterContact, UpsertUser
  <2>2. /\ \A d \in Conn \ {c} : call'[d] = call[d]
        /\ call'[c].op # "revoke"
    BY <1>1, <1>6 DEF Contact, Begin
  <2>3. /\ users' \in [Telegram -> {"absent", "active", "banned"}]
        /\ users'[t] # "absent" /\ \A u \in Telegram \ {t} : users'[u] = users[u]
    BY <1>1, <2>1
  <2>4. /\ created' \in [Telegram -> Nat]
        /\ created'[t] = IF users[t] = "absent" THEN created[t] + 1 ELSE created[t]
        /\ \A u \in Telegram \ {t} : created'[u] = created[u]
    BY <1>1, <2>1
  <2>5. BannedAreRegistered'
    BY <1>1, <1>2, <2>1, <2>2, <2>3, RegistrationsKept
  <2>6. UserCreatedOnce'
    BY <1>1, <2>3, <2>4 DEF UserCreatedOnce
  <2> QED
    BY <2>3, <2>4, <2>5, <2>6
<1>7. ASSUME NEW c \in Conn,
             \/ \E t \in Telegram, n \in Nonce : Start(c, t, n)
             \/ \E n \in Nonce : Poll(c, n)
             \/ \E i \in Ids : Logout(c, i) \/ \E same \in BOOLEAN : Refresh(c, i, same)
             \/ BanUser(c) \/ Reuse(c)
      PROVE  Goal
  <2>1. /\ UNCHANGED <<users, created, bans>>
        /\ \A d \in Conn \ {c} : call'[d] = call[d]
        /\ call'[c].op # "revoke" \/ call'[c].user = None \/ call'[c].user \in bans
    BY <1>1, <1>7 DEF Start, Poll, Logout, Refresh, BanUser, Reuse, Begin, GoTo, Revocation
  <2> QED
    BY <1>3, <2>1
<1>8. ASSUME NEW c \in Conn,
             \/ SetLink(c) \/ ReadLink(c) \/ ReadNonce(c) \/ Confirm(c) \/ Unlink(c)
             \/ Consume(c) \/ Fail(c)
      PROVE  Goal
  <2>1. PICK r \in Others : call' = [call EXCEPT ![c] = r]
    BY <1>1, <1>8, OtherCalls
  <2>2. r.op # "revoke"
    BY DEF Others, Idle, Linking, Confirming, LoggingIn
  <2>3. UNCHANGED <<users, created, bans>>
    BY <1>8 DEF SetLink, ReadLink, ReadNonce, Confirm, Unlink, Consume, Fail
  <2> QED
    BY <1>1, <1>3, <2>1, <2>2, <2>3
<1>9. ASSUME NEW c \in Conn, IssueForUser(c) \/ Rotate(c) \/ Refuse(c)
      PROVE  Goal
  <2>1. UNCHANGED <<users, created, bans>> /\ Return(c)
    BY <1>9 DEF IssueForUser, Rotate, Refuse
  <2> QED
    BY <1>1, <1>3, <2>1, CallEnds DEF Idle
<1>10. ASSUME NEW c \in Conn, Revoke(c)
       PROVE  Goal
  <2>1. PICK u \in Telegram \cup {None} : call[c].user = u
    BY <1>2, <1>10 DEF Revoke, Revokes
  <2>2. /\ Revokes(c) /\ Return(c) /\ created' = created /\ bans' = bans \ {u}
        /\ users' = IF u = None THEN users ELSE [users EXCEPT ![u] = "banned"]
    BY <1>10, <2>1 DEF Revoke, Revokes
  <2>3. u # None => users[u] # "absent"
    BY <1>1, <2>1, <2>2 DEF BannedAreRegistered
  <2>4. /\ users' \in [Telegram -> {"absent", "active", "banned"}]
        /\ \A t \in Telegram : users'[t] = "absent" <=> users[t] = "absent"
    BY <1>1, <2>2, <2>3
  <2>5. call'[c].op # "revoke" /\ \A d \in Conn \ {c} : call'[d] = call[d]
    BY <1>1, <2>2, CallEnds DEF Idle
  <2>6. BannedAreRegistered'
    BY <1>1, <1>2, <2>2, <2>4, <2>5, RegistrationsKept
  <2> QED
    BY <1>1, <2>2, <2>4, <2>6 DEF UserCreatedOnce
<1> HIDE DEF Goal
<1>11. Goal
  BY <1>4, <1>5, <1>6, <1>7, <1>8, <1>9, <1>10 DEF Next, Handler
<1> QED
  BY <1>11 DEF Goal

-----------------------------------------------------------------------------
(* Every step keeps the invariant.                                         *)
LEMMA NextInv ==
  ASSUME Inv, [Next]_vars
  PROVE  Inv'
<1>1. CASE Next
  BY <1>1, NextKeepsTokens, NextKeepsLinks, NextKeepsInserts, NextKeepsUsers
  DEF Inv, LoginsHold
<1>2. CASE UNCHANGED vars
  <2>1. UNCHANGED <<users, created, nonces, login, tokens, call, bans, started, issued,
                    confirmed, killed, raced>>
    BY <1>2 DEF vars, redisVars, history
  <2>2. TokensHold'
    BY <2>1, TokensAndCallsKept DEF Inv
  <2>3. \A n : Inserting(n)' = Inserting(n) /\ Open(n)' = Open(n)
    BY <2>1 DEF Inserting, At, Open, Confirmed
  <2>4. EachInsertIsConfirmed'
    BY <2>1, <2>3 DEF Inv, LoginsHold, EachInsertIsConfirmed
  <2>5. LoginsHold'
    BY <2>1, <2>4
    DEF Inv, LoginsHold, LinksAreStarted, InsertingHaveUsers, BannedAreRegistered, Revokes, At,
        Confirmed, LoginBelongsToWhoStartedIt, UserCreatedOnce
  <2> QED
    BY <2>1, <2>2, <2>5 DEF Inv
<1> QED
  BY <1>1, <1>2

(* The invariant of links, logins, tokens and bans (auth: login.go,        *)
(* tokens.go, bans.go).                                                    *)
THEOREM InvHolds == Spec => []Inv
  BY InitInv, NextInv, PTL DEF Spec

(* However requests, logouts, bans and failures meet, a family has one     *)
(* token that refreshes it, and none once a revocation of it has finished, *)
(* but for the race with a rotation (repo/refresh.go).                     *)
THEOREM SessionsAlwaysHold == Spec => []SessionsHold
<1>1. Inv => SessionsHold
  BY IdIsNat DEF Inv, TokensHold, LoginsHold, SessionsHold, TypeOK
<1> QED
  BY <1>1, InvHolds, PTL

(* Whatever is overwritten, redelivered or lost between the bot, Redis and *)
(* the browser, a login is of the user who started it, is exchanged no     *)
(* more often than it was confirmed, and a user is created once            *)
(* (session/store.go, transport/webhook.go).                               *)
THEOREM LoginsAreGenuine == Spec => []LoginIsGenuine
<1>1. Inv => LoginIsGenuine
  <2> SUFFICES ASSUME Inv PROVE LoginIsGenuine
    OBVIOUS
  <2>1. LoginIssuesOncePerConfirmation
    <3> SUFFICES ASSUME NEW n \in Nonce PROVE issued[n] <= confirmed[n]
      BY DEF LoginIssuesOncePerConfirmation
    <3>1. /\ IsFiniteSet(Inserting(n))
          /\ issued[n] + Cardinality(Inserting(n)) + Open(n) <= confirmed[n]
          /\ issued[n] \in Nat /\ confirmed[n] \in Nat
      BY DEF Inv, LoginsHold, EachInsertIsConfirmed
    <3>2. Cardinality(Inserting(n)) \in Nat /\ Open(n) \in {0, 1}
      BY <3>1, FS_CardinalityType DEF Open
    <3> QED
      BY <3>1, <3>2
  <2> QED
    BY <2>1 DEF Inv, LoginsHold, LoginIsGenuine
<1> QED
  BY <1>1, InvHolds, PTL

(***************************************************************************)
(* Limits.  The inductive invariant keeps accounts of each bucket: what it *)
(* let through since any request, and what is left in it, are paid for by  *)
(* a full bucket and what it gained since.  A key may be forgotten and     *)
(* begin anew with a full bucket, since by then it had gained one.         *)
(***************************************************************************)
(* What Redis has of a key, and what the gateway made of it: what was let  *)
(* through since a request i and what is left of the bucket are together   *)
(* no more than a full one and what it gained since.                       *)
Accounts(k) ==
  LET b == bucket[k] IN
  /\ b.ts <= now
  /\ \A i \in DOMAIN passed[k] :
       /\ passed[k][i] <= b.ts
       /\ (Len(passed[k]) - i + 1) * Cost + b.tokens <= Burst + Rate * (b.ts - passed[k][i])
  /\ comeback[k] # Absent => comeback[k].at = b.ts + Ceiling(Cost - b.tokens, Rate)

BurstFits(k) ==
  \A i, j \in DOMAIN passed[k] :
    i <= j => (j - i + 1) * Cost <= Burst + Rate * (passed[k][j] - passed[k][i])

BucketFits(k) ==
  /\ bucket[k] \in {Absent} \cup [tokens : 0..Burst, ts : 0..MaxTime]
  /\ passed[k] \in Seq(Nat)
  /\ bucket[k] = Absent => passed[k] = <<>> /\ comeback[k] = Absent
  /\ bucket[k] # Absent => Accounts(k)
  /\ BurstFits(k)

LimitTables ==
  /\ now \in 0..MaxTime
  /\ bucket = [k \in Client |-> bucket[k]] /\ passed = [k \in Client |-> passed[k]]
  /\ comeback = [k \in Client |-> comeback[k]] /\ window = [k \in Client |-> window[k]]
  /\ asking = [c \in Caller |-> asking[c]]

Ends == Nat \cup {Never}
Asking(c) ==
  /\ asking[c].key \in Client /\ asking[c].count \in Nat /\ asking[c].ends \in Ends
  /\ DOMAIN asking[c] = {"key", "count", "ends", "opened"}
  /\ asking[c].opened \in BOOLEAN /\ (asking[c].opened => asking[c].ends # Never)

WindowsFit ==
  /\ \A k \in Client : window[k] \in {Absent} \cup [count : Nat, ends : Ends]
  /\ \A c \in Caller : asking[c] = Absent \/ Asking(c)
  /\ refused \subseteq Client
  /\ RefusalHasAnEnd

LimitsInv == LimitTables /\ (\A k \in Client : BucketFits(k)) /\ WindowsFit

(* What is rounded up is enough.                                           *)
LEMMA CeilingCovers ==
  ASSUME NEW a \in Int, NEW b \in Nat \ {0}
  PROVE  Ceiling(a, b) \in Int /\ a <= b * Ceiling(a, b)
<1>1. PICK x \in Int : x = a + b - 1
  OBVIOUS
<1>2. x \div b \in Int /\ x < b * (x \div b) + b
  BY <1>1, SMT
<1> QED
  BY <1>1, <1>2 DEF Ceiling

(* A product grows with its factor.                                      *)
LEMMA Product ==
  ASSUME NEW r \in Nat, NEW x \in Int, NEW y \in Int, x <= y
  PROVE  r * x \in Int /\ r * y \in Int /\ r * x <= r * y
  BY SMT

(* A bucket holds no more than it is said to gain, also when its key is    *)
(* forgotten and the next request finds a full one.                        *)
LEMMA GainsNoMore ==
  ASSUME NEW k \in Client, now \in Nat, BucketFits(k), bucket[k] # Absent
  PROVE  /\ Refilled(k) \in 0..Burst
         /\ Refilled(k) <= bucket[k].tokens + Rate * (now - bucket[k].ts)
<1>1. PICK t \in 0..Burst, s \in Nat : t = bucket[k].tokens /\ s = bucket[k].ts /\ s <= now
  BY DEF BucketFits, Accounts
<1>2. Rate \in Nat \ {0} /\ Burst \in Nat
  BY LimitsAssumption
<1>3. PICK gain \in Nat : gain = Rate * (now - s)
  <2>1. Rate * 0 <= Rate * (now - s) /\ Rate * (now - s) \in Int
    BY <1>1, <1>2, Product
  <2> QED
    BY <1>2, <2>1
<1>4. (now - s) * Rate = gain
  BY <1>1, <1>2, <1>3, SMT
<1>5. now >= s + FullAfter => Burst <= gain
  <2>1. FullAfter \in Int /\ Burst <= Rate * FullAfter
    BY <1>2, CeilingCovers DEF FullAfter
  <2> SUFFICES ASSUME FullAfter <= now - s PROVE Burst <= gain
    BY <1>1, <2>1
  <2>2. Rate * FullAfter <= Rate * (now - s) /\ Rate * FullAfter \in Int
    BY <1>1, <1>2, <2>1, Product
  <2> QED
    BY <1>2, <1>3, <2>1, <2>2
<1>6. FullAfter \in Int
  BY <1>2, CeilingCovers DEF FullAfter
<1>7. CASE now >= s + FullAfter
  BY <1>1, <1>2, <1>3, <1>5, <1>7 DEF Refilled
<1>8. CASE ~(now >= s + FullAfter)
  <2>1. Refilled(k) = Least(Burst, t + gain)
    BY <1>1, <1>4, <1>8 DEF Refilled
  <2> QED
    BY <1>1, <1>2, <1>3, <2>1 DEF Least
<1> QED
  BY <1>7, <1>8

(* Who waited as he was told finds a bucket that holds his request.        *)
LEMMA WaitedEnough ==
  ASSUME NEW k \in Client, now \in Nat, BucketFits(k), bucket[k] # Absent,
         comeback[k] # Absent, now >= comeback[k].at
  PROVE  Grants(k)
<1>1. PICK t \in 0..Burst, s \in Nat : t = bucket[k].tokens /\ s = bucket[k].ts /\ s <= now
  BY DEF BucketFits, Accounts
<1>2. Rate \in Nat \ {0} /\ Burst \in Nat /\ Cost \in Nat /\ Burst >= Cost
  BY LimitsAssumption
<1>3. Ceiling(Cost - t, Rate) \in Int /\ Cost - t <= Rate * Ceiling(Cost - t, Rate)
  BY <1>1, <1>2, CeilingCovers
<1>4. Ceiling(Cost - t, Rate) <= now - s
  <2>1. comeback[k].at = s + Ceiling(Cost - t, Rate)
    BY <1>1 DEF BucketFits, Accounts
  <2> QED
    BY <1>1, <1>3, <2>1
<1>5. /\ Rate * Ceiling(Cost - t, Rate) <= Rate * (now - s) /\ Rate * (now - s) \in Int
      /\ Rate * Ceiling(Cost - t, Rate) \in Int
  BY <1>1, <1>2, <1>3, <1>4, Product
<1>6. PICK gain \in Int : gain = Rate * (now - s) /\ Cost - t <= gain
  BY <1>2, <1>3, <1>5
<1>7. (now - s) * Rate = gain
  BY <1>1, <1>2, <1>6, SMT
<1>8. Refilled(k) = Burst \/ Refilled(k) = Least(Burst, t + gain)
  BY <1>1, <1>7 DEF Refilled
<1> QED
  BY <1>1, <1>2, <1>6, <1>8 DEF Grants, Least

(* A request that is asked about: granted or not, the accounts are right.  *)
LEMMA AllowKeepsBucket ==
  ASSUME LimitTables, NEW k \in Client, BucketFits(k), Allow(k), UNCHANGED now
  PROVE  BucketFits(k)'
<1>1. CASE redis = "down"
  BY <1>1 DEF Allow, BucketFits, BurstFits, Accounts
<1>2. CASE redis # "down"
  <2>1. Rate \in Nat \ {0} /\ Burst \in Nat /\ Cost \in Nat \ {0} /\ Burst >= Cost /\ MaxTime \in Nat
    BY LimitsAssumption
  <2>2. now \in Nat /\ now \in 0..MaxTime
    BY <2>1 DEF LimitTables
  <2>3. PICK have \in 0..Burst : have = Refilled(k)
    <3>1. CASE bucket[k] = Absent
      BY <2>1, <3>1 DEF Refilled
    <3>2. CASE bucket[k] # Absent
      BY <2>2, <3>2, GainsNoMore
    <3> QED
      BY <3>1, <3>2
  <2>4. PICK rest \in 0..Burst : rest = Remaining(k) /\ rest = have - (IF Grants(k) THEN Cost ELSE 0)
    BY <2>1, <2>3 DEF Remaining, Grants
  <2>5. PICK b : b = [tokens |-> rest, ts |-> now]
    OBVIOUS
  <2>6. bucket'[k] = b /\ b \in [tokens : 0..Burst, ts : 0..MaxTime] /\ b # Absent
    <3>1. b \in [tokens : 0..Burst, ts : 0..MaxTime]
      BY <2>2, <2>5
    <3> QED
      BY <1>2, <2>4, <2>5, <3>1, LimitsAssumption DEF Allow, LimitTables
  <2>7. \A i \in DOMAIN passed[k] :
          /\ passed[k][i] \in Nat /\ passed[k][i] <= now
          /\ (Len(passed[k]) - i + 1) * Cost + have <= Burst + Rate * (now - passed[k][i])
    <3>1. CASE bucket[k] = Absent
      BY <3>1 DEF BucketFits
    <3>2. CASE bucket[k] # Absent
      <4> SUFFICES ASSUME NEW i \in DOMAIN passed[k]
          PROVE /\ passed[k][i] \in Nat /\ passed[k][i] <= now
                /\ (Len(passed[k]) - i + 1) * Cost + have <= Burst + Rate * (now - passed[k][i])
        OBVIOUS
      <4>1. passed[k] \in Seq(Nat) /\ Accounts(k)
        BY <3>2 DEF BucketFits
      <4>2. PICK t \in 0..Burst, s \in Nat : t = bucket[k].tokens /\ s = bucket[k].ts /\ s <= now
        BY <3>2 DEF BucketFits, Accounts
      <4>3. PICK p \in Nat : p = passed[k][i] /\ p <= s
        BY <4>1, <4>2 DEF Accounts
      <4>4. have <= t + Rate * (now - s)
        BY <2>2, <2>3, <3>2, <4>2, GainsNoMore
      <4>5. PICK n \in Int : n = (Len(passed[k]) - i + 1) * Cost
        <5>1. Len(passed[k]) - i + 1 \in Int
          BY <4>1
        <5> QED
          BY <2>1, <5>1
      <4>6. n + t <= Burst + Rate * (s - p)
        BY <4>1, <4>2, <4>3, <4>5 DEF Accounts
      <4>7. PICK x \in Int, y \in Int : x = Rate * (now - s) /\ y = Rate * (s - p)
        BY <2>1, <2>2, <4>2, <4>3
      <4>8. Rate * (now - p) = x + y
        <5>1. Rate * (now - p) = Rate * ((now - s) + (s - p))
          BY <2>2, <4>2, <4>3
        <5> QED
          BY <2>1, <2>2, <4>2, <4>3, <4>7, <5>1, SMT
      <4>9. n + have <= Burst + (x + y)
        BY <2>1, <4>2, <4>4, <4>6, <4>7
      <4>10. p <= now
        BY <2>2, <4>2, <4>3, SMT
      <4>11. n + have <= Burst + Rate * (now - p)
        BY <4>8, <4>9, Zenon
      <4> QED
        BY <4>3, <4>5, <4>10, <4>11, Zenon
    <3> QED
      BY <3>1, <3>2
  <2>8. CASE Grants(k)
    <3>1. have >= Cost /\ rest = have - Cost /\ comeback'[k] = Absent
      BY <1>2, <2>1, <2>3, <2>4, <2>8 DEF Grants, Allow, LimitTables
    <3>2. PICK n \in Nat : n = Len(passed[k]) /\ DOMAIN passed[k] = 1..n /\ passed[k] \in Seq(Nat)
      BY DEF BucketFits
    <3>3. passed'[k] = Append(passed[k], now)
      BY <1>2, <2>8 DEF Allow, LimitTables
    <3>4. /\ passed'[k] \in Seq(Nat) /\ Len(passed'[k]) = n + 1 /\ DOMAIN passed'[k] = 1..(n + 1)
          /\ passed'[k][n + 1] = now /\ \A i \in 1..n : passed'[k][i] = passed[k][i]
      BY <2>2, <3>2, <3>3
    <3>5. ASSUME NEW i \in 1..(n + 1)
          PROVE  /\ passed'[k][i] \in Nat /\ passed'[k][i] <= now
                 /\ (n + 1 - i + 1) * Cost + rest <= Burst + Rate * (now - passed'[k][i])
      <4>1. CASE i = n + 1
        <5>1. (n + 1 - i + 1) * Cost = Cost /\ Rate * (now - passed'[k][i]) = 0
          <6>1. n + 1 - i + 1 = 1 /\ now - passed'[k][i] = 0
            BY <2>2, <3>2, <3>4, <4>1
          <6> QED
            BY <2>1, <6>1
        <5>2. Cost + rest <= Burst + 0
          BY <2>1, <2>3, <3>1
        <5>3. passed'[k][i] = now
          BY <3>4, <4>1
        <5> QED
          BY <2>2, <5>1, <5>2, <5>3
      <4>2. CASE i \in 1..n
        <5>1. PICK p \in Nat : p = passed'[k][i] /\ p <= now /\ (n - i + 1) * Cost + have <= Burst + Rate * (now - p)
          BY <2>7, <3>2, <3>4, <4>2
        <5>2. PICK c \in Int : c = (n - i + 1) * Cost
          BY <2>1, <3>2
        <5>3. (n + 1 - i + 1) * Cost = c + Cost
          <6>1. n + 1 - i + 1 = (n - i + 1) + 1
            BY <3>2
          <6> QED
            BY <2>1, <3>2, <5>2, <6>1, SMT
        <5>4. Rate * (now - p) \in Int
          BY <2>1, <2>2, <5>1
        <5> QED
          BY <2>1, <2>3, <3>1, <5>1, <5>2, <5>3, <5>4
      <4> QED
        BY <3>2, <4>1, <4>2
    <3>6. Accounts(k)'
      <4>1. bucket'[k].tokens = rest /\ bucket'[k].ts = now /\ now' = now
        BY <2>5, <2>6
      <4>2. \A i \in DOMAIN passed'[k] :
              /\ passed'[k][i] <= bucket'[k].ts
              /\ (Len(passed'[k]) - i + 1) * Cost + bucket'[k].tokens
                   <= Burst + Rate * (bucket'[k].ts - passed'[k][i])
        <5>1. DOMAIN passed'[k] = 1..(n + 1) /\ Len(passed'[k]) = n + 1
          BY <3>4
        <5>2. \A i \in 1..(n + 1) : (n + 1 - i + 1) * Cost + rest <= Burst + Rate * (now - passed'[k][i])
          BY <3>5
        <5>3. \A i \in 1..(n + 1) : passed'[k][i] <= now
          BY <3>5
        <5> SUFFICES ASSUME NEW i \in 1..(n + 1)
                     PROVE  /\ passed'[k][i] <= bucket'[k].ts
                            /\ (Len(passed'[k]) - i + 1) * Cost + bucket'[k].tokens
                                 <= Burst + Rate * (bucket'[k].ts - passed'[k][i])
          BY <5>1, Zenon
        <5> QED
          BY <4>1, <5>1, <5>2, <5>3, SMT
      <4>3. bucket'[k].ts <= now'
        BY <2>2, <4>1
      <4> QED
        BY <3>1, <4>2, <4>3, Zenon DEF Accounts
    <3>7. BurstFits(k)'
      <4> SUFFICES ASSUME NEW i \in 1..(n + 1), NEW j \in 1..(n + 1), i <= j
                   PROVE  (j - i + 1) * Cost <= Burst + Rate * (passed'[k][j] - passed'[k][i])
        BY <3>4 DEF BurstFits
      <4>1. CASE j = n + 1
        <5>1. passed'[k][j] = now /\ j - i + 1 = n + 1 - i + 1
          BY <3>2, <3>4, <4>1
        <5>2. /\ passed'[k][i] \in Nat
              /\ (n + 1 - i + 1) * Cost + rest <= Burst + Rate * (now - passed'[k][i])
          BY <3>5, Zenon
        <5>3. PICK x \in Int : x = Rate * (now - passed'[k][i])
          BY <2>1, <2>2, <5>2, SMT
        <5>4. PICK y \in Int : y = (n + 1 - i + 1) * Cost
          BY <2>1, <3>2, SMT
        <5>5. y + rest <= Burst + x
          BY <5>2, <5>3, <5>4, Zenon
        <5>6. y <= Burst + x
          BY <2>1, <2>4, <5>3, <5>4, <5>5, SMT
        <5> QED
          BY <5>1, <5>3, <5>4, <5>6, Zenon
      <4>2. CASE j \in 1..n
        <5>1. i \in 1..n
          BY <3>2, <4>2
        <5> QED
          BY <3>2, <3>4, <4>2, <5>1 DEF BucketFits, BurstFits
      <4>3. j = n + 1 \/ j \in 1..n
        BY <3>2
      <4> QED
        BY <4>1, <4>2, <4>3, Zenon
    <3> QED
      BY <2>6, <3>4, <3>6, <3>7 DEF BucketFits
  <2>9. CASE ~Grants(k)
    <3>1. rest = have /\ passed'[k] = passed[k]
      BY <1>2, <2>3, <2>4, <2>9 DEF Allow
    <3>2. comeback'[k] = [since |-> now, at |-> now + Hint(k)]
      BY <1>2, <2>9 DEF Allow, LimitTables
    <3>3. comeback'[k].at = now + Ceiling(Cost - rest, Rate)
      <4>1. Hint(k) = Ceiling(Cost - rest, Rate)
        BY <2>4 DEF Hint
      <4> QED
        BY <3>2, <4>1
    <3>4. Accounts(k)'
      BY <2>2, <2>5, <2>6, <2>7, <3>1, <3>3 DEF Accounts
    <3>5. passed'[k] \in Seq(Nat) /\ BurstFits(k)'
      BY <3>1 DEF BucketFits, BurstFits
    <3> QED
      BY <2>6, <3>4, <3>5 DEF BucketFits
  <2> QED
    BY <2>8, <2>9
<1> QED
  BY <1>1, <1>2

(* The other keys are left alone, and time only passes.                    *)
LEMMA BucketStays ==
  ASSUME LimitTables, NEW k \in Client, BucketFits(k), now' >= now, now' \in Nat,
         bucket'[k] = bucket[k], passed'[k] = passed[k], comeback'[k] = comeback[k]
  PROVE  BucketFits(k)'
<1>1. BurstFits(k)'
  BY DEF BucketFits, BurstFits
<1>2. bucket[k] # Absent => Accounts(k)'
  <2> SUFFICES ASSUME bucket[k] # Absent PROVE Accounts(k)'
    OBVIOUS
  <2>1. Accounts(k) /\ bucket[k].ts \in Nat
    BY DEF BucketFits
  <2>2. now \in Nat
    BY LimitsAssumption DEF LimitTables
  <2>3. bucket'[k].ts <= now'
    BY <2>1, <2>2 DEF Accounts
  <2> QED
    BY <2>1, <2>3 DEF Accounts
<1> QED
  BY <1>1, <1>2 DEF BucketFits

(* A request that may ask about one key.                                   *)
LEMMA AllowKeepsLimits ==
  ASSUME LimitsInv, NEW k \in Client, Allow(k), UNCHANGED <<now, window, asking, refused>>
  PROVE  LimitsInv'
<1>1. LimitTables' /\ \A j \in Client : j # k => /\ bucket'[j] = bucket[j] /\ passed'[j] = passed[j]
                                               /\ comeback'[j] = comeback[j]
  <2>1. LimitTables
    BY DEF LimitsInv
  <2>2. CASE redis = "down"
    BY <2>1, <2>2 DEF Allow, LimitTables
  <2>3. CASE redis # "down"
    <3>1. PICK b, c : bucket' = [bucket EXCEPT ![k] = b] /\ comeback' = [comeback EXCEPT ![k] = c]
      BY <2>3 DEF Allow
    <3>2. passed' = passed \/ \E p : passed' = [passed EXCEPT ![k] = p]
      BY <2>3 DEF Allow
    <3>3. bucket' = [j \in Client |-> bucket'[j]] /\ comeback' = [j \in Client |-> comeback'[j]]
      BY <2>1, <3>1 DEF LimitTables
    <3>4. passed' = [j \in Client |-> passed'[j]]
      BY <2>1, <3>2 DEF LimitTables
    <3>5. LimitTables'
      BY <2>1, <3>3, <3>4 DEF LimitTables
    <3>6. \A j \in Client : j # k => bucket'[j] = bucket[j] /\ comeback'[j] = comeback[j]
      BY <2>1, <3>1 DEF LimitTables
    <3>7. \A j \in Client : j # k => passed'[j] = passed[j]
      BY <2>1, <3>2 DEF LimitTables
    <3> QED
      BY <3>5, <3>6, <3>7
  <2> QED
    BY <2>2, <2>3
<1>2. ASSUME NEW j \in Client PROVE BucketFits(j)'
  <2>1. CASE j = k
    BY <2>1, AllowKeepsBucket DEF LimitsInv
  <2>2. CASE j # k
    <3>1. now \in Nat /\ now' = now
      BY LimitsAssumption DEF LimitsInv, LimitTables
    <3> QED
      BY <1>1, <2>2, <3>1, BucketStays DEF LimitsInv
  <2> QED
    BY <2>1, <2>2
<1>3. WindowsFit'
  BY DEF LimitsInv, WindowsFit, RefusalHasAnEnd, Asking
<1> QED
  BY <1>1, <1>2, <1>3 DEF LimitsInv

(* What a step of the limiter of auth leaves alone.                        *)
LEMMA BucketsRest ==
  ASSUME LimitsInv, UNCHANGED <<now, bucket, passed, comeback>>
  PROVE  \A k \in Client : BucketFits(k)'
  BY DEF LimitsInv, BucketFits, Accounts, BurstFits

(* The counter of a key, whether its window is over or not.                *)
LEMMA CounterIs ==
  ASSUME NEW k \in Client, window[k] \in {Absent} \cup [count : Nat, ends : Ends]
  PROVE  /\ Counter(k).count \in Nat /\ Counter(k).ends \in Ends
         /\ \/ Counter(k).count = 0 /\ Counter(k).ends = Never
            \/ Counter(k) = window[k] /\ window[k] # Absent
<1>1. PICK n : n = [count |-> 0, ends |-> Never]
  OBVIOUS
<1>2. n.count = 0 /\ n.ends = Never /\ Never \in Ends
  BY <1>1 DEF Ends
<1>3. CASE window[k] = Absent
  BY <1>1, <1>2, <1>3 DEF Counter
<1>4. CASE window[k] # Absent
  <2>1. window[k].count \in Nat /\ window[k].ends \in Ends
    BY <1>4
  <2>2. Counter(k) = n \/ Counter(k) = window[k]
    BY <1>1 DEF Counter
  <2> QED
    BY <1>2, <1>4, <2>1, <2>2
<1> QED
  BY <1>3, <1>4

(* A request is counted.                                                   *)
LEMMA IncrKeepsLimits ==
  ASSUME LimitsInv, NEW c \in Caller, NEW k \in Client, Incr(c, k)
  PROVE  LimitsInv'
<1>1. PICK n, e, w, a : /\ n = Counter(k).count + 1 /\ e = Counter(k).ends
                        /\ w = [count |-> n, ends |-> e]
                        /\ a = [key |-> k, count |-> n, ends |-> e, opened |-> FALSE]
  OBVIOUS
<1>2. /\ asking[c] = Absent /\ window' = [window EXCEPT ![k] = w] /\ asking' = [asking EXCEPT ![c] = a]
      /\ refused' = IF n = 1 THEN refused \ {k} ELSE refused
      /\ UNCHANGED <<now, bucket, passed, comeback>>
  BY <1>1 DEF Incr
<1>3. LimitTables /\ WindowsFit
  BY DEF LimitsInv
<1>4. LimitTables'
  BY <1>2, <1>3 DEF LimitTables
<1>5. window'[k] = w /\ \A j \in Client : j # k => window'[j] = window[j]
  BY <1>2, <1>3 DEF LimitTables
<1>6. asking'[c] = a /\ \A d \in Caller : d # c => asking'[d] = asking[d]
  BY <1>2, <1>3 DEF LimitTables
<1>7. /\ n \in Nat /\ e \in Ends
      /\ n = 1 \/ (window[k] # Absent /\ window[k].ends = e)
  <2>1. Counter(k).count \in Nat /\ Counter(k).ends \in Ends
    BY <1>3, CounterIs DEF WindowsFit
  <2>2. Counter(k).count = 0 \/ (Counter(k) = window[k] /\ window[k] # Absent)
    BY <1>3, CounterIs DEF WindowsFit
  <2> QED
    BY <1>1, <2>1, <2>2
<1>8. \A j \in Client : window'[j] \in {Absent} \cup [count : Nat, ends : Ends]
  BY <1>1, <1>3, <1>5, <1>7 DEF WindowsFit
<1>9. \A d \in Caller : asking'[d] = Absent \/ Asking(d)'
  <2>1. Asking(c)'
    BY <1>1, <1>6, <1>7 DEF Asking
  <2>2. \A d \in Caller : d # c => asking'[d] = Absent \/ Asking(d)'
    BY <1>3, <1>6 DEF WindowsFit, Asking
  <2> QED
    BY <2>1, <2>2
<1>10. RefusalHasAnEnd'
  <2> SUFFICES ASSUME NEW j \in refused'
               PROVE  \/ window'[j] = Absent \/ window'[j].ends # Never
                      \/ \E d \in Caller : asking'[d] # Absent /\ asking'[d].key = j
    BY DEF RefusalHasAnEnd
  <2>1. /\ j \in refused /\ j \in Client
        /\ \/ window[j] = Absent \/ window[j].ends # Never
           \/ \E d \in Caller : asking[d] # Absent /\ asking[d].key = j
    BY <1>2, <1>3 DEF WindowsFit, RefusalHasAnEnd
  <2>2. ASSUME NEW d \in Caller, asking[d] # Absent, asking[d].key = j
        PROVE  asking'[d] # Absent /\ asking'[d].key = j
    BY <1>2, <1>6, <2>2
  <2>3. window'[j] = window[j] \/ (window'[j].ends = window[j].ends /\ window[j] # Absent)
    <3>1. j = k => n # 1
      BY <1>2
    <3> QED
      BY <1>1, <1>5, <1>7, <2>1, <3>1
  <2> QED
    BY <2>1, <2>2, <2>3
<1>11. refused' \subseteq Client
  BY <1>2, <1>3 DEF WindowsFit
<1> QED
  BY <1>2, <1>4, <1>8, <1>9, <1>10, <1>11, BucketsRest DEF LimitsInv, WindowsFit

(* A window is opened for a counter without one.                           *)
LEMMA ExpireKeepsLimits ==
  ASSUME LimitsInv, NEW c \in Caller, Expire(c)
  PROVE  LimitsInv'
<1>1. LimitTables /\ WindowsFit /\ Window \in Nat /\ now \in Nat
  BY LimitsAssumption DEF LimitsInv, LimitTables
<1>2. PICK k \in Client : k = asking[c].key /\ Asking(c) /\ asking[c] # Absent
  BY <1>1 DEF Expire, WindowsFit, Asking
<1>3. PICK w, a : /\ w = IF Counter(k).count = 0 THEN Absent ELSE [count |-> window[k].count, ends |-> now + Window]
                  /\ a = [asking[c] EXCEPT !.opened = TRUE, !.ends = now + Window]
  OBVIOUS
<1>4. /\ window' = [window EXCEPT ![k] = w] /\ asking' = [asking EXCEPT ![c] = a]
      /\ UNCHANGED <<now, bucket, passed, comeback, refused>>
  <2>1. asking' = [asking EXCEPT ![c] = a]
    <3>1. asking' = [asking EXCEPT ![c].opened = TRUE, ![c].ends = now + Window]
      BY DEF Expire
    <3> QED
      BY <1>1, <1>3, <3>1 DEF LimitTables
  <2> QED
    BY <1>2, <1>3, <2>1 DEF Expire
<1>5. LimitTables'
  BY <1>1, <1>4 DEF LimitTables
<1>6. window'[k] = w /\ \A j \in Client : j # k => window'[j] = window[j]
  BY <1>1, <1>4 DEF LimitTables
<1>7. asking'[c] = a /\ \A d \in Caller : d # c => asking'[d] = asking[d]
  BY <1>1, <1>4 DEF LimitTables
<1>8. PICK t \in Nat : t = now + Window /\ t \in Ends /\ t # Never
  BY <1>1 DEF Ends, Never
<1>9. w = Absent \/ (w \in [count : Nat, ends : Ends] /\ w.ends # Never)
  <2>1. Counter(k).count # 0 => window[k].count \in Nat
    BY <1>1, CounterIs DEF WindowsFit
  <2> QED
    BY <1>3, <1>8, <2>1
<1>10. Asking(c)'
  <2>1. /\ DOMAIN a = {"key", "count", "ends", "opened"} /\ a.key = k /\ a.count = asking[c].count
        /\ a.ends = t /\ a.opened = TRUE
    BY <1>2, <1>3, <1>8 DEF Asking
  <2> QED
    BY <1>2, <1>7, <1>8, <2>1 DEF Asking
<1>11. \A j \in Client : window'[j] \in {Absent} \cup [count : Nat, ends : Ends]
  BY <1>1, <1>6, <1>9 DEF WindowsFit
<1>12. \A d \in Caller : asking'[d] = Absent \/ Asking(d)'
  <2>1. \A d \in Caller : d # c => asking'[d] = Absent \/ Asking(d)'
    BY <1>1, <1>7 DEF WindowsFit, Asking
  <2> QED
    BY <1>10, <2>1
<1>13. RefusalHasAnEnd'
  <2> SUFFICES ASSUME NEW j \in refused
               PROVE  \/ window'[j] = Absent \/ window'[j].ends # Never
                      \/ \E d \in Caller : asking'[d] # Absent /\ asking'[d].key = j
    BY <1>4 DEF RefusalHasAnEnd
  <2>1. CASE j = k
    BY <1>6, <1>9, <2>1
  <2>2. CASE j # k
    <3>1. /\ j \in Client
          /\ \/ window[j] = Absent \/ window[j].ends # Never
             \/ \E d \in Caller : asking[d] # Absent /\ asking[d].key = j
      BY <1>1 DEF WindowsFit, RefusalHasAnEnd
    <3>2. \A d \in Caller : asking[d].key = j => d # c
      BY <1>2, <2>2
    <3> QED
      BY <1>6, <1>7, <2>2, <3>1, <3>2
  <2> QED
    BY <2>1, <2>2
<1> QED
  BY <1>1, <1>4, <1>5, <1>11, <1>12, <1>13, BucketsRest DEF LimitsInv, WindowsFit

(* A request is answered, or dies: who is refused has an end to wait for.  *)
LEMMA AnswerKeepsLimits ==
  ASSUME LimitsInv, NEW c \in Caller, Answer(c) \/ GiveUp(c)
  PROVE  LimitsInv'
<1>1. LimitTables /\ WindowsFit
  BY DEF LimitsInv
<1>2. PICK k \in Client : k = asking[c].key /\ Asking(c) /\ asking[c] # Absent
  BY <1>1 DEF Answer, GiveUp, WindowsFit, Asking
<1>3. /\ asking' = [asking EXCEPT ![c] = Absent]
      /\ UNCHANGED <<now, bucket, window, passed, comeback>>
  BY DEF Answer, GiveUp
<1>4. \/ refused' = refused \ {k}
      \/ refused' = refused \cup {k} /\ ~NeedsWindow(c) /\ asking[c].ends = Counter(k).ends
  BY <1>2 DEF Answer, GiveUp
<1>5. LimitTables'
  BY <1>1, <1>3 DEF LimitTables
<1>6. asking'[c] = Absent /\ \A d \in Caller : d # c => asking'[d] = asking[d]
  BY <1>1, <1>3 DEF LimitTables
<1>7. \A d \in Caller : asking'[d] = Absent \/ Asking(d)'
  BY <1>1, <1>6 DEF WindowsFit, Asking
<1>8. RefusalHasAnEnd'
  <2> SUFFICES ASSUME NEW j \in refused'
               PROVE  \/ window[j] = Absent \/ window[j].ends # Never
                      \/ \E d \in Caller : asking'[d] # Absent /\ asking'[d].key = j
    BY <1>3 DEF RefusalHasAnEnd
  <2>1. CASE j = k
    <3>1. ~NeedsWindow(c) /\ asking[c].ends = Counter(k).ends
      BY <1>4, <2>1
    <3>2. asking[c].ends # Never
      BY <1>2, <3>1 DEF NeedsWindow, Asking
    <3>3. Counter(k).ends = Never \/ Counter(k) = window[k]
      BY <1>1, CounterIs DEF WindowsFit
    <3> QED
      BY <2>1, <3>1, <3>2, <3>3
  <2>2. CASE j # k
    <3>1. j \in refused
      BY <1>4, <2>2
    <3>2. \/ window[j] = Absent \/ window[j].ends # Never
          \/ \E d \in Caller : asking[d] # Absent /\ asking[d].key = j
      BY <1>1, <3>1 DEF WindowsFit, RefusalHasAnEnd
    <3>3. \A d \in Caller : asking[d].key = j => d # c
      BY <1>2, <2>2
    <3> QED
      BY <1>6, <3>2, <3>3
  <2> QED
    BY <2>1, <2>2
<1>9. refused' \subseteq Client
  BY <1>1, <1>4 DEF WindowsFit
<1>10. \A j \in Client : window'[j] \in {Absent} \cup [count : Nat, ends : Ends]
  BY <1>1, <1>3 DEF WindowsFit
<1> QED
  BY <1>3, <1>5, <1>7, <1>8, <1>9, <1>10, BucketsRest DEF LimitsInv, WindowsFit

(* Time passes, Redis goes and comes, a service stops answering.           *)
LEMMA OutsideKeepsLimits ==
  ASSUME LimitsInv, now' = now \/ Tick,
         UNCHANGED <<bucket, window, asking, passed, comeback, refused>>
  PROVE  LimitsInv'
<1>1. now \in Nat /\ now' \in Nat /\ now <= now' /\ now' \in 0..MaxTime
  BY LimitsAssumption DEF LimitsInv, LimitTables, Tick
<1>2. LimitTables'
  BY <1>1 DEF LimitsInv, LimitTables
<1>3. \A k \in Client : BucketFits(k)'
  BY <1>1, BucketStays DEF LimitsInv
<1>4. WindowsFit'
  BY DEF LimitsInv, WindowsFit, RefusalHasAnEnd, Asking
<1> QED
  BY <1>2, <1>3, <1>4 DEF LimitsInv

(* A request asks about its user or its address, if it asks at all.        *)
LEMMA SendAsks ==
  ASSUME NEW e, NEW t, NEW u \in User, NEW h, NEW a \in Address, Send(e, t, u, h, a)
  PROVE  /\ UNCHANGED <<now, redis, window, asking, refused>>
         /\ (\E k \in Client : Allow(k)) \/ UNCHANGED <<bucket, passed, comeback>>
<1>1. PICK identity : identity = Identify(t, u, h)
  OBVIOUS
<1>2. identity # Absent => LimitKey(identity, a) \in Client
  <2>1. identity = Nobody \/ identity = Absent \/ identity = [user |-> u, roles |-> {t}]
    BY <1>1 DEF Identify
  <2>2. a \in Client /\ u \in Client
    BY EdgeAssumption
  <2>3. CASE identity = [user |-> u, roles |-> {t}]
    BY <2>2, <2>3 DEF LimitKey
  <2>4. CASE identity = Nobody
    BY <2>2, <2>4 DEF LimitKey, IsUser, Nobody
  <2> QED
    BY <2>1, <2>3, <2>4
<1>3. \/ identity # Absent /\ Allow(LimitKey(identity, a))
      \/ UNCHANGED <<bucket, passed, comeback>>
  BY <1>1 DEF Send
<1> QED
  BY <1>2, <1>3 DEF Send

(* Every step keeps the limits.                                            *)
LEMMA LimitsNext ==
  ASSUME LimitsInv, [EdgeNext]_requestVars
  PROVE  LimitsInv'
<1>1. ASSUME NEW e, NEW t, NEW u \in User, NEW h, NEW a \in Address, Send(e, t, u, h, a) PROVE LimitsInv'
  <2>1. UNCHANGED <<now, window, asking, refused>>
    BY <1>1, SendAsks
  <2>2. CASE UNCHANGED <<bucket, passed, comeback>>
    BY <2>1, <2>2, OutsideKeepsLimits
  <2>3. CASE \E k \in Client : Allow(k)
    BY <2>1, <2>3, AllowKeepsLimits
  <2> QED
    BY <1>1, <2>2, <2>3, SendAsks
<1>2. CASE SendAnything
  BY <1>1, <1>2 DEF SendAnything
<1>3. CASE SendOften
  BY <1>1, <1>3 DEF SendOften
<1>4. CASE UpstreamFails
  BY <1>4, OutsideKeepsLimits DEF UpstreamFails, limitVars
<1>5. CASE WindowStep
  <2>1. Address \subseteq Client
    BY EdgeAssumption
  <2> QED
    BY <1>5, <2>1, IncrKeepsLimits, ExpireKeepsLimits, AnswerKeepsLimits DEF WindowStep
<1>6. CASE Tick
  BY <1>6, OutsideKeepsLimits DEF Tick
<1>7. CASE RedisBreaks
  BY <1>7, OutsideKeepsLimits DEF RedisBreaks
<1>8. CASE UNCHANGED requestVars
  BY <1>8, OutsideKeepsLimits DEF requestVars, limitVars
<1> QED
  BY <1>2, <1>3, <1>4, <1>5, <1>6, <1>7, <1>8 DEF EdgeNext

(* Nothing is counted at first.                                            *)
LEMMA LimitsBegin ==
  ASSUME EdgeInit
  PROVE  LimitsInv
<1>1. now = 0 /\ 0 \in 0..MaxTime
  BY LimitsAssumption DEF EdgeInit, LimitsInit
<1>2. \A k \in Client : bucket[k] = Absent /\ passed[k] = <<>> /\ comeback[k] = Absent /\ window[k] = Absent
  BY DEF EdgeInit, LimitsInit
<1>3. LimitTables
  BY <1>1 DEF EdgeInit, LimitsInit, LimitTables
<1>4. ASSUME NEW k \in Client PROVE BucketFits(k)
  <2>1. passed[k] \in Seq(Nat) /\ DOMAIN passed[k] = {}
    <3>1. <<>> \in Seq(Nat) /\ Len(<<>>) = 0
      BY EmptySeq
    <3>2. DOMAIN passed[k] = 1..Len(passed[k])
      BY <1>2, <3>1, LenProperties
    <3>3. Len(passed[k]) = 0 /\ passed[k] \in Seq(Nat)
      BY <1>2, <3>1, Zenon
    <3>4. 1..0 = {}
      OBVIOUS
    <3> QED
      BY <3>2, <3>3, <3>4, Zenon
  <2> QED
    BY <1>2, <2>1 DEF BucketFits, BurstFits
<1>5. WindowsFit
  BY <1>2 DEF EdgeInit, LimitsInit, WindowsFit, RefusalHasAnEnd
<1> QED
  BY <1>3, <1>4, <1>5 DEF LimitsInv

(* A key that was told to come back has a bucket that says so, and is not  *)
(* told so again when it comes.                                            *)
LEMMA WhoWaitedPasses ==
  ASSUME LimitsInv, NEW k \in Client, comeback[k] # Absent, now >= comeback[k].at,
         NEW j \in Client, Allow(j), comeback'[k] # comeback[k]
  PROVE  comeback'[k] = Absent
<1>1. j = k /\ redis # "down"
  BY DEF Allow, LimitsInv, LimitTables
<1>2. bucket[k] # Absent /\ now \in Nat /\ BucketFits(k)
  BY LimitsAssumption DEF LimitsInv, LimitTables, BucketFits
<1>3. Grants(k)
  BY <1>2, WaitedEnough
<1> QED
  BY <1>1, <1>3 DEF Allow, LimitsInv, LimitTables

(* Between any two requests that the gateway lets through, it lets through *)
(* no more than a full bucket and what it gained since; who waits as long  *)
(* as he is told is let through; and auth refuses nobody in a window that  *)
(* has no end: for any rate, burst and cost, any window and limit, and any *)
(* number of users, addresses and connections (token_bucket.lua; auth's    *)
(* ratelimit.go).                                                          *)
THEOREM LimitsAlwaysKept == EdgeSpec => LimitsAreKept
<1>1. EdgeInit => LimitsInv
  BY LimitsBegin
<1>2. LimitsInv /\ [EdgeNext]_requestVars => LimitsInv'
  BY LimitsNext
<1>3. LimitsInv => BurstIsBounded /\ RefusalHasAnEnd
  BY DEF LimitsInv, WindowsFit, BucketFits, BurstFits, BurstIsBounded
<1>4. ASSUME LimitsInv, [EdgeNext]_requestVars
      PROVE  [\A k \in Client :
                /\ comeback[k] # Absent /\ now >= comeback[k].at
                /\ comeback'[k] # comeback[k]
                => comeback'[k] = Absent]_limitVars
  <2>1. (\E j \in Client : Allow(j)) \/ UNCHANGED comeback
    <3>1. ASSUME NEW e, NEW t, NEW u \in User, NEW h, NEW a \in Address, Send(e, t, u, h, a)
          PROVE  (\E j \in Client : Allow(j)) \/ UNCHANGED comeback
      BY <3>1, SendAsks
    <3>2. CASE SendAnything \/ SendOften
      BY <3>1, <3>2 DEF SendAnything, SendOften
    <3>3. CASE UpstreamFails \/ WindowStep \/ Tick \/ RedisBreaks \/ UNCHANGED requestVars
      BY <3>3 DEF UpstreamFails, WindowStep, Incr, Expire, Answer, GiveUp, Tick, RedisBreaks,
                  requestVars, limitVars
    <3> QED
      BY <1>4, <3>2, <3>3 DEF EdgeNext
  <2> QED
    BY <1>4, <2>1, WhoWaitedPasses
<1> QED
  BY <1>1, <1>2, <1>3, <1>4, PTL DEF EdgeSpec, LimitsAreKept, WaitingIsEnough

(***************************************************************************)
(* Routes. That the table of the gateway and the routers of the services   *)
(* agree is read off the tables: which segments belong to one service, and *)
(* which route is the longest for the others; then, for each router, that  *)
(* a path filled in from an endpoint matches no other endpoint of it.      *)
(***************************************************************************)

(* Of the routes that match, the one that comes before all the others.     *)
LEMMA FirstIs ==
  ASSUME NEW routes, NEW path, NEW r \in routes, Matches(r.path, path),
         \A q \in routes : Matches(q.path, path) /\ q # r =>
           Precedes(r.path, q.path) /\ ~Precedes(q.path, r.path)
  PROVE  First(routes, path) = r
<1> DEFINE Comes(s) ==
      /\ Matches(s.path, path)
      /\ \A q \in routes \ {s} : Matches(q.path, path) => ~Precedes(q.path, s.path)
<1>1. Comes(r)
  OBVIOUS
<1>2. First(routes, path) \in routes /\ Comes(First(routes, path))
  BY <1>1, Zenon DEF First
<1> QED
  BY <1>2

(* The gateway takes the route that comes before the others that match.    *)
LEMMA DestinationIs ==
  ASSUME NEW path, NEW r \in Routes, Matches(r.path, path),
         \A q \in Routes : Matches(q.path, path) /\ q # r =>
           Precedes(r.path, q.path) /\ ~Precedes(q.path, r.path)
  PROVE  Destination(path) = r.service
BY FirstIs DEF Destination

(* The first segment of a path.                                            *)
Starts(p, x) == 1 \in DOMAIN p /\ p[1] = x

(* A segment that one route begins with, which is that segment.            *)
OnlyRoute(x, service) ==
  R(<<x>>, service) \in Routes /\ \A q \in Routes : q.path[1] \in {"*", x} => q = R(<<x>>, service)

(* A path that begins with such a segment goes to its service.             *)
LEMMA OneRoute ==
  ASSUME NEW x, NEW s, OnlyRoute(x, s), NEW p, Starts(p, x)
  PROVE  Destination(p) = s
<1>1. PICK r : r = R(<<x>>, s)
  OBVIOUS
<1>2. r \in Routes /\ r.path = <<x>> /\ r.service = s
  BY <1>1 DEF OnlyRoute, R
<1>3. Matches(r.path, p)
  BY <1>2 DEF Matches, Starts
<1>4. ASSUME NEW q \in Routes, Matches(q.path, p) PROVE q = r
  <2>1. 1 \in DOMAIN q.path
    BY <1>4, SMT DEF Routes, R
  <2>2. q.path[1] \in {"*", x}
    BY <1>4, <2>1 DEF Matches, Starts
  <2> QED
    BY <1>1, <2>2 DEF OnlyRoute
<1> QED
  BY <1>2, <1>3, <1>4, DestinationIs

(* The segments that belong to one service.                                *)
LEMMA OneServiceSegments ==
  /\ OnlyRoute("auth", "auth")
  /\ OnlyRoute("categories", "catalog") /\ OnlyRoute("attributes", "catalog")
  /\ OnlyRoute("locations", "location") /\ OnlyRoute("media", "media")
  /\ OnlyRoute("favorites", "favorites-savedsearch")
  /\ OnlyRoute("saved-searches", "favorites-savedsearch")
  /\ OnlyRoute("conversations", "chat")
  /\ OnlyRoute("notifications", "notification")
  /\ OnlyRoute("reports", "moderation") /\ OnlyRoute("moderation", "moderation")
  /\ OnlyRoute("promotions", "payments-promotions")
  /\ OnlyRoute("wallet", "payments-promotions") /\ OnlyRoute("reviews", "reviews")
BY SMT DEF OnlyRoute, Routes, R

(* The route that matches a path, alone or beside the shorter route b.     *)
OnlyOneMatches(routes, r, c) ==
  r \in routes /\ Matches(r.path, c) /\ \A q \in routes : Matches(q.path, c) => q = r

TwoMatch(routes, r, b, c) ==
  r \in routes /\ Matches(r.path, c) /\ \A q \in routes : Matches(q.path, c) => q \in {r, b}

(* The routes whose first segment is that of the path.                     *)
SameSegment(routes, c) ==
  routes \subseteq Routes /\ \A q \in Routes : Matches(q.path, c) => q \in routes

(* The path goes where the route says that alone matches it.               *)
LEMMA TheOneIsTaken ==
  ASSUME NEW routes, NEW r, NEW c, SameSegment(routes, c), OnlyOneMatches(routes, r, c)
  PROVE  Destination(c) = r.service
BY DestinationIs DEF OnlyOneMatches, SameSegment

(* Of two routes that match, the one that comes before the other.          *)
LEMMA TheLongerIsTaken ==
  ASSUME NEW routes, NEW r, NEW b, NEW c, SameSegment(routes, c), TwoMatch(routes, r, b, c),
         Precedes(r.path, b.path), ~Precedes(b.path, r.path)
  PROVE  Destination(c) = r.service
BY DestinationIs DEF TwoMatch, SameSegment

(* A longer route comes before the route of its first segment.             *)
LEMMA LongerIsFirst ==
  ASSUME NEW S, NEW p \in Seq(S), Len(p) > 1, NEW x, x = p[1], x # "*"
  PROVE  Precedes(p, <<x>>) /\ ~Precedes(<<x>>, p)
<1>1. Len(<<x>>) = 1 /\ <<x>>[1] = x /\ DOMAIN <<x>> = {1}
  OBVIOUS
<1>2. Len(p) \in Nat /\ DOMAIN p = 1..Len(p) /\ 1 \in DOMAIN p
  BY LenProperties
<1>3. SubSeq(p, 1, 1) = <<x>>
  <2>1. /\ SubSeq(p, 1, 1) \in Seq(S) /\ Len(SubSeq(p, 1, 1)) = 1
        /\ SubSeq(p, 1, 1)[1] = p[1]
    BY <1>2, SubSeqProperties
  <2>2. <<x>> \in Seq(S)
    BY <1>2
  <2>3. \A i \in 1..Len(SubSeq(p, 1, 1)) : SubSeq(p, 1, 1)[i] = <<x>>[i]
    BY <1>1, <2>1
  <2>4. Len(SubSeq(p, 1, 1)) = Len(<<x>>)
    BY <1>1, <2>1
  <2> QED
    BY <2>1, <2>2, <2>3, <2>4, SeqEqual, Zenon
<1>4. Precedes(p, <<x>>)
  BY <1>1, <1>2, <1>3 DEF Precedes
<1>5. ~Precedes(<<x>>, p)
  BY <1>1, <1>2 DEF Precedes
<1> QED
  BY <1>4, <1>5

(* The routes of more than one segment, and the words in them.             *)
LongPath == {<<"ads", "search">>, <<"ads", "*", "promote">>, <<"ads", "*", "promotions">>,
             <<"me", "ads">>, <<"me", "favorites">>, <<"me", "saved-searches">>,
             <<"me", "wallet">>, <<"users", "*", "reviews">>}

Words == {"ads", "search", "*", "promote", "promotions", "me", "favorites",
          "saved-searches", "wallet", "users", "reviews"}

(* Each of them comes before the route of its first segment.               *)
LEMMA LongIsFirst ==
  ASSUME NEW p \in LongPath, NEW x, x = p[1]
  PROVE  Precedes(p, <<x>>) /\ ~Precedes(<<x>>, p)
<1>1. p \in Seq(Words)
  <2>1. /\ <<"ads", "search">> \in Seq(Words) /\ <<"me", "ads">> \in Seq(Words)
        /\ <<"me", "favorites">> \in Seq(Words) /\ <<"me", "saved-searches">> \in Seq(Words)
        /\ <<"me", "wallet">> \in Seq(Words)
    BY SMT DEF Words
  <2>2. /\ <<"ads", "*", "promote">> \in Seq(Words) /\ <<"ads", "*", "promotions">> \in Seq(Words)
        /\ <<"users", "*", "reviews">> \in Seq(Words)
    BY SMT DEF Words
  <2> QED
    BY <2>1, <2>2, Zenon DEF LongPath
<1>2. Len(p) > 1 /\ x # "*"
  BY SMT DEF LongPath
<1> QED
  BY <1>1, <1>2, LongerIsFirst, Zenon

(* A route that matches a path begins as it does.                          *)
LEMMA MatchesBeginAlike ==
  ASSUME NEW q \in Routes, NEW c, Matches(q.path, c)
  PROVE  1 \in DOMAIN c /\ q.path[1] = c[1]
<1>1. 1 \in DOMAIN q.path /\ q.path[1] # "*"
  BY SMT DEF Routes, R
<1> QED
  BY <1>1 DEF Matches

(* The routes that share their first segment with others.                  *)
AdsRoutes == {R(<<"ads">>, "listing-ads"), R(<<"ads", "search">>, "search"),
              R(<<"ads", "*", "promote">>, "payments-promotions"),
              R(<<"ads", "*", "promotions">>, "payments-promotions")}

MeRoutes == {R(<<"me">>, "user-profile"), R(<<"me", "ads">>, "listing-ads"),
             R(<<"me", "favorites">>, "favorites-savedsearch"),
             R(<<"me", "saved-searches">>, "favorites-savedsearch"),
             R(<<"me", "wallet">>, "payments-promotions")}

UsersRoutes == {R(<<"users">>, "user-profile"), R(<<"users", "*", "reviews">>, "reviews")}

(* They are all the routes that begin with their segment.                  *)
LEMMA SharedRoutes ==
  /\ AdsRoutes \subseteq Routes /\ MeRoutes \subseteq Routes /\ UsersRoutes \subseteq Routes
  /\ \A q \in Routes : /\ q.path[1] = "ads" => q \in AdsRoutes
                       /\ q.path[1] = "me" => q \in MeRoutes
                       /\ q.path[1] = "users" => q \in UsersRoutes
<1>1. AdsRoutes \subseteq Routes /\ MeRoutes \subseteq Routes /\ UsersRoutes \subseteq Routes
  BY Zenon DEF AdsRoutes, MeRoutes, UsersRoutes, Routes
<1>2. \A q \in Routes : q.path[1] = "ads" => q \in AdsRoutes
  BY SMT DEF Routes, R, AdsRoutes
<1>3. \A q \in Routes : q.path[1] = "me" => q \in MeRoutes
  BY SMT DEF Routes, R, MeRoutes
<1>4. \A q \in Routes : q.path[1] = "users" => q \in UsersRoutes
  BY SMT DEF Routes, R, UsersRoutes
<1> QED
  BY <1>1, <1>2, <1>3, <1>4

(* So only they can match a path that begins with it.                      *)
LEMMA SameSegments ==
  ASSUME NEW c
  PROVE  /\ c[1] = "ads" => SameSegment(AdsRoutes, c)
         /\ c[1] = "me" => SameSegment(MeRoutes, c)
         /\ c[1] = "users" => SameSegment(UsersRoutes, c)
BY SharedRoutes, MatchesBeginAlike, Zenon DEF SameSegment

(* Filling in the parameters of a pattern leaves its length.               *)
HasLength(p) == Len(Concrete(p)) = Len(p) /\ Matches(p, Concrete(p))

(* The gateway sends the path of an endpoint to its service, where no      *)
(* other endpoint matches it.                                              *)
Finds(router, s, e) ==
  LET c == Concrete(e.path)
  IN Destination(c) = s /\
       \A q \in router :
         q.method = e.method /\ Len(q.path) = Len(c) /\ Matches(q.path, c) => q = e

(* The path that is filled in from the pattern of an endpoint.             *)
Takes(router, e, c) ==
  /\ Concrete(e.path) = c
  /\ \A q \in router :
       q.method = e.method /\ Len(q.path) = Len(c) /\ Matches(q.path, c) => q = e

(* Every public endpoint of a router is found.                             *)
Reaches(s, router) == \A e \in router : HasLength(e.path) /\ (IsPublic(e) => Finds(router, s, e))

(* An endpoint is found by the path that is filled in from it.             *)
LEMMA TakesFinds ==
  ASSUME NEW router, NEW s, NEW e, NEW c, Takes(router, e, c), Destination(c) = s
  PROVE  Finds(router, s, e)
BY DEF Takes, Finds

(* The paths whose first segment belongs to more than one service.         *)
LEMMA SharedSegments ==
  /\ Destination(<<"ads">>) = "listing-ads"
  /\ Destination(<<"ads", "7">>) = "listing-ads"
  /\ Destination(<<"ads", "7", "archive">>) = "listing-ads"
  /\ Destination(<<"ads", "7", "promote">>) = "payments-promotions"
  /\ Destination(<<"ads", "7", "promotions">>) = "payments-promotions"
  /\ Destination(<<"ads", "7", "renew">>) = "listing-ads"
  /\ Destination(<<"ads", "7", "sold">>) = "listing-ads"
  /\ Destination(<<"ads", "7", "submit">>) = "listing-ads"
  /\ Destination(<<"ads", "search">>) = "search"
  /\ Destination(<<"ads", "search", "facets">>) = "search"
  /\ Destination(<<"me">>) = "user-profile"
  /\ Destination(<<"me", "ads">>) = "listing-ads"
  /\ Destination(<<"me", "favorites">>) = "favorites-savedsearch"
  /\ Destination(<<"me", "notification-prefs">>) = "user-profile"
  /\ Destination(<<"me", "saved-searches">>) = "favorites-savedsearch"
  /\ Destination(<<"me", "wallet">>) = "payments-promotions"
  /\ Destination(<<"me", "wallet", "transactions">>) = "payments-promotions"
  /\ Destination(<<"users", "7">>) = "user-profile"
  /\ Destination(<<"users", "7", "reviews">>) = "reviews"
<1>1. /\ SameSegment(AdsRoutes, <<"ads">>)
      /\ SameSegment(AdsRoutes, <<"ads", "7">>)
      /\ SameSegment(AdsRoutes, <<"ads", "7", "archive">>)
      /\ SameSegment(AdsRoutes, <<"ads", "7", "promote">>)
      /\ SameSegment(AdsRoutes, <<"ads", "7", "promotions">>)
      /\ SameSegment(AdsRoutes, <<"ads", "7", "renew">>)
      /\ SameSegment(AdsRoutes, <<"ads", "7", "sold">>)
      /\ SameSegment(AdsRoutes, <<"ads", "7", "submit">>)
      /\ SameSegment(AdsRoutes, <<"ads", "search">>)
      /\ SameSegment(AdsRoutes, <<"ads", "search", "facets">>)
  BY SameSegments
<1>2. /\ OnlyOneMatches(AdsRoutes, R(<<"ads">>, "listing-ads"), <<"ads">>)
      /\ OnlyOneMatches(AdsRoutes, R(<<"ads">>, "listing-ads"), <<"ads", "7">>)
      /\ OnlyOneMatches(AdsRoutes, R(<<"ads">>, "listing-ads"), <<"ads", "7", "archive">>)
      /\ OnlyOneMatches(AdsRoutes, R(<<"ads">>, "listing-ads"), <<"ads", "7", "renew">>)
      /\ OnlyOneMatches(AdsRoutes, R(<<"ads">>, "listing-ads"), <<"ads", "7", "sold">>)
      /\ OnlyOneMatches(AdsRoutes, R(<<"ads">>, "listing-ads"), <<"ads", "7", "submit">>)
  BY SMT DEF OnlyOneMatches, Matches, AdsRoutes, R
<1>3. /\ Destination(<<"ads">>) = "listing-ads"
      /\ Destination(<<"ads", "7">>) = "listing-ads"
      /\ Destination(<<"ads", "7", "archive">>) = "listing-ads"
      /\ Destination(<<"ads", "7", "renew">>) = "listing-ads"
      /\ Destination(<<"ads", "7", "sold">>) = "listing-ads"
      /\ Destination(<<"ads", "7", "submit">>) = "listing-ads"
  BY <1>1, <1>2, TheOneIsTaken DEF R
<1>4. /\ TwoMatch(AdsRoutes, R(<<"ads", "*", "promote">>, "payments-promotions"),
                  R(<<"ads">>, "listing-ads"), <<"ads", "7", "promote">>)
      /\ TwoMatch(AdsRoutes, R(<<"ads", "*", "promotions">>, "payments-promotions"),
                  R(<<"ads">>, "listing-ads"), <<"ads", "7", "promotions">>)
      /\ TwoMatch(AdsRoutes, R(<<"ads", "search">>, "search"),
                  R(<<"ads">>, "listing-ads"), <<"ads", "search">>)
      /\ TwoMatch(AdsRoutes, R(<<"ads", "search">>, "search"),
                  R(<<"ads">>, "listing-ads"), <<"ads", "search", "facets">>)
  BY SMT DEF TwoMatch, Matches, AdsRoutes, R
<1>5. /\ Destination(<<"ads", "7", "promote">>) = "payments-promotions"
      /\ Destination(<<"ads", "7", "promotions">>) = "payments-promotions"
      /\ Destination(<<"ads", "search">>) = "search"
      /\ Destination(<<"ads", "search", "facets">>) = "search"
  BY <1>1, <1>4, TheLongerIsTaken, LongIsFirst DEF LongPath, R
<1>6. /\ SameSegment(MeRoutes, <<"me">>)
      /\ SameSegment(MeRoutes, <<"me", "ads">>)
      /\ SameSegment(MeRoutes, <<"me", "favorites">>)
      /\ SameSegment(MeRoutes, <<"me", "notification-prefs">>)
      /\ SameSegment(MeRoutes, <<"me", "saved-searches">>)
      /\ SameSegment(MeRoutes, <<"me", "wallet">>)
      /\ SameSegment(MeRoutes, <<"me", "wallet", "transactions">>)
  BY SameSegments
<1>7. /\ OnlyOneMatches(MeRoutes, R(<<"me">>, "user-profile"), <<"me">>)
      /\ OnlyOneMatches(MeRoutes, R(<<"me">>, "user-profile"), <<"me", "notification-prefs">>)
  BY SMT DEF OnlyOneMatches, Matches, MeRoutes, R
<1>8. /\ Destination(<<"me">>) = "user-profile"
      /\ Destination(<<"me", "notification-prefs">>) = "user-profile"
  BY <1>6, <1>7, TheOneIsTaken DEF R
<1>9. /\ TwoMatch(MeRoutes, R(<<"me", "ads">>, "listing-ads"),
                  R(<<"me">>, "user-profile"), <<"me", "ads">>)
      /\ TwoMatch(MeRoutes, R(<<"me", "favorites">>, "favorites-savedsearch"),
                  R(<<"me">>, "user-profile"), <<"me", "favorites">>)
      /\ TwoMatch(MeRoutes, R(<<"me", "saved-searches">>, "favorites-savedsearch"),
                  R(<<"me">>, "user-profile"), <<"me", "saved-searches">>)
      /\ TwoMatch(MeRoutes, R(<<"me", "wallet">>, "payments-promotions"),
                  R(<<"me">>, "user-profile"), <<"me", "wallet">>)
      /\ TwoMatch(MeRoutes, R(<<"me", "wallet">>, "payments-promotions"),
                  R(<<"me">>, "user-profile"), <<"me", "wallet", "transactions">>)
  BY SMT DEF TwoMatch, Matches, MeRoutes, R
<1>10. /\ Destination(<<"me", "ads">>) = "listing-ads"
       /\ Destination(<<"me", "favorites">>) = "favorites-savedsearch"
       /\ Destination(<<"me", "saved-searches">>) = "favorites-savedsearch"
       /\ Destination(<<"me", "wallet">>) = "payments-promotions"
       /\ Destination(<<"me", "wallet", "transactions">>) = "payments-promotions"
  BY <1>6, <1>9, TheLongerIsTaken, LongIsFirst DEF LongPath, R
<1>11. /\ SameSegment(UsersRoutes, <<"users", "7">>)
       /\ SameSegment(UsersRoutes, <<"users", "7", "reviews">>)
  BY SameSegments
<1>12. OnlyOneMatches(UsersRoutes, R(<<"users">>, "user-profile"), <<"users", "7">>)
  BY SMT DEF OnlyOneMatches, Matches, UsersRoutes, R
<1>13. Destination(<<"users", "7">>) = "user-profile"
  BY <1>11, <1>12, TheOneIsTaken DEF R
<1>14. TwoMatch(UsersRoutes, R(<<"users", "*", "reviews">>, "reviews"),
                  R(<<"users">>, "user-profile"), <<"users", "7", "reviews">>)
  BY SMT DEF TwoMatch, Matches, UsersRoutes, R
<1>15. Destination(<<"users", "7", "reviews">>) = "reviews"
  BY <1>11, <1>14, TheLongerIsTaken, LongIsFirst DEF LongPath, R
<1> QED
  BY <1>3, <1>5, <1>8, <1>10, <1>13, <1>15

(* The endpoints of auth.                                                  *)
LEMMA AuthIsReached == Reaches("auth", AuthRouter)
<1>1. \A e \in AuthRouter : HasLength(e.path)
  BY SMT DEF HasLength, AuthRouter, Operations, E, Concrete, Matches
<1>2. /\ Takes(AuthRouter, E("POST", <<"auth", "telegram", "webhook">>, "anyone"),
               <<"auth", "telegram", "webhook">>)
      /\ Takes(AuthRouter, E("POST", <<"auth", "session", "init">>, "anyone"),
               <<"auth", "session", "init">>)
      /\ Takes(AuthRouter, E("GET", <<"auth", "session", "*">>, "anyone"),
               <<"auth", "session", "7">>)
      /\ Takes(AuthRouter, E("POST", <<"auth", "refresh">>, "anyone"),
               <<"auth", "refresh">>)
      /\ Takes(AuthRouter, E("POST", <<"auth", "logout">>, "anyone"),
               <<"auth", "logout">>)
      /\ Takes(AuthRouter, E("GET", <<"auth", "me">>, "user"), <<"auth", "me">>)
  BY SMT DEF Takes, AuthRouter, Operations, E, Concrete, Matches
<1>3. /\ Destination(<<"auth", "telegram", "webhook">>) = "auth"
      /\ Destination(<<"auth", "session", "init">>) = "auth"
      /\ Destination(<<"auth", "session", "7">>) = "auth"
      /\ Destination(<<"auth", "refresh">>) = "auth"
      /\ Destination(<<"auth", "logout">>) = "auth"
      /\ Destination(<<"auth", "me">>) = "auth"
  BY OneServiceSegments, OneRoute, SMT DEF Starts
<1>4. \A e \in AuthRouter : IsPublic(e) =>
        \E c : Takes(AuthRouter, e, c) /\ Destination(c) = "auth"
  <2>1. \A e \in Operations : ~IsPublic(e)
    BY SMT DEF Operations, IsPublic, E
  <2> QED
    BY <1>2, <1>3, <2>1, Zenon DEF AuthRouter
<1> QED
  BY <1>1, <1>4, TakesFinds DEF Reaches

(* The endpoints of catalog.                                               *)
LEMMA CatalogIsReached == Reaches("catalog", CatalogRouter)
<1>1. \A e \in CatalogRouter : HasLength(e.path)
  BY SMT DEF HasLength, CatalogRouter, Operations, E, Concrete, Matches
<1>2. /\ Takes(CatalogRouter, E("GET", <<"categories">>, "anyone"),
               <<"categories">>)
      /\ Takes(CatalogRouter, E("GET", <<"categories", "*", "attributes">>, "anyone"),
               <<"categories", "7", "attributes">>)
      /\ Takes(CatalogRouter, E("GET", <<"attributes">>, "anyone"),
               <<"attributes">>)
      /\ Takes(CatalogRouter, E("GET", <<"attributes", "*">>, "anyone"),
               <<"attributes", "7">>)
      /\ Takes(CatalogRouter, E("POST", <<"categories">>, "staff"),
               <<"categories">>)
      /\ Takes(CatalogRouter, E("PATCH", <<"categories", "*">>, "staff"),
               <<"categories", "7">>)
      /\ Takes(CatalogRouter, E("DELETE", <<"categories", "*">>, "staff"),
               <<"categories", "7">>)
      /\ Takes(CatalogRouter, E("POST", <<"categories", "*", "attributes">>, "staff"),
               <<"categories", "7", "attributes">>)
      /\ Takes(CatalogRouter, E("DELETE", <<"categories", "*", "attributes", "*">>, "staff"),
               <<"categories", "7", "attributes", "7">>)
      /\ Takes(CatalogRouter, E("POST", <<"attributes">>, "staff"),
               <<"attributes">>)
      /\ Takes(CatalogRouter, E("PATCH", <<"attributes", "*">>, "staff"),
               <<"attributes", "7">>)
      /\ Takes(CatalogRouter, E("DELETE", <<"attributes", "*">>, "staff"),
               <<"attributes", "7">>)
  BY SMT DEF Takes, CatalogRouter, Operations, E, Concrete, Matches
<1>3. /\ Destination(<<"categories">>) = "catalog"
      /\ Destination(<<"categories", "7", "attributes">>) = "catalog"
      /\ Destination(<<"attributes">>) = "catalog"
      /\ Destination(<<"attributes", "7">>) = "catalog"
      /\ Destination(<<"categories", "7">>) = "catalog"
      /\ Destination(<<"categories", "7", "attributes", "7">>) = "catalog"
  BY OneServiceSegments, OneRoute, SMT DEF Starts
<1>4. \A e \in CatalogRouter : IsPublic(e) =>
        \E c : Takes(CatalogRouter, e, c) /\ Destination(c) = "catalog"
  <2>1. \A e \in Operations : ~IsPublic(e)
    BY SMT DEF Operations, IsPublic, E
  <2> QED
    BY <1>2, <1>3, <2>1, Zenon DEF CatalogRouter
<1> QED
  BY <1>1, <1>4, TakesFinds DEF Reaches

(* The endpoints of chat.                                                  *)
LEMMA ChatIsReached == Reaches("chat", ChatRouter)
<1>1. \A e \in ChatRouter : HasLength(e.path)
  BY SMT DEF HasLength, ChatRouter, Operations, E, Concrete, Matches
<1>2. /\ Takes(ChatRouter, E("POST", <<"conversations">>, "user"),
               <<"conversations">>)
      /\ Takes(ChatRouter, E("GET", <<"conversations">>, "user"),
               <<"conversations">>)
      /\ Takes(ChatRouter, E("GET", <<"conversations", "*", "messages">>, "user"),
               <<"conversations", "7", "messages">>)
      /\ Takes(ChatRouter, E("POST", <<"conversations", "*", "messages">>, "user"),
               <<"conversations", "7", "messages">>)
      /\ Takes(ChatRouter, E("POST", <<"conversations", "*", "read">>, "user"),
               <<"conversations", "7", "read">>)
  BY SMT DEF Takes, ChatRouter, Operations, E, Concrete, Matches
<1>3. /\ Destination(<<"conversations">>) = "chat"
      /\ Destination(<<"conversations", "7", "messages">>) = "chat"
      /\ Destination(<<"conversations", "7", "read">>) = "chat"
  BY OneServiceSegments, OneRoute, SMT DEF Starts
<1>4. \A e \in ChatRouter : IsPublic(e) =>
        \E c : Takes(ChatRouter, e, c) /\ Destination(c) = "chat"
  <2>1. /\ \A e \in Operations : ~IsPublic(e)
        /\ ~IsPublic(E("GET", <<"/", "ws">>, "anyone"))
        /\ ~IsPublic(E("GET", <<"/", "internal", "messages", "*">>, "anyone"))
    BY SMT DEF Operations, IsPublic, E
  <2> QED
    BY <1>2, <1>3, <2>1, Zenon DEF ChatRouter
<1> QED
  BY <1>1, <1>4, TakesFinds DEF Reaches

(* The endpoints of favorites-savedsearch.                                 *)
LEMMA FavoritesIsReached == Reaches("favorites-savedsearch", FavoritesRouter)
<1>1. \A e \in FavoritesRouter : HasLength(e.path)
  BY SMT DEF HasLength, FavoritesRouter, Operations, E, Concrete, Matches
<1>2. /\ Takes(FavoritesRouter, E("POST", <<"favorites", "*">>, "user"),
               <<"favorites", "7">>)
      /\ Takes(FavoritesRouter, E("DELETE", <<"favorites", "*">>, "user"),
               <<"favorites", "7">>)
      /\ Takes(FavoritesRouter, E("GET", <<"me", "favorites">>, "user"),
               <<"me", "favorites">>)
      /\ Takes(FavoritesRouter, E("POST", <<"saved-searches">>, "user"),
               <<"saved-searches">>)
      /\ Takes(FavoritesRouter, E("GET", <<"me", "saved-searches">>, "user"),
               <<"me", "saved-searches">>)
      /\ Takes(FavoritesRouter, E("DELETE", <<"saved-searches", "*">>, "user"),
               <<"saved-searches", "7">>)
  BY SMT DEF Takes, FavoritesRouter, Operations, E, Concrete, Matches
<1>3. /\ Destination(<<"favorites", "7">>) = "favorites-savedsearch"
      /\ Destination(<<"me", "favorites">>) = "favorites-savedsearch"
      /\ Destination(<<"saved-searches">>) = "favorites-savedsearch"
      /\ Destination(<<"me", "saved-searches">>) = "favorites-savedsearch"
      /\ Destination(<<"saved-searches", "7">>) = "favorites-savedsearch"
  BY OneServiceSegments, OneRoute, SharedSegments, SMT DEF Starts
<1>4. \A e \in FavoritesRouter : IsPublic(e) =>
        \E c : Takes(FavoritesRouter, e, c) /\ Destination(c) = "favorites-savedsearch"
  <2>1. \A e \in Operations : ~IsPublic(e)
    BY SMT DEF Operations, IsPublic, E
  <2> QED
    BY <1>2, <1>3, <2>1, Zenon DEF FavoritesRouter
<1> QED
  BY <1>1, <1>4, TakesFinds DEF Reaches

(* The endpoints of listing-ads.                                           *)
LEMMA ListingIsReached == Reaches("listing-ads", ListingRouter)
<1>1. \A e \in ListingRouter : HasLength(e.path)
  BY SMT DEF HasLength, ListingRouter, Operations, E, Concrete, Matches
<1>2. /\ Takes(ListingRouter, E("POST", <<"ads">>, "user"), <<"ads">>)
      /\ Takes(ListingRouter, E("PATCH", <<"ads", "*">>, "user"), <<"ads", "7">>)
      /\ Takes(ListingRouter, E("DELETE", <<"ads", "*">>, "user"), <<"ads", "7">>)
      /\ Takes(ListingRouter, E("POST", <<"ads", "*", "submit">>, "user"),
               <<"ads", "7", "submit">>)
      /\ Takes(ListingRouter, E("POST", <<"ads", "*", "sold">>, "user"),
               <<"ads", "7", "sold">>)
      /\ Takes(ListingRouter, E("POST", <<"ads", "*", "renew">>, "user"),
               <<"ads", "7", "renew">>)
      /\ Takes(ListingRouter, E("POST", <<"ads", "*", "archive">>, "user"),
               <<"ads", "7", "archive">>)
      /\ Takes(ListingRouter, E("GET", <<"me", "ads">>, "user"), <<"me", "ads">>)
      /\ Takes(ListingRouter, E("GET", <<"ads">>, "anyone"), <<"ads">>)
      /\ Takes(ListingRouter, E("GET", <<"ads", "*">>, "anyone"), <<"ads", "7">>)
  BY SMT DEF Takes, ListingRouter, Operations, E, Concrete, Matches
<1>3. /\ Destination(<<"ads">>) = "listing-ads"
      /\ Destination(<<"ads", "7">>) = "listing-ads"
      /\ Destination(<<"ads", "7", "submit">>) = "listing-ads"
      /\ Destination(<<"ads", "7", "sold">>) = "listing-ads"
      /\ Destination(<<"ads", "7", "renew">>) = "listing-ads"
      /\ Destination(<<"ads", "7", "archive">>) = "listing-ads"
      /\ Destination(<<"me", "ads">>) = "listing-ads"
  BY SharedSegments
<1>4. \A e \in ListingRouter : IsPublic(e) =>
        \E c : Takes(ListingRouter, e, c) /\ Destination(c) = "listing-ads"
  <2>1. /\ \A e \in Operations : ~IsPublic(e)
        /\ ~IsPublic(E("GET", <<"/", "internal", "ads", "export">>, "anyone"))
        /\ ~IsPublic(E("GET", <<"/", "internal", "ads", "*">>, "anyone"))
        /\ ~IsPublic(E("POST", <<"/", "internal", "ads", "*", "bump">>, "anyone"))
    BY SMT DEF Operations, IsPublic, E
  <2> QED
    BY <1>2, <1>3, <2>1, Zenon DEF ListingRouter
<1> QED
  BY <1>1, <1>4, TakesFinds DEF Reaches

(* The endpoints of location.                                              *)
LEMMA LocationIsReached == Reaches("location", LocationRouter)
<1>1. \A e \in LocationRouter : HasLength(e.path)
  BY SMT DEF HasLength, LocationRouter, Operations, E, Concrete, Matches
<1>2. /\ Takes(LocationRouter, E("GET", <<"locations", "regions">>, "anyone"),
               <<"locations", "regions">>)
      /\ Takes(LocationRouter, E("GET", <<"locations", "regions", "*", "cities">>, "anyone"),
               <<"locations", "regions", "7", "cities">>)
  BY SMT DEF Takes, LocationRouter, Operations, E, Concrete, Matches
<1>3. /\ Destination(<<"locations", "regions">>) = "location"
      /\ Destination(<<"locations", "regions", "7", "cities">>) = "location"
  BY OneServiceSegments, OneRoute, SMT DEF Starts
<1>4. \A e \in LocationRouter : IsPublic(e) =>
        \E c : Takes(LocationRouter, e, c) /\ Destination(c) = "location"
  <2>1. \A e \in Operations : ~IsPublic(e)
    BY SMT DEF Operations, IsPublic, E
  <2> QED
    BY <1>2, <1>3, <2>1, Zenon DEF LocationRouter
<1> QED
  BY <1>1, <1>4, TakesFinds DEF Reaches

(* The endpoints of media.                                                 *)
LEMMA MediaIsReached == Reaches("media", MediaRouter)
<1>1. \A e \in MediaRouter : HasLength(e.path)
  BY SMT DEF HasLength, MediaRouter, Operations, E, Concrete, Matches
<1>2. /\ Takes(MediaRouter, E("POST", <<"media">>, "user"), <<"media">>)
      /\ Takes(MediaRouter, E("GET", <<"media", "*">>, "anyone"), <<"media", "7">>)
  BY SMT DEF Takes, MediaRouter, Operations, E, Concrete, Matches
<1>3. /\ Destination(<<"media">>) = "media"
      /\ Destination(<<"media", "7">>) = "media"
  BY OneServiceSegments, OneRoute, SMT DEF Starts
<1>4. \A e \in MediaRouter : IsPublic(e) =>
        \E c : Takes(MediaRouter, e, c) /\ Destination(c) = "media"
  <2>1. \A e \in Operations : ~IsPublic(e)
    BY SMT DEF Operations, IsPublic, E
  <2> QED
    BY <1>2, <1>3, <2>1, Zenon DEF MediaRouter
<1> QED
  BY <1>1, <1>4, TakesFinds DEF Reaches

(* The endpoints of moderation.                                            *)
LEMMA ModerationIsReached == Reaches("moderation", ModerationRouter)
<1>1. \A e \in ModerationRouter : HasLength(e.path)
  BY SMT DEF HasLength, ModerationRouter, Operations, E, Concrete, Matches
<1>2. /\ Takes(ModerationRouter, E("POST", <<"reports">>, "user"), <<"reports">>)
      /\ Takes(ModerationRouter, E("GET", <<"moderation", "tasks">>, "staff"),
               <<"moderation", "tasks">>)
      /\ Takes(ModerationRouter, E("POST", <<"moderation", "tasks", "*", "approve">>, "staff"),
               <<"moderation", "tasks", "7", "approve">>)
      /\ Takes(ModerationRouter, E("POST", <<"moderation", "tasks", "*", "reject">>, "staff"),
               <<"moderation", "tasks", "7", "reject">>)
      /\ Takes(ModerationRouter, E("POST", <<"moderation", "tasks", "*", "request-edit">>, "staff"),
               <<"moderation", "tasks", "7", "request-edit">>)
      /\ Takes(ModerationRouter, E("GET", <<"moderation", "reports">>, "staff"),
               <<"moderation", "reports">>)
      /\ Takes(ModerationRouter, E("POST", <<"moderation", "reports", "*", "resolve">>, "staff"),
               <<"moderation", "reports", "7", "resolve">>)
      /\ Takes(ModerationRouter, E("POST", <<"moderation", "bans">>, "staff"),
               <<"moderation", "bans">>)
  BY SMT DEF Takes, ModerationRouter, Operations, E, Concrete, Matches
<1>3. /\ Destination(<<"reports">>) = "moderation"
      /\ Destination(<<"moderation", "tasks">>) = "moderation"
      /\ Destination(<<"moderation", "tasks", "7", "approve">>) = "moderation"
      /\ Destination(<<"moderation", "tasks", "7", "reject">>) = "moderation"
      /\ Destination(<<"moderation", "tasks", "7", "request-edit">>) = "moderation"
      /\ Destination(<<"moderation", "reports">>) = "moderation"
      /\ Destination(<<"moderation", "reports", "7", "resolve">>) = "moderation"
      /\ Destination(<<"moderation", "bans">>) = "moderation"
  BY OneServiceSegments, OneRoute, SMT DEF Starts
<1>4. \A e \in ModerationRouter : IsPublic(e) =>
        \E c : Takes(ModerationRouter, e, c) /\ Destination(c) = "moderation"
  <2>1. \A e \in Operations : ~IsPublic(e)
    BY SMT DEF Operations, IsPublic, E
  <2> QED
    BY <1>2, <1>3, <2>1, Zenon DEF ModerationRouter
<1> QED
  BY <1>1, <1>4, TakesFinds DEF Reaches

(* The endpoints of notification.                                          *)
LEMMA NotificationIsReached == Reaches("notification", NotificationRouter)
<1>1. \A e \in NotificationRouter : HasLength(e.path)
  BY SMT DEF HasLength, NotificationRouter, Operations, E, Concrete, Matches
<1>2. /\ Takes(NotificationRouter, E("GET", <<"notifications">>, "user"),
               <<"notifications">>)
  BY SMT DEF Takes, NotificationRouter, Operations, E, Concrete, Matches
<1>3. Destination(<<"notifications">>) = "notification"
  BY OneServiceSegments, OneRoute, SMT DEF Starts
<1>4. \A e \in NotificationRouter : IsPublic(e) =>
        \E c : Takes(NotificationRouter, e, c) /\ Destination(c) = "notification"
  <2>1. \A e \in Operations : ~IsPublic(e)
    BY SMT DEF Operations, IsPublic, E
  <2> QED
    BY <1>2, <1>3, <2>1, Zenon DEF NotificationRouter
<1> QED
  BY <1>1, <1>4, TakesFinds DEF Reaches

(* The endpoints of payments-promotions.                                   *)
LEMMA PaymentsIsReached == Reaches("payments-promotions", PaymentsRouter)
<1>1. \A e \in PaymentsRouter : HasLength(e.path)
  BY SMT DEF HasLength, PaymentsRouter, Operations, E, Concrete, Matches
<1>2. /\ Takes(PaymentsRouter, E("GET", <<"promotions", "catalog">>, "anyone"),
               <<"promotions", "catalog">>)
      /\ Takes(PaymentsRouter, E("GET", <<"me", "wallet">>, "user"),
               <<"me", "wallet">>)
      /\ Takes(PaymentsRouter, E("GET", <<"me", "wallet", "transactions">>, "user"),
               <<"me", "wallet", "transactions">>)
      /\ Takes(PaymentsRouter, E("POST", <<"wallet", "topup">>, "user"),
               <<"wallet", "topup">>)
      /\ Takes(PaymentsRouter, E("POST", <<"ads", "*", "promote">>, "user"),
               <<"ads", "7", "promote">>)
      /\ Takes(PaymentsRouter, E("GET", <<"ads", "*", "promotions">>, "user"),
               <<"ads", "7", "promotions">>)
  BY SMT DEF Takes, PaymentsRouter, Operations, E, Concrete, Matches
<1>3. /\ Destination(<<"promotions", "catalog">>) = "payments-promotions"
      /\ Destination(<<"me", "wallet">>) = "payments-promotions"
      /\ Destination(<<"me", "wallet", "transactions">>) = "payments-promotions"
      /\ Destination(<<"wallet", "topup">>) = "payments-promotions"
      /\ Destination(<<"ads", "7", "promote">>) = "payments-promotions"
      /\ Destination(<<"ads", "7", "promotions">>) = "payments-promotions"
  BY OneServiceSegments, OneRoute, SharedSegments, SMT DEF Starts
<1>4. \A e \in PaymentsRouter : IsPublic(e) =>
        \E c : Takes(PaymentsRouter, e, c) /\ Destination(c) = "payments-promotions"
  <2>1. /\ \A e \in Operations : ~IsPublic(e)
        /\ ~IsPublic(E("POST", <<"/", "internal", "payments", "mock", "*", "confirm">>, "anyone"))
        /\ ~IsPublic(E("POST", <<"/", "internal", "payments", "payme">>, "anyone"))
        /\ ~IsPublic(E("POST", <<"/", "internal", "payments", "click">>, "anyone"))
    BY SMT DEF Operations, IsPublic, E
  <2> QED
    BY <1>2, <1>3, <2>1, Zenon DEF PaymentsRouter
<1> QED
  BY <1>1, <1>4, TakesFinds DEF Reaches

(* The endpoints of reviews.                                               *)
LEMMA ReviewsIsReached == Reaches("reviews", ReviewsRouter)
<1>1. \A e \in ReviewsRouter : HasLength(e.path)
  BY SMT DEF HasLength, ReviewsRouter, Operations, E, Concrete, Matches
<1>2. /\ Takes(ReviewsRouter, E("GET", <<"users", "*", "reviews">>, "anyone"),
               <<"users", "7", "reviews">>)
      /\ Takes(ReviewsRouter, E("POST", <<"reviews">>, "user"), <<"reviews">>)
  BY SMT DEF Takes, ReviewsRouter, Operations, E, Concrete, Matches
<1>3. /\ Destination(<<"users", "7", "reviews">>) = "reviews"
      /\ Destination(<<"reviews">>) = "reviews"
  BY OneServiceSegments, OneRoute, SharedSegments, SMT DEF Starts
<1>4. \A e \in ReviewsRouter : IsPublic(e) =>
        \E c : Takes(ReviewsRouter, e, c) /\ Destination(c) = "reviews"
  <2>1. /\ \A e \in Operations : ~IsPublic(e)
        /\ ~IsPublic(E("GET", <<"/", "internal", "users", "*", "rating">>, "anyone"))
    BY SMT DEF Operations, IsPublic, E
  <2> QED
    BY <1>2, <1>3, <2>1, Zenon DEF ReviewsRouter
<1> QED
  BY <1>1, <1>4, TakesFinds DEF Reaches

(* The endpoints of search.                                                *)
LEMMA SearchIsReached == Reaches("search", SearchRouter)
<1>1. \A e \in SearchRouter : HasLength(e.path)
  BY SMT DEF HasLength, SearchRouter, Operations, E, Concrete, Matches
<1>2. /\ Takes(SearchRouter, E("GET", <<"ads", "search">>, "anyone"),
               <<"ads", "search">>)
      /\ Takes(SearchRouter, E("GET", <<"ads", "search", "facets">>, "anyone"),
               <<"ads", "search", "facets">>)
  BY SMT DEF Takes, SearchRouter, Operations, E, Concrete, Matches
<1>3. /\ Destination(<<"ads", "search">>) = "search"
      /\ Destination(<<"ads", "search", "facets">>) = "search"
  BY SharedSegments
<1>4. \A e \in SearchRouter : IsPublic(e) =>
        \E c : Takes(SearchRouter, e, c) /\ Destination(c) = "search"
  <2>1. \A e \in Operations : ~IsPublic(e)
    BY SMT DEF Operations, IsPublic, E
  <2> QED
    BY <1>2, <1>3, <2>1, Zenon DEF SearchRouter
<1> QED
  BY <1>1, <1>4, TakesFinds DEF Reaches

(* The endpoints of user-profile.                                          *)
LEMMA ProfileIsReached == Reaches("user-profile", ProfileRouter)
<1>1. \A e \in ProfileRouter : HasLength(e.path)
  BY SMT DEF HasLength, ProfileRouter, Operations, E, Concrete, Matches
<1>2. /\ Takes(ProfileRouter, E("GET", <<"me">>, "user"), <<"me">>)
      /\ Takes(ProfileRouter, E("PATCH", <<"me">>, "user"), <<"me">>)
      /\ Takes(ProfileRouter, E("GET", <<"me", "notification-prefs">>, "user"),
               <<"me", "notification-prefs">>)
      /\ Takes(ProfileRouter, E("PUT", <<"me", "notification-prefs">>, "user"),
               <<"me", "notification-prefs">>)
      /\ Takes(ProfileRouter, E("GET", <<"users", "*">>, "anyone"),
               <<"users", "7">>)
  BY SMT DEF Takes, ProfileRouter, Operations, E, Concrete, Matches
<1>3. /\ Destination(<<"me">>) = "user-profile"
      /\ Destination(<<"me", "notification-prefs">>) = "user-profile"
      /\ Destination(<<"users", "7">>) = "user-profile"
  BY SharedSegments
<1>4. \A e \in ProfileRouter : IsPublic(e) =>
        \E c : Takes(ProfileRouter, e, c) /\ Destination(c) = "user-profile"
  <2>1. /\ \A e \in Operations : ~IsPublic(e)
        /\ ~IsPublic(E("GET", <<"/", "internal", "users", "*", "notification-prefs">>, "anyone"))
    BY SMT DEF Operations, IsPublic, E
  <2> QED
    BY <1>2, <1>3, <2>1, Zenon DEF ProfileRouter
<1> QED
  BY <1>1, <1>4, TakesFinds DEF Reaches

(***************************************************************************)
(* The requests.                                                           *)
(***************************************************************************)

(* The router of a service finds the one endpoint that a path is for, and  *)
(* the gateway the service.                                                *)
LEMMA EndpointIsFound ==
  ASSUME NEW s \in Service, Reaches(s, Router(s)), NEW e \in Router(s), IsPublic(e)
  PROVE  /\ Destination(Concrete(e.path)) = s
         /\ Endpoint(s, e.method, Concrete(e.path)) = e
<1>1. PICK path : path = Concrete(e.path)
  OBVIOUS
<1>2. /\ Len(path) = Len(e.path) /\ Matches(e.path, path) /\ Destination(path) = s
      /\ \A q \in Router(s) :
           q.method = e.method /\ Len(q.path) = Len(path) /\ Matches(q.path, path) => q = e
  BY <1>1 DEF Reaches, HasLength, Finds
<1>3. PICK fits : fits = {q \in Router(s) : q.method = e.method /\ Len(q.path) = Len(path)}
  OBVIOUS
<1>4. /\ e \in fits /\ Matches(e.path, path)
      /\ \A q \in fits : Matches(q.path, path) => q = e
  BY <1>2, <1>3
<1>5. First(fits, path) = e
  BY <1>4, FirstIs, Zenon
<1>6. Endpoint(s, e.method, path) = e
  BY <1>3, <1>4, <1>5, Zenon DEF Endpoint
<1> QED
  BY <1>1, <1>2, <1>6

(* The table of the gateway and the routers of the services agree.         *)
LEMMA TablesAgree ==
  ASSUME NEW s \in Service
  PROVE  Reaches(s, Router(s))
<1>1. /\ Router("auth") = AuthRouter /\ Router("catalog") = CatalogRouter
      /\ Router("chat") = ChatRouter /\ Router("favorites-savedsearch") = FavoritesRouter
      /\ Router("listing-ads") = ListingRouter /\ Router("location") = LocationRouter
      /\ Router("media") = MediaRouter /\ Router("moderation") = ModerationRouter
      /\ Router("notification") = NotificationRouter
      /\ Router("payments-promotions") = PaymentsRouter
      /\ Router("reviews") = ReviewsRouter /\ Router("search") = SearchRouter
      /\ Router("user-profile") = ProfileRouter
  BY SMT DEF Router
<1> QED
  BY <1>1, AuthIsReached, CatalogIsReached, ChatIsReached, FavoritesIsReached,
     ListingIsReached, LocationIsReached, MediaIsReached, ModerationIsReached,
     NotificationIsReached, PaymentsIsReached, ReviewsIsReached, SearchIsReached,
     ProfileIsReached, Zenon DEF Service

(* What holds of the last request.                                         *)
RequestsInv ==
  /\ redis \in {"up", "down"} /\ upstreams \subseteq Service
  /\ EveryEndpointIsReached /\ IdentityIsTheToken

(* Sending a request that some service has an endpoint for.                *)
LEMMA SendKeepsRequests ==
  ASSUME RequestsInv, NEW s \in Service, NEW e \in Router(s), NEW t \in Credential, NEW u,
         NEW h, NEW a, Send(e, t, u, h, a)
  PROVE  RequestsInv'
<1>1. PICK path, identity : path = Concrete(e.path) /\ identity = Identify(t, u, h)
  OBVIOUS
<1>2. PICK result :
        /\ result = CASE ~IsPublic(e) -> Answer404
                      [] IsPublic(e) /\ identity = Absent -> "401"
                      [] IsPublic(e) /\ identity # Absent /\ ~Passes(LimitKey(identity, a)) -> "429"
                      [] OTHER -> Response(e.method, path, identity)
        /\ last' = [endpoint |-> e, token |-> t, user |-> u, result |-> result,
                    as |-> IF result = "handled" THEN identity ELSE Nobody]
        /\ UNCHANGED <<redis, upstreams>>
  BY <1>1, Zenon DEF Send
<1>3. \A q \in Service : e \in Router(q) /\ IsPublic(e) =>
        Destination(path) = q /\ Endpoint(q, e.method, path) = e
  BY <1>1, TablesAgree, EndpointIsFound, Zenon
<1>4. IsPublic(e) =>
        Response(e.method, path, identity) =
          IF s \notin upstreams THEN "503"
          ELSE IF Permits(e, identity) THEN "handled"
               ELSE IF ~IsUser(identity) THEN "401" ELSE "403"
  <2>1. s # Absent /\ e # Absent /\ upstreams \subseteq Service
    BY RouterAssumption DEF RequestsInv
  <2> QED
    BY <1>3, <2>1 DEF Response
<1>5. /\ IsPublic(e) => result # Answer404
      /\ ~IsPublic(e) => result = Answer404
  BY <1>2, <1>4, SMT DEF Answer404
<1>6. EveryEndpointIsReached'
  BY <1>1, <1>2, <1>3, <1>5 DEF EveryEndpointIsReached, IsPublic
<1>7. ASSUME result = "handled"
      PROVE  identity # Absent /\ Permits(e, identity)
  BY <1>2, <1>4, <1>7, SMT DEF Answer404
<1>8. ASSUME result = "handled"
      PROVE  /\ identity = IF t = "none" THEN Nobody ELSE [user |-> u, roles |-> {t}]
             /\ e.who = "staff" => t = "moderator"
             /\ e.who = "user" => t \in {"user", "moderator"}
  <2>1. t \in {"none", "user", "moderator"}
    BY <1>1, <1>7, <1>8 DEF Identify, Credential
  <2>2. identity = IF t = "none" THEN Nobody ELSE [user |-> u, roles |-> {t}]
    BY <1>1, <2>1 DEF Identify
  <2>3. e.who \in {"staff", "user"} => t # "none"
    BY <1>7, <1>8, <2>2 DEF Permits, IsStaff, IsUser, Nobody
  <2>4. e.who = "staff" => t = "moderator"
    BY <1>7, <1>8, <2>1, <2>2, <2>3 DEF Permits, IsStaff
  <2> QED
    BY <2>1, <2>2, <2>3, <2>4
<1>9. IdentityIsTheToken'
  BY <1>2, <1>8 DEF IdentityIsTheToken, Served
<1> QED
  BY <1>2, <1>6, <1>9 DEF RequestsInv

(* Every step keeps what holds of the last request.                        *)
LEMMA RequestsNext ==
  ASSUME RequestsInv, [EdgeNext]_requestVars
  PROVE  RequestsInv'
<1>1. CASE SendAnything
  BY <1>1, SendKeepsRequests DEF SendAnything
<1>2. CASE SendOften
  <2>1. /\ "listing-ads" \in Service /\ E("GET", <<"ads">>, "anyone") \in Router("listing-ads")
        /\ {"none", "user"} \subseteq Credential
    BY SMT DEF Service, Router, ListingRouter, Credential
  <2> QED
    BY <1>2, <2>1, SendKeepsRequests DEF SendOften
<1>3. ASSUME UNCHANGED last, upstreams' \subseteq upstreams, redis' \in {redis, "up", "down"}
      PROVE  RequestsInv'
  BY <1>3 DEF RequestsInv, EveryEndpointIsReached, IdentityIsTheToken, Served, IsPublic
<1>4. CASE UpstreamFails
  BY <1>3, <1>4 DEF UpstreamFails, limitVars
<1>5. CASE (WindowStep \/ Tick \/ RedisBreaks) /\ UNCHANGED edgeVars
  BY <1>3, <1>5 DEF WindowStep, Incr, Expire, Answer, GiveUp, Tick, RedisBreaks, edgeVars
<1>6. CASE UNCHANGED requestVars
  BY <1>3, <1>6 DEF requestVars, limitVars, edgeVars
<1> QED
  BY <1>1, <1>2, <1>4, <1>5, <1>6 DEF EdgeNext

(* The types of a request and of the limits.                               *)
LEMMA RequestTypes ==
  ASSUME LimitsInv, RequestsInv
  PROVE  EdgeTypeOK
<1>1. bucket = [k \in Client |-> bucket[k]]
  BY DEF LimitsInv, LimitTables
<1>2. \A k \in Client : bucket[k] \in {Absent} \cup [tokens : 0..Burst, ts : 0..MaxTime]
  BY DEF LimitsInv, LimitTables, BucketFits
<1>3. bucket \in [Client -> {Absent} \cup [tokens : 0..Burst, ts : 0..MaxTime]]
  BY <1>1, <1>2, Zenon
<1> QED
  BY <1>3 DEF EdgeTypeOK, LimitsInv, LimitTables, RequestsInv

(* The path of every public endpoint leads to its service and to it alone, *)
(* that of an internal one nowhere; and a handler acts for whoever the     *)
(* token names, whatever the headers say: for any users, addresses and     *)
(* limits, and with any services failing (routes.go, middleware.go,        *)
(* proxy.go).                                                              *)
THEOREM RequestsAlwaysReach == EdgeSpec => []RequestsReachTheirHandler
<1>1. EdgeInit => LimitsInv /\ RequestsInv
  <2>1. EdgeInit => RequestsInv
    BY DEF EdgeInit, LimitsInit, RequestsInv, EveryEndpointIsReached, IdentityIsTheToken, Served
  <2> QED
    BY <2>1, LimitsBegin
<1>2. LimitsInv /\ RequestsInv /\ [EdgeNext]_requestVars => LimitsInv' /\ RequestsInv'
  BY LimitsNext, RequestsNext
<1>3. LimitsInv /\ RequestsInv => RequestsReachTheirHandler
  BY RequestTypes DEF RequestsReachTheirHandler, RequestsInv
<1> QED
  BY <1>1, <1>2, <1>3, PTL DEF EdgeSpec
=============================================================================

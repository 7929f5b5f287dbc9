-------------------------------- MODULE Edge --------------------------------
(***************************************************************************)
(* The way of a request from the client to a handler: nginx, the chain of  *)
(* middleware and the route table of the gateway, the reverse proxy, and   *)
(* the router of the service, which trusts the identity in the headers.    *)
(*                                                                         *)
(* Paths are sequences of segments; "*" stands for a parameter in a        *)
(* pattern, and "7" for the value of one in a path.                        *)
(***************************************************************************)
EXTENDS RateLimits

CONSTANT User

(* The keys of the limiters are users and addresses.                       *)
ASSUME EdgeAssumption == User \cup Address \subseteq Client

VARIABLES
  upstreams,  \* the services that answer
  mode,       \* which part of the model this behaviour is about
  last        \* the last request and what became of it

edgeVars == <<upstreams, mode, last>>
requestVars == <<limitVars, edgeVars>>

(***************************************************************************)
(* The endpoints: method, path below /api/v1 (a path that is not below it  *)
(* begins with "/"), and who may call: anyone, a user, or staff.           *)
(***************************************************************************)
E(method, path, who) == [method |-> method, path |-> path, who |-> who]

Operations == {E("GET", <<"/", "healthz">>, "anyone"), E("GET", <<"/", "readyz">>, "anyone"),
               E("GET", <<"/", "metrics">>, "anyone")}

AuthRouter == Operations \cup
  {E("POST", <<"auth", "telegram", "webhook">>, "anyone"),
   E("POST", <<"auth", "session", "init">>, "anyone"),
   E("GET", <<"auth", "session", "*">>, "anyone"),
   E("POST", <<"auth", "refresh">>, "anyone"),
   E("POST", <<"auth", "logout">>, "anyone"),
   E("GET", <<"auth", "me">>, "user")}

CatalogRouter == Operations \cup
  {E("GET", <<"categories">>, "anyone"),
   E("GET", <<"categories", "*", "attributes">>, "anyone"),
   E("GET", <<"attributes">>, "anyone"), E("GET", <<"attributes", "*">>, "anyone"),
   E("POST", <<"categories">>, "staff"),
   E("PATCH", <<"categories", "*">>, "staff"), E("DELETE", <<"categories", "*">>, "staff"),
   E("POST", <<"categories", "*", "attributes">>, "staff"),
   E("DELETE", <<"categories", "*", "attributes", "*">>, "staff"),
   E("POST", <<"attributes">>, "staff"),
   E("PATCH", <<"attributes", "*">>, "staff"), E("DELETE", <<"attributes", "*">>, "staff")}

ChatRouter == Operations \cup
  {E("GET", <<"/", "ws">>, "anyone"),
   E("GET", <<"/", "internal", "messages", "*">>, "anyone"),
   E("POST", <<"conversations">>, "user"), E("GET", <<"conversations">>, "user"),
   E("GET", <<"conversations", "*", "messages">>, "user"),
   E("POST", <<"conversations", "*", "messages">>, "user"),
   E("POST", <<"conversations", "*", "read">>, "user")}

FavoritesRouter == Operations \cup
  {E("POST", <<"favorites", "*">>, "user"), E("DELETE", <<"favorites", "*">>, "user"),
   E("GET", <<"me", "favorites">>, "user"),
   E("POST", <<"saved-searches">>, "user"), E("GET", <<"me", "saved-searches">>, "user"),
   E("DELETE", <<"saved-searches", "*">>, "user")}

ListingRouter == Operations \cup
  {E("POST", <<"ads">>, "user"), E("PATCH", <<"ads", "*">>, "user"),
   E("DELETE", <<"ads", "*">>, "user"), E("POST", <<"ads", "*", "submit">>, "user"),
   E("POST", <<"ads", "*", "sold">>, "user"), E("POST", <<"ads", "*", "renew">>, "user"),
   E("POST", <<"ads", "*", "archive">>, "user"), E("GET", <<"me", "ads">>, "user"),
   E("GET", <<"ads">>, "anyone"), E("GET", <<"ads", "*">>, "anyone"),
   E("GET", <<"/", "internal", "ads", "export">>, "anyone"),
   E("GET", <<"/", "internal", "ads", "*">>, "anyone"),
   E("POST", <<"/", "internal", "ads", "*", "bump">>, "anyone")}

LocationRouter == Operations \cup
  {E("GET", <<"locations", "regions">>, "anyone"),
   E("GET", <<"locations", "regions", "*", "cities">>, "anyone")}

MediaRouter == Operations \cup
  {E("POST", <<"media">>, "user"), E("GET", <<"media", "*">>, "anyone")}

ModerationRouter == Operations \cup
  {E("POST", <<"reports">>, "user"), E("GET", <<"moderation", "tasks">>, "staff"),
   E("POST", <<"moderation", "tasks", "*", "approve">>, "staff"),
   E("POST", <<"moderation", "tasks", "*", "reject">>, "staff"),
   E("POST", <<"moderation", "tasks", "*", "request-edit">>, "staff"),
   E("GET", <<"moderation", "reports">>, "staff"),
   E("POST", <<"moderation", "reports", "*", "resolve">>, "staff"),
   E("POST", <<"moderation", "bans">>, "staff")}

NotificationRouter == Operations \cup {E("GET", <<"notifications">>, "user")}

PaymentsRouter == Operations \cup
  {E("GET", <<"promotions", "catalog">>, "anyone"), E("GET", <<"me", "wallet">>, "user"),
   E("GET", <<"me", "wallet", "transactions">>, "user"),
   E("POST", <<"wallet", "topup">>, "user"),
   E("POST", <<"ads", "*", "promote">>, "user"), E("GET", <<"ads", "*", "promotions">>, "user"),
   E("POST", <<"/", "internal", "payments", "mock", "*", "confirm">>, "anyone"),
   E("POST", <<"/", "internal", "payments", "payme">>, "anyone"),
   E("POST", <<"/", "internal", "payments", "click">>, "anyone")}

ReviewsRouter == Operations \cup
  {E("GET", <<"/", "internal", "users", "*", "rating">>, "anyone"),
   E("GET", <<"users", "*", "reviews">>, "anyone"), E("POST", <<"reviews">>, "user")}

SearchRouter == Operations \cup
  {E("GET", <<"ads", "search">>, "anyone"), E("GET", <<"ads", "search", "facets">>, "anyone")}

ProfileRouter == Operations \cup
  {E("GET", <<"me">>, "user"), E("PATCH", <<"me">>, "user"),
   E("GET", <<"me", "notification-prefs">>, "user"),
   E("PUT", <<"me", "notification-prefs">>, "user"),
   E("GET", <<"users", "*">>, "anyone"),
   E("GET", <<"/", "internal", "users", "*", "notification-prefs">>, "anyone")}

Service == {"auth", "catalog", "chat", "favorites-savedsearch", "listing-ads", "location",
            "media", "moderation", "notification", "payments-promotions", "reviews",
            "search", "user-profile"}

Router(s) ==
  CASE s = "auth" -> AuthRouter [] s = "catalog" -> CatalogRouter [] s = "chat" -> ChatRouter
    [] s = "favorites-savedsearch" -> FavoritesRouter [] s = "listing-ads" -> ListingRouter
    [] s = "location" -> LocationRouter [] s = "media" -> MediaRouter
    [] s = "moderation" -> ModerationRouter [] s = "notification" -> NotificationRouter
    [] s = "payments-promotions" -> PaymentsRouter [] s = "reviews" -> ReviewsRouter
    [] s = "search" -> SearchRouter [] s = "user-profile" -> ProfileRouter

(* What stands for nothing, the 404 of the gateway and of a service, is    *)
(* neither a service nor an endpoint.                                      *)
ASSUME RouterAssumption ==
  Absent \notin Service /\ \A s \in Service : Absent \notin Router(s)

IsPublic(e) == e.path[1] # "/"

(***************************************************************************)
(* Routing, as chi does it: a segment of the pattern before a parameter, a *)
(* longer pattern before the catch-all of a shorter one.                   *)
(***************************************************************************)
Concrete(path) == [i \in DOMAIN path |-> IF path[i] = "*" THEN "7" ELSE path[i]]

Matches(pattern, path) ==
  \A i \in DOMAIN pattern : i \in DOMAIN path /\ pattern[i] \in {"*", path[i]}

Precedes(p, q) ==
  \/ Len(p) > Len(q) /\ SubSeq(p, 1, Len(q)) = q
  \/ \E i \in DOMAIN p \cap DOMAIN q :
       /\ SubSeq(p, 1, i - 1) = SubSeq(q, 1, i - 1)
       /\ p[i] # q[i] /\ q[i] = "*"

R(path, service) == [path |-> path, service |-> service]

(* A table by the first segment alone.                                     *)
RoutesByFirstSegment ==
  {R(<<"auth">>, "auth"), R(<<"users">>, "user-profile"), R(<<"me">>, "user-profile"),
   R(<<"ads">>, "listing-ads"), R(<<"reviews">>, "reviews")}

(* gateway.Routes *)
Routes ==
  {R(<<"auth">>, "auth"), R(<<"users", "*", "reviews">>, "reviews"),
   R(<<"users">>, "user-profile"), R(<<"me", "ads">>, "listing-ads"),
   R(<<"me", "favorites">>, "favorites-savedsearch"),
   R(<<"me", "saved-searches">>, "favorites-savedsearch"),
   R(<<"me", "wallet">>, "payments-promotions"), R(<<"me">>, "user-profile"),
   R(<<"categories">>, "catalog"), R(<<"attributes">>, "catalog"),
   R(<<"locations">>, "location"), R(<<"ads", "search">>, "search"),
   R(<<"ads", "*", "promote">>, "payments-promotions"),
   R(<<"ads", "*", "promotions">>, "payments-promotions"), R(<<"ads">>, "listing-ads"),
   R(<<"media">>, "media"), R(<<"favorites">>, "favorites-savedsearch"),
   R(<<"saved-searches">>, "favorites-savedsearch"), R(<<"conversations">>, "chat"),
   R(<<"chat">>, "chat"), R(<<"notifications">>, "notification"),
   R(<<"reports">>, "moderation"), R(<<"moderation">>, "moderation"),
   R(<<"payments">>, "payments-promotions"), R(<<"promotions">>, "payments-promotions"),
   R(<<"wallet">>, "payments-promotions"), R(<<"reviews">>, "reviews")}

First(routes, path) ==
  CHOOSE r \in routes : Matches(r.path, path) /\
    \A q \in routes \ {r} : Matches(q.path, path) => ~Precedes(q.path, r.path)

Destination(path) ==
  IF \E r \in Routes : Matches(r.path, path) THEN First(Routes, path).service ELSE Absent

(* The endpoint a service finds for a path: Absent is its 404.             *)
Endpoint(service, method, path) ==
  LET fits == {e \in Router(service) : e.method = method /\ Len(e.path) = Len(path)}
  IN IF \E e \in fits : Matches(e.path, path) THEN First(fits, path) ELSE Absent

(***************************************************************************)
(* The middleware.  A request has a token or none, and headers that may    *)
(* name an identity before the gateway has seen them.                      *)
(***************************************************************************)
Nobody == [user |-> Absent, roles |-> {}]

Credential == {"none", "malformed", "expired", "user", "moderator"}

(* StripIdentityHeaders, then OptionalAuth and authx.Parse: the headers    *)
(* the proxy sends on, or Absent for a 401.                                *)
KeepIdentityHeaders(token, user, headers) ==
  CASE token = "none" -> headers
    [] token \in {"malformed", "expired"} -> Absent
    [] OTHER -> [user |-> user, roles |-> {token}]

Identify(token, user, headers) ==
  CASE token = "none" -> Nobody
    [] token \in {"malformed", "expired"} -> Absent
    [] OTHER -> [user |-> user, roles |-> {token}]

IsUser(identity) == identity.user # Absent

LimitKey(identity, address) == IF IsUser(identity) THEN identity.user ELSE address

IsStaff(identity) == IsUser(identity) /\ identity.roles \cap {"moderator", "admin"} # {}

(* authx.FromForwardedHeaders and requireAuth, requireStaff, or the same   *)
(* check at the beginning of a handler.                                    *)
Permits(e, identity) ==
  /\ e.who = "user" => IsUser(identity)
  /\ e.who = "staff" => IsStaff(identity)

Answer404 == "404"

Response(method, path, identity) ==
  LET service == Destination(path)
      e == Endpoint(service, method, path)
  IN CASE service = Absent -> Answer404
       [] service # Absent /\ service \notin upstreams -> "503"
       [] service \in upstreams /\ e = Absent -> Answer404
       [] OTHER -> IF Permits(e, identity) THEN "handled"
                   ELSE IF ~IsUser(identity) THEN "401" ELSE "403"

(* NewRouter: /healthz and the like are the gateway's own, /api/v1 goes    *)
(* through OptionalAuth, then the limiter, then to the proxy.              *)
Send(e, token, user, headers, address) ==
  LET path == Concrete(e.path)
      identity == Identify(token, user, headers)
      key == LimitKey(identity, address)
      result ==
        CASE ~IsPublic(e) -> Answer404
          [] IsPublic(e) /\ identity = Absent -> "401"
          [] IsPublic(e) /\ identity # Absent /\ ~Passes(key) -> "429"
          [] OTHER -> Response(e.method, path, identity)
  IN /\ IF IsPublic(e) /\ identity # Absent THEN Allow(key)
        ELSE UNCHANGED <<bucket, passed, comeback>>
     /\ last' = [endpoint |-> e, token |-> token, user |-> user, result |-> result,
                 as |-> IF result = "handled" THEN identity ELSE Nobody]
     /\ UNCHANGED <<now, redis, window, asking, refused, upstreams, mode>>

Forged == [user |-> "forged", roles |-> {"admin"}]

(* Routing: every endpoint, with every kind of token, from a client that   *)
(* is not near its limit.                                                  *)
SendAnything ==
  /\ mode = "routing" /\ last = Absent
  /\ \E s \in Service, t \in Credential, h \in {Nobody, Forged}, u \in User, a \in Address :
       \E e \in Router(s) : Send(e, t, u, h, a)

(* Limits: one endpoint, again and again.                                  *)
SendOften ==
  /\ mode = "bucket"
  /\ \E t \in {"none", "user"}, u \in User, a \in Address :
       /\ Len(passed[IF t = "user" THEN u ELSE a]) < MaxTime + 2
       /\ Send(E("GET", <<"ads">>, "anyone"), t, u, Nobody, a)

UpstreamFails ==
  /\ mode = "routing" /\ last = Absent
  /\ \E s \in upstreams : upstreams' = upstreams \ {s}
  /\ Cardinality(upstreams) >= Cardinality(Service)
  /\ UNCHANGED <<limitVars, mode, last>>

EdgeInit ==
  /\ LimitsInit
  /\ upstreams = Service /\ last = Absent
  /\ mode \in {"routing", "bucket", "window"}

EdgeNext ==
  \/ SendAnything
  \/ SendOften
  \/ UpstreamFails
  \/ mode = "window" /\ WindowStep /\ UNCHANGED edgeVars
  \/ mode # "routing" /\ Tick /\ UNCHANGED edgeVars
  \/ RedisBreaks /\ UNCHANGED edgeVars

EdgeSpec == EdgeInit /\ [][EdgeNext]_requestVars

(***************************************************************************)
(* Properties.                                                             *)
(***************************************************************************)
EdgeTypeOK ==
  /\ now \in 0..MaxTime /\ redis \in {"up", "down"}
  /\ bucket \in [Client -> {Absent} \cup [tokens : 0..Burst, ts : 0..MaxTime]]
  /\ upstreams \subseteq Service

Served(l) == l # Absent /\ l.result = "handled"

(* A handler acts for whoever the token names, and for nobody without one, *)
(* whatever identity headers the client sends; none that is for users or   *)
(* staff is reached without the role.                                      *)
IdentityIsTheToken ==
  Served(last) =>
    /\ last.as = IF last.token = "none" THEN Nobody
                 ELSE [user |-> last.user, roles |-> {last.token}]
    /\ last.endpoint.who = "staff" => last.token = "moderator"
    /\ last.endpoint.who = "user" => last.token \in {"user", "moderator"}

(* The route table of the gateway and the routers of the thirteen services *)
(* agree: each public endpoint is reached at the service that has it, with *)
(* the parameters it has, and no internal one is.                          *)
EveryEndpointIsReached ==
  last # Absent =>
    /\ IsPublic(last.endpoint) => last.result # Answer404
    /\ ~IsPublic(last.endpoint) => last.result = Answer404
    /\ \A s \in Service : IsPublic(last.endpoint) /\ last.endpoint \in Router(s) =>
         /\ Destination(Concrete(last.endpoint.path)) = s
         /\ Endpoint(s, last.endpoint.method, Concrete(last.endpoint.path)) = last.endpoint

(* A request reaches the handler that its path is for, and acts there for  *)
(* whoever its token names (routes.go, middleware.go, proxy.go).           *)
RequestsReachTheirHandler ==
  /\ EdgeTypeOK
  /\ EveryEndpointIsReached
  /\ IdentityIsTheToken

(* The limiters let nobody have more than his share, and refuse nobody for *)
(* longer than they say (token_bucket.lua; auth's ratelimit.go).           *)
LimitsAreKept == [](BurstIsBounded /\ RefusalHasAnEnd) /\ WaitingIsEnough
=============================================================================

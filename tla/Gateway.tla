------------------------------ MODULE Gateway ------------------------------
(***************************************************************************)
(* The way of a call: a service of the browser (services/*.ts) names a     *)
(* method and a path, the Next.js server picks the file of app/api that    *)
(* serves it, checks the CSRF token and forwards it, and the backend picks *)
(* an endpoint of its routers.  The three lists are kept by hand in three  *)
(* places.  Bodies, query strings and the refresh of tokens (BffSession)   *)
(* are left out.                                                           *)
(***************************************************************************)
EXTENDS Naturals, Sequences, FiniteSets

\* Segments of a path that stand for any value.
Id == "[id]"
EntityType == "[entityType]"
Resource == "[resource]"
Action == "[action]"
Rest == "[...path]"
Parameters == {Id, EntityType, Resource, Action, Rest}

On(path, methods) == {[method |-> m, path |-> path] : m \in methods}
Crud(base) == On(<<base>>, {"GET", "POST"}) \cup On(<<base, Id>>, {"GET", "PATCH", "DELETE"})

-----------------------------------------------------------------------------
(* What the services of the browser call. *)

ActivityService == Crud("activities")
CompanyService  == Crud("companies")
ContactService  == Crud("contacts")
DealService     == Crud("deals")
NoteService     == Crud("notes")
TaskService     == Crud("tasks")
LeadService     == Crud("leads") \cup On(<<"leads", Id, "convert">>, {"POST"})
TagService      ==
    Crud("tags") \cup On(<<"tags", Id, "assignments", EntityType, Id>>, {"PUT", "DELETE"})
PipelineService ==
    Crud("pipelines") \cup On(<<"pipelines", Id, "stages">>, {"POST"}) \cup
    On(<<"pipelines", Id, "stages", Id>>, {"PATCH", "DELETE"})
AttachmentService ==
    On(<<"attachments">>, {"GET", "POST"}) \cup On(<<"attachments", Id>>, {"DELETE"}) \cup
    On(<<"attachments", Id, "download">>, {"GET"})
AuditLogService  == On(<<"audit-logs">>, {"GET"})
AuthService      == On(<<"auth", "login">>, {"POST"}) \cup On(<<"auth", "me">>, {"GET"}) \cup
                    On(<<"auth", "logout">>, {"POST"})
SecurityCalls    == UNION {On(<<"auth", "mfa", a>>, {"POST"}) : a \in {"setup", "confirm", "disable"}}
DashboardService == On(<<"dashboard">>, {"GET"}) \cup On(<<"dashboard", "health">>, {"GET"}) \cup
                    On(<<"dashboard", "analytics">>, {"GET"})
ImportExportService == On(<<"import-export", Resource>>, {"GET", "POST"})
NotificationService ==
    On(<<"notifications">>, {"GET"}) \cup On(<<"notifications", "read-all">>, {"POST"}) \cup
    On(<<"notifications", "read-bulk">>, {"POST"}) \cup On(<<"notifications", Id, "read">>, {"POST"})
OrganizationService == On(<<"organization">>, {"GET", "PATCH"})
RoleService ==
    On(<<"roles">>, {"GET", "POST"}) \cup On(<<"roles", "permissions">>, {"GET"}) \cup
    On(<<"roles", Id>>, {"PATCH", "DELETE"})
SearchService == On(<<"search">>, {"GET"})
UserManagementService ==
    On(<<"users">>, {"GET", "POST"}) \cup On(<<"users", Id>>, {"PATCH"}) \cup
    On(<<"profile">>, {"GET", "PATCH"}) \cup On(<<"profile", "password">>, {"POST"})

V3Calls == UNION {
    On(<<"saved-views">>, {"GET", "POST"}), On(<<"saved-views", Id>>, {"PATCH", "DELETE"}),
    On(<<"custom-fields">>, {"GET", "POST"}), On(<<"custom-fields", Id>>, {"PATCH", "DELETE"}),
    On(<<"custom-fields", EntityType, Id, "values">>, {"GET", "PUT"}),
    On(<<"automation", "workflows">>, {"GET", "POST"}),
    On(<<"automation", "workflows", Id>>, {"PATCH", "DELETE"}),
    On(<<"automation", "workflows", Id, "run">>, {"POST"}),
    UNION {On(<<"intelligence", p>>, {"GET"}) : p \in {"data-quality", "morning-brief"}},
    UNION {On(<<"intelligence", p, Id>>, {"GET"}) : p \in {"relationship-health", "lead-score"}},
    UNION {On(<<"reports", p>>, {"GET"}) : p \in {"forecast", "builder", "win-loss"}},
    On(<<"goals">>, {"GET", "POST"}), On(<<"goals", Id>>, {"DELETE"}),
    On(<<"products">>, {"GET", "POST"}), On(<<"products", Id>>, {"PATCH"}),
    On(<<"quotes">>, {"GET", "POST"}), On(<<"quotes", Id>>, {"GET"}),
    On(<<"quotes", Id, "approve">>, {"POST"}), On(<<"quotes", Id, "reject">>, {"POST"}),
    On(<<"ai", "status">>, {"GET"}), On(<<"ai", "copilot">>, {"POST"}),
    On(<<"ai", "copilot", "stream">>, {"POST"}), On(<<"ai", "models", "pull">>, {"POST"}),
    On(<<"ai", "deals", Id, "insight">>, {"POST"}),
    On(<<"dashboard-widgets">>, {"GET", "POST"}), On(<<"dashboard-widgets", Id>>, {"PATCH", "DELETE"}),
    On(<<"sequences">>, {"GET", "POST"}), On(<<"sequences", Id>>, {"DELETE"}),
    On(<<"sequences", "enrollments">>, {"GET"}), On(<<"sequences", Id, "enroll">>, {"POST"}),
    On(<<"developer", "api-keys">>, {"GET", "POST"}), On(<<"developer", "api-keys", Id>>, {"DELETE"}),
    On(<<"developer", "webhooks">>, {"GET", "POST"}),
    On(<<"developer", "webhook-deliveries">>, {"GET"}),
    On(<<"developer", "webhook-deliveries", Id, "retry">>, {"POST"})}
v3Service == {[c EXCEPT !.path = <<"v3">> \o @] : c \in V3Calls}

ServiceCalls == UNION {
    ActivityService, CompanyService, ContactService, DealService, NoteService, TaskService,
    LeadService, TagService, PipelineService, AttachmentService, AuditLogService, AuthService,
    SecurityCalls, DashboardService, ImportExportService, NotificationService,
    OrganizationService, RoleService, SearchService, UserManagementService, v3Service}

\* The paths a call may have, an identifier being unlike any fixed segment.
ValuesOf(segment) ==
    CASE segment = Id -> {"2f1c"}
      [] segment = EntityType -> {"company", "deal"}
      [] segment = Resource -> {"companies", "contacts"}
      [] OTHER -> {segment}
PathsOf(template) ==
    {p \in [DOMAIN template -> UNION {ValuesOf(template[i]) : i \in DOMAIN template}] :
        \A i \in DOMAIN template : p[i] \in ValuesOf(template[i])}

Logout == [method |-> "POST", path |-> <<"auth", "logout">>]
Login == [method |-> "POST", path |-> <<"auth", "login">>]
Me == [method |-> "GET", path |-> <<"auth", "me">>]
Stream == [method |-> "POST", path |-> <<"v3", "ai", "copilot", "stream">>]

\* The endpoints a call is meant for: a login goes on to fetch the user.
Means(template) == {template} \cup (IF template = Login THEN {Me} ELSE {})

-----------------------------------------------------------------------------
(* The files of app/api, each with the methods it exports. *)

File(path, methods) == [path |-> path, methods |-> methods]

ActivitiesRoute      == File(<<"activities">>, {"GET", "POST"})
ActivityRoute        == File(<<"activities", Id>>, {"GET", "PATCH", "DELETE"})
AttachmentsRoute     == File(<<"attachments">>, {"GET", "POST"})
AttachmentRoute      == File(<<"attachments", Id>>, {"GET", "DELETE"})
DownloadRoute        == File(<<"attachments", Id, "download">>, {"GET"})
AuditLogsRoute       == File(<<"audit-logs">>, {"GET"})
LoginRoute           == File(<<"auth", "login">>, {"POST"})
LogoutRoute          == File(<<"auth", "logout">>, {"POST"})
MeRoute              == File(<<"auth", "me">>, {"GET"})
MfaRoute             == File(<<"auth", "mfa", Action>>, {"POST"})
RefreshRoute         == File(<<"auth", "refresh">>, {"POST"})
CompaniesRoute       == File(<<"companies">>, {"GET", "POST"})
CompanyRoute         == File(<<"companies", Id>>, {"GET", "PATCH", "DELETE"})
ContactsRoute        == File(<<"contacts">>, {"GET", "POST"})
ContactRoute         == File(<<"contacts", Id>>, {"GET", "PATCH", "DELETE"})
AnalyticsRoute       == File(<<"dashboard", "analytics">>, {"GET"})
HealthRoute          == File(<<"dashboard", "health">>, {"GET"})
DashboardRoute       == File(<<"dashboard">>, {"GET"})
DealsRoute           == File(<<"deals">>, {"GET", "POST"})
DealRoute            == File(<<"deals", Id>>, {"GET", "PATCH", "DELETE"})
ImportExportRoute    == File(<<"import-export", Resource>>, {"GET", "POST"})
ConvertRoute         == File(<<"leads", Id, "convert">>, {"POST"})
LeadsRoute           == File(<<"leads">>, {"GET", "POST"})
LeadRoute            == File(<<"leads", Id>>, {"GET", "PATCH", "DELETE"})
NotesRoute           == File(<<"notes">>, {"GET", "POST"})
NoteRoute            == File(<<"notes", Id>>, {"GET", "PATCH", "DELETE"})
NotificationsRoute   == File(<<"notifications">>, {"GET"})
ReadRoute            == File(<<"notifications", Id, "read">>, {"POST"})
ReadAllRoute         == File(<<"notifications", "read-all">>, {"POST"})
ReadBulkRoute        == File(<<"notifications", "read-bulk">>, {"POST"})
OrganizationRoute    == File(<<"organization">>, {"GET", "PATCH"})
PipelinesRoute       == File(<<"pipelines">>, {"GET", "POST"})
PipelineRoute        == File(<<"pipelines", Id>>, {"GET", "PATCH", "DELETE"})
StagesRoute          == File(<<"pipelines", Id, "stages">>, {"GET", "POST"})
StageRoute           == File(<<"pipelines", Id, "stages", Id>>, {"GET", "PATCH", "DELETE"})
ProfileRoute         == File(<<"profile">>, {"GET", "PATCH"})
PasswordRoute        == File(<<"profile", "password">>, {"POST"})
RolesRoute           == File(<<"roles">>, {"GET", "POST"})
RoleRoute            == File(<<"roles", Id>>, {"GET", "PATCH", "DELETE"})
PermissionsRoute     == File(<<"roles", "permissions">>, {"GET"})
SearchRoute          == File(<<"search">>, {"GET"})
TagsRoute            == File(<<"tags">>, {"GET", "POST"})
TagRoute             == File(<<"tags", Id>>, {"GET", "PATCH", "DELETE"})
AssignmentRoute      == File(<<"tags", Id, "assignments", EntityType, Id>>, {"PUT", "DELETE"})
TasksRoute           == File(<<"tasks">>, {"GET", "POST"})
TaskRoute            == File(<<"tasks", Id>>, {"GET", "PATCH", "DELETE"})
UsersRoute           == File(<<"users">>, {"GET", "POST"})
UserRoute            == File(<<"users", Id>>, {"GET", "PATCH"})
V3Route              == File(<<"v3", Rest>>, {"GET", "POST", "PUT", "PATCH", "DELETE"})
StreamRoute          == File(<<"v3", "ai", "copilot", "stream">>, {"POST"})

RouteFiles == {
    ActivitiesRoute, ActivityRoute, AttachmentsRoute, AttachmentRoute, DownloadRoute,
    AuditLogsRoute, LoginRoute, LogoutRoute, MeRoute, MfaRoute, RefreshRoute, CompaniesRoute,
    CompanyRoute, ContactsRoute, ContactRoute, AnalyticsRoute, HealthRoute, DashboardRoute,
    DealsRoute, DealRoute, ImportExportRoute, ConvertRoute, LeadsRoute, LeadRoute, NotesRoute,
    NoteRoute, NotificationsRoute, ReadRoute, ReadAllRoute, ReadBulkRoute, OrganizationRoute,
    PipelinesRoute, PipelineRoute, StagesRoute, StageRoute, ProfileRoute, PasswordRoute,
    RolesRoute, RoleRoute, PermissionsRoute, SearchRoute, TagsRoute, TagRoute, AssignmentRoute,
    TasksRoute, TaskRoute, UsersRoute, UserRoute, V3Route, StreamRoute}

\* A pattern fits a path of the same length, or any longer one its Rest takes.
Fits(pattern, path) ==
    /\ \/ Len(path) = Len(pattern)
       \/ pattern[Len(pattern)] = Rest /\ Len(path) > Len(pattern)
    /\ \A i \in DOMAIN pattern : pattern[i] = path[i] \/ pattern[i] \in Parameters

\* Where two patterns first differ in kind, a fixed segment goes before a
\* parameter, and a parameter before the rest.
Rank(segment) == CASE segment = Rest -> 2 [] segment \in Parameters \ {Rest} -> 1 [] OTHER -> 0
GoesBefore(p, q) ==
    \E i \in DOMAIN p \cap DOMAIN q :
        /\ Rank(p[i]) < Rank(q[i])
        /\ \A j \in 1..(i - 1) : Rank(p[j]) = Rank(q[j])

Serving(path) ==
    {f \in RouteFiles : /\ Fits(f.path, path)
                        /\ \A g \in RouteFiles \ {f} :
                              Fits(g.path, path) => GoesBefore(f.path, g.path)}

-----------------------------------------------------------------------------
(* The endpoints of the backend, in the order its routers declare them. *)

Endpoints(path, methods) == [i \in DOMAIN methods |-> [method |-> methods[i], path |-> path]]
CrudEnds(base) == Endpoints(<<base>>, <<"POST", "GET">>) \o Endpoints(<<base, Id>>, <<"GET", "PATCH", "DELETE">>)
List(path) == Endpoints(path, <<"GET">>)
Post(path) == Endpoints(path, <<"POST">>)

AuthRouter ==
    Post(<<"auth", "register">>) \o Post(<<"auth", "login">>) \o Post(<<"auth", "refresh">>) \o
    Post(<<"auth", "logout">>) \o List(<<"auth", "me">>) \o Post(<<"auth", "mfa", "setup">>) \o
    Post(<<"auth", "mfa", "confirm">>) \o Post(<<"auth", "mfa", "disable">>)
CompaniesRouter  == CrudEnds("companies")
ContactsRouter   == CrudEnds("contacts")
LeadsRouter      == Endpoints(<<"leads">>, <<"POST", "GET">>) \o Post(<<"leads", Id, "convert">>) \o
                    Endpoints(<<"leads", Id>>, <<"GET", "PATCH", "DELETE">>)
PipelinesRouter  ==
    Endpoints(<<"pipelines">>, <<"POST", "GET">>) \o Endpoints(<<"pipelines", Id, "stages">>, <<"POST", "GET">>) \o
    Endpoints(<<"pipelines", Id, "stages", Id>>, <<"GET", "PATCH", "DELETE">>) \o
    Endpoints(<<"pipelines", Id>>, <<"GET", "PATCH", "DELETE">>)
DealsRouter      == CrudEnds("deals")
ActivitiesRouter == CrudEnds("activities")
TasksRouter      == CrudEnds("tasks")
AttachmentsRouter ==
    Endpoints(<<"attachments">>, <<"POST", "GET">>) \o List(<<"attachments", Id>>) \o
    List(<<"attachments", Id, "download">>) \o Endpoints(<<"attachments", Id>>, <<"DELETE">>)
NotificationsRouter ==
    List(<<"notifications">>) \o Post(<<"notifications", Id, "read">>) \o
    Post(<<"notifications", "read-bulk">>) \o Post(<<"notifications", "read-all">>)
NotesRouter      == CrudEnds("notes")
TagsRouter       ==
    Endpoints(<<"tags">>, <<"POST", "GET">>) \o
    Endpoints(<<"tags", Id, "assignments", EntityType, Id>>, <<"PUT", "DELETE">>) \o
    Endpoints(<<"tags", Id>>, <<"GET", "PATCH", "DELETE">>)
AuditLogsRouter  == List(<<"audit-logs">>)
OrganizationRouter == Endpoints(<<"organization">>, <<"GET", "PATCH">>)
\* Mutant: the list of permissions is declared after the role of an identifier.
RolesRouterByIdFirst ==
    List(<<"roles">>) \o Post(<<"roles">>) \o
    Endpoints(<<"roles", Id>>, <<"GET", "PATCH", "DELETE">>) \o List(<<"roles", "permissions">>)

RolesRouter      ==
    List(<<"roles">>) \o List(<<"roles", "permissions">>) \o Post(<<"roles">>) \o
    Endpoints(<<"roles", Id>>, <<"GET", "PATCH", "DELETE">>)
UsersRouter      == Endpoints(<<"users">>, <<"GET", "POST">>) \o Endpoints(<<"users", Id>>, <<"GET", "PATCH">>)
ProfileRouter    == Endpoints(<<"profile">>, <<"GET", "PATCH">>) \o Post(<<"profile", "password">>)
DashboardRouter  == List(<<"dashboard">>) \o List(<<"dashboard", "analytics">>) \o
                    List(<<"dashboard", "health">>)
SearchRouter     == List(<<"search">>)
ImportExportRouter == Endpoints(<<"import-export", Resource>>, <<"GET", "POST">>)

V3Endpoints ==
    Endpoints(<<"saved-views">>, <<"GET", "POST">>) \o Endpoints(<<"saved-views", Id>>, <<"PATCH", "DELETE">>) \o
    Endpoints(<<"custom-fields">>, <<"GET", "POST">>) \o Endpoints(<<"custom-fields", Id>>, <<"PATCH", "DELETE">>) \o
    Endpoints(<<"custom-fields", EntityType, Id, "values">>, <<"GET", "PUT">>) \o
    Endpoints(<<"automation", "workflows">>, <<"GET", "POST">>) \o
    Endpoints(<<"automation", "workflows", Id>>, <<"PATCH", "DELETE">>) \o
    Post(<<"automation", "workflows", Id, "run">>) \o
    List(<<"intelligence", "data-quality">>) \o List(<<"intelligence", "morning-brief">>) \o
    List(<<"intelligence", "lead-score", Id>>) \o List(<<"reports", "win-loss">>) \o
    List(<<"reports", "forecast">>) \o List(<<"reports", "builder">>) \o
    List(<<"intelligence", "relationship-health", Id>>) \o
    Endpoints(<<"goals">>, <<"GET", "POST">>) \o Endpoints(<<"goals", Id>>, <<"DELETE">>) \o
    Endpoints(<<"products">>, <<"GET", "POST">>) \o Endpoints(<<"products", Id>>, <<"PATCH">>) \o
    List(<<"quotes">>) \o List(<<"quotes", Id>>) \o Post(<<"quotes">>) \o
    Post(<<"quotes", Id, "approve">>) \o Post(<<"quotes", Id, "reject">>) \o
    List(<<"ai", "status">>) \o Post(<<"ai", "copilot">>) \o Post(<<"ai", "copilot", "stream">>) \o
    Post(<<"ai", "models", "pull">>) \o Post(<<"ai", "deals", Id, "insight">>) \o
    Endpoints(<<"developer", "api-keys">>, <<"GET", "POST">>) \o
    Endpoints(<<"developer", "api-keys", Id>>, <<"DELETE">>) \o
    Endpoints(<<"developer", "webhooks">>, <<"GET", "POST">>) \o
    Endpoints(<<"dashboard-widgets">>, <<"GET", "POST">>) \o
    Endpoints(<<"dashboard-widgets", Id>>, <<"PATCH", "DELETE">>) \o
    Endpoints(<<"sequences">>, <<"GET", "POST">>) \o Endpoints(<<"sequences", Id>>, <<"DELETE">>) \o
    List(<<"sequences", "enrollments">>) \o Post(<<"sequences", Id, "enroll">>) \o
    List(<<"developer", "webhook-deliveries">>) \o
    Post(<<"developer", "webhook-deliveries", Id, "retry">>)
V3Router == [i \in DOMAIN V3Endpoints |-> [V3Endpoints[i] EXCEPT !.path = <<"v3">> \o @]]

ApiRouter ==
    AuthRouter \o CompaniesRouter \o ContactsRouter \o LeadsRouter \o PipelinesRouter \o
    DealsRouter \o ActivitiesRouter \o TasksRouter \o AttachmentsRouter \o NotificationsRouter \o
    NotesRouter \o TagsRouter \o AuditLogsRouter \o OrganizationRouter \o RolesRouter \o
    UsersRouter \o ProfileRouter \o DashboardRouter \o SearchRouter \o ImportExportRouter \o V3Router

\* The first endpoint declared with the method and a path that fits.
Candidates(method, path) ==
    {i \in DOMAIN ApiRouter : ApiRouter[i].method = method /\ Fits(ApiRouter[i].path, path)}
Endpoint(method, path) ==
    LET fitting == Candidates(method, path)
    IN  IF fitting = {} THEN {}
        ELSE {ApiRouter[CHOOSE i \in fitting : \A j \in fitting : i <= j]}

-----------------------------------------------------------------------------
(* One call at a time. *)

VARIABLES
    call,      \* the call as the service makes it, and its path filled in
    at,        \* where it is: "idle", "sent", "forwarded", "me", "answered" or "told"
    cookies,   \* the browser holds the session and CSRF cookies
    carried,   \* the cookies and the X-CSRF-Token header the call carries
    reached,   \* the endpoints that served the call, whether or not they answered
    answer,    \* what came back to the Next.js server, or its own refusal
    outcome    \* what the caller gets: "resolved" or the status of an ApiError

gatewayVars == <<call, at, cookies, carried, reached, answer, outcome>>

Calls == UNION {{[template |-> c, path |-> p] : p \in PathsOf(c.path)} : c \in ServiceCalls}
NoCall == [template |-> Logout, path |-> <<>>]

Succeeds == {"200", "204"}
BackendAnswers == Succeeds \cup {"401", "4xx", "5xx"}
NoAnswers == {"timeout", "unavailable", "invalid"}

GatewayInit ==
    /\ call = NoCall /\ at = "idle"
    /\ cookies = FALSE
    /\ carried = [cookies |-> FALSE, header |-> FALSE]
    /\ reached = {} /\ answer = "none" /\ outcome = "none"

\* A login sets the cookies, a logout or a refused refresh clears them, at any time.
CookiesChange ==
    /\ cookies' = ~cookies
    /\ UNCHANGED <<call, at, carried, reached, answer, outcome>>

Mutating == {"DELETE", "PATCH", "POST", "PUT"}

\* request: the header copies the CSRF cookie, for the methods that change data.
Send ==
    /\ at \in {"idle", "told"}
    /\ call' \in Calls
    /\ at' = "sent"
    /\ carried' = [cookies |-> cookies, header |-> cookies /\ call'.template.method \in Mutating]
    /\ reached' = {} /\ answer' = "none" /\ outcome' = "none"
    /\ UNCHANGED cookies

\* requireCsrfProtection: the safe methods, a login and a logout go without a
\* token, the rest need the cookie and the header.
MayPass ==
    \/ call.template.method \in {"GET", "HEAD", "OPTIONS"}
    \/ call.template \in {Login, Logout}
    \/ carried.cookies /\ carried.header

\* What a handler tests of its parameters.
Allowed(file, path) ==
    CASE file = ImportExportRoute -> path[2] \in {"companies", "contacts"}
      [] file = MfaRoute -> path[3] \in {"setup", "confirm", "disable"}
      [] OTHER -> TRUE

\* The file that serves the path refuses the call, answers one without a session
\* itself, or forwards it.
Route ==
    /\ at = "sent"
    /\ LET files == Serving(call.path)
           refusal == CASE files = {} -> "404"
                        [] \A f \in files : call.template.method \notin f.methods -> "405"
                        [] ~MayPass -> "403"
                        [] \A f \in files : ~Allowed(f, call.path) -> "404"
                        [] call.template = Logout /\ ~carried.cookies -> "204"
                        [] call.template # Login /\ ~carried.cookies -> "401"
                        [] OTHER -> "none"
       IN  /\ answer' = refusal
           /\ at' = IF refusal = "none" THEN "forwarded" ELSE "answered"
    /\ UNCHANGED <<call, cookies, carried, reached, outcome>>

\* The backend serves the call or has no endpoint for it; no answer that can be
\* used comes back, whether or not the endpoint was reached; or the refresh before
\* the call finds the session over.  A login that succeeds is not over yet.
Serve ==
    /\ at = "forwarded"
    /\ LET endpoint == Endpoint(call.template.method, call.path)
       IN  \/ answer' \in NoAnswers /\ reached' \in {{}, endpoint}
           \/ answer' = "401" /\ reached' = {} /\ call.template \notin {Login, Logout}
           \/ /\ reached' = endpoint
              /\ answer' \in IF endpoint = {} THEN {"4xx"} ELSE BackendAnswers
    /\ at' = IF call.template = Login /\ answer' \in Succeeds THEN "me" ELSE "answered"
    /\ UNCHANGED <<call, cookies, carried, outcome>>

\* A login then fetches the user with its new access token; whatever is wrong with
\* that answer, the login fails although the backend began a session.
FetchUser ==
    /\ at = "me" /\ at' = "answered"
    /\ LET user == Endpoint(Me.method, Me.path)
       IN  \/ answer' \in NoAnswers /\ reached' \in {reached, reached \cup user}
           \/ user # {} /\ answer' = "200" /\ reached' = reached \cup user
    /\ UNCHANGED <<call, cookies, carried, outcome>>

\* The status the browser sees: an error of the backend is a bad gateway, a
\* logout that got past the CSRF check always succeeds, and the route of the
\* stream catches no failed fetch.
StatusOf(a) ==
    CASE call.template = Logout /\ a # "403" -> "204"
      [] call.template = Stream /\ a \in NoAnswers -> "500"
      [] a = "timeout" -> "504"
      [] a \in {"5xx", "unavailable", "invalid"} -> "502"
      [] OTHER -> a

\* parseResponse: a success resolves the call, anything else throws an ApiError.
Tell ==
    /\ at = "answered" /\ at' = "told"
    /\ outcome' = IF StatusOf(answer) \in Succeeds THEN "resolved" ELSE StatusOf(answer)
    /\ UNCHANGED <<call, cookies, carried, reached, answer>>

GatewayNext == CookiesChange \/ Send \/ Route \/ Serve \/ FetchUser \/ Tell

GatewaySpec == GatewayInit /\ [][GatewayNext]_gatewayVars

-----------------------------------------------------------------------------
Refusals == {"403", "404", "405"}

GatewayTypeOK ==
    /\ call \in Calls \cup {NoCall}
    /\ at \in {"idle", "sent", "forwarded", "me", "answered", "told"}
    /\ cookies \in BOOLEAN /\ carried \in [cookies : BOOLEAN, header : BOOLEAN]
    /\ Cardinality(reached) <= 2
    /\ answer \in {"none"} \cup BackendAnswers \cup NoAnswers \cup Refusals
    /\ outcome \in {"none", "resolved", "500", "502", "504", "401", "4xx"} \cup Refusals

\* Every call of a service is served by the endpoint it means and no other: a file
\* of the Next.js server takes it and forwards it (a call that changes data needs
\* the cookies), and the backend picks the endpoint with its method whose fixed
\* segments are those the service wrote, never another that fits the path.  An
\* answer of the backend other than a refused session shows that the endpoint was
\* reached, and a call that resolved was served by all it means.
CallsArrive ==
    /\ answer \in Refusals => answer = "403" /\ ~carried.cookies
    /\ at # "idle" => reached \subseteq Means(call.template)
    /\ /\ at \in {"answered", "told"} /\ answer \in BackendAnswers \ {"401"}
       /\ carried.cookies \/ call.template = Login
       => call.template \in reached
    /\ outcome = "resolved" /\ call.template # Logout => Means(call.template) \subseteq reached
=============================================================================

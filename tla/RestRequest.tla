---- MODULE RestRequest ----
(***************************************************************************)
(* The life of a request to an ssi_rest route: resolution of its cursor,   *)
(* then attempts that each authenticate, check the access profile, resolve *)
(* the company, run the endpoint, log and flush, until one commits or one  *)
(* raises. The dispatcher of ssi_rest_api_log and the overrides of ir.http *)
(* and of the core dispatcher run inside odoo.service.model.retrying: what *)
(* they store on the request object outlives the attempt that stored it,   *)
(* and the log's own transaction outlives the rollback of the attempt's.   *)
(***************************************************************************)
EXTENDS Integers, Sequences, FiniteSets

CONSTANTS
    Request,        \* the requests of a behaviour, each made once
    Route,          \* the routes they are made to
    EndpointRow,    \* the states of the custom endpoint's record
    Company,        \* existing companies
    DefaultCompany, \* the user's own company_id
    Asked,          \* bound: the companies callers ask for, None for none
    Sent,           \* bound: the bodies they send
    Presented,      \* bound: the credentials they present
    Bogus,          \* a company that is no integer or does not exist
    MaxTries,       \* attempts on one cursor
    MaxChanges,     \* bound: changes an administrator makes
    None

\* What the endpoint does: return, update the shared record, raise, update it against
\* a constraint, or update it and raise on the way to its result.
Deed == {"read", "write", "fail", "break", "spoil"}

\* A body that is parsed, or none; one that is not JSON; one that is too large.
Body == {"sound", "malformed", "oversized"}

\* At most one credential; or several of them, or a header that cannot be read.
Credential == {"plain", "unclear"}

ASSUME ConstantsAssumption ==
    /\ Route \subseteq [auth : {"ssi_rest", "public"}, custom : BOOLEAN, readonly : BOOLEAN,
                        does : Deed]
    /\ EndpointRow \subseteq [active : BOOLEAN, readonly : BOOLEAN, open : BOOLEAN, does : Deed]
    /\ DefaultCompany \in Company
    /\ Asked \subseteq Company \cup {Bogus, None}
    /\ Sent \subseteq Body /\ Presented \subseteq Credential
    /\ MaxTries \in Nat \ {0} /\ MaxChanges \in Nat
    /\ Bogus \notin Company /\ None \notin Company \cup {Bogus} \cup Route

\* What the wildcard route runs when no custom endpoint is there.
NoEndpoint == [active |-> FALSE, readonly |-> FALSE, open |-> FALSE, does |-> "read"]

\* What the database says of the caller: whether the credential is valid,
\* whether the access profiles let the request through, the user's companies,
\* and the custom endpoint, open if the profiles it lists let the caller in.
Authority == [key : BOOLEAN, profile : BOOLEAN, companies : SUBSET Company,
              endpoint : EndpointRow \cup {NoEndpoint}]

Call == [route : Route, company : Asked, body : Sent, credential : Presented]

NoCall == [route |-> None, company |-> None, body |-> None, credential |-> None]

\* Authentication answers 401, 400, or 500 when a provider raises anything else.
AuthFailure == {"unauthenticated", "ambiguous", "error"}

Status == {"ok", "denied", "missing", "invalid", "too_large"} \cup AuthFailure

VARIABLES
    changes,    \* changes made to the caller's authority so far
    authority,  \* committed, on the primary
    replica,    \* the read replica's copy of it, which may lag
    effects,    \* effects[r]: the companies r's committed updates ran in
    log,        \* log[r]: committed rows of ssi_rest_request_log, in order
    logged,     \* whether r's last row was written
    pc,         \* where each request is
    call,       \* what each request asks for
    cursor,     \* "ro" or "rw"
    tries,      \* attempts started on that cursor
    snap,       \* snapshot of the attempt's transaction
    company,    \* the company resolved in the attempt
    wrote,      \* whether the attempt's update reached the database
    beaten,     \* whether another update committed since the snapshot
    object,     \* what the request object and its dispatcher remember
    raised,     \* the status of the exception on its way to handle_error
    answer,     \* what the client was told
    covered     \* whether the caller had authority once since the attempt began

db == <<changes, authority, replica, effects, log, logged>>
attempt == <<tries, snap, company, wrote, beaten>>
vars == <<changes, authority, replica, effects, log, logged, pc, call, cursor, tries,
          snap, company, wrote, beaten, object, raised, answer, covered>>

FullAuthority == [key |-> TRUE, profile |-> TRUE, companies |-> Company,
                  endpoint |-> NoEndpoint]

\* The future response's request id (0: none yet), whether rest_auth is set,
\* whether the log has the matched rule.
Fresh == [id |-> 0, auth |-> FALSE, rule |-> FALSE]

NoAnswer == [status |-> "none", id |-> 0]

Init ==
    /\ changes = 0
    /\ \E e \in EndpointRow : authority = [FullAuthority EXCEPT !.endpoint = e]
    /\ replica = authority
    /\ effects = [r \in Request |-> <<>>]
    /\ log = [r \in Request |-> <<>>]
    /\ logged = [r \in Request |-> TRUE]
    /\ pc = [r \in Request |-> "idle"]
    /\ call = [r \in Request |-> NoCall]
    /\ cursor = [r \in Request |-> "rw"]
    /\ tries = [r \in Request |-> 0]
    /\ snap = [r \in Request |-> FullAuthority]
    /\ company = [r \in Request |-> None]
    /\ wrote = [r \in Request |-> FALSE]
    /\ beaten = [r \in Request |-> FALSE]
    /\ object = [r \in Request |-> Fresh]
    /\ raised = [r \in Request |-> "none"]
    /\ answer = [r \in Request |-> NoAnswer]
    /\ covered = [r \in Request |-> FALSE]

----------------------------------------------------------------------------
(* Helpers *)

Running(r) == pc[r] \notin {"idle", "done", "lost"}

\* custom_endpoint_call: the record is looked up in the attempt's snapshot, and
\* its list of profiles asked, before its handler runs.
CustomCall(e) ==
    IF ~e.active THEN "miss" ELSE IF ~e.open THEN "refuse" ELSE e.does

\* What dispatching does: a body that cannot be parsed is as far as it gets.
Does(r) ==
    CASE call[r].body # "sound" -> call[r].body
      [] call[r].body = "sound" /\ call[r].route.custom -> CustomCall(snap[r].endpoint)
      [] OTHER -> call[r].route.does

\* The status of what it raises; a BadRequest is nothing classify_exception knows.
Refusal == [fail |-> "invalid", spoil |-> "invalid", miss |-> "missing", refuse |-> "denied",
            malformed |-> "error", oversized |-> "too_large"]

Updates(r) == Does(r) \in {"write", "break", "spoil"}

\* The route's readonly argument. _custom_endpoint_readonly asks the primary, in
\* a transaction of its own, before anybody is authenticated.
Readonly(route, e) == IF route.custom THEN e.active /\ e.readonly ELSE route.readonly

\* _ssi_rest_resolve_company: the company asked for, or the user's own.
CompanyOf(q) == IF q.company = None THEN DefaultCompany ELSE q.company

\* Whether a lets q through: its credential, its profile, its company, and the
\* custom endpoint it calls.
Suffices(a, q) ==
    /\ q.route.auth = "ssi_rest" => a.key
    /\ a.profile
    /\ CompanyOf(q) \in a.companies
    /\ q.route.custom => a.endpoint.active /\ a.endpoint.open

\* Faulty: a new id each time.
EnsureRequestIdAgain(o) == [o EXCEPT !.id = @ + 1]

\* _ensure_request_id: the id is drawn once for a request.
EnsureRequestId(o) == IF o.id = 0 THEN [o EXCEPT !.id = 1] ELSE o

\* _build_log_vals.
LogRow(status, o) == [status |-> status, id |-> o.id, auth |-> o.auth, rule |-> o.rule]

\* _write_request_log: a row in a transaction of its own; a failure is swallowed.
WriteLog(r, status, o) ==
    \/ /\ log' = [log EXCEPT ![r] = Append(@, LogRow(status, o))]
       /\ logged' = [logged EXCEPT ![r] = TRUE]
    \/ /\ logged' = [logged EXCEPT ![r] = FALSE]
       /\ UNCHANGED log

\* The attempt's transaction is rolled back and its updates are gone.
Rollback(r) ==
    /\ wrote' = [wrote EXCEPT ![r] = FALSE]
    /\ beaten' = [beaten EXCEPT ![r] = FALSE]
    /\ company' = [company EXCEPT ![r] = None]
    /\ snap' = [snap EXCEPT ![r] = FullAuthority]

Goto(r, label) == pc' = [pc EXCEPT ![r] = label]

\* An exception that is no concurrency failure leaves the attempts.
Raise(r, status) ==
    /\ Goto(r, "handle_error")
    /\ raised' = [raised EXCEPT ![r] = status]

----------------------------------------------------------------------------
(* One attempt *)

\* The route is matched and its readonly argument resolved: a read-only cursor
\* if it says so and a replica can be reached.
Arrive(r) ==
    /\ pc[r] = "idle"
    /\ Goto(r, "begin")
    /\ \E q \in Call, c \in {"ro", "rw"} :
        /\ c = "ro" => Readonly(q.route, authority.endpoint)
        /\ call' = [call EXCEPT ![r] = q]
        /\ cursor' = [cursor EXCEPT ![r] = c]
    /\ UNCHANGED <<db, attempt, object, raised, answer, covered>>

Begin(r) ==
    /\ pc[r] = "begin"
    /\ Goto(r, "authenticate")
    /\ tries' = [tries EXCEPT ![r] = @ + 1]
    /\ snap' = [snap EXCEPT ![r] = IF cursor[r] = "ro" THEN replica ELSE authority]
    /\ covered' = [covered EXCEPT ![r] = Suffices(authority, call[r])]
    /\ UNCHANGED <<db, call, cursor, company, wrote, beaten, object, raised, answer>>

\* How authentication on an ssi_rest route may fail: a provider may raise
\* whatever the caller sent; several credentials or an unreadable one are
\* refused before any is verified.
Failures(r) ==
    {"error"} \cup IF call[r].credential = "unclear" THEN {"ambiguous"}
                   ELSE IF snap[r].key THEN {} ELSE {"unauthenticated"}

\* Authentication went well: rest_auth and the user are set on an ssi_rest route.
Identify(r) ==
    /\ Goto(r, "pre_dispatch")
    /\ object' = [object EXCEPT ![r].auth = call[r].route.auth = "ssi_rest"]
    /\ UNCHANGED raised

\* Faulty: a request that authenticated before is not asked again.
AuthenticateOnce(r) ==
    /\ pc[r] = "authenticate"
    /\ \/ /\ call[r].route.auth = "ssi_rest" /\ ~object[r].auth
          /\ \E status \in Failures(r) : Raise(r, status)
          /\ UNCHANGED object
       \/ /\ call[r].route.auth = "ssi_rest" =>
               object[r].auth \/ (call[r].credential = "plain" /\ snap[r].key)
          /\ Identify(r)
    /\ UNCHANGED <<db, call, cursor, attempt, answer, covered>>

\* _authenticate: a public route asks for no credential; on an ssi_rest route
\* the one extracted is verified.
Authenticate(r) ==
    /\ pc[r] = "authenticate"
    /\ \/ /\ call[r].route.auth = "ssi_rest"
          /\ \E status \in Failures(r) : Raise(r, status)
          /\ UNCHANGED object
       \/ /\ call[r].route.auth = "ssi_rest" =>
               call[r].credential = "plain" /\ snap[r].key
          /\ Identify(r)
    /\ UNCHANGED <<db, call, cursor, attempt, answer, covered>>

\* The dispatchers' pre_dispatch: request id, access profile, rule for the log.
PreDispatch(r) ==
    /\ pc[r] = "pre_dispatch"
    /\ LET o == EnsureRequestId(object[r]) IN
       IF snap[r].profile
       THEN /\ object' = [object EXCEPT ![r] = [o EXCEPT !.rule = TRUE]]
            /\ Goto(r, "resolve_company")
            /\ UNCHANGED raised
       ELSE /\ object' = [object EXCEPT ![r] = o]
            /\ Raise(r, "denied")
    /\ UNCHANGED <<db, call, cursor, attempt, answer, covered>>

ResolveCompany(r) ==
    /\ pc[r] = "resolve_company"
    /\ LET c == CompanyOf(call[r]) IN
       \/ /\ c = Bogus
          /\ Raise(r, "invalid") /\ UNCHANGED company
       \/ /\ c \in Company \ snap[r].companies
          /\ Raise(r, "denied") /\ UNCHANGED company
       \/ /\ c \in snap[r].companies
          /\ company' = [company EXCEPT ![r] = c]
          /\ Goto(r, "dispatch") /\ UNCHANGED raised
    /\ UNCHANGED <<db, call, cursor, tries, snap, wrote, beaten, object, answer, covered>>

\* The body is parsed, the endpoint runs and returns; its updates may be pending.
Dispatch(r) ==
    /\ pc[r] = "dispatch"
    /\ IF Does(r) \in DOMAIN Refusal
       THEN Raise(r, Refusal[Does(r)])
       ELSE Goto(r, "post_dispatch") /\ UNCHANGED raised
    /\ UNCHANGED <<db, call, cursor, attempt, object, answer, covered>>

\* The response is logged before the attempt's own transaction is flushed.
PostDispatch(r) ==
    /\ pc[r] = "post_dispatch"
    /\ Goto(r, "flush")
    /\ WriteLog(r, "ok", object[r])
    /\ UNCHANGED <<changes, authority, replica, effects, call, cursor, attempt, object,
                   raised, answer, covered>>

----------------------------------------------------------------------------
(* The flush: by the endpoint's own queries, or once it returned *)

\* Faulty: a read-only cursor has nothing to flush.
FlushingWritable(r) ==
    pc[r] \in {"dispatch", "flush"} /\ Updates(r) /\ ~wrote[r] /\ cursor[r] = "rw"

Flushing(r) == pc[r] \in {"dispatch", "flush"} /\ Updates(r) /\ ~wrote[r]

\* The row lock is held by whoever wrote, until the end of its transaction.
RowFree(r) == \A s \in Request \ {r} : ~wrote[s]

\* The row is written: whoever has a snapshot without it and will write it too
\* has lost the race.
Beat ==
    [s \in Request |->
        \/ beaten[s]
        \/ /\ Running(s) /\ Updates(s) /\ cursor[s] = "rw"
           /\ pc[s] \notin {"begin", "handle_error"}]

Update(r) ==
    /\ Flushing(r)
    /\ cursor[r] = "rw" /\ RowFree(r) /\ ~beaten[r]
    /\ Does(r) \in {"write", "spoil"}
    /\ wrote' = [wrote EXCEPT ![r] = TRUE]
    /\ UNCHANGED <<db, pc, call, cursor, tries, snap, company, beaten, object, raised,
                   answer, covered>>

\* An IntegrityError: rolled back and raised as a validation error.
Constraint(r) ==
    /\ Flushing(r)
    /\ cursor[r] = "rw" /\ RowFree(r) /\ ~beaten[r]
    /\ Does(r) = "break"
    /\ Rollback(r)
    /\ Raise(r, "invalid")
    /\ UNCHANGED <<db, call, cursor, tries, object, answer, covered>>

\* Faulty: the same transaction goes on, and fails again.
RetryInPlace(r) == UNCHANGED vars

\* Faulty: one attempt too many.
RetryOnceMore(r) ==
    /\ Rollback(r)
    /\ IF tries[r] <= MaxTries
       THEN Goto(r, "begin") /\ UNCHANGED raised
       ELSE Raise(r, "error")
    /\ UNCHANGED <<db, call, cursor, tries, object, answer, covered>>

\* A concurrency failure: roll back and run again, or give up.
Retry(r) ==
    /\ Rollback(r)
    /\ IF tries[r] < MaxTries
       THEN Goto(r, "begin") /\ UNCHANGED raised
       ELSE Raise(r, "error")
    /\ UNCHANGED <<db, call, cursor, tries, object, answer, covered>>

Conflict(r) ==
    /\ Flushing(r)
    /\ cursor[r] = "rw" /\ RowFree(r) /\ beaten[r]
    /\ Retry(r)

\* ReadOnlySqlTransaction: all over again on a read/write cursor.
ReadOnlyFailure(r) ==
    /\ Rollback(r)
    /\ Goto(r, "begin")
    /\ cursor' = [cursor EXCEPT ![r] = "rw"]
    /\ tries' = [tries EXCEPT ![r] = 0]
    /\ UNCHANGED <<db, call, object, raised, answer, covered>>

UpdateReadOnly(r) ==
    /\ Flushing(r)
    /\ cursor[r] = "ro"
    /\ ReadOnlyFailure(r)

\* Committed and answered, unless the worker dies in between. What it found of
\* the custom endpoint is kept for the properties.
Commit(r) ==
    /\ pc[r] = "flush" /\ ~Flushing(r)
    /\ effects' = IF wrote[r]
                  THEN [effects EXCEPT ![r] = Append(@, company[r])]
                  ELSE effects
    /\ wrote' = [wrote EXCEPT ![r] = FALSE]
    /\ beaten' = IF wrote[r] THEN [Beat EXCEPT ![r] = FALSE]
                 ELSE [beaten EXCEPT ![r] = FALSE]
    /\ company' = [company EXCEPT ![r] = None]
    /\ snap' = [snap EXCEPT ![r] = [FullAuthority EXCEPT !.endpoint = snap[r].endpoint]]
    /\ \/ /\ Goto(r, "done")
          /\ answer' = [answer EXCEPT ![r] = [status |-> "ok", id |-> object[r].id]]
       \/ Goto(r, "lost") /\ UNCHANGED answer
    /\ UNCHANGED <<changes, authority, replica, log, logged, call, cursor, tries, object,
                   raised, covered>>

\* Faulty: what the attempt wrote is committed with its error.
HandleErrorCommitting(r) ==
    /\ pc[r] = "handle_error"
    /\ Rollback(r)
    /\ raised' = [raised EXCEPT ![r] = "none"]
    /\ effects' = IF wrote[r] THEN [effects EXCEPT ![r] = Append(@, company[r])] ELSE effects
    /\ Goto(r, "done")
    /\ LET o == EnsureRequestId(object[r]) IN
        /\ object' = [object EXCEPT ![r] = o]
        /\ WriteLog(r, raised[r], o)
        /\ answer' = [answer EXCEPT ![r] = [status |-> raised[r], id |-> o.id]]
    /\ UNCHANGED <<changes, authority, replica, call, cursor, tries, covered>>

\* Faulty: the row is built from a new request object.
HandleErrorAfresh(r) ==
    /\ pc[r] = "handle_error"
    /\ Rollback(r)
    /\ raised' = [raised EXCEPT ![r] = "none"]
    /\ LET o == EnsureRequestId(object[r]) IN
        /\ object' = [object EXCEPT ![r] = o]
        /\ WriteLog(r, raised[r], [Fresh EXCEPT !.id = o.id])
        /\ \/ /\ Goto(r, "done")
              /\ answer' = [answer EXCEPT ![r] = [status |-> raised[r], id |-> o.id]]
           \/ Goto(r, "lost") /\ UNCHANGED answer
    /\ UNCHANGED <<changes, authority, replica, effects, call, cursor, tries, covered>>

\* Faulty: the error is not logged.
HandleErrorUnlogged(r) ==
    /\ pc[r] = "handle_error"
    /\ Rollback(r)
    /\ raised' = [raised EXCEPT ![r] = "none"]
    /\ Goto(r, "done")
    /\ LET o == EnsureRequestId(object[r]) IN
        /\ object' = [object EXCEPT ![r] = o]
        /\ answer' = [answer EXCEPT ![r] = [status |-> raised[r], id |-> o.id]]
    /\ UNCHANGED <<db, call, cursor, tries, covered>>

\* The last exception becomes the envelope, and a row of the log; then the
\* cursor is closed.
HandleError(r) ==
    /\ pc[r] = "handle_error"
    /\ Rollback(r)
    /\ raised' = [raised EXCEPT ![r] = "none"]
    /\ LET o == EnsureRequestId(object[r]) IN
        /\ object' = [object EXCEPT ![r] = o]
        /\ WriteLog(r, raised[r], o)
        /\ \/ /\ Goto(r, "done")
              /\ answer' = [answer EXCEPT ![r] = [status |-> raised[r], id |-> o.id]]
           \/ Goto(r, "lost") /\ UNCHANGED answer
    /\ UNCHANGED <<changes, authority, replica, effects, call, cursor, tries, covered>>

\* The worker dies: its transaction is rolled back, nobody is answered.
Crash(r) ==
    /\ Running(r)
    /\ Goto(r, "lost")
    /\ Rollback(r)
    /\ raised' = [raised EXCEPT ![r] = "none"]
    /\ UNCHANGED <<db, call, cursor, tries, object, answer, covered>>

----------------------------------------------------------------------------
(* What happens beside the requests *)

\* An administrator changes what the caller may do or the custom endpoint; a
\* user's companies always include their own.
Administer ==
    /\ changes < MaxChanges
    /\ changes' = changes + 1
    /\ \/ authority' = [authority EXCEPT !.key = ~@]
       \/ authority' = [authority EXCEPT !.profile = ~@]
       \/ \E cs \in SUBSET Company :
            DefaultCompany \in cs /\ authority' = [authority EXCEPT !.companies = cs]
       \/ \E e \in EndpointRow : authority' = [authority EXCEPT !.endpoint = e]
    /\ covered' = [r \in Request |->
                     covered[r] \/ (Running(r) /\ Suffices(authority', call[r]))]
    /\ UNCHANGED <<replica, effects, log, logged, pc, call, cursor, attempt, object,
                   raised, answer>>

\* Somebody at the user interface, or a cron job, updates the shared record.
UpdateOutside ==
    /\ \A r \in Request : ~wrote[r]
    /\ beaten' = Beat
    /\ UNCHANGED <<db, pc, call, cursor, tries, snap, company, wrote, object, raised,
                   answer, covered>>

Replicate ==
    /\ replica' = authority
    /\ UNCHANGED <<changes, authority, effects, log, logged, pc, call, cursor, attempt, object,
                   raised, answer, covered>>

RequestStep(r) ==
    \/ Begin(r) \/ Authenticate(r) \/ PreDispatch(r) \/ ResolveCompany(r)
    \/ Dispatch(r) \/ PostDispatch(r)
    \/ Update(r) \/ Constraint(r) \/ Conflict(r) \/ UpdateReadOnly(r)
    \/ Commit(r) \/ HandleError(r)

Next ==
    \/ \E r \in Request : Arrive(r) \/ RequestStep(r) \/ Crash(r)
    \/ Administer \/ UpdateOutside \/ Replicate

Spec == Init /\ [][Next]_vars

\* A request thread that can run does run; nobody promises that a caller
\* arrives, a worker dies, an administrator acts or the replica catches up.
FairSpec == Spec /\ \A r \in Request : WF_vars(RequestStep(r))

----------------------------------------------------------------------------
(* Properties *)

TypeOK ==
    /\ changes \in 0 .. MaxChanges
    /\ {authority, replica} \subseteq Authority
    /\ effects \in [Request -> Seq(Company)]
    /\ log \in [Request -> Seq([status : Status, id : Nat, auth : BOOLEAN,
                                rule : BOOLEAN])]
    /\ logged \in [Request -> BOOLEAN]
    /\ pc \in [Request -> {"idle", "begin", "authenticate", "pre_dispatch",
                           "resolve_company", "dispatch", "post_dispatch", "flush",
                           "handle_error", "done", "lost"}]
    /\ call \in [Request -> Call \cup {NoCall}]
    /\ cursor \in [Request -> {"ro", "rw"}]
    /\ tries \in [Request -> 0 .. MaxTries]
    /\ snap \in [Request -> Authority]
    /\ company \in [Request -> Company \cup {None}]
    /\ {wrote, beaten, covered} \subseteq [Request -> BOOLEAN]
    /\ object \in [Request -> [id : Nat, auth : BOOLEAN, rule : BOOLEAN]]
    /\ raised \in [Request -> Status \cup {"none"}]
    /\ answer \in [Request -> [status : Status \cup {"none"}, id : Nat]]

\* A request's updates are committed once if it is told of a success and not at
\* all if it is told of an error, through retries and the change of its cursor.
AnswerTellsEffect ==
    \A r \in Request :
        /\ Len(effects[r]) <= 1
        /\ answer[r].status = "ok" /\ Updates(r) => effects[r] # <<>>
        /\ answer[r].status \notin {"ok", "none"} => effects[r] = <<>>

\* Whatever the primary did for a request, there was one moment since its last
\* attempt began at which its credential, its profiles, its company and the
\* custom endpoint it called all let it through: nothing an earlier attempt or the replica found vouches for it.
ServedUnderOneAuthority ==
    \A r \in Request :
        /\ effects[r] # <<>> =>
             covered[r] /\ effects[r][1] = CompanyOf(call[r])
        /\ answer[r].status = "ok" /\ cursor[r] = "rw" => covered[r]

\* Unless it could not be written, the last row of a request's log tells what
\* the client was told; any row before it is the success of an attempt that was
\* rolled back.
LogTellsAnswer ==
    \A r \in Request : answer[r].status # "none" =>
        /\ logged[r] =>
             /\ log[r] # <<>>
             /\ log[r][Len(log[r])].status = answer[r].status
        /\ \A i \in 1 .. Len(log[r]) - 1 : log[r][i].status = "ok"

\* One request id runs through every row of a request's log and its answer,
\* though each attempt and the error handler ask for it again.
OneRequestId ==
    \A r \in Request :
        /\ \A i \in DOMAIN log[r] : log[r][i].id = object[r].id
        /\ answer[r].status # "none" => answer[r].id = object[r].id /\ answer[r].id # 0

\* A row names the scheme and the route of its request as soon as any attempt got
\* that far, though rows are built from what attempts left on the request object.
\* A row without the route is the request's only one, and tells of a refusal by
\* the profile or of an authentication that failed; one without the scheme, of
\* the latter. A public route's row names no scheme.
RowsNameTheirRequest ==
    \A r \in Request : \A i \in DOMAIN log[r] :
        LET row == log[r][i]
            protected == call[r].route.auth = "ssi_rest"
        IN
        /\ row.auth => protected
        /\ protected /\ ~row.auth => ~row.rule /\ row.status \in AuthFailure
        /\ ~row.rule =>
             /\ Len(log[r]) = 1
             /\ row.status = "denied" \/ (protected /\ row.status \in AuthFailure)

\* Every request is answered, unless its worker dies.
Answered == \A r \in Request : pc[r] = "begin" ~> pc[r] \in {"done", "lost"}

\* "the only two points every ssi_rest request passes through exactly once ...
\* even under service_model.retrying" (the log dispatcher's docstring): a
\* request that was answered has one row at most.
OneRowPerAnswer ==
    \A r \in Request : answer[r].status # "none" => Len(log[r]) <= 1

====

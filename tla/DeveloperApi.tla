------------------------------ MODULE DeveloperApi ------------------------------
(***************************************************************************)
(* The developer console and the public /v1 API of                         *)
(* apps/edge/src/developer-api.ts.  Requests run concurrently, each in an  *)
(* isolate of its own; every SQL statement is a step.  A job is named by   *)
(* the demo it analyses, as its idempotency key upload:<sha256> is.        *)
(***************************************************************************)
EXTENDS Naturals, FiniteSets

CONSTANTS
    Accounts,    \* account ids
    Emails,
    Tokens,      \* session tokens
    Keys,        \* API keys
    Grants,      \* upload ids
    Demos,
    Requests,    \* concurrent requests
    Days,        \* UTC days 1..n that the model lives through
    None,        \* no row yet
    Gone,        \* the row was deleted; identifiers are never issued again
    DayLimit,    \* DAY_LIMIT, 100 in the code
    KeyLimit,    \* five active keys
    AuthLimit,   \* ten attempts in ten minutes
    BatchLimit,  \* ten demos in a batch
    RequestCap   \* bound: requests made

ASSUME DeveloperAssumption ==
    /\ IsFiniteSet(Keys) /\ IsFiniteSet(Requests)
    /\ {None, Gone} \cap (Accounts \cup Emails \cup Tokens \cup Keys \cup Grants \cup Demos) = {}
    /\ None # Gone
    /\ DayLimit \in Nat \ {0} /\ KeyLimit \in Nat \ {0}
    /\ AuthLimit \in Nat /\ BatchLimit \in Nat /\ RequestCap \in Nat /\ 1 \in Days

VARIABLES
    email,      \* developer_accounts: the address of each account
    session,    \* developer_sessions: the account of each token
    key,        \* developer_api_keys: the account of each key
    revoked,    \* keys with revoked_at
    usage,      \* developer_daily_usage
    grant,      \* developer_upload_grants
    attempts,   \* developer_auth_limits, within the current window
    jobs,       \* hosted jobs, by the demo they analyse
    day,        \* today
    req,        \* where each request is, and what it knows
    requests,   \* requests made
    served,     \* history: requests admitted for an account on a day
    leaving     \* history: accounts whose removal has begun

tables == <<email, session, key, revoked, usage, grant, attempts>>
history == <<served, leaving>>
vars == <<tables, jobs, day, req, requests, history>>

-----------------------------------------------------------------------------
(* Values *)

Vacant == [account |-> None, demo |-> None, live |-> FALSE, job |-> None]
Deleted == [Vacant EXCEPT !.account = Gone]
Grant == [account : Accounts \cup {None, Gone}, demo : Demos \cup {None},
          live : BOOLEAN, job : Demos \cup {None}]

Pc == {"idle", "limit", "insertAccount", "findAccount", "createSession",
       "authenticate", "purge", "removeAccount", "countKeys", "insertKey",
       "revoke", "findKey", "consume", "dispatch", "addGrants", "findGrant",
       "upload", "fixGrant", "findJob", "log"}
Kind == {"none", "register", "login", "remove", "create", "revoke",
         "batch", "put", "get"}
Argument == {None} \cup Emails \cup Keys \cup Tokens \cup Demos

Fresh == [pc |-> "idle", kind |-> "none", account |-> None, with |-> None,
          demo |-> None, grant |-> None, left |-> 0]

DeveloperTypeOK ==
    /\ email \in [Accounts -> Emails \cup {None, Gone}]
    /\ session \in [Tokens -> Accounts \cup {None, Gone}]
    /\ key \in [Keys -> Accounts \cup {None, Gone}]
    /\ revoked \subseteq Keys
    /\ usage \in [Accounts \X Days -> 0..DayLimit]
    /\ grant \in [Grants -> Grant]
    /\ attempts \in [Emails -> Nat]
    /\ jobs \subseteq Demos
    /\ day \in Days
    /\ req \in [Requests -> [pc : Pc, kind : Kind, account : Accounts \cup {None},
                             with : Argument, demo : Demos \cup {None},
                             grant : Grants \cup {None}, left : Nat]]
    /\ requests \in Nat
    /\ served \in [Accounts \X Days -> Nat]
    /\ leaving \subseteq Accounts

Init ==
    /\ email = [a \in Accounts |-> None]
    /\ session = [t \in Tokens |-> None]
    /\ key = [k \in Keys |-> None]
    /\ revoked = {}
    /\ usage = [u \in Accounts \X Days |-> 0]
    /\ grant = [g \in Grants |-> Vacant]
    /\ attempts = [e \in Emails |-> 0]
    /\ jobs = {}
    /\ day = 1
    /\ req = [r \in Requests |-> Fresh]
    /\ requests = 0
    /\ served = [u \in Accounts \X Days |-> 0] /\ leaving = {}

-----------------------------------------------------------------------------
(* Steps of a request *)

At(r, place) == req[r].pc = place
To(r, place) == req' = [req EXCEPT ![r].pc = place]
Respond(r) == req' = [req EXCEPT ![r] = Fresh]

Exists(a) == email[a] \in Emails
Active(a) == {k \in Keys : key[k] = a /\ k \notin revoked}

\* FOREIGN KEY(account_id): an insert for an account that is gone throws.
Belongs(a) == a \in Accounts /\ Exists(a)

Arrive(r, kind, with, place) ==
    /\ At(r, "idle")
    /\ requests < RequestCap
    /\ requests' = requests + 1
    /\ req' = [req EXCEPT ![r] = [Fresh EXCEPT !.pc = place, !.kind = kind, !.with = with]]
    /\ UNCHANGED <<tables, jobs, day, history>>

(* Registration and login *)

\* allowAuthentication: one upsert counts the attempt and reads the count.
CountAttempt(r) ==
    /\ At(r, "limit")
    /\ attempts' = [attempts EXCEPT ![req[r].with] = @ + 1]
    /\ IF attempts[req[r].with] + 1 > AuthLimit
       THEN Respond(r)
       ELSE To(r, IF req[r].kind = "register" THEN "insertAccount" ELSE "findAccount")
    /\ UNCHANGED <<email, session, key, revoked, usage, grant, jobs, day, requests, history>>

\* email is UNIQUE: the second registration answers 409.
InsertAccount(r, a) ==
    /\ At(r, "insertAccount")
    /\ email[a] = None
    /\ IF \E b \in Accounts : email[b] = req[r].with
       THEN Respond(r) /\ UNCHANGED email
       ELSE /\ email' = [email EXCEPT ![a] = req[r].with]
            /\ req' = [req EXCEPT ![r].pc = "createSession", ![r].account = a]
    /\ UNCHANGED <<session, key, revoked, usage, grant, attempts, jobs, day, requests, history>>

\* The password matches, or the answer is 401.
FindAccount(r) ==
    /\ At(r, "findAccount")
    /\ \/ Respond(r)
       \/ \E a \in Accounts :
            /\ email[a] = req[r].with
            /\ req' = [req EXCEPT ![r].pc = "createSession", ![r].account = a]
    /\ UNCHANGED <<tables, jobs, day, requests, history>>

CreateSession(r, t) ==
    /\ At(r, "createSession")
    /\ session[t] = None
    /\ session' = IF Belongs(req[r].account)
                  THEN [session EXCEPT ![t] = req[r].account] ELSE session
    /\ Respond(r)
    /\ UNCHANGED <<email, key, revoked, usage, grant, attempts, jobs, day, requests, history>>

\* Logout deletes the row; a session also ends when it expires.
EndSession(t) ==
    /\ session[t] \in Accounts
    /\ session' = [session EXCEPT ![t] = Gone]
    /\ UNCHANGED <<email, key, revoked, usage, grant, attempts, jobs, day, req, requests, history>>

(* Console requests *)

\* sessionAccount: the account is known to the request from here on.
Authenticate(r, t) ==
    /\ At(r, "authenticate")
    /\ IF session[t] \notin Accounts
       THEN Respond(r)
       ELSE req' = [req EXCEPT ![r].account = session[t],
                    ![r].pc = CASE req[r].kind = "remove" -> "purge"
                                [] req[r].kind = "create" -> "countKeys"
                                [] OTHER -> "revoke"]
    /\ UNCHANGED <<tables, jobs, day, requests, history>>

\* The batch that removes an account's rows in five tables.
PurgeAccount(r) ==
    /\ At(r, "purge")
    /\ LET a == req[r].account IN
       /\ grant' = [g \in Grants |-> IF grant[g].account = a THEN Deleted ELSE grant[g]]
       /\ usage' = [u \in Accounts \X Days |-> IF u[1] = a THEN 0 ELSE usage[u]]
       /\ key' = [k \in Keys |-> IF key[k] = a THEN Gone ELSE key[k]]
       /\ session' = [t \in Tokens |-> IF session[t] = a THEN Gone ELSE session[t]]
       /\ leaving' = leaving \cup {a}
    /\ To(r, "removeAccount")
    /\ UNCHANGED <<email, revoked, attempts, jobs, day, requests, served>>

\* A statement of its own; ON DELETE CASCADE takes sessions and keys along.
RemoveAccount(r) ==
    /\ At(r, "removeAccount")
    /\ LET a == req[r].account IN
       /\ email' = [email EXCEPT ![a] = Gone]
       /\ key' = [k \in Keys |-> IF key[k] = a THEN Gone ELSE key[k]]
       /\ session' = [t \in Tokens |-> IF session[t] = a THEN Gone ELSE session[t]]
    /\ Respond(r)
    /\ UNCHANGED <<revoked, usage, grant, attempts, jobs, day, requests, history>>

CountKeysLate(r) ==
    /\ At(r, "countKeys")
    /\ IF Cardinality(Active(req[r].account)) > KeyLimit
       THEN Respond(r) ELSE To(r, "insertKey")
    /\ UNCHANGED <<tables, jobs, day, requests, history>>

CountKeys(r) ==
    /\ At(r, "countKeys")
    /\ IF Cardinality(Active(req[r].account)) >= KeyLimit
       THEN Respond(r) ELSE To(r, "insertKey")
    /\ UNCHANGED <<tables, jobs, day, requests, history>>

InsertKeyUnowned(r, k) ==
    /\ At(r, "insertKey")
    /\ key[k] = None
    /\ key' = [key EXCEPT ![k] = req[r].account]
    /\ Respond(r)
    /\ UNCHANGED <<email, session, revoked, usage, grant, attempts, jobs, day, requests, history>>

InsertKey(r, k) ==
    /\ At(r, "insertKey")
    /\ key[k] = None
    /\ key' = IF Belongs(req[r].account) THEN [key EXCEPT ![k] = req[r].account] ELSE key
    /\ Respond(r)
    /\ UNCHANGED <<email, session, revoked, usage, grant, attempts, jobs, day, requests, history>>

RevokeKey(r, k) ==
    /\ At(r, "revoke")
    /\ revoked' = IF key[k] = req[r].account THEN revoked \cup {k} ELSE revoked
    /\ Respond(r)
    /\ UNCHANGED <<email, session, key, usage, grant, attempts, jobs, day, requests, history>>

-----------------------------------------------------------------------------
(* /v1 *)

\* apiAccount; last_used_at is left out.
FindKey(r, k) ==
    /\ At(r, "findKey")
    /\ IF key[k] \notin Accounts \/ k \in revoked
       THEN Respond(r)
       ELSE req' = [req EXCEPT ![r].pc = "consume", ![r].account = key[k]]
    /\ UNCHANGED <<tables, jobs, day, requests, history>>

\* The upsert of consume: WHERE requests < DAY_LIMIT.
QuotaLeftOffByOne(count) == count <= DayLimit
QuotaLeft(count) == count < DayLimit

ConsumeQuota(r) ==
    /\ At(r, "consume")
    /\ LET u == <<req[r].account, day>> IN
       IF QuotaLeft(usage[u])
       THEN /\ usage' = [usage EXCEPT ![u] = @ + 1]
            /\ served' = [served EXCEPT ![u] = @ + 1]
            /\ To(r, "dispatch")
       ELSE /\ UNCHANGED <<usage, served>>
            /\ To(r, "log")
    /\ UNCHANGED <<email, session, key, revoked, grant, attempts, jobs, day,
                   requests, leaving>>

Dispatch(r, n) ==
    /\ At(r, "dispatch")
    /\ n \in 1..BatchLimit
    /\ req' = [req EXCEPT ![r].left = n,
                          ![r].pc = CASE req[r].kind = "batch" -> "addGrants"
                                      [] req[r].kind = "put" -> "findGrant"
                                      [] OTHER -> "findJob"]
    /\ UNCHANGED <<tables, jobs, day, requests, history>>

\* One INSERT for each demo of the batch.  The table has no foreign key.
AddGrant(r, g, d) ==
    /\ At(r, "addGrants")
    /\ grant[g] = Vacant
    /\ grant' = [grant EXCEPT ![g] = [account |-> req[r].account, demo |-> d,
                                      live |-> TRUE, job |-> None]]
    /\ req' = [req EXCEPT ![r].left = @ - 1,
                          ![r].pc = IF req[r].left = 1 THEN "log" ELSE "addGrants"]
    /\ UNCHANGED <<email, session, key, revoked, usage, attempts, jobs, day, requests, history>>

\* Fifteen minutes pass.
ExpireGrant(g) ==
    /\ grant[g].live
    /\ grant' = [grant EXCEPT ![g].live = FALSE]
    /\ UNCHANGED <<email, session, key, revoked, usage, attempts, jobs, day, req, requests, history>>

\* The grant is the caller's, live and unused, and the headers are those it fixed.
Usable(g, a, d) ==
    grant[g].account = a /\ grant[g].live /\ grant[g].job = None /\ grant[g].demo = d

FindGrant(r, g, d) ==
    /\ At(r, "findGrant")
    /\ req' = [req EXCEPT ![r].grant = g, ![r].demo = d,
                          ![r].pc = IF Usable(g, req[r].account, d) THEN "upload" ELSE "log"]
    /\ UNCHANGED <<tables, jobs, day, requests, history>>

\* performUpload answers with a job, or without one.
Upload(r) ==
    /\ At(r, "upload")
    /\ \/ /\ jobs' = jobs \cup {req[r].demo}
          /\ To(r, "fixGrant")
       \/ To(r, "log") /\ UNCHANGED jobs
    /\ UNCHANGED <<tables, day, requests, history>>

FixGrant(r) ==
    /\ At(r, "fixGrant")
    /\ grant' = IF grant[req[r].grant] = Deleted THEN grant
                ELSE [grant EXCEPT ![req[r].grant].job = req[r].demo]
    /\ To(r, "log")
    /\ UNCHANGED <<email, session, key, revoked, usage, attempts, jobs, day, requests, history>>

\* The state of a job created under a grant of the account is read.
FindJob(r) ==
    /\ At(r, "findJob")
    /\ To(r, "log")
    /\ UNCHANGED <<tables, jobs, day, requests, history>>

\* The request log cannot fail a request.
Log(r) ==
    /\ At(r, "log")
    /\ Respond(r)
    /\ UNCHANGED <<tables, jobs, day, requests, history>>

-----------------------------------------------------------------------------
\* A statement throws, the client goes, or the isolate dies.
Interrupt(r) ==
    /\ ~At(r, "idle")
    /\ Respond(r)
    /\ UNCHANGED <<tables, jobs, day, requests, history>>

NextDay ==
    /\ day + 1 \in Days
    /\ day' = day + 1
    /\ UNCHANGED <<tables, jobs, req, requests, history>>

\* Ten minutes after the first attempt a new window begins.
NewWindow(e) ==
    /\ attempts[e] > 0
    /\ attempts' = [attempts EXCEPT ![e] = 0]
    /\ UNCHANGED <<email, session, key, revoked, usage, grant, jobs, day, req, requests, history>>

Console(r) ==
    \/ CountAttempt(r)
    \/ \E a \in Accounts : InsertAccount(r, a)
    \/ FindAccount(r)
    \/ \E t \in Tokens : CreateSession(r, t)
    \/ Authenticate(r, req[r].with)
    \/ PurgeAccount(r) \/ RemoveAccount(r) \/ CountKeys(r)
    \/ \E k \in Keys : InsertKey(r, k) \/ RevokeKey(r, k)

Api(r) ==
    \/ FindKey(r, req[r].with) \/ ConsumeQuota(r)
    \/ \E n \in 1..BatchLimit : Dispatch(r, n)
    \/ \E g \in Grants, d \in Demos : AddGrant(r, g, d) \/ FindGrant(r, g, d)
    \/ Upload(r) \/ FixGrant(r)
    \/ FindJob(r) \/ Log(r)

Next ==
    \/ \E r \in Requests :
        \/ \E e \in Emails, kind \in {"register", "login"} : Arrive(r, kind, e, "limit")
        \/ \E t \in Tokens, kind \in {"remove", "create", "revoke"} :
              Arrive(r, kind, t, "authenticate")
        \/ \E k \in Keys, kind \in {"batch", "put", "get"} : Arrive(r, kind, k, "findKey")
        \/ Console(r) \/ Api(r) \/ Interrupt(r)
    \/ \E t \in Tokens : EndSession(t)
    \/ \E g \in Grants : ExpireGrant(g)
    \/ \E e \in Emails : NewWindow(e)
    \/ NextDay

Spec == Init /\ [][Next]_vars

-----------------------------------------------------------------------------
(* Properties *)

\* "Enforce 100 authenticated API requests per UTC day": whatever runs
\* concurrently, an account is never served more, until its removal begins
\* (the first call forgets the usage; the account may still be there).
QuotaHolds ==
    \A a \in Accounts \ leaving, d \in Days : served[<<a, d>>] <= DayLimit

\* No session or key outlives its account, although the removal is two calls
\* and console requests of the account may be under way.
CredentialsEndWithAccount ==
    /\ \A k \in Keys : key[k] \in Accounts => Exists(key[k])
    /\ \A t \in Tokens : session[t] \in Accounts => Exists(session[t])

\* Count and insert are two calls: each concurrent request may add one key too
\* many, but no more than that.
KeysNearlyBounded ==
    \A a \in Accounts : Cardinality(Active(a)) <= KeyLimit + Cardinality(Requests) - 1
=============================================================================

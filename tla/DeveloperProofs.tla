----------------------------- MODULE DeveloperProofs -----------------------------
(***************************************************************************)
(* The quota, the credentials and the number of keys of an account, for    *)
(* any number of accounts, keys and concurrent requests.                   *)
(***************************************************************************)
EXTENDS DeveloperApi, FiniteSetTheorems, TLAPS

\* What a request knows at the places where it uses it.
Placed ==
    \A r \in Requests :
        /\ req[r].pc \in {"limit", "insertAccount", "findAccount"} => req[r].with \in Emails
        /\ req[r].pc = "addGrants" => req[r].left # 0
        /\ req[r].pc = "upload" => req[r].demo \in Demos
        /\ req[r].pc = "purge" => req[r].account \in Accounts

\* Until an account's removal begins, its usage is what it was served.
UsageIsServed ==
    \A a \in Accounts \ leaving, d \in Days : served[<<a, d>>] = usage[<<a, d>>]

\* Requests that counted the keys of an account and have yet to insert one.
Inserting(a) == {r \in Requests : req[r].pc = "insertKey" /\ req[r].account = a}

KeysAndInserts ==
    \A a \in Accounts :
        Cardinality(Active(a)) + Cardinality(Inserting(a)) <= KeyLimit + Cardinality(Requests) - 1

TypeInv == DeveloperTypeOK /\ Placed

-----------------------------------------------------------------------------
(* Types *)

Request == [pc : Pc, kind : Kind, account : Accounts \cup {None}, with : Argument,
            demo : Demos \cup {None}, grant : Grants \cup {None}, left : Nat]

LEMMA FreshIsRequest == Fresh \in Request
BY DEF Fresh, Request, Pc, Kind, Argument

\* A request that answers, or goes to a place where it needs to know nothing.
LEMMA Moves ==
  ASSUME TypeInv, NEW r \in Requests, NEW place \in Pc,
         place \notin {"limit", "insertAccount", "findAccount", "addGrants", "upload", "purge"},
         Respond(r) \/ To(r, place)
  PROVE  req' \in [Requests -> Request] /\ Placed'
<1> req \in [Requests -> Request]
  BY DEF TypeInv, DeveloperTypeOK, Request
<1>1. CASE Respond(r)
  BY <1>1, FreshIsRequest DEF Respond, TypeInv, Placed, Fresh
<1>2. CASE To(r, place)
  <2>1. req' \in [Requests -> Request]
    BY <1>2 DEF To, Request
  <2>2. \A q \in Requests : /\ req'[q].with = req[q].with /\ req'[q].left = req[q].left
                            /\ req'[q].demo = req[q].demo /\ req'[q].account = req[q].account
                            /\ req'[q].pc = IF q = r THEN place ELSE req[q].pc
    BY <1>2 DEF To, Request
  <2> QED BY <2>1, <2>2 DEF TypeInv, Placed
<1> QED BY <1>1, <1>2

\* A request whose record is replaced by one that knows what its place needs.
LEMMA Becomes ==
  ASSUME TypeInv, NEW r \in Requests, NEW n \in Request, req' = [req EXCEPT ![r] = n],
         n.pc \in {"limit", "insertAccount", "findAccount"} => n.with \in Emails,
         n.pc = "addGrants" => n.left # 0, n.pc = "upload" => n.demo \in Demos,
         n.pc = "purge" => n.account \in Accounts
  PROVE  req' \in [Requests -> Request] /\ Placed'
<1>1. req' \in [Requests -> Request]
  BY DEF TypeInv, DeveloperTypeOK, Request
<1>2. \A q \in Requests : req'[q] = IF q = r THEN n ELSE req[q]
  BY DEF TypeInv, DeveloperTypeOK
<1> QED BY <1>1, <1>2 DEF TypeInv, Placed

\* The parts of the type invariant apart from the requests.
TablesOK ==
    /\ email \in [Accounts -> Emails \cup {None, Gone}]
    /\ session \in [Tokens -> Accounts \cup {None, Gone}]
    /\ key \in [Keys -> Accounts \cup {None, Gone}]
    /\ revoked \subseteq Keys
    /\ usage \in [Accounts \X Days -> 0..DayLimit]
    /\ grant \in [Grants -> Grant]
    /\ attempts \in [Emails -> Nat]
    /\ jobs \subseteq Demos /\ day \in Days
    /\ requests \in Nat
    /\ served \in [Accounts \X Days -> Nat]
    /\ leaving \subseteq Accounts

LEMMA TypeSplit == DeveloperTypeOK <=> TablesOK /\ req \in [Requests -> Request]
BY DEF DeveloperTypeOK, TablesOK, Request

LEMMA TypeSplitNext == DeveloperTypeOK' <=> TablesOK' /\ req' \in [Requests -> Request]
BY DEF DeveloperTypeOK, TablesOK, Request

LEMMA InitIsTyped == Init => TypeInv
BY FreshIsRequest, TypeSplit, DeveloperAssumption
   DEF Init, TypeInv, TablesOK, Placed, Fresh, Vacant, Grant

LEMMA ConsoleIsTyped ==
  ASSUME TypeInv, NEW r \in Requests, Console(r)
  PROVE  TypeInv'
<1> USE TypeSplit, TypeSplitNext
<1>1. CASE CountAttempt(r)
  <2>1. req[r].with \in Emails
    BY <1>1 DEF CountAttempt, At, TypeInv, Placed
  <2>2. TablesOK'
    BY <1>1, <2>1 DEF CountAttempt, TypeInv, TablesOK, history
  <2>3. Respond(r) \/ To(r, "findAccount") \/ To(r, "insertAccount")
    BY <1>1 DEF CountAttempt
  <2>4. CASE Respond(r)
    BY <2>2, <2>4, Moves DEF TypeInv, Pc
  <2>5. CASE To(r, "findAccount") \/ To(r, "insertAccount")
    BY <2>1, <2>2, <2>5 DEF TypeInv, To, Request, Placed, Pc
  <2> QED BY <2>3, <2>4, <2>5
<1>2. ASSUME NEW a \in Accounts, InsertAccount(r, a) PROVE TypeInv'
  <2>1. req[r].with \in Emails
    BY <1>2 DEF InsertAccount, At, TypeInv, Placed
  <2>2. TablesOK'
    BY <1>2, <2>1 DEF InsertAccount, TypeInv, TablesOK, history
  <2>3. CASE Respond(r)
    BY <2>2, <2>3, Moves DEF TypeInv, Pc
  <2>4. CASE ~Respond(r)
    BY <1>2, <2>2, <2>4 DEF InsertAccount, TypeInv, Request, Placed, Pc
  <2> QED BY <2>3, <2>4
<1>3. CASE FindAccount(r)
  <2>2. TablesOK'
    BY <1>3 DEF FindAccount, TypeInv, TablesOK, history, tables
  <2>3. CASE Respond(r)
    BY <2>2, <2>3, Moves DEF TypeInv, Pc
  <2>4. CASE ~Respond(r)
    BY <1>3, <2>2, <2>4 DEF FindAccount, TypeInv, Request, Placed, Pc
  <2> QED BY <2>3, <2>4
<1>4. ASSUME NEW t \in Tokens, CreateSession(r, t) PROVE TypeInv'
  <2>1. TablesOK' /\ Respond(r)
    BY <1>4 DEF CreateSession, Belongs, TypeInv, TablesOK, history
  <2> QED BY <2>1, Moves DEF TypeInv, Pc
<1>5. CASE Authenticate(r, req[r].with)
  <2>2. TablesOK'
    BY <1>5 DEF Authenticate, TypeInv, TablesOK, history, tables
  <2>3. CASE Respond(r)
    BY <2>2, <2>3, Moves DEF TypeInv, Pc
  <2>4. CASE ~Respond(r)
    BY <1>5, <2>2, <2>4 DEF Authenticate, TypeInv, Request, Placed, Pc
  <2> QED BY <2>3, <2>4
<1>6. CASE PurgeAccount(r)
  <2>1. To(r, "removeAccount")
    BY <1>6 DEF PurgeAccount
  <2>2. req[r].account \in Accounts \cup {None} /\ Deleted \in Grant
    BY DEF TypeInv, Request, Deleted, Vacant, Grant
  <2>3. grant' \in [Grants -> Grant]
    BY <1>6, <2>2 DEF PurgeAccount, TypeInv, TablesOK
  <2>5. usage' \in [Accounts \X Days -> 0..DayLimit]
    <3>1. usage \in [Accounts \X Days -> 0..DayLimit] /\ 0 \in 0..DayLimit
      BY DeveloperAssumption DEF TypeInv, TablesOK
    <3>2. usage' = [u \in Accounts \X Days |-> IF u[1] = req[r].account THEN 0 ELSE usage[u]]
      BY <1>6 DEF PurgeAccount
    <3>3. ASSUME NEW u \in Accounts \X Days PROVE usage'[u] \in 0..DayLimit
      BY <3>1, <3>2 DEF TypeInv
    <3> QED BY <3>2, <3>3
  <2>6. req[r].account \in Accounts
    BY <1>6 DEF PurgeAccount, At, TypeInv, Placed
  <2>4. TablesOK'
    BY <1>6, <2>6, <2>3, <2>5 DEF PurgeAccount, TypeInv, TablesOK
  <2> QED BY <2>1, <2>4, Moves DEF TypeInv, Pc
<1>7. CASE RemoveAccount(r)
  <2>1. TablesOK' /\ Respond(r)
    BY <1>7 DEF RemoveAccount, TypeInv, TablesOK, history
  <2> QED BY <2>1, Moves DEF TypeInv, Pc
<1>8. CASE CountKeys(r)
  <2>1. TablesOK' /\ (Respond(r) \/ To(r, "insertKey"))
    BY <1>8 DEF CountKeys, TypeInv, TablesOK, history, tables
  <2> QED BY <2>1, Moves DEF TypeInv, Pc
<1>9. ASSUME NEW k \in Keys, InsertKey(r, k) \/ RevokeKey(r, k) PROVE TypeInv'
  <2>1. TablesOK' /\ Respond(r)
    BY <1>9 DEF InsertKey, RevokeKey, Belongs, TypeInv, TablesOK, history
  <2> QED BY <2>1, Moves DEF TypeInv, Pc
<1> QED BY <1>1, <1>2, <1>3, <1>4, <1>5, <1>6, <1>7, <1>8, <1>9 DEF Console

LEMMA ApiIsTyped ==
  ASSUME TypeInv, NEW r \in Requests, Api(r)
  PROVE  TypeInv'
<1> USE TypeSplit, TypeSplitNext
<1>1. CASE FindKey(r, req[r].with)
  <2>2. TablesOK'
    BY <1>1 DEF FindKey, TypeInv, TablesOK, history, tables
  <2>3. CASE Respond(r)
    BY <2>2, <2>3, Moves DEF TypeInv, Pc
  <2>4. CASE ~Respond(r)
    BY <1>1, <2>2, <2>4 DEF FindKey, TypeInv, Request, Placed, Pc
  <2> QED BY <2>3, <2>4
<1>2. CASE ConsumeQuota(r)
  <2>1. To(r, "dispatch") \/ To(r, "log")
    BY <1>2 DEF ConsumeQuota
  <2> DEFINE u == <<req[r].account, day>>
  <2>2. usage' \in [Accounts \X Days -> 0..DayLimit] /\ served' \in [Accounts \X Days -> Nat]
    <3>1. CASE UNCHANGED <<usage, served>>
      BY <3>1 DEF TypeInv, TablesOK
    <3>2. CASE /\ usage[u] < DayLimit
               /\ usage' = [usage EXCEPT ![u] = @ + 1] /\ served' = [served EXCEPT ![u] = @ + 1]
      <4>1. u \in Accounts \X Days => usage[u] \in 0..DayLimit /\ served[u] \in Nat
        BY DEF TypeInv, TablesOK
      <4>2. u \in Accounts \X Days => usage[u] + 1 \in 0..DayLimit /\ served[u] + 1 \in Nat
        BY <3>2, <4>1, DeveloperAssumption
      <4> HIDE DEF u
      <4> QED BY <3>2, <4>2 DEF TypeInv, TablesOK
    <3> QED BY <1>2, <3>1, <3>2 DEF ConsumeQuota, QuotaLeft
  <2>3. TablesOK'
    BY <1>2, <2>2 DEF ConsumeQuota, TypeInv, TablesOK
  <2> QED BY <2>1, <2>3, Moves DEF TypeInv, Pc
<1>3. ASSUME NEW n \in 1..BatchLimit, Dispatch(r, n) PROVE TypeInv'
  <2>1. TablesOK'
    BY <1>3 DEF Dispatch, TypeInv, TablesOK, history, tables
  <2>2. n \in Nat /\ n # 0
    BY <1>3, DeveloperAssumption
  <2> DEFINE place == CASE req[r].kind = "batch" -> "addGrants"
                        [] req[r].kind = "put" -> "findGrant"
                        [] OTHER -> "findJob"
             m == [req[r] EXCEPT !.left = n, !.pc = place]
  <2>3. place \in {"addGrants", "findGrant", "findJob"}
    OBVIOUS
  <2>4. req[r] \in Request
    BY DEF TypeInv
  <2>5. req' = [req EXCEPT ![r] = m]
    BY <1>3, <2>4 DEF Dispatch, TypeInv, Request
  <2> HIDE DEF place
  <2>6. m \in Request /\ m.pc = place /\ m.left = n
    BY <2>2, <2>3, <2>4 DEF Request, Pc
  <2> HIDE DEF m
  <2>7. req' \in [Requests -> Request] /\ Placed'
    BY <2>2, <2>3, <2>5, <2>6, Becomes
  <2> QED BY <2>1, <2>7 DEF TypeInv
<1>4. ASSUME NEW g \in Grants, NEW d \in Demos, AddGrant(r, g, d) PROVE TypeInv'
  <2>1. TablesOK'
    BY <1>4 DEF AddGrant, TypeInv, TablesOK, history, Grant, Request
  <2>2. req[r].left \in Nat /\ req[r].left # 0
    BY <1>4 DEF AddGrant, At, TypeInv, Request, Placed
  <2>3. req[r].left - 1 \in Nat /\ (req[r].left # 1 => req[r].left - 1 # 0)
    BY <2>2
  <2> DEFINE place == IF req[r].left = 1 THEN "log" ELSE "addGrants"
             m == [req[r] EXCEPT !.left = req[r].left - 1, !.pc = place]
  <2>4. req[r] \in Request
    BY DEF TypeInv
  <2>5. req' = [req EXCEPT ![r] = m]
    BY <1>4, <2>4 DEF AddGrant, TypeInv, Request
  <2>6. place \in {"log", "addGrants"} /\ (place = "addGrants" => req[r].left - 1 # 0)
    BY <2>3
  <2> HIDE DEF place
  <2>7. m \in Request /\ m.pc = place /\ m.left = req[r].left - 1
    BY <2>3, <2>4, <2>6 DEF Request, Pc
  <2> HIDE DEF m
  <2>8. req' \in [Requests -> Request] /\ Placed'
    BY <2>5, <2>6, <2>7, Becomes
  <2> QED BY <2>1, <2>8 DEF TypeInv
<1>5. ASSUME NEW g \in Grants, NEW d \in Demos, FindGrant(r, g, d) PROVE TypeInv'
  <2>1. TablesOK'
    BY <1>5 DEF FindGrant, TypeInv, TablesOK, history, tables
  <2> DEFINE place == IF Usable(g, req[r].account, d) THEN "upload" ELSE "log"
             m == [req[r] EXCEPT !.grant = g, !.demo = d, !.pc = place]
  <2>2. req[r] \in Request
    BY DEF TypeInv
  <2>3. req' = [req EXCEPT ![r] = m]
    BY <1>5, <2>2 DEF FindGrant, TypeInv, Request
  <2>4. place \in {"log", "upload"}
    OBVIOUS
  <2> HIDE DEF place
  <2>5. m \in Request /\ m.pc = place /\ m.demo = d
    BY <2>2, <2>4 DEF Request, Pc
  <2> HIDE DEF m
  <2>6. req' \in [Requests -> Request] /\ Placed'
    BY <2>3, <2>4, <2>5, Becomes
  <2> QED BY <2>1, <2>6 DEF TypeInv
<1>6. CASE Upload(r)
  <2>1. req[r].demo \in Demos
    BY <1>6 DEF Upload, At, TypeInv, Placed
  <2>2. TablesOK' /\ (To(r, "fixGrant") \/ To(r, "log"))
    BY <1>6, <2>1 DEF Upload, TypeInv, TablesOK, history, tables
  <2> QED BY <2>2, Moves DEF TypeInv, Pc
<1>7. CASE FixGrant(r)
  <2>1. To(r, "log")
    BY <1>7 DEF FixGrant
  <2>2. req[r].demo \in Demos \cup {None} /\ grant \in [Grants -> Grant]
    BY DEF TypeInv, TablesOK, Request
  <2>3. [grant EXCEPT ![req[r].grant].job = req[r].demo] \in [Grants -> Grant]
    BY ONLY <2>2 DEF Grant
  <2>4. grant' \in [Grants -> Grant]
    BY <1>7, <2>2, <2>3 DEF FixGrant
  <2>5. TablesOK'
    BY <1>7, <2>4 DEF FixGrant, TypeInv, TablesOK, history
  <2> QED BY <2>1, <2>5, Moves DEF TypeInv, Pc
<1>8. CASE FindJob(r) \/ Log(r)
  <2>1. TablesOK' /\ (To(r, "log") \/ Respond(r))
    BY <1>8 DEF FindJob, Log, TypeInv, TablesOK, history, tables
  <2> QED BY <2>1, Moves DEF TypeInv, Pc
<1> QED BY <1>1, <1>2, <1>3, <1>4, <1>5, <1>6, <1>7, <1>8 DEF Api

LEMMA OthersAreTyped ==
  ASSUME TypeInv, [Next]_vars,
         ~\E r \in Requests : Console(r) \/ Api(r)
  PROVE  TypeInv'
<1> USE TypeSplit, TypeSplitNext
<1>1. CASE UNCHANGED vars
  BY <1>1 DEF TypeInv, TablesOK, Placed, vars, tables, history
<1>2. ASSUME NEW r \in Requests, NEW kind \in Kind, NEW with \in Argument, NEW place \in Pc,
             place \in {"limit", "authenticate", "findKey"}, place = "limit" => with \in Emails,
             Arrive(r, kind, with, place)
      PROVE  TypeInv'
  <2> DEFINE m == [Fresh EXCEPT !.pc = place, !.kind = kind, !.with = with]
  <2>1. m \in Request /\ m.pc = place /\ m.with = with
    BY <1>2, FreshIsRequest DEF Request, Fresh
  <2>2. req' = [req EXCEPT ![r] = m] /\ TablesOK'
    BY <1>2 DEF Arrive, TypeInv, TablesOK, tables, history
  <2> HIDE DEF m
  <2>3. req' \in [Requests -> Request] /\ Placed'
    BY <1>2, <2>1, <2>2, Becomes
  <2> QED BY <2>2, <2>3 DEF TypeInv
<1>3. ASSUME NEW r \in Requests, Interrupt(r) PROVE TypeInv'
  <2>1. TablesOK' /\ Respond(r)
    BY <1>3 DEF Interrupt, TypeInv, TablesOK, tables, history
  <2> QED BY <2>1, Moves DEF TypeInv, Pc
<1>4. ASSUME NEW t \in Tokens, EndSession(t) PROVE TypeInv'
  BY <1>4 DEF EndSession, TypeInv, TablesOK, Placed, history
<1>5. ASSUME NEW g \in Grants, ExpireGrant(g) PROVE TypeInv'
  <2>1. grant' \in [Grants -> Grant]
    BY <1>5 DEF ExpireGrant, TypeInv, TablesOK, Grant
  <2> QED BY <1>5, <2>1 DEF ExpireGrant, TypeInv, TablesOK, Placed, history
<1>6. ASSUME NEW e \in Emails, NewWindow(e) PROVE TypeInv'
  BY <1>6 DEF NewWindow, TypeInv, TablesOK, Placed, history
<1>7. CASE NextDay
  BY <1>7 DEF NextDay, TypeInv, TablesOK, Placed, tables, history
<1>8. ASSUME NEW r \in Requests, NEW e \in Emails, NEW kind \in {"register", "login"},
             Arrive(r, kind, e, "limit")
      PROVE  TypeInv'
  BY <1>2, <1>8 DEF Kind, Argument, Pc
<1>9. ASSUME NEW r \in Requests, NEW t \in Tokens, NEW kind \in {"remove", "create", "revoke"},
             Arrive(r, kind, t, "authenticate")
      PROVE  TypeInv'
  BY <1>2, <1>9 DEF Kind, Argument, Pc
<1>10. ASSUME NEW r \in Requests, NEW k \in Keys, NEW kind \in {"batch", "put", "get"},
              Arrive(r, kind, k, "findKey")
       PROVE  TypeInv'
  BY <1>2, <1>10 DEF Kind, Argument, Pc
<1> QED BY <1>1, <1>3, <1>4, <1>5, <1>6, <1>7, <1>8, <1>9, <1>10 DEF Next

LEMMA StepIsTyped == TypeInv /\ [Next]_vars => TypeInv'
BY ConsoleIsTyped, ApiIsTyped, OthersAreTyped

\* The types of the tables and of the requests, and what a request knows
\* where it uses it.
THEOREM DeveloperTypeCorrect == Spec => []DeveloperTypeOK
<1>1. TypeInv => DeveloperTypeOK
  BY DEF TypeInv
<1> QED BY InitIsTyped, StepIsTyped, <1>1, PTL DEF Spec

-----------------------------------------------------------------------------
(* The quota *)

LEMMA QuotaStep ==
  ASSUME TypeInv, UsageIsServed, [Next]_vars
  PROVE  UsageIsServed'
<1>1. CASE UNCHANGED <<usage, served, leaving>>
  BY <1>1 DEF UsageIsServed
<1>2. ASSUME NEW r \in Requests, ConsumeQuota(r) PROVE UsageIsServed'
  <2> DEFINE u == <<req[r].account, day>>
  <2>1. CASE UNCHANGED <<usage, served>>
    BY <1>2, <2>1 DEF ConsumeQuota, UsageIsServed
  <2>2. CASE usage' = [usage EXCEPT ![u] = @ + 1] /\ served' = [served EXCEPT ![u] = @ + 1]
    <3> HIDE DEF u
    <3>1. leaving' = leaving
      BY <1>2 DEF ConsumeQuota
    <3>2. /\ usage \in [Accounts \X Days -> 0..DayLimit]
          /\ served \in [Accounts \X Days -> Nat]
      BY TypeSplit DEF TypeInv, TablesOK
    <3>3. ASSUME NEW v \in Accounts \X Days, served[v] = usage[v]
          PROVE  served'[v] = usage'[v]
      BY <2>2, <3>2, <3>3
    <3> QED BY <3>1, <3>3 DEF UsageIsServed
  <2> QED BY <1>2, <2>1, <2>2 DEF ConsumeQuota
<1>3. ASSUME NEW r \in Requests, PurgeAccount(r) PROVE UsageIsServed'
  <2>1. /\ usage' = [u \in Accounts \X Days |-> IF u[1] = req[r].account THEN 0 ELSE usage[u]]
        /\ leaving' = leaving \cup {req[r].account} /\ served' = served
    BY <1>3 DEF PurgeAccount
  <2>2. ASSUME NEW a \in Accounts \ leaving', NEW d \in Days PROVE served'[<<a, d>>] = usage'[<<a, d>>]
    BY <2>1 DEF UsageIsServed
  <2> QED BY <2>2 DEF UsageIsServed
<1>4. CASE UNCHANGED vars
  BY <1>1, <1>4 DEF vars, tables, history
<1>5. ASSUME NEW r \in Requests, Console(r), ~PurgeAccount(r) PROVE UNCHANGED <<usage, served, leaving>>
  BY <1>5 DEF Console, CountAttempt, InsertAccount, FindAccount, CreateSession, Authenticate,
              RemoveAccount, CountKeys, InsertKey, RevokeKey, tables, history
<1>6. ASSUME NEW r \in Requests, Api(r), ~ConsumeQuota(r) PROVE UNCHANGED <<usage, served, leaving>>
  BY <1>6 DEF Api, FindKey, Dispatch, AddGrant, FindGrant, Upload, FixGrant, FindJob, Log,
              tables, history
<1>7. ASSUME ~\E r \in Requests : Console(r) \/ Api(r), Next PROVE UNCHANGED <<usage, served, leaving>>
  BY <1>7 DEF Next, Arrive, Interrupt, EndSession, ExpireGrant, NewWindow, NextDay, tables, history
<1> QED BY <1>1, <1>2, <1>3, <1>4, <1>5, <1>6, <1>7

\* "Enforce 100 authenticated API requests per UTC day": no interleaving of
\* requests serves an account more, until its removal begins.
THEOREM Quota == Spec => []QuotaHolds
<1>1. Init => UsageIsServed
  BY DEF Init, UsageIsServed
<1>2. TypeInv /\ UsageIsServed => QuotaHolds
  <2> SUFFICES ASSUME TypeInv, UsageIsServed, NEW a \in Accounts \ leaving, NEW d \in Days
               PROVE  served[<<a, d>>] <= DayLimit
    BY DEF QuotaHolds
  <2>1. usage[<<a, d>>] \in 0..DayLimit
    BY TypeSplit DEF TypeInv, TablesOK
  <2>2. served[<<a, d>>] = usage[<<a, d>>]
    BY DEF UsageIsServed
  <2> QED BY <2>1, <2>2, DeveloperAssumption
<1> QED BY <1>1, <1>2, InitIsTyped, StepIsTyped, QuotaStep, PTL DEF Spec

-----------------------------------------------------------------------------
(* Sessions and keys *)

LEMMA CredentialStep ==
  ASSUME TypeInv, CredentialsEndWithAccount, [Next]_vars
  PROVE  CredentialsEndWithAccount'
<1> USE DEF CredentialsEndWithAccount, Exists
<1>t. /\ email \in [Accounts -> Emails \cup {None, Gone}]
      /\ session \in [Tokens -> Accounts \cup {None, Gone}]
      /\ key \in [Keys -> Accounts \cup {None, Gone}]
      /\ None \notin Accounts /\ Gone \notin Accounts
  BY TypeSplit, DeveloperAssumption DEF TypeInv, TablesOK
<1>1. CASE UNCHANGED <<email, session, key>>
  BY <1>1
<1>2. ASSUME NEW r \in Requests, NEW a \in Accounts, InsertAccount(r, a)
      PROVE  CredentialsEndWithAccount'
  <2>1. req[r].with \in Emails
    BY <1>2 DEF InsertAccount, At, TypeInv, Placed
  <2> QED BY <1>2, <1>t, <2>1 DEF InsertAccount
<1>3. ASSUME NEW r \in Requests, NEW t \in Tokens, CreateSession(r, t)
      PROVE  CredentialsEndWithAccount'
  BY <1>3, <1>t DEF CreateSession, Belongs
<1>4. ASSUME NEW r \in Requests, NEW k \in Keys, InsertKey(r, k)
      PROVE  CredentialsEndWithAccount'
  BY <1>4, <1>t DEF InsertKey, Belongs
<1>5. ASSUME NEW r \in Requests, PurgeAccount(r) PROVE CredentialsEndWithAccount'
  <2>1. /\ email' = email
        /\ key' = [k \in Keys |-> IF key[k] = req[r].account THEN Gone ELSE key[k]]
        /\ session' = [t \in Tokens |-> IF session[t] = req[r].account THEN Gone ELSE session[t]]
    BY <1>5 DEF PurgeAccount
  <2> QED BY <1>t, <2>1
<1>6. ASSUME NEW r \in Requests, RemoveAccount(r) PROVE CredentialsEndWithAccount'
  <2>1. /\ email' = [email EXCEPT ![req[r].account] = Gone]
        /\ key' = [k \in Keys |-> IF key[k] = req[r].account THEN Gone ELSE key[k]]
        /\ session' = [t \in Tokens |-> IF session[t] = req[r].account THEN Gone ELSE session[t]]
    BY <1>6 DEF RemoveAccount
  <2> QED BY <1>t, <2>1
<1>7. ASSUME NEW t \in Tokens, EndSession(t) PROVE CredentialsEndWithAccount'
  BY <1>7, <1>t DEF EndSession
<1>8. CASE UNCHANGED vars
  BY <1>1, <1>8 DEF vars, tables
<1>9. ASSUME NEW r \in Requests, CountAttempt(r) \/ FindAccount(r) \/ Authenticate(r, req[r].with)
                                  \/ CountKeys(r) \/ \E k \in Keys : RevokeKey(r, k)
      PROVE  UNCHANGED <<email, session, key>>
  BY <1>9 DEF CountAttempt, FindAccount, Authenticate, CountKeys, RevokeKey, tables
<1>10. ASSUME NEW r \in Requests, Api(r) PROVE UNCHANGED <<email, session, key>>
  BY <1>10 DEF Api, FindKey, ConsumeQuota, Dispatch, AddGrant, FindGrant, Upload, FixGrant,
               FindJob, Log, tables
<1>11. ASSUME Next, ~\E r \in Requests : Console(r) \/ Api(r), ~\E t \in Tokens : EndSession(t)
       PROVE  UNCHANGED <<email, session, key>>
  BY <1>11 DEF Next, Arrive, Interrupt, ExpireGrant, NewWindow, NextDay, tables
<1>12. ASSUME NEW r \in Requests, Console(r) PROVE CredentialsEndWithAccount'
  BY <1>1, <1>2, <1>3, <1>4, <1>5, <1>6, <1>9, <1>12 DEF Console
<1> QED BY <1>1, <1>7, <1>8, <1>10, <1>11, <1>12

\* No session or key outlives its account, whatever requests run while the
\* account is removed.
THEOREM Credentials == Spec => []CredentialsEndWithAccount
<1>1. Init => CredentialsEndWithAccount
  BY DeveloperAssumption DEF Init, CredentialsEndWithAccount
<1> QED BY <1>1, InitIsTyped, StepIsTyped, CredentialStep, PTL DEF Spec

-----------------------------------------------------------------------------
(* The number of keys *)

LEMMA FiniteParts ==
  ASSUME NEW a
  PROVE  /\ IsFiniteSet(Active(a)) /\ Cardinality(Active(a)) \in Nat
         /\ IsFiniteSet(Inserting(a)) /\ Cardinality(Inserting(a)) \in Nat
         /\ Cardinality(Inserting(a)) <= Cardinality(Requests)
         /\ Cardinality(Requests) \in Nat
<1>1. Active(a) \subseteq Keys /\ Inserting(a) \subseteq Requests
  BY DEF Active, Inserting
<1>2. IsFiniteSet(Keys) /\ IsFiniteSet(Requests)
  BY DeveloperAssumption
<1> QED BY <1>1, <1>2, FS_Subset, FS_CardinalityType

LEMMA FinitePartsNext ==
  ASSUME NEW a
  PROVE  /\ IsFiniteSet(Active(a)') /\ Cardinality(Active(a)') \in Nat
         /\ IsFiniteSet(Inserting(a)') /\ Cardinality(Inserting(a)') \in Nat
         /\ Cardinality(Inserting(a)') <= Cardinality(Requests)
<1>1. Active(a)' \subseteq Keys /\ Inserting(a)' \subseteq Requests
  BY DEF Active, Inserting
<1>2. IsFiniteSet(Keys) /\ IsFiniteSet(Requests)
  BY DeveloperAssumption
<1> QED BY <1>1, <1>2, FS_Subset, FS_CardinalityType

\* A step after which no account has more keys or more inserts to come.
LEMMA Fewer ==
  ASSUME KeysAndInserts,
         \A a \in Accounts : Active(a)' \subseteq Active(a) /\ Inserting(a)' \subseteq Inserting(a)
  PROVE  KeysAndInserts'
<1> SUFFICES ASSUME NEW a \in Accounts
             PROVE  Cardinality(Active(a)') + Cardinality(Inserting(a)')
                      <= KeyLimit + Cardinality(Requests) - 1
  BY DEF KeysAndInserts
<1>1. /\ Cardinality(Active(a)') <= Cardinality(Active(a))
      /\ Cardinality(Inserting(a)') <= Cardinality(Inserting(a))
  BY FiniteParts, FS_Subset
<1>2. Cardinality(Active(a)) + Cardinality(Inserting(a)) <= KeyLimit + Cardinality(Requests) - 1
  BY DEF KeysAndInserts
<1> QED BY <1>1, <1>2, FiniteParts, FinitePartsNext, DeveloperAssumption

\* Only the count of the keys lets a request come to insert one.
LEMMA NoneComes ==
  ASSUME TypeInv, [Next]_vars, ~\E r \in Requests : CountKeys(r), NEW q \in Requests,
         req'[q].pc = "insertKey"
  PROVE  req'[q] = req[q]
<1>t. req \in [Requests -> Request]
  BY TypeSplit DEF TypeInv
<1>f. Fresh.pc # "insertKey"
  BY DEF Fresh
<1>1. ASSUME NEW r \in Requests, Respond(r) PROVE req'[q] = req[q]
  BY <1>1, <1>t, <1>f DEF Respond
<1>2. ASSUME NEW r \in Requests, NEW place, place # "insertKey", To(r, place) PROVE req'[q] = req[q]
  BY <1>2, <1>t DEF To, Request
<1>3. ASSUME NEW r \in Requests, Console(r) PROVE req'[q] = req[q]
  <2>1. CASE CountAttempt(r)
    BY <1>1, <1>2, <2>1 DEF CountAttempt
  <2>2. ASSUME NEW a \in Accounts, InsertAccount(r, a) PROVE req'[q] = req[q]
    <3>1. CASE Respond(r)
      BY <1>1, <3>1
    <3>2. CASE ~Respond(r)
      BY <1>t, <2>2, <3>2 DEF InsertAccount, Request
    <3> QED BY <3>1, <3>2
  <2>3. CASE FindAccount(r)
    <3>1. CASE Respond(r)
      BY <1>1, <3>1
    <3>2. CASE ~Respond(r)
      BY <1>t, <2>3, <3>2 DEF FindAccount, Request
    <3> QED BY <3>1, <3>2
  <2>4. CASE Authenticate(r, req[r].with)
    <3>1. CASE Respond(r)
      BY <1>1, <3>1
    <3>2. CASE ~Respond(r)
      BY <1>t, <2>4, <3>2 DEF Authenticate, Request
    <3> QED BY <3>1, <3>2
  <2>5. ASSUME Respond(r) \/ To(r, "removeAccount") PROVE req'[q] = req[q]
    BY <1>1, <1>2, <2>5
  <2> QED BY <1>3, <2>1, <2>2, <2>3, <2>4, <2>5
          DEF Console, CreateSession, PurgeAccount, RemoveAccount, InsertKey, RevokeKey
<1>4. ASSUME NEW r \in Requests, Api(r) PROVE req'[q] = req[q]
  <2>1. CASE FindKey(r, req[r].with)
    <3>1. CASE Respond(r)
      BY <1>1, <3>1
    <3>2. CASE ~Respond(r)
      BY <1>t, <2>1, <3>2 DEF FindKey, Request
    <3> QED BY <3>1, <3>2
  <2>2. ASSUME NEW n \in 1..BatchLimit, Dispatch(r, n) PROVE req'[q] = req[q]
    BY <1>t, <2>2 DEF Dispatch, Request
  <2>3. ASSUME NEW g \in Grants, NEW d \in Demos, AddGrant(r, g, d) PROVE req'[q] = req[q]
    BY <1>t, <2>3 DEF AddGrant, Request
  <2>4. ASSUME NEW g \in Grants, NEW d \in Demos, FindGrant(r, g, d) PROVE req'[q] = req[q]
    BY <1>t, <2>4 DEF FindGrant, Request
  <2>5. ASSUME Respond(r) \/ To(r, "dispatch") \/ To(r, "fixGrant") \/ To(r, "log")
        PROVE  req'[q] = req[q]
    BY <1>1, <1>2, <2>5
  <2> QED BY <1>4, <2>1, <2>2, <2>3, <2>4, <2>5
          DEF Api, ConsumeQuota, Upload, FixGrant, FindJob, Log
<1>5. ASSUME NEW r \in Requests, NEW kind, NEW with, NEW place, place # "insertKey",
             Arrive(r, kind, with, place)
      PROVE  req'[q] = req[q]
  BY <1>5, <1>t DEF Arrive, Fresh
<1>6. ASSUME NEW r \in Requests, Interrupt(r) PROVE req'[q] = req[q]
  BY <1>1, <1>6 DEF Interrupt
<1>7. ASSUME \/ UNCHANGED vars \/ NextDay
             \/ \E t \in Tokens : EndSession(t)
             \/ \E g \in Grants : ExpireGrant(g)
             \/ \E e \in Emails : NewWindow(e)
      PROVE  req'[q] = req[q]
  BY <1>7 DEF EndSession, ExpireGrant, NewWindow, NextDay, vars
<1> QED BY <1>3, <1>4, <1>5, <1>6, <1>7 DEF Next

LEMMA KeyStep ==
  ASSUME TypeInv, KeysAndInserts, [Next]_vars
  PROVE  KeysAndInserts'
<1>t. /\ req \in [Requests -> Request] /\ key \in [Keys -> Accounts \cup {None, Gone}]
      /\ None \notin Accounts /\ Gone \notin Accounts
  BY TypeSplit, DeveloperAssumption DEF TypeInv, TablesOK
<1>1. ASSUME NEW r \in Requests, CountKeys(r) PROVE KeysAndInserts'
  <2>1. \A a \in Accounts : Active(a)' = Active(a)
    BY <1>1 DEF CountKeys, Active, tables
  <2>2. CASE Respond(r)
    <3>1. \A a \in Accounts : Inserting(a)' \subseteq Inserting(a)
      BY <1>t, <2>2 DEF Respond, Inserting, Fresh
    <3> QED BY <2>1, <3>1, Fewer
  <2>3. CASE To(r, "insertKey") /\ ~Respond(r)
    <3> SUFFICES ASSUME NEW a \in Accounts
                 PROVE  Cardinality(Active(a)') + Cardinality(Inserting(a)')
                          <= KeyLimit + Cardinality(Requests) - 1
      BY DEF KeysAndInserts
    <3>1. CASE a = req[r].account
      <4>1. ~(Cardinality(Active(a)) >= KeyLimit)
        BY <1>1, <2>3, <3>1 DEF CountKeys
      <4>2. Cardinality(Active(a)') = Cardinality(Active(a))
        BY <2>1
      <4> QED BY <4>1, <4>2, FiniteParts, FinitePartsNext, DeveloperAssumption
    <3>2. CASE a # req[r].account
      <4>1. Inserting(a)' \subseteq Inserting(a)
        BY <1>t, <2>3, <3>2 DEF To, Inserting, Request
      <4>2. Cardinality(Inserting(a)') <= Cardinality(Inserting(a))
        BY <4>1, FiniteParts, FS_Subset
      <4>3. Cardinality(Active(a)') = Cardinality(Active(a))
        BY <2>1
      <4>4. Cardinality(Active(a)) + Cardinality(Inserting(a)) <= KeyLimit + Cardinality(Requests) - 1
        BY DEF KeysAndInserts
      <4> QED BY <4>2, <4>3, <4>4, FiniteParts, FinitePartsNext, DeveloperAssumption
    <3> QED BY <3>1, <3>2
  <2> QED BY <1>1, <2>2, <2>3 DEF CountKeys
<1>2. ASSUME ~\E r \in Requests : CountKeys(r)
      PROVE  \A a \in Accounts : Inserting(a)' \subseteq Inserting(a)
  <2>1. \A q \in Requests : req'[q].pc = "insertKey" => req'[q] = req[q]
    BY <1>2, NoneComes
  <2> QED BY <2>1 DEF Inserting
<1>3. ASSUME NEW r \in Requests, NEW k \in Keys, InsertKey(r, k) PROVE KeysAndInserts'
  <2>1. CASE key' = key
    <3>1. \A a \in Accounts : Active(a)' = Active(a)
      BY <1>3, <2>1 DEF InsertKey, Active
    <3>2. \A a \in Accounts : Inserting(a)' \subseteq Inserting(a)
      BY <1>t, <1>3 DEF InsertKey, Respond, Fresh, Inserting
    <3> QED BY <3>1, <3>2, Fewer
  <2>2. CASE key' = [key EXCEPT ![k] = req[r].account] /\ req[r].account \in Accounts
    <3> SUFFICES ASSUME NEW a \in Accounts
                 PROVE  Cardinality(Active(a)') + Cardinality(Inserting(a)')
                          <= KeyLimit + Cardinality(Requests) - 1
      BY DEF KeysAndInserts
    <3>1. Cardinality(Active(a)) + Cardinality(Inserting(a)) <= KeyLimit + Cardinality(Requests) - 1
      BY DEF KeysAndInserts
    <3>2. revoked' = revoked /\ Respond(r) /\ At(r, "insertKey")
      BY <1>3 DEF InsertKey
    <3>3. CASE a = req[r].account
      <4>1. Active(a)' \subseteq Active(a) \cup {k}
        BY <1>t, <2>2, <3>2 DEF Active
      <4>2. /\ IsFiniteSet(Active(a) \cup {k})
            /\ Cardinality(Active(a) \cup {k}) <= Cardinality(Active(a)) + 1
            /\ Cardinality(Active(a) \cup {k}) \in Nat
        <5> DEFINE A == Active(a)
        <5>1. IsFiniteSet(A) /\ Cardinality(A) \in Nat
          BY FiniteParts
        <5> HIDE DEF A
        <5>2. /\ IsFiniteSet(A \cup {k})
              /\ Cardinality(A \cup {k}) = IF k \in A THEN Cardinality(A) ELSE Cardinality(A) + 1
          BY <5>1, FS_AddElement
        <5>3. Cardinality(A \cup {k}) <= Cardinality(A) + 1 /\ Cardinality(A \cup {k}) \in Nat
          BY <5>1, <5>2
        <5> QED BY <5>2, <5>3 DEF A
      <4>3. Cardinality(Active(a)') <= Cardinality(Active(a) \cup {k})
        BY <4>1, <4>2, FS_Subset
      <4>4. r \in Inserting(a) /\ Inserting(a)' \subseteq Inserting(a) \ {r}
        BY <1>t, <3>2, <3>3 DEF Inserting, At, Respond, Fresh
      <4>5. /\ IsFiniteSet(Inserting(a) \ {r})
            /\ Cardinality(Inserting(a) \ {r}) = Cardinality(Inserting(a)) - 1
        BY <4>4, FiniteParts, FS_RemoveElement
      <4>6. Cardinality(Inserting(a)') <= Cardinality(Inserting(a)) - 1
        BY <4>4, <4>5, FS_Subset
      <4> QED BY <3>1, <4>2, <4>3, <4>6, FiniteParts, FinitePartsNext, DeveloperAssumption
    <3>4. CASE a # req[r].account
      <4>1. Active(a)' \subseteq Active(a)
        BY <1>t, <2>2, <3>2, <3>4 DEF Active
      <4>2. Inserting(a)' \subseteq Inserting(a)
        BY <1>t, <3>2 DEF Inserting, Respond, Fresh
      <4>3. /\ Cardinality(Active(a)') <= Cardinality(Active(a))
            /\ Cardinality(Inserting(a)') <= Cardinality(Inserting(a))
        BY <4>1, <4>2, FiniteParts, FS_Subset
      <4> QED BY <3>1, <4>3, FiniteParts, FinitePartsNext, DeveloperAssumption
    <3> QED BY <3>3, <3>4
  <2> QED BY <1>3, <2>1, <2>2 DEF InsertKey, Belongs
<1>4. ASSUME ~\E r \in Requests : CountKeys(r),
             \A a \in Accounts : Active(a)' \subseteq Active(a)
      PROVE  KeysAndInserts'
  BY <1>2, <1>4, Fewer
<1>5. ASSUME UNCHANGED <<key, revoked>> PROVE \A a \in Accounts : Active(a)' \subseteq Active(a)
  BY <1>5 DEF Active
<1>6. ASSUME NEW r \in Requests, \/ PurgeAccount(r) \/ RemoveAccount(r)
                                \/ \E k \in Keys : RevokeKey(r, k)
      PROVE  \A a \in Accounts : Active(a)' \subseteq Active(a)
  BY <1>6, <1>t DEF PurgeAccount, RemoveAccount, RevokeKey, Active
<1>7. ASSUME NEW r \in Requests, Api(r) PROVE UNCHANGED <<key, revoked>>
  BY <1>7 DEF Api, FindKey, ConsumeQuota, Dispatch, AddGrant, FindGrant, Upload, FixGrant,
              FindJob, Log, tables
<1>8. ASSUME Next, ~\E r \in Requests : Console(r) \/ Api(r) PROVE UNCHANGED <<key, revoked>>
  BY <1>8 DEF Next, Arrive, Interrupt, EndSession, ExpireGrant, NewWindow, NextDay, tables
<1>9. ASSUME NEW r \in Requests, \/ CountAttempt(r) \/ FindAccount(r)
                                \/ Authenticate(r, req[r].with)
                                \/ \E a \in Accounts : InsertAccount(r, a)
                                \/ \E t \in Tokens : CreateSession(r, t)
      PROVE  UNCHANGED <<key, revoked>>
  BY <1>9 DEF CountAttempt, FindAccount, Authenticate, InsertAccount, CreateSession, tables
<1>10. CASE UNCHANGED vars
  BY <1>10, <1>4, <1>5, <1>1 DEF vars, tables
<1>11. ASSUME NEW r \in Requests, Console(r) PROVE KeysAndInserts'
  BY <1>1, <1>3, <1>4, <1>5, <1>6, <1>9, <1>11 DEF Console
<1> QED BY <1>1, <1>4, <1>5, <1>7, <1>8, <1>10, <1>11

\* Each concurrent request can bring an account one key over its limit and
\* no more: whoever inserts a key past the limit counted before the limit was
\* reached, and the keys and the inserts still to come never add up to more.
THEOREM KeyBound == Spec => []KeysNearlyBounded
<1>1. Init => KeysAndInserts
  <2> SUFFICES ASSUME Init, NEW a \in Accounts
               PROVE  Cardinality(Active(a)) + Cardinality(Inserting(a))
                        <= KeyLimit + Cardinality(Requests) - 1
    BY DEF KeysAndInserts
  <2>1. Active(a) = {} /\ Inserting(a) = {}
    BY DeveloperAssumption DEF Init, Active, Inserting, Fresh
  <2>2. Cardinality(Active(a)) = 0 /\ Cardinality(Inserting(a)) = 0
    BY <2>1, FS_EmptySet
  <2> QED BY <2>2, FiniteParts, DeveloperAssumption
<1>2. KeysAndInserts => KeysNearlyBounded
  <2> SUFFICES ASSUME KeysAndInserts, NEW a \in Accounts
               PROVE  Cardinality(Active(a)) <= KeyLimit + Cardinality(Requests) - 1
    BY DEF KeysNearlyBounded
  <2>1. Cardinality(Active(a)) + Cardinality(Inserting(a)) <= KeyLimit + Cardinality(Requests) - 1
    BY DEF KeysAndInserts
  <2> QED BY <2>1, FiniteParts, DeveloperAssumption
<1> QED BY <1>1, <1>2, InitIsTyped, StepIsTyped, KeyStep, PTL DEF Spec
=============================================================================

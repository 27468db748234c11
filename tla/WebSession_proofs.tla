-------------------------- MODULE WebSession_proofs --------------------------
(***************************************************************************)
(* What is proved of WebSession for every number of tabs, browsers,        *)
(* requests and sessions, every limit, window and time to live, and every  *)
(* scenario.  Of the server: types, the login limit in both directions,    *)
(* that only live sessions pass, and that all its threads together are the *)
(* one authenticator that Authenticator states.  All of it rests on one    *)
(* inductive invariant: the record of wrong passwords is ordered in time,  *)
(* everything forgotten is out of the window, and the thread that verifies *)
(* a password was let in with fewer than Max remembered ones, which the    *)
(* lock keeps true.  Of the script, with what a panel knows of its session *)
(* while it waits for an answer: a logout it reports has happened, and a   *)
(* flag that stops it from polling is taken back by the end of a request   *)
(* that is under way.                                                      *)
(***************************************************************************)
EXTENDS WebSession, TLAPS

\* The wrong passwords of an address, in the order of time.
LogOK ==
  \A b \in Browsers :
    /\ forgotten[b] <= Len(failures[b])
    /\ \A i \in 1..Len(failures[b]) :
         failures[b][i] <= now /\ (i <= forgotten[b] => failures[b][i] + Window <= now)
    /\ \A i, j \in 1..Len(failures[b]) : i <= j => failures[b][i] <= failures[b][j]

\* The thread in login, since it read the clock.
VerifyOK ==
  \A r \in Requests : req[r].pc = "verify" =>
    LET b == Browser(req[r].tab) IN
    /\ req[r].at <= now
    /\ Len(failures[b]) < forgotten[b] + Max
    /\ \A i \in 1..Len(failures[b]) :
         /\ failures[b][i] <= req[r].at
         /\ i <= forgotten[b] => failures[b][i] + Window <= req[r].at

SessionsOK ==
  \A k \in Sessions : expires[k] # 0 =>
    k \in 1..issued /\ k \notin ended /\ expires[k] = born[k] + TTL

\* Nobody has a token that was not issued.
TokensOK ==
  /\ ended \subseteq 0..issued
  /\ \A r \in Requests : req[r].token <= issued
  /\ \A b \in Browsers : cookie[b] <= issued

IInv == TypeOK /\ LogOK /\ VerifyOK /\ LoginLimit /\ SessionsOK /\ TokensOK

-----------------------------------------------------------------------------
(* The client                                                              *)

\* What the steps of the script leave alone in the server's threads.
Keeps ==
  \A r \in Requests :
    /\ req'[r].pc = "verify" <=> req[r].pc = "verify"
    /\ req[r].pc = "verify" => req'[r].tab = req[r].tab /\ req'[r].at = req[r].at

LEMMA ScenarioType ==
  ASSUME TypeOK
  PROVE  /\ \A t \in Tabs : Browser(t) \in Browsers
         /\ scenario.logins \in 0..MaxSessions
         /\ Free \in Threads
         /\ 0 \in Sessions /\ issued \in Nat /\ 0 <= issued /\ Sessions \subseteq Nat
  <1>1. (CHOOSE t \in Tabs : TRUE) \in Tabs
    BY ConstantsAssumption
  <1>2. 0 \in Sessions
    BY ConstantsAssumption DEF Sessions
  <1>3. Free \in Threads
    BY <1>1, <1>2 DEF Free, Threads
  <1>4. scenario \in [tabs : SUBSET Tabs, browser : [Tabs -> Browsers],
                     events : SUBSET EventKinds, logins : 0..MaxSessions]
    BY ConstantsAssumption DEF TypeOK
  <1>5. issued \in Nat /\ 0 <= issued /\ Sessions \subseteq Nat
    BY ConstantsAssumption DEF TypeOK, Sessions
  <1> QED BY <1>2, <1>3, <1>4, <1>5 DEF Browser

\* A request as it is sent, and one that is no longer awaited.
LEMMA RequestTypes ==
  ASSUME TypeOK
  PROVE  /\ \A kind \in {"init", "login", "logout", "read", "write"}, t \in Tabs,
               k \in Sessions, c \in Sessions :
              /\ Sent(kind, t, k, c) \in Threads
              /\ Sent(kind, t, k, c).pc = "sent" /\ Sent(kind, t, k, c).token = k
         /\ \A r \in Requests : Unheard(req[r]) \in Threads
  <1>1. ASSUME NEW kind \in {"init", "login", "logout", "read", "write"}, NEW t \in Tabs,
               NEW k \in Sessions, NEW c \in Sessions
        PROVE  /\ Sent(kind, t, k, c) \in Threads
               /\ Sent(kind, t, k, c).pc = "sent" /\ Sent(kind, t, k, c).token = k
    BY ScenarioType DEF Sent, Free, Threads
  <1>2. ASSUME NEW r \in Requests
        PROVE  Unheard(req[r]) \in Threads
    <2>1. req[r] \in Threads /\ Free \in Threads
      BY ScenarioType DEF TypeOK
    <2>2. [req[r] EXCEPT !.heard = FALSE] \in Threads
      BY <2>1 DEF Threads
    <2> QED BY <2>1, <2>2 DEF Unheard
  <1> QED BY <1>1, <1>2

LEMMA PageTypes ==
  ASSUME TypeOK
  PROVE  /\ Page \in Pages
         /\ \A q \in Threads, page \in Pages, ok \in BOOLEAN : Handled(q, page, ok) \in Pages
  <1>1. 0 \in Sessions
    BY ScenarioType
  <1>2. Page \in Pages
    BY <1>1 DEF Page, Pages
  <1>3. ASSUME NEW q \in Threads, NEW page \in Pages, NEW ok \in BOOLEAN
        PROVE  Handled(q, page, ok) \in Pages
    <2>1. ShowPanel(page, q.token) \in Pages
      BY <1>1 DEF ShowPanel, Pages, Threads
    <2>2. ShowLogin(page, 0) \in Pages /\ ShowLogin(page, page.csrf) \in Pages
      BY <1>1 DEF ShowLogin, Pages
    <2>3. Rendered(page, q.token, ok) \in Pages
      BY DEF Rendered, Pages, Threads
    <2>4. \A p \in Pages : [p EXCEPT !.submitting = FALSE] \in Pages
                           /\ [p EXCEPT !.connecting = FALSE] \in Pages
      BY DEF Pages
    <2>5. q.kind \in {"init", "login", "logout", "read", "write"}
      BY DEF Threads
    <2> QED BY <2>1, <2>2, <2>3, <2>4, <2>5 DEF Handled
  <1> QED BY <1>2, <1>3

\* A step of the script, seen from the server.
ClientStep ==
  /\ UNCHANGED <<scenario, now, auth>>
  /\ Keeps
  /\ req' \in [Requests -> Threads]
  /\ tab' \in [Tabs -> Pages] /\ cookie' \in [Browsers -> Sessions]
  /\ \A r \in Requests : req'[r].token <= issued
  /\ \A b \in Browsers : cookie'[b] <= issued

LEMMA UnheardKeeps ==
  ASSUME IInv, NEW q \in Requests
  PROVE  /\ Unheard(req[q]) \in Threads /\ Unheard(req[q]).token <= issued
         /\ Unheard(req[q]).pc = "verify" <=> req[q].pc = "verify"
         /\ req[q].pc = "verify" => Unheard(req[q]).tab = req[q].tab
                                   /\ Unheard(req[q]).at = req[q].at
  <1>1. Unheard(req[q]) \in Threads /\ req[q] \in Threads /\ req[q].token <= issued /\ issued \in Sessions
    BY RequestTypes DEF IInv, TypeOK, TokensOK
  <1>2. Free.pc = "free" /\ Free.token = 0
    BY DEF Free
  <1> QED BY <1>1, <1>2 DEF Unheard, Threads, Sessions

LEMMA LoadIsClientStep ==
  ASSUME IInv, NEW t \in Tabs, Load(t)
  PROVE  ClientStep
  <1> USE DEF IInv
  <1>1. PICK r \in Requests :
          /\ req[r].pc = "free"
          /\ req' = [q \in Requests |->
                       IF q = r THEN Sent("init", t, cookie[Browser(t)], 0)
                       ELSE IF req[q].heard /\ req[q].tab = t THEN Unheard(req[q]) ELSE req[q]]
    BY DEF Load
  <1>2. cookie[Browser(t)] \in Sessions /\ cookie[Browser(t)] <= issued /\ 0 \in Sessions
    BY ScenarioType DEF TypeOK, TokensOK
  <1>3. Sent("init", t, cookie[Browser(t)], 0) \in Threads
        /\ Sent("init", t, cookie[Browser(t)], 0).pc = "sent"
        /\ Sent("init", t, cookie[Browser(t)], 0).token = cookie[Browser(t)]
    BY <1>2, RequestTypes
  <1>4. \A q \in Requests : /\ Unheard(req[q]) \in Threads /\ Unheard(req[q]).token <= issued
                            /\ Unheard(req[q]).pc = "verify" <=> req[q].pc = "verify"
                            /\ req[q].pc = "verify" => Unheard(req[q]).tab = req[q].tab
                                                      /\ Unheard(req[q]).at = req[q].at
    BY UnheardKeeps
  <1>5. tab' \in [Tabs -> Pages]
    BY PageTypes DEF Load, TypeOK
  <1>6. UNCHANGED <<scenario, now, auth, cookie>>
    BY DEF Load
  <1>7. req' \in [Requests -> Threads] /\ \A q \in Requests : req'[q].token <= issued
    BY <1>1, <1>2, <1>3, <1>4 DEF TypeOK, TokensOK
  <1>8. Keeps
    BY <1>1, <1>3, <1>4 DEF Keeps
  <1> QED BY <1>5, <1>6, <1>7, <1>8 DEF ClientStep, TypeOK, TokensOK

LEMMA SendIsClientStep ==
  ASSUME IInv, NEW t \in Tabs, NEW kind \in {"init", "login", "logout", "read", "write"},
         NEW page \in Pages, Send(kind, t, page)
  PROVE  ClientStep
  <1> USE DEF IInv
  <1>1. cookie[Browser(t)] \in Sessions /\ cookie[Browser(t)] <= issued /\ tab[t].csrf \in Sessions
    BY ScenarioType DEF TypeOK, TokensOK, Pages
  <1> DEFINE new == Sent(kind, t, cookie[Browser(t)], tab[t].csrf)
  <1>2. new \in Threads /\ new.pc = "sent" /\ new.token = cookie[Browser(t)]
    BY <1>1, RequestTypes
  <1> HIDE DEF new
  <1>3. PICK r \in Requests : req[r].pc = "free" /\ req' = [req EXCEPT ![r] = new]
    BY DEF Send, new
  <1>4. req' \in [Requests -> Threads] /\ Keeps /\ \A q \in Requests : req'[q].token <= issued
    BY <1>1, <1>2, <1>3 DEF TypeOK, TokensOK, Keeps
  <1>5. UNCHANGED <<scenario, now, auth, cookie>> /\ tab' \in [Tabs -> Pages]
    BY DEF Send, TypeOK
  <1> QED BY <1>4, <1>5 DEF ClientStep, TypeOK, TokensOK

LEMMA ClicksAreClientSteps ==
  ASSUME IInv, NEW t \in Tabs,
         ClickLogin(t) \/ ClickLogout(t) \/ ClickConnect(t) \/ Interval(t)
  PROVE  ClientStep
  <1> DEFINE p1 == [tab[t] EXCEPT !.submitting = TRUE, !.said = 0]
             p2 == [tab[t] EXCEPT !.connecting = TRUE]
             p3 == [tab[t] EXCEPT !.refreshing = TRUE]
  <1>1. tab[t] \in Pages
    BY DEF IInv, TypeOK
  <1>2. p1 \in Pages /\ p2 \in Pages /\ p3 \in Pages
    BY <1>1, ScenarioType DEF Pages, IInv
  <1>3. \/ Send("login", t, p1) \/ Send("logout", t, tab[t])
        \/ Send("write", t, p2) \/ Send("read", t, p3)
    BY DEF ClickLogin, ClickLogout, ClickConnect, Interval
  <1> HIDE DEF p1, p2, p3
  <1> QED BY <1>1, <1>2, <1>3, SendIsClientStep

LEMMA CookieType ==
  ASSUME IInv, NEW r \in Requests
  PROVE  /\ SetCookie(req[r]) \in [Browsers -> Sessions]
         /\ \A b \in Browsers : SetCookie(req[r])[b] <= issued
  <1>1. /\ req[r].tab \in Tabs /\ req[r].token \in Sessions /\ req[r].token <= issued
        /\ 0 \in Sessions /\ 0 <= issued
        /\ cookie \in [Browsers -> Sessions] /\ \A b \in Browsers : cookie[b] <= issued
    BY ScenarioType, ConstantsAssumption DEF IInv, TypeOK, TokensOK, Threads, Sessions
  <1> QED BY <1>1 DEF SetCookie

LEMMA ReceiveIsClientStep ==
  ASSUME IInv, NEW r \in Requests, Receive(r)
  PROVE  ClientStep
  <1> USE DEF IInv
  <1> DEFINE q == req[r]
             ok == q.answer = "ok"
             new == IF ~Refreshes(q, ok) THEN Free
                    ELSE Sent("read", q.tab, cookie'[Browser(q.tab)], q.token)
  <1>1. q \in Threads /\ q.tab \in Tabs /\ q.token \in Sessions /\ q.token <= issued
        /\ q.pc = "answered" /\ ok \in BOOLEAN /\ issued \in Sessions
    BY DEF TypeOK, Threads, Receive, TokensOK
  <1>2. cookie' \in [Browsers -> Sessions] /\ \A b \in Browsers : cookie'[b] <= issued
    BY CookieType DEF Receive
  <1>3. tab' = [tab EXCEPT ![q.tab] = Handled(q, tab[q.tab], ok)]
    BY DEF Receive
  <1>4. tab' \in [Tabs -> Pages]
    BY <1>1, <1>3, PageTypes DEF TypeOK
  <1>5. req' = [req EXCEPT ![r] = new] /\ UNCHANGED <<scenario, now, auth>>
    BY DEF Receive
  <1>6. cookie'[Browser(q.tab)] \in Sessions /\ cookie'[Browser(q.tab)] <= issued
    BY <1>1, <1>2, ScenarioType
  <1>7. Free \in Threads /\ Free.pc = "free" /\ Free.token = 0
    BY ScenarioType DEF Free
  <1>8. new \in Threads /\ new.pc # "verify" /\ new.token <= issued
    BY <1>1, <1>6, <1>7, RequestTypes DEF Sessions
  <1> HIDE DEF new, ok
  <1>9. req' \in [Requests -> Threads] /\ Keeps /\ \A x \in Requests : req'[x].token <= issued
    BY <1>1, <1>5, <1>8 DEF TypeOK, TokensOK, Keeps
  <1> QED BY <1>2, <1>4, <1>5, <1>9 DEF ClientStep

LEMMA GiveUpIsClientStep ==
  ASSUME IInv, NEW r \in Requests, GiveUp(r)
  PROVE  ClientStep
  <1> USE DEF IInv
  <1> DEFINE q == req[r]
  <1>1. q \in Threads /\ q.tab \in Tabs
    BY DEF TypeOK, Threads
  <1>2. cookie' \in [Browsers -> Sessions] /\ \A b \in Browsers : cookie'[b] <= issued
    BY CookieType DEF GiveUp, TypeOK, TokensOK
  <1>3. tab' = [tab EXCEPT ![q.tab] = Handled(q, tab[q.tab], FALSE)]
        /\ req' = [req EXCEPT ![r] = Unheard(q)] /\ UNCHANGED <<scenario, now, auth>>
    BY DEF GiveUp
  <1>4. tab' \in [Tabs -> Pages]
    BY <1>1, <1>3, PageTypes DEF TypeOK
  <1>5. req' \in [Requests -> Threads] /\ Keeps /\ \A x \in Requests : req'[x].token <= issued
    BY <1>3, UnheardKeeps DEF TypeOK, TokensOK, Keeps
  <1> QED BY <1>2, <1>3, <1>4, <1>5 DEF ClientStep

\* The invariant does not see the steps of the script.
LEMMA ClientKeeps ==
  ASSUME IInv, ClientStep
  PROVE  IInv'
  <1> USE DEF IInv, ClientStep, Keeps
  <1>1. TypeOK'
    BY DEF TypeOK, auth
  <1>2. LogOK' /\ LoginLimit' /\ SessionsOK'
    BY DEF LogOK, LoginLimit, SessionsOK, auth
  <1>3. VerifyOK'
    BY DEF VerifyOK, Browser, auth
  <1>4. TokensOK'
    BY DEF TokensOK, auth
  <1> QED BY <1>1, <1>2, <1>3, <1>4

-----------------------------------------------------------------------------
(* The server                                                              *)

\* What Answer makes of a request; q is the request as its thread has it.
LEMMA AnswerFacts ==
  ASSUME IInv, NEW r \in Requests, NEW q \in Threads,
         NEW answer \in {"ok", "limited", "refused", "error"}, Answer(r, q, answer)
  PROVE  /\ req' \in [Requests -> Threads]
         /\ req'[r].pc # "verify" /\ req'[r].token \in {0, q.token}
         /\ \A x \in Requests \ {r} : req'[x] = req[x]
  <1> DEFINE new == IF q.heard THEN [q EXCEPT !.pc = "answered", !.answer = answer] ELSE Free
  <1>1. new \in Threads /\ new.pc # "verify" /\ new.token \in {0, q.token}
    BY ScenarioType DEF Free, Threads, IInv
  <1>2. req' = [req EXCEPT ![r] = new]
    BY DEF Answer
  <1> HIDE DEF new
  <1> QED BY <1>1, <1>2 DEF IInv, TypeOK

LEMMA TickKeeps ==
  ASSUME IInv, Tick
  PROVE  IInv'
  <1> USE DEF IInv, Tick, auth, client
  <1>1. TypeOK'
    BY DEF TypeOK
  <1>2. LogOK'
    <2>1. \A b \in Browsers : \A i \in 1..Len(failures[b]) :
            failures[b][i] \in Nat /\ now \in Nat /\ forgotten[b] \in Nat
      BY DEF TypeOK
    <2> QED BY <2>1, ConstantsAssumption DEF LogOK
  <1>3. VerifyOK'
    <2>1. \A r \in Requests : req[r].at \in Nat /\ now \in Nat
      BY DEF TypeOK, Threads
    <2> QED BY <2>1 DEF VerifyOK, Browser
  <1>4. LoginLimit' /\ SessionsOK' /\ TokensOK'
    BY DEF LoginLimit, SessionsOK, TokensOK
  <1> QED BY <1>1, <1>2, <1>3, <1>4

LEMMA CheckLimitKeeps ==
  ASSUME IInv, NEW r \in Requests, CheckLimit(r)
  PROVE  IInv'
  <1> USE DEF IInv
  <1> DEFINE b == Browser(req[r].tab)
  <1>1. b \in Browsers /\ req[r] \in Threads
    BY ScenarioType DEF TypeOK, Threads
  <1>2. PICK n \in 0..Len(failures[b]) :
          /\ OutOfWindow(b, n)
          /\ forgotten' = [forgotten EXCEPT ![b] = n]
          /\ \/ Answer(r, req[r], "limited") /\ UNCHANGED lock
             \/ /\ Len(failures[b]) - n < Max
                /\ req' = [req EXCEPT ![r].pc = "verify", ![r].at = now]
                /\ lock' = r
    BY DEF CheckLimit
  <1>3. /\ UNCHANGED <<scenario, now, failures, expires, issued, born, ended, client>>
        /\ req[r].pc = "sent" /\ lock = None
    BY DEF CheckLimit, LockFree
  <1>4. \A x \in Requests : req[x].pc # "verify"
    BY <1>3, ConstantsAssumption DEF TypeOK
  <1>5. n \in Nat /\ now \in Nat /\ forgotten \in [Browsers -> Nat] /\ failures[b] \in Seq(Nat)
        /\ Len(failures[b]) \in Nat /\ Max \in Nat /\ Window \in Nat
    BY <1>1, ConstantsAssumption DEF TypeOK
  <1>6. /\ req' \in [Requests -> Threads]
        /\ req'[r].token \in {0, req[r].token}
        /\ \A x \in Requests \ {r} : req'[x] = req[x]
        /\ \A x \in Requests : req'[x].pc = "verify" <=> lock' = x
        /\ lock' \in Requests \cup {None}
    <2>1. CASE Answer(r, req[r], "limited") /\ UNCHANGED lock
      BY <1>1, <1>3, <1>4, <2>1, AnswerFacts, ConstantsAssumption
    <2>2. CASE req' = [req EXCEPT ![r].pc = "verify", ![r].at = now] /\ lock' = r
      <3>1. [req[r] EXCEPT !.pc = "verify", !.at = now] \in Threads
        BY <1>1, <1>5 DEF Threads
      <3>2. req' = [req EXCEPT ![r] = [req[r] EXCEPT !.pc = "verify", !.at = now]]
        BY <2>2 DEF TypeOK, Threads
      <3>3. req'[r] = [req[r] EXCEPT !.pc = "verify", !.at = now]
            /\ \A x \in Requests \ {r} : req'[x] = req[x]
        BY <3>2 DEF TypeOK
      <3>4. req' \in [Requests -> Threads]
        BY <3>1, <3>2 DEF TypeOK
      <3>5. req'[r].token = req[r].token /\ req'[r].pc = "verify"
        BY <1>1, <3>3 DEF Threads
      <3> QED BY <1>4, <2>2, <3>3, <3>4, <3>5
    <2> QED BY <1>2, <2>1, <2>2
  <1>7. TypeOK'
    BY <1>1, <1>2, <1>3, <1>5, <1>6 DEF TypeOK, client
  <1>8. LogOK'
    <2>1. ASSUME NEW i \in 1..Len(failures[b]), i <= n
          PROVE  failures[b][i] + Window <= now
      <3>1. CASE i <= forgotten[b]
        BY <1>1, <3>1 DEF LogOK
      <3>2. CASE i \in forgotten[b] + 1..n
        BY <1>2, <3>2 DEF OutOfWindow
      <3>3. forgotten[b] \in Nat
        BY <1>1, <1>5
      <3> QED BY <1>5, <2>1, <3>1, <3>2, <3>3
    <2> SUFFICES ASSUME NEW c \in Browsers
                 PROVE  /\ forgotten'[c] <= Len(failures[c])
                        /\ \A i \in 1..Len(failures[c]) :
                             /\ failures[c][i] <= now
                             /\ i <= forgotten'[c] => failures[c][i] + Window <= now
                        /\ \A i, j \in 1..Len(failures[c]) :
                             i <= j => failures[c][i] <= failures[c][j]
      BY <1>3 DEF LogOK
    <2>2. CASE c = b
      <3>1. forgotten'[c] = n
        BY <1>1, <1>2, <1>5, <2>2
      <3>2. n <= Len(failures[c])
        BY <1>5, <2>2
      <3>3. \A i \in 1..Len(failures[c]) : i <= n => failures[c][i] + Window <= now
        BY <2>1, <2>2
      <3> HIDE DEF b
      <3> QED BY <3>1, <3>2, <3>3 DEF LogOK
    <2>3. CASE c # b
      <3>1. forgotten'[c] = forgotten[c]
        BY <1>2, <1>5, <2>3
      <3> QED BY <3>1 DEF LogOK
    <2> QED BY <2>2, <2>3
  <1>9. VerifyOK'
    <2> SUFFICES ASSUME NEW x \in Requests, req'[x].pc = "verify"
                 PROVE  LET c == Browser(req'[x].tab) IN
                        /\ req'[x].at <= now
                        /\ Len(failures[c]) < forgotten'[c] + Max
                        /\ \A i \in 1..Len(failures[c]) :
                             /\ failures[c][i] <= req'[x].at
                             /\ i <= forgotten'[c] => failures[c][i] + Window <= req'[x].at
      BY <1>3 DEF VerifyOK, Browser
    <2>1. x = r /\ lock' = r
      BY <1>3, <1>4, <1>6
    <2>2. /\ Len(failures[b]) - n < Max
          /\ req' = [req EXCEPT ![r].pc = "verify", ![r].at = now]
      BY <1>1, <1>2, <1>3, <2>1, ConstantsAssumption, AnswerFacts
    <2>3. req'[x].at = now /\ Browser(req'[x].tab) = b
      BY <2>1, <2>2 DEF TypeOK, Threads
    <2>4. forgotten'[b] = n
      BY <1>1, <1>2, <1>5
    <2>5. \A i \in 1..Len(failures[b]) :
            failures[b][i] <= now /\ (i <= n => failures[b][i] + Window <= now)
      BY <1>1, <1>3, <1>8, <2>4 DEF LogOK
    <2>6. Len(failures[b]) < n + Max
      BY <1>5, <2>2
    <2> QED BY <1>5, <2>3, <2>4, <2>5, <2>6
  <1>10. LoginLimit' /\ SessionsOK'
    BY <1>3 DEF LoginLimit, SessionsOK
  <1>11. TokensOK'
    BY <1>3, <1>6, ScenarioType DEF TokensOK, client
  <1> QED BY <1>7, <1>8, <1>9, <1>10, <1>11

LEMMA WrongPasswordKeeps ==
  ASSUME IInv, NEW r \in Requests, WrongPassword(r)
  PROVE  IInv'
  <1> USE DEF IInv
  <1> DEFINE b == Browser(req[r].tab)
             old == failures[b]
             new == failures'[b]
             at == req[r].at
  <1>1. b \in Browsers /\ req[r] \in Threads /\ at \in Nat /\ req[r].pc = "verify"
    BY ScenarioType DEF TypeOK, Threads, WrongPassword
  <1>2. /\ failures' = [failures EXCEPT ![b] = Append(old, at)]
        /\ Answer(r, req[r], "refused") /\ lock' = None
        /\ UNCHANGED <<scenario, now, forgotten, expires, issued, born, ended, client>>
    BY DEF WrongPassword
  <1>3. old \in Seq(Nat) /\ Len(old) \in Nat /\ now \in Nat /\ forgotten[b] \in Nat
        /\ Max \in Nat \ {0} /\ Window \in Nat /\ failures' \in [Browsers -> Seq(Nat)]
    BY <1>1, <1>2, ConstantsAssumption DEF TypeOK
  <1>4. /\ new = Append(old, at) /\ Len(new) = Len(old) + 1
        /\ \A i \in 1..Len(old) : new[i] = old[i] /\ old[i] \in Nat
        /\ new[Len(old) + 1] = at
    BY <1>1, <1>2, <1>3 DEF TypeOK
  <1>5. \A c \in Browsers : c # b => failures'[c] = failures[c]
    BY <1>2 DEF TypeOK
  <1>6. /\ at <= now /\ Len(old) < forgotten[b] + Max
        /\ \A i \in 1..Len(old) : old[i] <= at /\ (i <= forgotten[b] => old[i] + Window <= at)
    BY <1>1 DEF VerifyOK
  <1>7. /\ req' \in [Requests -> Threads]
        /\ req'[r].token \in {0, req[r].token}
        /\ \A x \in Requests : req'[x].pc # "verify"
        /\ \A x \in Requests \ {r} : req'[x] = req[x]
    BY <1>1, <1>2, AnswerFacts DEF TypeOK
  <1>8. TypeOK'
    BY <1>2, <1>3, <1>7, ConstantsAssumption DEF TypeOK, client
  <1>9. LogOK'
    <2> SUFFICES ASSUME NEW c \in Browsers
                 PROVE  /\ forgotten[c] <= Len(failures'[c])
                        /\ \A i \in 1..Len(failures'[c]) :
                             /\ failures'[c][i] <= now
                             /\ i <= forgotten[c] => failures'[c][i] + Window <= now
                        /\ \A i, j \in 1..Len(failures'[c]) :
                             i <= j => failures'[c][i] <= failures'[c][j]
      BY <1>2 DEF LogOK
    <2>1. CASE c # b
      BY <1>5, <2>1 DEF LogOK
    <2>2. CASE c = b
      <3>1. /\ forgotten[b] <= Len(old)
            /\ \A i \in 1..Len(old) :
                 old[i] <= now /\ (i <= forgotten[b] => old[i] + Window <= now)
            /\ \A i, j \in 1..Len(old) : i <= j => old[i] <= old[j]
        BY <1>1 DEF LogOK
      <3>5. failures'[c] = new /\ forgotten[c] = forgotten[b]
        BY <2>2
      <3> HIDE DEF new, old, at, b
      <3>2. \A i \in 1..Len(new) : i \in 1..Len(old) \/ i = Len(old) + 1
        BY <1>3, <1>4
      <3>3. \A i \in 1..Len(new) : new[i] <= now /\ (i <= forgotten[b] => new[i] + Window <= now)
        BY <1>3, <1>4, <1>6, <3>1, <3>2
      <3>4. \A i, j \in 1..Len(new) : i <= j => new[i] <= new[j]
        BY SMTT(30), <1>1, <1>3, <1>4, <1>6, <3>1, <3>2
      <3>6. forgotten[b] <= Len(new)
        BY <1>3, <1>4, <3>1
      <3> QED BY <3>3, <3>4, <3>5, <3>6
    <2> QED BY <2>1, <2>2
  <1>10. LoginLimit'
    <2> SUFFICES ASSUME NEW c \in Browsers, NEW i \in 1..Len(failures'[c]),
                        i + Max <= Len(failures'[c])
                 PROVE  failures'[c][i] + Window <= failures'[c][i + Max]
      BY DEF LoginLimit
    <2>1. CASE c # b
      BY <1>5, <2>1 DEF LoginLimit
    <2>2. CASE c = b
      <3>1. \A k \in 1..Len(old) : k + Max <= Len(old) => old[k] + Window <= old[k + Max]
        BY <1>1 DEF LoginLimit
      <3>2. i \in 1..Len(new) /\ i + Max <= Len(new) /\ failures'[c] = new
        BY <2>2
      <3> HIDE DEF new, old, at, b
      <3>3. CASE i + Max <= Len(old)
        <4>1. i \in 1..Len(old) /\ i + Max \in 1..Len(old)
          BY <1>3, <1>4, <3>2, <3>3
        <4> QED BY <1>4, <3>1, <3>2, <3>3, <4>1
      <3>4. CASE i + Max = Len(old) + 1
        <4>1. i \in 1..Len(old)
          BY <1>3, <1>4, <3>2, <3>4
        <4>2. i <= forgotten[b]
          BY SMTT(30), <1>3, <1>6, <3>4, <4>1
        <4>3. new[i] + Window <= at /\ new[i + Max] = at
          BY <1>4, <1>6, <3>4, <4>1, <4>2
        <4> QED BY <3>2, <4>3
      <3>5. i + Max <= Len(old) \/ i + Max = Len(old) + 1
        <4>1. i \in Nat /\ Max \in Nat /\ Len(old) \in Nat /\ i + Max <= Len(old) + 1
          BY <1>3, <1>4, <3>2
        <4> QED BY <4>1
      <3> QED BY <3>3, <3>4, <3>5
    <2> QED BY <2>1, <2>2
  <1>11. VerifyOK' /\ SessionsOK'
    BY <1>2, <1>7 DEF VerifyOK, SessionsOK
  <1>12. TokensOK'
    BY <1>2, <1>7, ScenarioType DEF TokensOK, client
  <1> QED BY <1>8, <1>9, <1>10, <1>11, <1>12

LEMMA RightPasswordKeeps ==
  ASSUME IInv, NEW r \in Requests, RightPassword(r)
  PROVE  IInv'
  <1> USE DEF IInv
  <1> DEFINE b == Browser(req[r].tab)
             k == issued + 1
             q == [req[r] EXCEPT !.token = k]
  <1>1. b \in Browsers /\ req[r] \in Threads /\ req[r].at \in Nat /\ req[r].pc = "verify"
    BY ScenarioType DEF TypeOK, Threads, RightPassword
  <1>2. /\ failures' = [failures EXCEPT ![b] = <<>>] /\ forgotten' = [forgotten EXCEPT ![b] = 0]
        /\ issued' = k /\ expires' = [expires EXCEPT ![k] = req[r].at + TTL]
        /\ born' = [born EXCEPT ![k] = req[r].at]
        /\ Answer(r, q, "ok") /\ lock' = None
        /\ UNCHANGED <<scenario, now, ended, client>>
    BY DEF RightPassword
  <1>3. k \in Sessions /\ k \in Nat /\ issued \in Nat
    <2>1. issued < scenario.logins /\ scenario.logins \in 0..MaxSessions /\ issued \in Nat
      BY ScenarioType DEF RightPassword
    <2> QED BY <2>1, ConstantsAssumption DEF Sessions
  <1>4. q \in Threads /\ q.token = k
    BY <1>1, <1>3 DEF Threads
  <1>5. /\ req' \in [Requests -> Threads]
        /\ req'[r].token \in {0, k}
        /\ \A x \in Requests : req'[x].pc # "verify"
        /\ \A x \in Requests \ {r} : req'[x] = req[x]
    BY <1>1, <1>2, <1>4, AnswerFacts DEF TypeOK
  <1>6. failures' \in [Browsers -> Seq(Nat)] /\ forgotten' \in [Browsers -> Nat]
        /\ expires' \in [Sessions -> Nat] /\ born' \in [Sessions -> Nat]
    <2>1. <<>> \in Seq(Nat) /\ req[r].at + TTL \in Nat
      BY <1>1, ConstantsAssumption
    <2> QED BY <1>1, <1>2, <1>3, <2>1 DEF TypeOK
  <1>7. TypeOK'
    BY <1>2, <1>3, <1>5, <1>6, ConstantsAssumption DEF TypeOK, client
  <1>8. failures'[b] = <<>> /\ forgotten'[b] = 0 /\ Len(failures'[b]) = 0
        /\ \A c \in Browsers : c # b => failures'[c] = failures[c] /\ forgotten'[c] = forgotten[c]
    BY <1>1, <1>2 DEF TypeOK
  <1>9. LogOK' /\ LoginLimit'
    <2>1. ASSUME NEW c \in Browsers, c = b
          PROVE  Len(failures'[c]) = 0 /\ forgotten'[c] = 0
      BY <1>8, <2>1
    <2>2. ASSUME NEW c \in Browsers, c # b
          PROVE  failures'[c] = failures[c] /\ forgotten'[c] = forgotten[c]
      BY <1>8, <2>2
    <2> HIDE DEF b
    <2> QED BY <1>2, <2>1, <2>2 DEF LogOK, LoginLimit
  <1>10. VerifyOK'
    BY <1>5 DEF VerifyOK
  <1>11. SessionsOK'
    <2> SUFFICES ASSUME NEW s \in Sessions, expires'[s] # 0
                 PROVE  s \in 1..k /\ s \notin ended /\ expires'[s] = born'[s] + TTL
      BY <1>2 DEF SessionsOK
    <2>1. CASE s = k
      BY <1>1, <1>2, <1>3, <2>1 DEF TypeOK, TokensOK
    <2>2. CASE s # k
      BY <1>2, <1>3, <2>2 DEF TypeOK, SessionsOK
    <2> QED BY <2>1, <2>2
  <1>12. TokensOK'
    <2>1. ASSUME NEW x \in Requests
          PROVE  req'[x].token <= k
      <3>1. req[x].token \in Nat /\ req[x].token <= issued
        BY ScenarioType DEF TokensOK, TypeOK, Threads
      <3> QED BY <1>3, <1>5, <3>1
    <2>2. \A c \in Browsers : cookie[c] <= k
      BY <1>3, ConstantsAssumption DEF TokensOK, TypeOK, Sessions
    <2>3. ended \subseteq 0..k
      BY <1>3 DEF TokensOK
    <2> QED BY <1>2, <2>1, <2>2, <2>3 DEF TokensOK, client
  <1> QED BY <1>7, <1>9, <1>10, <1>11, <1>12

\* Steps that touch neither the failures nor the lock nor a thread in login.
LEMMA LogUntouched ==
  ASSUME IInv, NEW r \in Requests, req[r].pc # "verify", req'[r].pc # "verify",
         \A x \in Requests \ {r} : req'[x] = req[x],
         UNCHANGED <<scenario, now, lock, failures, forgotten>>
  PROVE  /\ LogOK' /\ VerifyOK' /\ LoginLimit'
         /\ \A x \in Requests : req'[x].pc = "verify" <=> lock' = x
  BY DEF IInv, TypeOK, LogOK, VerifyOK, LoginLimit, Browser

LEMMA CheckSessionKeeps ==
  ASSUME IInv, NEW r \in Requests, CheckSession(r)
  PROVE  IInv'
  <1> USE DEF IInv
  <1> DEFINE q == req[r]
  <1>1. /\ q \in Threads /\ q.pc = "sent" /\ q.token \in Sessions
        /\ UNCHANGED <<scenario, now, lock, failures, forgotten, issued, born, ended, client>>
        /\ expires' \in {expires, [expires EXCEPT ![q.token] = 0]}
    BY DEF TypeOK, Threads, CheckSession, Popped
  <1>2. /\ req' \in [Requests -> Threads] /\ req'[r].pc # "verify"
        /\ req'[r].token \in {0, q.token} /\ \A x \in Requests \ {r} : req'[x] = req[x]
    <2>1. CASE req' = [req EXCEPT ![r].pc = "checked"]
      BY <1>1, <2>1 DEF TypeOK, Threads
    <2>2. CASE Answer(r, q, "refused")
      BY <1>1, <2>2, AnswerFacts
    <2> QED BY <2>1, <2>2 DEF CheckSession
  <1>3. /\ LogOK' /\ VerifyOK' /\ LoginLimit'
        /\ \A x \in Requests : req'[x].pc = "verify" <=> lock' = x
    BY <1>1, <1>2, LogUntouched
  <1>4. TypeOK'
    BY <1>1, <1>2, <1>3, ScenarioType DEF TypeOK, client
  <1>5. SessionsOK'
    BY <1>1 DEF SessionsOK, TypeOK
  <1>6. TokensOK'
    BY <1>1, <1>2, ScenarioType DEF TokensOK, client
  <1> QED BY <1>3, <1>4, <1>5, <1>6

LEMMA LogoutKeeps ==
  ASSUME IInv, NEW r \in Requests, Logout(r)
  PROVE  IInv'
  <1> USE DEF IInv
  <1> DEFINE q == req[r]
  <1>1. /\ q \in Threads /\ q.pc = "checked" /\ q.token \in Sessions /\ q.token <= issued
        /\ UNCHANGED <<scenario, now, lock, failures, forgotten, issued, born, client>>
        /\ expires' = [expires EXCEPT ![q.token] = 0] /\ ended' = ended \cup {q.token}
        /\ Answer(r, q, "ok")
    BY DEF TypeOK, Threads, Logout, Popped, TokensOK
  <1>2. /\ req' \in [Requests -> Threads] /\ req'[r].pc # "verify"
        /\ req'[r].token \in {0, q.token} /\ \A x \in Requests \ {r} : req'[x] = req[x]
    BY <1>1, AnswerFacts
  <1>3. /\ LogOK' /\ VerifyOK' /\ LoginLimit'
        /\ \A x \in Requests : req'[x].pc = "verify" <=> lock' = x
    BY <1>1, <1>2, LogUntouched
  <1>4. TypeOK'
    BY <1>1, <1>2, <1>3, ScenarioType DEF TypeOK, client
  <1>5. SessionsOK'
    BY <1>1 DEF SessionsOK, TypeOK
  <1>6. q.token \in 0..issued
    BY <1>1, ScenarioType
  <1>7. TokensOK'
    BY <1>1, <1>2, <1>6, ScenarioType DEF TokensOK, client
  <1> QED BY <1>3, <1>4, <1>5, <1>7

LEMMA ActKeeps ==
  ASSUME IInv, NEW r \in Requests, Act(r)
  PROVE  IInv'
  <1> USE DEF IInv
  <1>1. PICK answer \in {"ok", "limited", "refused", "error"} : Answer(r, req[r], answer)
    BY DEF Act
  <1>2. /\ req[r] \in Threads /\ req[r].pc = "checked"
        /\ UNCHANGED <<scenario, now, auth, client>>
    BY DEF TypeOK, Act
  <1>3. /\ req' \in [Requests -> Threads] /\ req'[r].pc # "verify"
        /\ req'[r].token \in {0, req[r].token} /\ \A x \in Requests \ {r} : req'[x] = req[x]
    BY <1>1, <1>2, AnswerFacts
  <1>4. /\ LogOK' /\ VerifyOK' /\ LoginLimit'
        /\ \A x \in Requests : req'[x].pc = "verify" <=> lock' = x
    BY <1>2, <1>3, LogUntouched DEF auth
  <1>5. TypeOK'
    BY <1>2, <1>3, <1>4 DEF TypeOK, client, auth
  <1>6. SessionsOK' /\ TokensOK'
    BY <1>2, <1>3, ScenarioType DEF SessionsOK, TokensOK, client, auth
  <1> QED BY <1>4, <1>5, <1>6

LEMMA RestartKeeps ==
  ASSUME IInv, Restart
  PROVE  IInv'
  <1> USE DEF IInv
  <1>1. /\ lock' = None
        /\ failures' = [b \in Browsers |-> <<>>] /\ forgotten' = [b \in Browsers |-> 0]
        /\ expires' = [k \in Sessions |-> 0] /\ ended' = 0..issued
        /\ UNCHANGED <<scenario, now, issued, born, client>>
    BY DEF Restart
  <1>2. ASSUME NEW r \in Requests
        PROVE  req'[r] \in Threads /\ req'[r].pc # "verify" /\ req'[r].token <= issued
    <2>1. req[r] \in Threads /\ req[r].token <= issued /\ 0 <= issued
      BY ScenarioType DEF TypeOK, TokensOK
    <2>2. Free \in Threads /\ Free.pc = "free" /\ Free.token = 0
      BY ScenarioType DEF Free
    <2>3. [req[r] EXCEPT !.pc = "answered", !.answer = "error"] \in Threads
      BY <2>1 DEF Threads
    <2>4. req'[r] \in {req[r], Free, [req[r] EXCEPT !.pc = "answered", !.answer = "error"]}
          /\ (req'[r] = req[r] => req[r].pc \in {"free", "answered"}
                                \/ req[r] = Free
                                \/ req[r] = [req[r] EXCEPT !.pc = "answered", !.answer = "error"])
      BY DEF Restart
    <2>5. [req[r] EXCEPT !.pc = "answered", !.answer = "error"].pc = "answered"
          /\ [req[r] EXCEPT !.pc = "answered", !.answer = "error"].token = req[r].token
      BY <2>1 DEF Threads
    <2> QED BY <2>1, <2>2, <2>3, <2>4, <2>5
  <1>3. req' \in [Requests -> Threads]
    <2>1. req' = [r \in Requests |-> req'[r]]
      BY DEF Restart
    <2> QED BY <1>2, <2>1
  <1>4. TypeOK'
    <2>1. <<>> \in Seq(Nat) /\ 0..issued \subseteq Sessions
      BY ScenarioType, ConstantsAssumption DEF TypeOK, Sessions
    <2> QED BY <1>1, <1>2, <1>3, <2>1, ConstantsAssumption DEF TypeOK, client
  <1>5. LogOK' /\ LoginLimit'
    <2>1. \A b \in Browsers : failures'[b] = <<>> /\ forgotten'[b] = 0 /\ Len(failures'[b]) = 0
      BY <1>1
    <2> QED BY <2>1 DEF LogOK, LoginLimit
  <1>6. VerifyOK' /\ SessionsOK'
    BY <1>1, <1>2 DEF VerifyOK, SessionsOK
  <1>7. TokensOK'
    BY <1>1, <1>2 DEF TokensOK, client
  <1> QED BY <1>4, <1>5, <1>6, <1>7

-----------------------------------------------------------------------------

LEMMA InitIInv == Init => IInv
  <1> SUFFICES ASSUME Init PROVE IInv
    OBVIOUS
  <1>1. TypeOK
    <2>1. (CHOOSE t \in Tabs : TRUE) \in Tabs
      BY ConstantsAssumption
    <2>2. 0 \in Sessions /\ <<>> \in Seq(Nat)
      BY ConstantsAssumption DEF Sessions
    <2>3. Free \in Threads /\ Free.pc = "free"
      BY <2>1, <2>2 DEF Free, Threads
    <2>4. [Page EXCEPT !.view = "none"] \in Pages
      BY <2>2 DEF Page, Pages
    <2> QED BY <2>2, <2>3, <2>4, ConstantsAssumption DEF Init, TypeOK
  <1>2. \A b \in Browsers : failures[b] = <<>> /\ forgotten[b] = 0 /\ Len(failures[b]) = 0
    BY DEF Init
  <1>3. LogOK /\ LoginLimit
    BY <1>2 DEF LogOK, LoginLimit
  <1>4. VerifyOK /\ SessionsOK /\ TokensOK
    BY DEF Init, VerifyOK, SessionsOK, TokensOK, Free
  <1> QED BY <1>1, <1>3, <1>4 DEF IInv

LEMMA NextIInv == IInv /\ [Next]_vars => IInv'
  <1> SUFFICES ASSUME IInv, [Next]_vars PROVE IInv'
    OBVIOUS
  <1>1. CASE Tick
    BY <1>1, TickKeeps
  <1>2. CASE Restart
    BY <1>2, RestartKeeps
  <1>3. ASSUME NEW t \in scenario.tabs,
               Load(t) \/ ClickLogin(t) \/ ClickLogout(t) \/ ClickConnect(t)
        PROVE  IInv'
    <2>1. t \in Tabs
      BY ConstantsAssumption DEF IInv, TypeOK
    <2> QED BY <1>3, <2>1, LoadIsClientStep, ClicksAreClientSteps, ClientKeeps
  <1>4. ASSUME NEW t \in Tabs, Interval(t)
        PROVE  IInv'
    BY <1>4, ClicksAreClientSteps, ClientKeeps
  <1>5. ASSUME NEW r \in Requests, ServerStep(r)
        PROVE  IInv'
    BY <1>5, CheckLimitKeeps, WrongPasswordKeeps, RightPasswordKeeps, CheckSessionKeeps,
       LogoutKeeps, ActKeeps DEF ServerStep
  <1>6. ASSUME NEW r \in Requests, Receive(r) \/ GiveUp(r)
        PROVE  IInv'
    BY <1>6, ReceiveIsClientStep, GiveUpIsClientStep, ClientKeeps
  <1>7. CASE UNCHANGED vars
    BY <1>7 DEF vars, auth, client, IInv, TypeOK, LogOK, VerifyOK, LoginLimit, SessionsOK,
                TokensOK, Browser
  <1> QED BY <1>1, <1>2, <1>3, <1>4, <1>5, <1>6, <1>7 DEF Next, UserStep

LEMMA Invariance == Spec => []IInv
  BY InitIInv, NextIInv, PTL DEF Spec

-----------------------------------------------------------------------------

\* Where a request that waits for its thread goes: the only ways out of "sent".
LEMMA OutOfSent ==
  ASSUME IInv, Next, NEW r \in Requests, req[r].pc = "sent", req'[r].pc # "sent"
  PROVE  \/ CheckLimit(r) \/ CheckSession(r)
         \/ req'[r].pc = "free"
         \/ Restart
  <1> USE DEF IInv
  <1>1. req[r] \in Threads
    BY DEF TypeOK
  <1>2. ASSUME NEW q \in Threads, Unheard(req[r]) = q
        PROVE  q.pc \in {"free", "sent"}
    BY <1>1, <1>2, ScenarioType DEF Unheard, Free, Threads
  <1>3. Unheard(req[r]).pc \in {"free", "sent"}
    BY <1>2, RequestTypes
  <1>4. CASE Tick
    BY <1>4 DEF Tick
  <1>5. ASSUME NEW t \in scenario.tabs, Load(t)
        PROVE  req'[r].pc \in {"free", "sent"}
    <2>1. PICK x \in Requests :
            /\ req[x].pc = "free"
            /\ req' = [q \in Requests |->
                         IF q = x THEN Sent("init", t, cookie[Browser(t)], 0)
                         ELSE IF req[q].heard /\ req[q].tab = t THEN Unheard(req[q]) ELSE req[q]]
      BY <1>5 DEF Load
    <2> QED BY <1>3, <2>1
  <1>6. ASSUME NEW t \in Tabs, NEW kind, NEW page, Send(kind, t, page)
        PROVE  req'[r].pc = "sent"
    <2>1. PICK x \in Requests :
            /\ req[x].pc = "free"
            /\ req' = [req EXCEPT ![x] = Sent(kind, t, cookie[Browser(t)], tab[t].csrf)]
      BY <1>6 DEF Send
    <2> QED BY <2>1 DEF TypeOK
  <1>7. ASSUME NEW t \in Tabs,
               ClickLogin(t) \/ ClickLogout(t) \/ ClickConnect(t) \/ Interval(t)
        PROVE  req'[r].pc = "sent"
    BY <1>6, <1>7 DEF ClickLogin, ClickLogout, ClickConnect, Interval
  <1>8. ASSUME NEW x \in Requests, Receive(x)
        PROVE  req'[r] = req[r]
    BY <1>8 DEF Receive, TypeOK
  <1>9. ASSUME NEW x \in Requests, GiveUp(x)
        PROVE  req'[r].pc \in {"free", "sent"}
    BY <1>3, <1>9 DEF GiveUp, TypeOK
  <1>10. ASSUME NEW x \in Requests, ServerStep(x)
         PROVE  CheckLimit(r) \/ CheckSession(r) \/ req'[r] = req[r]
    <2>1. CASE x = r
      BY <1>10, <2>1
      DEF ServerStep, WrongPassword, RightPassword, Logout, Act
    <2>2. CASE x # r
      BY <1>10, <2>2 DEF ServerStep, CheckLimit, WrongPassword, RightPassword, CheckSession,
                         Logout, Act, Answer, TypeOK
    <2> QED BY <2>1, <2>2
  <1>11. \A t \in scenario.tabs : t \in Tabs
    BY ConstantsAssumption DEF TypeOK
  <1> QED BY <1>4, <1>5, <1>7, <1>8, <1>9, <1>10, <1>11 DEF Next, UserStep

LEMMA RestartAnswers ==
  ASSUME IInv, Restart, NEW r \in Requests, req[r].pc = "sent"
  PROVE  req'[r].pc = "free" \/ (req'[r].pc = "answered" /\ req'[r].answer = "error")
  <1> DEFINE q == [req[r] EXCEPT !.pc = "answered", !.answer = "error"]
  <1>1. q.pc = "answered" /\ q.answer = "error"
    BY DEF IInv, TypeOK, Threads
  <1>2. Free.pc = "free"
    BY DEF Free
  <1>3. req'[r] = q \/ req'[r] = Free
    BY DEF Restart
  <1> QED BY <1>1, <1>2, <1>3

\* An answer that the limit is reached comes from CheckLimit alone.
LEMMA OnlyCheckLimitRefuses ==
  ASSUME IInv, Next, NEW r \in Requests, req[r].pc = "sent",
         req'[r].pc = "answered", req'[r].answer = "limited"
  PROVE  CheckLimit(r) /\ Answer(r, req[r], "limited")
  <1>1. req[r] \in Threads
    BY DEF IInv, TypeOK
  <1>2. ~Restart
    BY RestartAnswers
  <1>3. ~CheckSession(r)
    <2> SUFFICES ASSUME CheckSession(r) PROVE FALSE
      OBVIOUS
    <2>1. CASE req' = [req EXCEPT ![r].pc = "checked"]
      BY <1>1, <2>1 DEF IInv, TypeOK, Threads
    <2>2. CASE Answer(r, req[r], "refused")
      BY <1>1, <2>2 DEF Answer, Free, Threads, IInv, TypeOK
    <2> QED BY <2>1, <2>2 DEF CheckSession
  <1>4. CheckLimit(r)
    BY <1>2, <1>3, OutOfSent
  <1>5. ~(req' = [req EXCEPT ![r].pc = "verify", ![r].at = now])
    BY <1>1 DEF IInv, TypeOK, Threads
  <1> QED BY <1>4, <1>5 DEF CheckLimit

LEMMA LimitedMeansFull ==
  ASSUME IInv, NEW r \in Requests, CheckLimit(r), Answer(r, req[r], "limited"),
         req'[r].pc = "answered"
  PROVE  LET b == Browser(req[r].tab) IN
         \E n \in 0..Len(failures[b]) : OutOfWindow(b, n) /\ Len(failures[b]) - n >= Max
  <1>1. req[r] \in Threads
    BY DEF IInv, TypeOK
  <1>2. ~(req' = [req EXCEPT ![r].pc = "verify", ![r].at = now])
    BY <1>1 DEF IInv, TypeOK, Threads
  <1> QED BY <1>2 DEF CheckLimit

LEMMA OnlyAcceptedAreChecked ==
  ASSUME IInv, Next, NEW r \in Requests, req[r].pc = "sent", req'[r].pc = "checked"
  PROVE  Accepted(req[r])
  <1>1. req[r] \in Threads
    BY DEF IInv, TypeOK
  <1>2. ~Restart
    BY RestartAnswers
  <1>3. ASSUME NEW answer, Answer(r, req[r], answer)
        PROVE  FALSE
    <2>1. [req[r] EXCEPT !.pc = "answered", !.answer = answer].pc = "answered" /\ Free.pc = "free"
      BY <1>1 DEF Free, Threads
    <2>2. req'[r] \in {Free, [req[r] EXCEPT !.pc = "answered", !.answer = answer]}
      BY <1>3 DEF Answer, IInv, TypeOK
    <2> QED BY <2>1, <2>2
  <1>4. ~CheckLimit(r)
    <2>1. ~(req' = [req EXCEPT ![r].pc = "verify", ![r].at = now])
      BY <1>1 DEF IInv, TypeOK, Threads
    <2> QED BY <1>3, <2>1 DEF CheckLimit
  <1>5. CheckSession(r)
    BY <1>2, <1>4, OutOfSent
  <1> QED BY <1>3, <1>5 DEF CheckSession

\* Types hold, and the lock of the authenticator is held by the thread that
\* verifies a password and by no other.
THEOREM TypeCorrect == Spec => []TypeOK
  <1>1. IInv => TypeOK
    BY DEF IInv
  <1> QED BY <1>1, Invariance, PTL

\* The limit on wrong passwords holds for any number of simultaneous requests.
THEOREM LoginLimitHolds == Spec => []LoginLimit
  <1>1. IInv => LoginLimit
    BY DEF IInv
  <1> QED BY <1>1, Invariance, PTL

\* Nobody is locked out by failures that are older than the window.
THEOREM NoEarlyLockoutHolds == Spec => NoEarlyLockout
  <1> DEFINE Good == \A r \in Requests : \A b \in Browsers :
       ( /\ req[r].pc = "sent" /\ b = Browser(req[r].tab)
         /\ req'[r].pc = "answered" /\ req'[r].answer = "limited" ) =>
       /\ Len(failures[b]) >= Max
       /\ \A i \in Len(failures[b]) - Max + 1..Len(failures[b]) : failures[b][i] + Window > now
  <1>1. IInv /\ [Next]_vars => [Good]_vars
    <2> SUFFICES ASSUME IInv, Next,
                        NEW r \in Requests, NEW b \in Browsers,
                        req[r].pc = "sent", b = Browser(req[r].tab),
                        req'[r].pc = "answered", req'[r].answer = "limited"
                 PROVE  /\ Len(failures[b]) >= Max
                        /\ \A i \in Len(failures[b]) - Max + 1..Len(failures[b]) :
                             failures[b][i] + Window > now
      BY DEF Good
    <2>1. CheckLimit(r) /\ Answer(r, req[r], "limited")
      BY OnlyCheckLimitRefuses
    <2>2. PICK n \in 0..Len(failures[b]) : OutOfWindow(b, n) /\ Len(failures[b]) - n >= Max
      BY <2>1, LimitedMeansFull
    <2> DEFINE log == failures[b]
    <2>6. log \in Seq(Nat) /\ \A i, j \in 1..Len(log) : i <= j => log[i] <= log[j]
      BY DEF IInv, TypeOK, LogOK
    <2>3. /\ Len(log) \in Nat /\ n \in Nat /\ Max \in Nat \ {0} /\ now \in Nat
          /\ Window \in Nat /\ \A i \in 1..Len(log) : log[i] \in Nat
          /\ \A i, j \in 1..Len(log) : i <= j => log[i] <= log[j]
      BY SMTT(30), <2>6, ConstantsAssumption DEF IInv, TypeOK
    <2>4. n + 1 \in 1..Len(log) /\ log[n + 1] + Window > now
      BY <2>2, <2>3 DEF OutOfWindow
    <2> HIDE DEF log
    <2>5. ASSUME NEW i \in Len(log) - Max + 1..Len(log)
          PROVE  log[i] + Window > now
      <3>1. i \in 1..Len(log) /\ n + 1 <= i
        BY <2>2, <2>3 DEF log
      <3> QED BY <2>3, <2>4, <3>1
    <2> QED BY <2>2, <2>3, <2>5 DEF log
  <1> HIDE DEF Good
  <1>2. [][Good]_vars => NoEarlyLockout
    BY DEF Good, NoEarlyLockout
  <1> QED BY <1>1, <1>2, Invariance, PTL DEF Spec

\* Only a live session, with its own CSRF token for a write, passes the check.
THEOREM AcceptsOnlyLiveHolds == Spec => AcceptsOnlyLive
  <1> DEFINE Good == \A r \in Requests : req[r].pc = "sent" /\ req'[r].pc = "checked" =>
       /\ req[r].token \in 1..issued /\ req[r].token \notin ended
       /\ now < born[req[r].token] + TTL
       /\ NeedsCsrf(req[r].kind) => req[r].csrf = req[r].token
  <1>1. IInv /\ [Next]_vars => [Good]_vars
    <2> SUFFICES ASSUME IInv, Next, NEW r \in Requests,
                        req[r].pc = "sent", req'[r].pc = "checked"
                 PROVE  /\ req[r].token \in 1..issued /\ req[r].token \notin ended
                        /\ now < born[req[r].token] + TTL
                        /\ NeedsCsrf(req[r].kind) => req[r].csrf = req[r].token
      BY DEF Good
    <2>1. Accepted(req[r])
      BY OnlyAcceptedAreChecked
    <2>2. req[r].token \in Sessions /\ expires[req[r].token] > now /\ now \in Nat
          /\ expires[req[r].token] \in Nat
      BY <2>1 DEF Accepted, Live, IInv, TypeOK, Threads
    <2> QED BY <2>1, <2>2 DEF Accepted, IInv, SessionsOK
  <1> HIDE DEF Good
  <1>2. [][Good]_vars => AcceptsOnlyLive
    BY DEF Good, AcceptsOnlyLive
  <1> QED BY <1>1, <1>2, Invariance, PTL DEF Spec

-----------------------------------------------------------------------------
(* What an undisturbed panel knows of its session                          *)

\* The panel of tab t waits for an answer that changes its session.
Waits(r, t) == req[r].heard /\ req[r].tab = t /\ req[r].kind \in {"init", "login", "logout"}

\* One such answer at a time, and until it comes the cookie, the token the request
\* took along and the token of the page are of one session.
PanelOK(t) ==
  LET page == tab[t]  c == cookie[Browser(t)] IN
  /\ page.said <= issued
  /\ page.view = "login" => ~Live(page.said)
  /\ page.view = "panel" => page.csrf = c
  /\ \A r, s \in Requests : Waits(r, t) /\ Waits(s, t) => r = s
  /\ \A r \in Requests : Waits(r, t) =>
       /\ req[r].kind \in {"init", "login"} => page.view = "login"
       /\ req[r].kind = "login" => page.submitting
       /\ req[r].kind = "init" => req[r].token = c
       /\ req[r].kind = "logout" =>
            /\ page.view = "panel" /\ req[r].token = c /\ req[r].csrf = c
            /\ req[r].pc = "answered" => ~Live(c)

\* Requests are of opened panels, and only a login verifies a password.
Traffic ==
  /\ \A r \in Requests : req[r].heard => req[r].tab \in scenario.tabs
  /\ \A r \in Requests : req[r].pc = "verify" => req[r].kind = "login"
  /\ \A t \in Tabs \ scenario.tabs : tab[t].view = "none" /\ tab[t].csrf = 0

PInv == IInv /\ Traffic /\ \A t \in scenario.tabs : Undisturbed(t) => PanelOK(t)

\* A step of the server, seen from the panels: no session comes back, and a logout
\* is answered only when its session is over or its token is of another one.
Quiet ==
  /\ UNCHANGED <<scenario, cookie, tab>> /\ issued <= issued' /\ issued' \in Nat
  /\ \A k \in Sessions : k <= issued /\ ~Live(k) => ~Live(k)'
  /\ \A r \in Requests : req'[r].pc = "verify" => req'[r].kind = "login"
  /\ \A r \in Requests : req'[r].heard =>
       /\ req[r].heard /\ req'[r].tab = req[r].tab
       /\ req'[r].kind = req[r].kind /\ req'[r].csrf = req[r].csrf
       /\ req[r].kind # "login" => req'[r].token = req[r].token
       /\ req[r].kind = "logout" /\ req'[r].pc = "answered" =>
            \/ req[r].pc = "answered" \/ req[r].csrf # req[r].token
            \/ \A k \in Sessions : k = req[r].token => ~Live(k)'

LEMMA TabsOpened == ASSUME TypeOK PROVE scenario.tabs \subseteq Tabs
  BY ConstantsAssumption DEF TypeOK

\* What is known of the session of an open panel.
LEMMA PanelFacts ==
  ASSUME IInv, NEW t \in scenario.tabs
  PROVE  /\ t \in Tabs /\ Browser(t) \in Browsers /\ tab[t] \in Pages
         /\ cookie[Browser(t)] \in Sessions /\ cookie[Browser(t)] <= issued
         /\ tab[t].said \in Sessions /\ tab[t].csrf \in Sessions
         /\ 0 \in Sessions /\ Sessions \subseteq Nat /\ issued \in Nat /\ 0 <= issued
  <1>1. t \in Tabs
    BY TabsOpened DEF IInv
  <1>2. Browser(t) \in Browsers
    BY <1>1, ScenarioType DEF IInv
  <1>3. tab[t] \in Pages
    BY <1>1 DEF IInv, TypeOK
  <1>4. cookie[Browser(t)] \in Sessions /\ cookie[Browser(t)] <= issued
    BY <1>2 DEF IInv, TypeOK, TokensOK
  <1>5. tab[t].said \in Sessions /\ tab[t].csrf \in Sessions
    BY <1>3 DEF Pages
  <1> QED BY <1>1, <1>2, <1>3, <1>4, <1>5, ScenarioType DEF IInv

LEMMA QuietKeeps ==
  ASSUME PInv, Quiet
  PROVE  Traffic' /\ \A t \in scenario.tabs : Undisturbed(t) => PanelOK(t)'
  <1>1. Traffic'
    BY DEF PInv, Traffic, Quiet
  <1>2. ASSUME NEW t \in scenario.tabs, PanelOK(t)
        PROVE  PanelOK(t)'
    <2> DEFINE c == cookie[Browser(t)]
    <2>1. /\ c \in Sessions /\ c <= issued /\ tab[t].said \in Sessions
          /\ Sessions \subseteq Nat /\ issued \in Nat
      BY PanelFacts DEF PInv
    <2>2. Browser(t)' = Browser(t) /\ UNCHANGED <<cookie, tab>> /\ c' = c
      BY DEF Quiet, Browser
    <2>3. tab[t].said <= issued'
      <3>1. tab[t].said <= issued
        BY <1>2 DEF PanelOK
      <3>2. issued <= issued' /\ issued' \in Nat
        BY DEF Quiet
      <3>3. tab[t].said \in Nat /\ issued \in Nat
        BY <2>1
      <3> HIDE DEF c
      <3> QED BY <3>1, <3>2, <3>3
    <2>4. tab[t].view = "login" => ~Live(tab[t].said)'
      <3>1. tab[t].view = "login" => ~Live(tab[t].said)
        BY <1>2 DEF PanelOK
      <3>2. \A k \in Sessions : k <= issued /\ ~Live(k) => ~Live(k)'
        BY DEF Quiet
      <3>3. tab[t].said <= issued
        BY <1>2 DEF PanelOK
      <3> QED BY <2>1, <2>2, <3>1, <3>2, <3>3 DEF Live
    <2>5. \A r \in Requests : Waits(r, t)' => Waits(r, t)
      BY DEF Waits, Quiet
    <2>6. ASSUME NEW r \in Requests, Waits(r, t)'
          PROVE  /\ req'[r].kind \in {"init", "login"} => tab[t].view = "login"
                 /\ req'[r].kind = "login" => tab[t].submitting
                 /\ req'[r].kind = "init" => req'[r].token = c
                 /\ req'[r].kind = "logout" =>
                      /\ tab[t].view = "panel" /\ req'[r].token = c /\ req'[r].csrf = c
                      /\ req'[r].pc = "answered" => ~Live(c)'
      <3>1. Waits(r, t) /\ req'[r].kind = req[r].kind /\ req'[r].csrf = req[r].csrf
            /\ (req[r].kind # "login" => req'[r].token = req[r].token)
        BY <2>5, <2>6 DEF Waits, Quiet
      <3>2. ASSUME req[r].kind = "logout", req'[r].pc = "answered"
            PROVE  ~Live(c)'
        <4>1. req[r].token = c /\ req[r].csrf = c /\ (req[r].pc = "answered" => ~Live(c))
          BY <1>2, <3>1, <3>2 DEF PanelOK
        <4>2. req[r].pc = "answered" \/ \A k \in Sessions : k = c => ~Live(k)'
          BY <2>6, <3>2, <4>1 DEF Quiet, Waits
        <4> HIDE DEF c
        <4>3. \A k \in Sessions : k <= issued /\ ~Live(k) => ~Live(k)'
          BY DEF Quiet
        <4> QED BY <2>1, <2>2, <4>1, <4>2, <4>3 DEF Live
      <3> QED BY <1>2, <3>1, <3>2 DEF PanelOK
    <2> QED BY <1>2, <2>2, <2>3, <2>4, <2>5, <2>6 DEF PanelOK
  <1> QED BY <1>1, <1>2 DEF PInv

-----------------------------------------------------------------------------

\* Steps of one thread: what it makes of its request, and of the sessions.
LEMMA ThreadIsQuiet ==
  ASSUME IInv, IInv', Traffic, NEW r \in Requests, UNCHANGED <<scenario, now, client>>, issued <= issued',
         \A x \in Requests \ {r} : req'[x] = req[x],
         req'[r].pc = "verify" => req'[r].kind = "login",
         \A k \in Sessions : k <= issued => expires'[k] \in {0, expires[k]},
         req'[r].heard =>
           /\ req[r].heard /\ req'[r].tab = req[r].tab
           /\ req'[r].kind = req[r].kind /\ req'[r].csrf = req[r].csrf
           /\ req[r].kind # "login" => req'[r].token = req[r].token
           /\ req[r].kind = "logout" /\ req'[r].pc = "answered" =>
                req[r].csrf # req[r].token \/ ~(expires'[req[r].token] > now)
  PROVE  Quiet
  <1>1. UNCHANGED <<scenario, cookie, tab>> /\ issued' \in Nat
    BY ScenarioType DEF client, IInv, TypeOK, Sessions
  <1>2. now \in Nat /\ expires \in [Sessions -> Nat]
    BY DEF IInv, TypeOK
  <1>3. \A k \in Sessions : k <= issued /\ ~Live(k) => ~Live(k)'
    BY <1>2 DEF Live
  <1> QED BY <1>1, <1>3 DEF Quiet, Live, Traffic

\* A request that a thread has answered, or that nobody waits for any more.
LEMMA AnswerIsHeard ==
  ASSUME IInv, NEW r \in Requests, NEW q \in Threads, NEW answer, Answer(r, q, answer)
  PROVE  /\ \A x \in Requests \ {r} : req'[x] = req[x]
         /\ req'[r].pc # "verify"
         /\ req'[r].heard => /\ q.heard /\ req'[r].tab = q.tab /\ req'[r].kind = q.kind
                             /\ req'[r].csrf = q.csrf /\ req'[r].token = q.token
  <1>1. CASE q.heard
    BY <1>1 DEF Answer, IInv, TypeOK, Threads
  <1>2. CASE ~q.heard
    <2>1. req' = [req EXCEPT ![r] = Free] /\ Free.heard = FALSE /\ Free.pc = "free"
      BY <1>2 DEF Answer, Free
    <2> QED BY <2>1 DEF IInv, TypeOK
  <1> QED BY <1>1, <1>2 DEF Threads

LEMMA LoginIsQuiet ==
  ASSUME IInv, IInv', Traffic, NEW r \in Requests, CheckLimit(r) \/ WrongPassword(r)
  PROVE  Quiet
  <1>1. req[r] \in Threads
    BY DEF IInv, TypeOK
  <1>2. \/ \E answer : Answer(r, req[r], answer)
        \/ req' = [req EXCEPT ![r].pc = "verify", ![r].at = now] /\ req[r].kind = "login"
    BY DEF CheckLimit, WrongPassword
  <1>5. req[r].kind = "login"
    BY DEF CheckLimit, WrongPassword, Traffic
  <1>3. UNCHANGED <<scenario, now, client, issued, expires>>
    BY DEF CheckLimit, WrongPassword
  <1>4. issued <= issued'
    BY <1>3, ScenarioType DEF IInv
  <1>6. CASE \E answer : Answer(r, req[r], answer)
    BY <1>1, <1>3, <1>4, <1>5, <1>6, AnswerIsHeard, ThreadIsQuiet
  <1>7. CASE req' = [req EXCEPT ![r].pc = "verify", ![r].at = now]
    <2>1. /\ \A x \in Requests \ {r} : req'[x] = req[x]
          /\ req'[r].heard = req[r].heard /\ req'[r].tab = req[r].tab
          /\ req'[r].kind = req[r].kind /\ req'[r].csrf = req[r].csrf
      BY <1>1, <1>7 DEF IInv, TypeOK, Threads
    <2> QED BY <1>3, <1>4, <1>5, <2>1, ThreadIsQuiet
  <1> QED BY <1>2, <1>6, <1>7

LEMMA RightPasswordIsQuiet ==
  ASSUME IInv, IInv', Traffic, NEW r \in Requests, RightPassword(r)
  PROVE  Quiet
  <1> DEFINE k == issued + 1
             q == [req[r] EXCEPT !.token = k]
  <1>1. req[r] \in Threads /\ issued \in Nat /\ k \in Sessions /\ req[r].kind = "login"
    <2>1. issued' \in Sessions /\ issued' = k
      BY DEF RightPassword, IInv, TypeOK
    <2> QED BY <2>1, ScenarioType DEF RightPassword, Traffic, IInv, TypeOK
  <1>2. q \in Threads /\ q.kind = "login" /\ q.heard = req[r].heard /\ q.tab = req[r].tab
        /\ q.csrf = req[r].csrf
    BY <1>1 DEF Threads
  <1>3. Answer(r, q, "ok") /\ UNCHANGED <<scenario, now, client>> /\ issued' = k
        /\ expires' = [expires EXCEPT ![k] = req[r].at + TTL]
    BY DEF RightPassword
  <1>4. \A x \in Sessions : x <= issued => expires'[x] = expires[x]
    BY <1>1, <1>3, ScenarioType DEF IInv, TypeOK
  <1>5. issued <= issued'
    BY <1>1, <1>3
  <1> HIDE DEF k, q
  <1>6. /\ \A x \in Requests \ {r} : req'[x] = req[x]
        /\ req'[r].pc # "verify"
        /\ req'[r].heard => /\ q.heard /\ req'[r].tab = q.tab /\ req'[r].kind = q.kind
                            /\ req'[r].csrf = q.csrf
    BY <1>2, <1>3, AnswerIsHeard
  <1> QED BY <1>1, <1>2, <1>3, <1>4, <1>5, <1>6, ThreadIsQuiet

LEMMA CheckSessionIsQuiet ==
  ASSUME IInv, IInv', Traffic, NEW r \in Requests, CheckSession(r)
  PROVE  Quiet
  <1> DEFINE q == req[r]
  <1>1. /\ q \in Threads /\ q.token \in Sessions /\ expires \in [Sessions -> Nat] /\ now \in Nat
        /\ UNCHANGED <<scenario, now, client, issued>>
        /\ expires' = IF Live(q.token) THEN expires ELSE [expires EXCEPT ![q.token] = 0]
    BY DEF IInv, TypeOK, Threads, CheckSession, Popped
  <1>2. \A k \in Sessions : expires'[k] \in {0, expires[k]}
    BY <1>1
  <1>3. issued <= issued'
    BY <1>1, ScenarioType DEF IInv
  <1>4. CASE req' = [req EXCEPT ![r].pc = "checked"]
    <2>1. /\ \A x \in Requests \ {r} : req'[x] = req[x]
          /\ req'[r].pc = "checked" /\ req'[r].heard = q.heard /\ req'[r].tab = q.tab
          /\ req'[r].kind = q.kind /\ req'[r].csrf = q.csrf /\ req'[r].token = q.token
      BY <1>1, <1>4 DEF IInv, TypeOK, Threads
    <2> QED BY <1>1, <1>2, <1>3, <2>1, ThreadIsQuiet
  <1>5. CASE ~Accepted(q) /\ Answer(r, q, "refused")
    <2>1. q.csrf # q.token \/ ~(expires'[q.token] > now)
      <3>1. CASE Live(q.token)
        BY <1>5, <3>1 DEF Accepted
      <3>2. CASE ~Live(q.token)
        BY <1>1, <3>2
      <3> QED BY <3>1, <3>2
    <2>2. /\ \A x \in Requests \ {r} : req'[x] = req[x]
          /\ req'[r].pc # "verify"
          /\ req'[r].heard => /\ q.heard /\ req'[r].tab = q.tab /\ req'[r].kind = q.kind
                              /\ req'[r].csrf = q.csrf /\ req'[r].token = q.token
      BY <1>1, <1>5, AnswerIsHeard
    <2> QED BY <1>1, <1>2, <1>3, <2>1, <2>2, ThreadIsQuiet
  <1> QED BY <1>4, <1>5 DEF CheckSession

LEMMA LogoutIsQuiet ==
  ASSUME IInv, IInv', Traffic, NEW r \in Requests, Logout(r)
  PROVE  Quiet
  <1> DEFINE q == req[r]
  <1>1. /\ q \in Threads /\ q.token \in Sessions /\ expires \in [Sessions -> Nat] /\ now \in Nat
        /\ UNCHANGED <<scenario, now, client, issued>>
        /\ expires' = [expires EXCEPT ![q.token] = 0] /\ Answer(r, q, "ok")
    BY DEF IInv, TypeOK, Threads, Logout, Popped
  <1>2. (\A k \in Sessions : expires'[k] \in {0, expires[k]}) /\ ~(expires'[q.token] > now)
    BY <1>1
  <1>3. issued <= issued'
    BY <1>1, ScenarioType DEF IInv
  <1>4. /\ \A x \in Requests \ {r} : req'[x] = req[x]
        /\ req'[r].pc # "verify"
        /\ req'[r].heard => /\ q.heard /\ req'[r].tab = q.tab /\ req'[r].kind = q.kind
                            /\ req'[r].csrf = q.csrf /\ req'[r].token = q.token
    BY <1>1, AnswerIsHeard
  <1> QED BY <1>1, <1>2, <1>3, <1>4, ThreadIsQuiet

LEMMA ActIsQuiet ==
  ASSUME IInv, IInv', Traffic, NEW r \in Requests, Act(r)
  PROVE  Quiet
  <1>1. PICK answer : Answer(r, req[r], answer)
    BY DEF Act
  <1>2. /\ req[r] \in Threads /\ req[r].kind # "logout"
        /\ UNCHANGED <<scenario, now, client, issued, expires>>
    BY DEF IInv, TypeOK, Act, auth
  <1>3. issued <= issued'
    BY <1>2, ScenarioType DEF IInv
  <1> QED BY <1>1, <1>2, <1>3, AnswerIsHeard, ThreadIsQuiet

LEMMA RestartIsQuiet ==
  ASSUME IInv, Traffic, Restart \/ Tick
  PROVE  Quiet
  <1>1. now \in Nat /\ expires \in [Sessions -> Nat] /\ issued \in Nat /\ Sessions \subseteq Nat
    BY ScenarioType DEF IInv, TypeOK
  <1>2. CASE Tick
    <2>1. UNCHANGED <<scenario, issued, expires, cookie, tab, req>> /\ now' = now + 1
      BY <1>2 DEF Tick, auth, client
    <2>2. issued <= issued' /\ issued' \in Nat /\ \A k \in Sessions : ~Live(k) => ~Live(k)'
      BY <1>1, <2>1 DEF Live
    <2> QED BY <2>1, <2>2 DEF Quiet, Traffic
  <1>3. CASE Restart
    <2>1. UNCHANGED <<scenario, cookie, tab, issued, now>> /\ \A k \in Sessions : ~Live(k)'
      <3>1. UNCHANGED <<scenario, cookie, tab, issued, now>> /\ expires' = [k \in Sessions |-> 0]
        BY <1>3 DEF Restart, client
      <3>2. \A k \in Sessions : ~(expires'[k] > now')
        BY <1>1, <3>1
      <3> QED BY <3>1, <3>2 DEF Live
    <2>2. ASSUME NEW r \in Requests
          PROVE  /\ req'[r].pc # "verify"
                 /\ req'[r].heard => /\ req[r].heard /\ req'[r].tab = req[r].tab
                                     /\ req'[r].kind = req[r].kind /\ req'[r].csrf = req[r].csrf
                                     /\ req'[r].token = req[r].token
      <3>1. req[r] \in Threads /\ Free.pc = "free" /\ Free.heard = FALSE
        BY DEF IInv, TypeOK, Free
      <3>2. CASE req[r].pc \in {"free", "answered"}
        BY <1>3, <3>1, <3>2 DEF Restart
      <3>3. CASE req[r].pc \notin {"free", "answered"}
        BY <1>3, <3>1, <3>3 DEF Restart, Threads
      <3> QED BY <3>2, <3>3
    <2> QED BY <1>1, <2>1, <2>2 DEF Quiet
  <1> QED BY <1>2, <1>3

-----------------------------------------------------------------------------

\* A step of the page in tab t, as far as the other panels see it.
PageStep(t) ==
  /\ UNCHANGED <<scenario, now, auth>>
  /\ \A u \in Tabs \ {t} : tab'[u] = tab[u]
  /\ \A b \in Browsers : b # Browser(t) => cookie'[b] = cookie[b]
  /\ \A r \in Requests : req'[r].heard /\ req'[r].tab # t => req'[r] = req[r]
  /\ \A r \in Requests : req'[r].pc = "verify" => req'[r].kind = "login"

LEMMA OthersStand ==
  ASSUME PInv, NEW t \in scenario.tabs, PageStep(t)
  PROVE  /\ Traffic'
         /\ \A u \in scenario.tabs : u # t /\ Undisturbed(u) => PanelOK(u)'
  <1>1. Traffic'
    BY TabsOpened DEF PInv, IInv, Traffic, PageStep
  <1>2. ASSUME NEW u \in scenario.tabs, u # t, Undisturbed(u)
        PROVE  PanelOK(u)'
    <2>1. PanelOK(u) /\ u \in Tabs /\ Browser(u) \in Browsers
      BY <1>2, PanelFacts DEF PInv
    <2>2. Browser(t) # Browser(u)
      BY <1>2 DEF Undisturbed
    <2>3. /\ tab'[u] = tab[u] /\ Browser(u)' = Browser(u)
          /\ cookie'[Browser(u)] = cookie[Browser(u)]
          /\ UNCHANGED <<issued, expires, now>>
      BY <1>2, <2>1, <2>2 DEF PageStep, Browser, auth
    <2>4. \A r \in Requests : Waits(r, u)' => Waits(r, u) /\ req'[r] = req[r]
      BY <1>2 DEF PageStep, Waits
    <2> QED BY <2>1, <2>3, <2>4 DEF PanelOK, Live
  <1> QED BY <1>1, <1>2

\* A session that no login has made is not live.
LEMMA NoSession == IInv => ~Live(0)
  <1> SUFFICES ASSUME IInv PROVE ~Live(0)
    OBVIOUS
  <1>1. 0 \in Sessions /\ now \in Nat /\ issued \in Nat
    BY ScenarioType DEF IInv, TypeOK
  <1>2. expires[0] = 0
    BY <1>1 DEF IInv, SessionsOK
  <1> QED BY <1>1, <1>2 DEF Live

LEMMA LoadStands ==
  ASSUME PInv, NEW t \in scenario.tabs, Load(t)
  PROVE  PageStep(t) /\ (Undisturbed(t) => PanelOK(t)')
  <1> DEFINE new == Sent("init", t, cookie[Browser(t)], 0)
  <1>1. PICK r \in Requests :
          req' = [q \in Requests |->
                    IF q = r THEN new
                    ELSE IF req[q].heard /\ req[q].tab = t THEN Unheard(req[q]) ELSE req[q]]
    BY DEF Load
  <1>2. /\ UNCHANGED <<scenario, now, auth, cookie>> /\ tab' = [tab EXCEPT ![t] = Page]
        /\ t \in Tabs /\ tab \in [Tabs -> Pages]
    BY PanelFacts DEF Load, PInv, IInv, TypeOK
  <1>3. /\ new.pc = "sent" /\ new.heard /\ new.tab = t /\ new.kind = "init"
        /\ new.token = cookie[Browser(t)]
    BY DEF Sent, Free
  <1>4. ASSUME NEW q \in Requests
        PROVE  /\ ~Unheard(req[q]).heard
               /\ Unheard(req[q]).pc = "verify" => Unheard(req[q]).kind = "login"
    <2>1. req[q] \in Threads
      BY DEF PInv, IInv, TypeOK
    <2>2. [req[q] EXCEPT !.heard = FALSE].heard = FALSE
          /\ [req[q] EXCEPT !.heard = FALSE].pc = req[q].pc
          /\ [req[q] EXCEPT !.heard = FALSE].kind = req[q].kind
      BY <2>1 DEF Threads
    <2>3. Free.heard = FALSE /\ Free.pc = "free"
      BY DEF Free
    <2> QED BY <2>2, <2>3 DEF Unheard, PInv, Traffic
  <1> HIDE DEF new
  <1>5. PageStep(t)
    BY <1>1, <1>2, <1>3, <1>4 DEF PageStep, PInv, Traffic
  <1>6. PanelOK(t)'
    <2>1. tab'[t] = Page /\ Page.view = "login" /\ Page.said = 0
      BY <1>2 DEF Page
    <2>2. \A q \in Requests : Waits(q, t)' => q = r
      BY <1>1, <1>4 DEF Waits
    <2>3. req'[r] = new /\ Browser(t)' = Browser(t) /\ ~Live(0)' /\ 0 <= issued'
      BY <1>1, <1>2, NoSession, PanelFacts DEF Browser, Live, auth, PInv
    <2> QED BY <1>2, <1>3, <2>1, <2>2, <2>3 DEF PanelOK
  <1> QED BY <1>5, <1>6

LEMMA SendStands ==
  ASSUME PInv, NEW t \in scenario.tabs, NEW kind, NEW page, Send(kind, t, page),
         Undisturbed(t) /\ kind \in {"login", "logout"} => \A r \in Requests : ~Waits(r, t),
         kind \in {"login", "logout", "read", "write"},
         page.view = tab[t].view, page.csrf = tab[t].csrf, page.said \in {0, tab[t].said},
         page.submitting = tab[t].submitting \/ (kind = "login" /\ page.submitting),
         kind = "login" => page.view = "login" /\ page.submitting,
         kind = "logout" => page.view = "panel"
  PROVE  PageStep(t) /\ (Undisturbed(t) => PanelOK(t)')
  <1> DEFINE new == Sent(kind, t, cookie[Browser(t)], tab[t].csrf)
  <1>1. PICK r \in Requests : req[r].pc = "free" /\ req' = [req EXCEPT ![r] = new]
    BY DEF Send
  <1>2. /\ UNCHANGED <<scenario, now, auth, cookie>> /\ tab' = [tab EXCEPT ![t] = page]
        /\ t \in Tabs /\ tab \in [Tabs -> Pages] /\ req \in [Requests -> Threads]
    BY PanelFacts DEF Send, PInv, IInv, TypeOK
  <1>3. /\ new.pc = "sent" /\ new.heard /\ new.tab = t /\ new.kind = kind
        /\ new.token = cookie[Browser(t)] /\ new.csrf = tab[t].csrf
    BY DEF Sent, Free
  <1> HIDE DEF new
  <1>4. req'[r] = new /\ \A q \in Requests \ {r} : req'[q] = req[q]
    BY <1>1, <1>2
  <1>5. PageStep(t)
    BY <1>2, <1>3, <1>4 DEF PageStep, PInv, Traffic
  <1>6. ASSUME Undisturbed(t)
        PROVE  PanelOK(t)'
    <2>1. /\ PanelOK(t) /\ tab'[t] = page /\ Browser(t)' = Browser(t) /\ ~Live(0)
          /\ 0 <= issued /\ UNCHANGED <<issued, cookie, expires, now>>
      BY <1>2, <1>6, NoSession, PanelFacts DEF PInv, Browser, auth
    <2>2. page.said <= issued /\ (page.view = "login" => ~Live(page.said)')
          /\ (page.view = "panel" => page.csrf = cookie[Browser(t)])
      BY <2>1 DEF PanelOK, Live
    <2>3. ASSUME NEW q \in Requests, Waits(q, t)'
          PROVE  \/ Waits(q, t) /\ q # r /\ req'[q] = req[q]
                 \/ q = r /\ kind \in {"login", "logout"}
      <3>1. CASE q # r
        BY <1>4, <2>3, <3>1 DEF Waits
      <3>2. CASE q = r
        BY <1>3, <1>4, <2>3, <3>2 DEF Waits
      <3> QED BY <3>1, <3>2
    <2>4. CASE kind \in {"login", "logout"}
      <3>1. \A q \in Requests : Waits(q, t)' => q = r
        BY <1>6, <2>3, <2>4
      <3> QED BY <1>3, <1>4, <2>1, <2>2, <2>4, <3>1 DEF PanelOK
    <2>5. CASE kind \notin {"login", "logout"}
      BY <2>1, <2>2, <2>3, <2>5 DEF PanelOK, Live
    <2> QED BY <2>4, <2>5
  <1> QED BY <1>5, <1>6

LEMMA ClicksStand ==
  ASSUME PInv, NEW t \in scenario.tabs,
         ClickLogin(t) \/ ClickLogout(t) \/ ClickConnect(t) \/ Interval(t)
  PROVE  PageStep(t) /\ (Undisturbed(t) => PanelOK(t)')
  <1> DEFINE p1 == [tab[t] EXCEPT !.submitting = TRUE, !.said = 0]
             p2 == [tab[t] EXCEPT !.connecting = TRUE]
             p3 == [tab[t] EXCEPT !.refreshing = TRUE]
  <1>1. tab[t] \in Pages
    BY PanelFacts DEF PInv
  <1>2. /\ p1.view = tab[t].view /\ p1.csrf = tab[t].csrf /\ p1.said = 0 /\ p1.submitting
        /\ p2.view = tab[t].view /\ p2.csrf = tab[t].csrf /\ p2.said = tab[t].said
        /\ p2.submitting = tab[t].submitting
        /\ p3.view = tab[t].view /\ p3.csrf = tab[t].csrf /\ p3.said = tab[t].said
        /\ p3.submitting = tab[t].submitting
    BY <1>1 DEF Pages
  <1>3. Undisturbed(t) => PanelOK(t) /\ ~May("early") /\ ~May("twice")
    BY DEF PInv, Undisturbed, May
  <1>4. CASE ClickLogin(t)
    <2>1. Send("login", t, p1) /\ tab[t].view = "login" /\ ~tab[t].submitting
          /\ (InFlight(t, "init") => May("early"))
      BY <1>4 DEF ClickLogin
    <2>2. Undisturbed(t) => \A r \in Requests : ~Waits(r, t)
      BY <1>3, <2>1 DEF PanelOK, Waits, InFlight
    <2> HIDE DEF p1
    <2> QED BY <1>2, <2>1, <2>2, SendStands
  <1>5. CASE ClickLogout(t)
    <2>1. Send("logout", t, tab[t]) /\ tab[t].view = "panel"
          /\ (InFlight(t, "logout") => May("twice"))
      BY <1>5 DEF ClickLogout
    <2>2. Undisturbed(t) => \A r \in Requests : ~Waits(r, t)
      BY <1>3, <2>1 DEF PanelOK, Waits, InFlight
    <2> QED BY <2>1, <2>2, SendStands
  <1>6. CASE ClickConnect(t)
    <2>1. Send("write", t, p2)
      BY <1>6 DEF ClickConnect
    <2> HIDE DEF p2
    <2> QED BY <1>2, <2>1, SendStands
  <1>7. CASE Interval(t)
    <2>1. Send("read", t, p3)
      BY <1>7 DEF Interval
    <2> HIDE DEF p3
    <2> QED BY <1>2, <2>1, SendStands
  <1> QED BY <1>4, <1>5, <1>6, <1>7

\* What an answer makes of the page, of what the invariant sees of it.
LEMMA HandledFacts ==
  ASSUME NEW q \in Threads, NEW page \in Pages, NEW ok \in BOOLEAN
  PROVE  LET new == Handled(q, page, ok) IN
         /\ q.kind = "init" => IF ok THEN new.view = "panel" /\ new.csrf = q.token /\ new.said = 0
                                     ELSE new.view = "login" /\ new.said = 0
         /\ q.kind = "login" => IF ok THEN new.view = "panel" /\ new.csrf = q.token /\ new.said = 0
                                      ELSE /\ new.view = page.view /\ new.said = page.said
                                           /\ new.csrf = page.csrf
         /\ q.kind = "logout" => new.view = "login" /\ new.said = page.csrf
         /\ q.kind \in {"read", "write"} =>
              /\ new.view = page.view /\ new.said = page.said /\ new.csrf = page.csrf
              /\ new.submitting = page.submitting
  <1> DEFINE panel == ShowPanel(page, q.token)
             done == [page EXCEPT !.submitting = FALSE]
             quiet == [page EXCEPT !.connecting = FALSE]
             read == Rendered(page, q.token, ok)
  <1>1. panel \in Pages /\ panel.view = "panel" /\ panel.csrf = q.token /\ panel.said = 0
    <2>1. q.token \in Sessions
      BY DEF Threads
    <2>2. 0 \in Sessions
      BY ConstantsAssumption DEF Sessions
    <2> QED BY <2>1, <2>2 DEF ShowPanel, Pages
  <1>2. \A said \in Sessions : ShowLogin(page, said).view = "login" /\ ShowLogin(page, said).said = said
    BY DEF ShowLogin, Pages
  <1>3. /\ done.view = page.view /\ done.said = page.said /\ done.csrf = page.csrf
        /\ quiet.view = page.view /\ quiet.said = page.said /\ quiet.csrf = page.csrf
        /\ quiet.submitting = page.submitting
        /\ read.view = page.view /\ read.said = page.said /\ read.csrf = page.csrf
        /\ read.submitting = page.submitting
    BY DEF Pages, Rendered
  <1>4. [panel EXCEPT !.submitting = FALSE].view = "panel"
        /\ [panel EXCEPT !.submitting = FALSE].csrf = q.token
        /\ [panel EXCEPT !.submitting = FALSE].said = 0
    BY <1>1 DEF Pages
  <1>5. 0 \in Sessions /\ page.csrf \in Sessions
    BY ConstantsAssumption DEF Sessions, Pages
  <1> QED BY <1>1, <1>2, <1>3, <1>4, <1>5 DEF Handled

LEMMA ReceiveStands ==
  ASSUME PInv, NEW r \in Requests, Receive(r), NEW t, t = req[r].tab
  PROVE  t \in scenario.tabs /\ PageStep(t) /\ (Undisturbed(t) => PanelOK(t)')
  <1> DEFINE q == req[r]
             ok == q.answer = "ok"
             page == tab[t]
             new == Handled(q, page, ok)
             b == Browser(t)
  <1>1. /\ q.heard /\ q.pc = "answered" /\ cookie' = SetCookie(q)
        /\ tab' = [tab EXCEPT ![t] = new]
        /\ req' = [req EXCEPT ![r] = IF ~Refreshes(q, ok) THEN Free
                                     ELSE Sent("read", t, cookie'[b], q.token)]
        /\ UNCHANGED <<scenario, now, auth>>
    BY DEF Receive
  <1>2. /\ t \in scenario.tabs /\ q \in Threads /\ t \in Tabs /\ b \in Browsers /\ page \in Pages
        /\ tab \in [Tabs -> Pages] /\ req \in [Requests -> Threads] /\ ok \in BOOLEAN
        /\ cookie \in [Browsers -> Sessions] /\ q.token <= issued
    BY <1>1, PanelFacts DEF PInv, IInv, TypeOK, TokensOK, Traffic
  <1> DEFINE sent == Sent("read", t, cookie'[b], q.token)
  <1>3. /\ req' = [req EXCEPT ![r] = IF ~Refreshes(q, ok) THEN Free ELSE sent]
        /\ Free.pc = "free" /\ Free.kind = "read" /\ ~Free.heard
        /\ sent.pc = "sent" /\ sent.kind = "read" /\ sent.tab = t
    BY <1>1 DEF Sent, Free
  <1> HIDE DEF sent
  <1>4. req'[r].pc # "verify" /\ req'[r].kind = "read" /\ (req'[r].heard => req'[r].tab = t)
        /\ \A x \in Requests \ {r} : req'[x] = req[x]
    BY <1>2, <1>3
  <1>5. \A c \in Browsers : c # b => cookie'[c] = cookie[c]
    BY <1>1, <1>2 DEF SetCookie
  <1>6. \A u \in Tabs \ {t} : tab'[u] = tab[u]
    BY <1>1, <1>2
  <1>7. PageStep(t)
    BY <1>1, <1>4, <1>5, <1>6 DEF PageStep, PInv, Traffic
  <1>8. ASSUME Undisturbed(t)
        PROVE  PanelOK(t)'
    <2>1. /\ PanelOK(t) /\ tab'[t] = new /\ Browser(t)' = b /\ ~Live(0) /\ 0 <= issued
          /\ UNCHANGED <<issued, expires, now>>
      BY <1>1, <1>2, <1>8, NoSession, PanelFacts DEF PInv, Browser, auth
    <2>2. \A x \in Requests : Waits(x, t)' => Waits(x, t) /\ x # r /\ req'[x] = req[x]
      BY <1>4 DEF Waits
    <2>3. CASE q.kind \in {"init", "login", "logout"}
      <3>1. Waits(r, t)
        BY <1>1, <2>3 DEF Waits
      <3>2. \A x \in Requests : ~Waits(x, t)'
        BY <2>1, <2>2, <3>1 DEF PanelOK
      <3> SUFFICES /\ new.said <= issued
                   /\ new.view = "login" => ~Live(new.said)
                   /\ new.view = "panel" => new.csrf = cookie'[b]
        <4> HIDE DEF new
        <4> QED BY <2>1, <3>2 DEF PanelOK, Live
      <3>6. page.said <= issued /\ (page.view = "login" => ~Live(page.said))
            /\ (page.view = "panel" => page.csrf = cookie[b])
            /\ (q.kind \in {"init", "login"} => page.view = "login")
            /\ (q.kind = "init" => q.token = cookie[b])
            /\ (q.kind = "logout" => page.view = "panel" /\ ~Live(cookie[b]) /\ cookie[b] <= issued)
        BY <1>1, <1>2, <2>1, <3>1, PanelFacts DEF PanelOK, PInv
      <3>3. CASE q.kind = "init"
        <4>1. cookie' = cookie
          BY <1>1, <3>3 DEF SetCookie
        <4>2. IF ok THEN new.view = "panel" /\ new.csrf = q.token /\ new.said = 0
                    ELSE new.view = "login" /\ new.said = 0
          BY <1>2, <3>3, HandledFacts
        <4> HIDE DEF new, ok
        <4> QED BY <2>1, <3>3, <3>6, <4>1, <4>2
      <3>4. CASE q.kind = "login"
        <4>1. ok => cookie'[b] = q.token
          BY <1>1, <1>2, <3>4 DEF SetCookie
        <4>2. IF ok THEN new.view = "panel" /\ new.csrf = q.token /\ new.said = 0
                    ELSE new.view = page.view /\ new.said = page.said
          BY <1>2, <3>4, HandledFacts
        <4> HIDE DEF new, ok
        <4> QED BY <2>1, <3>4, <3>6, <4>1, <4>2
      <3>5. CASE q.kind = "logout"
        <4>1. new.view = "login" /\ new.said = page.csrf
          BY <1>2, <3>5, HandledFacts
        <4> HIDE DEF new
        <4> QED BY <3>5, <3>6, <4>1
      <3> QED BY <2>3, <3>3, <3>4, <3>5
    <2>4. CASE q.kind \in {"read", "write"}
      <3>1. cookie' = cookie
        BY <1>1, <2>4 DEF SetCookie
      <3>2. /\ new.view = page.view /\ new.said = page.said /\ new.csrf = page.csrf
            /\ new.submitting = page.submitting
        BY ZenonT(30), <1>2, <2>4, HandledFacts
      <3> HIDE DEF new
      <3> QED BY <2>1, <2>2, <3>1, <3>2 DEF PanelOK, Live
    <2> QED BY <1>2, <2>3, <2>4 DEF Threads
  <1> QED BY <1>2, <1>7, <1>8

\* A lost answer disturbs every panel.
LEMMA GiveUpStands ==
  ASSUME PInv, NEW r \in Requests, GiveUp(r), NEW t, t = req[r].tab
  PROVE  t \in scenario.tabs /\ PageStep(t) /\ ~Undisturbed(t)
  <1> DEFINE q == req[r]
  <1>1. /\ q.heard /\ May("giveup") /\ cookie' \in {cookie, SetCookie(q)}
        /\ tab' = [tab EXCEPT ![t] = Handled(q, tab[t], FALSE)]
        /\ req' = [req EXCEPT ![r] = Unheard(q)]
        /\ UNCHANGED <<scenario, now, auth>>
    BY DEF GiveUp
  <1>2. /\ t \in scenario.tabs /\ q \in Threads /\ t \in Tabs
        /\ tab \in [Tabs -> Pages] /\ req \in [Requests -> Threads]
        /\ cookie \in [Browsers -> Sessions]
    BY <1>1, PanelFacts DEF PInv, IInv, TypeOK, Traffic
  <1>3. ~Undisturbed(t)
    BY <1>1 DEF Undisturbed, May
  <1>4. \A c \in Browsers : c # Browser(t) => cookie'[c] = cookie[c]
    BY <1>1, <1>2 DEF SetCookie
  <1>5. ~Unheard(q).heard /\ (Unheard(q).pc = "verify" => q.pc = "verify" /\ Unheard(q).kind = q.kind)
    <2>1. Free.heard = FALSE /\ Free.pc = "free"
      BY DEF Free
    <2> QED BY <1>2, <2>1 DEF Unheard, Threads
  <1>6. PageStep(t)
    BY <1>1, <1>2, <1>4, <1>5 DEF PageStep, PInv, Traffic
  <1> QED BY <1>2, <1>3, <1>6

LEMMA InitPInv == Init => PInv
  <1> SUFFICES ASSUME Init PROVE PInv
    OBVIOUS
  <1>1. IInv
    BY InitIInv
  <1>2. /\ \A r \in Requests : req[r] = Free /\ Free.heard = FALSE /\ Free.pc = "free"
        /\ \A t \in Tabs : tab[t] = [Page EXCEPT !.view = "none"]
        /\ [Page EXCEPT !.view = "none"].view = "none" /\ [Page EXCEPT !.view = "none"].csrf = 0
        /\ [Page EXCEPT !.view = "none"].said = 0
    BY DEF Init, Free, Page
  <1>3. Traffic
    BY <1>2 DEF Traffic
  <1>4. ASSUME NEW t \in scenario.tabs
        PROVE  PanelOK(t)
    BY <1>1, <1>2, PanelFacts DEF PanelOK, Waits
  <1> QED BY <1>1, <1>3, <1>4 DEF PInv

LEMMA NextPInv == PInv /\ [Next]_vars => PInv'
  <1> SUFFICES ASSUME PInv, [Next]_vars PROVE PInv'
    OBVIOUS
  <1>1. IInv' /\ IInv /\ Traffic
    BY NextIInv DEF PInv
  <1>2. ASSUME UNCHANGED scenario
        PROVE  \A t \in scenario.tabs : Undisturbed(t)' <=> Undisturbed(t)
    BY <1>2 DEF Undisturbed, Browser
  <1>3. ASSUME Quiet
        PROVE  PInv'
    <2>1. UNCHANGED scenario
      BY <1>3 DEF Quiet
    <2> QED BY <1>1, <1>2, <1>3, <2>1, QuietKeeps DEF PInv
  <1>4. ASSUME NEW t \in scenario.tabs, PageStep(t), Undisturbed(t) => PanelOK(t)'
        PROVE  PInv'
    <2>1. UNCHANGED scenario
      BY <1>4 DEF PageStep
    <2>2. Traffic' /\ \A u \in scenario.tabs : u # t /\ Undisturbed(u) => PanelOK(u)'
      BY <1>4, OthersStand
    <2>3. \A u \in scenario.tabs : Undisturbed(u) => PanelOK(u)'
      BY <1>4, <2>2
    <2> QED BY <1>1, <1>2, <2>1, <2>2, <2>3 DEF PInv
  <1>5. CASE Tick \/ Restart
    BY <1>1, <1>3, <1>5, RestartIsQuiet
  <1>6. ASSUME NEW r \in Requests, ServerStep(r)
        PROVE  PInv'
    BY <1>1, <1>3, <1>6, LoginIsQuiet, RightPasswordIsQuiet, CheckSessionIsQuiet, LogoutIsQuiet,
       ActIsQuiet DEF ServerStep
  <1>7. ASSUME NEW t \in scenario.tabs,
               Load(t) \/ ClickLogin(t) \/ ClickLogout(t) \/ ClickConnect(t)
        PROVE  PInv'
    BY <1>4, <1>7, LoadStands, ClicksStand
  <1>8. ASSUME NEW t \in Tabs, Interval(t)
        PROVE  PInv'
    <2>1. t \in scenario.tabs
      BY <1>1, <1>8 DEF Traffic, Interval
    <2> QED BY <1>4, <1>8, <2>1, ClicksStand
  <1>9. ASSUME NEW r \in Requests, Receive(r) \/ GiveUp(r)
        PROVE  PInv'
    <2> DEFINE t == req[r].tab
    <2>1. t \in scenario.tabs /\ PageStep(t)
      BY <1>9, ReceiveStands, GiveUpStands
    <2>2. PICK u \in scenario.tabs : u = t
      BY <2>1
    <2> HIDE DEF t
    <2>3. Undisturbed(u) => PanelOK(u)'
      BY <1>9, <2>2, ReceiveStands, GiveUpStands DEF t
    <2> QED BY <1>4, <2>1, <2>2, <2>3
  <1>10. CASE UNCHANGED vars
    <2>1. UNCHANGED <<scenario, now, expires, issued, cookie, tab, req>>
      BY <1>10 DEF vars, auth, client
    <2>2. issued \in Nat /\ issued <= issued'
      BY <1>1, <2>1, ScenarioType DEF IInv
    <2>3. Quiet
      BY <1>1, <2>1, <2>2 DEF Quiet, Live, Traffic
    <2> QED BY <1>3, <2>3
  <1> QED BY <1>5, <1>6, <1>7, <1>8, <1>9, <1>10 DEF Next, UserStep

\* When an undisturbed panel says "Wylogowano." its session is over, and no later
\* login, restart or expiry makes it live again.
THEOREM LoggedOutIsOutHolds == Spec => []LoggedOutIsOut
  <1>1. PInv => LoggedOutIsOut
    <2> SUFFICES ASSUME PInv, NEW t \in Tabs, Undisturbed(t), tab[t].view = "login"
                 PROVE  ~Live(tab[t].said)
      BY DEF LoggedOutIsOut
    <2>1. t \in scenario.tabs
      BY DEF PInv, Traffic
    <2> QED BY <2>1 DEF PInv, PanelOK
  <1> QED BY <1>1, InitPInv, NextPInv, PTL DEF Spec

-----------------------------------------------------------------------------
(* What PanelComesBack rests on: no flag of the script is left behind      *)

\* The script of tab t waits for the answer to request r.
Awaits(r, t, kind) == req[r].heard /\ req[r].tab = t /\ req[r].kind = kind

\* refreshInFlight, and the two buttons that are disabled during their request.
Flagged == {"read", "login", "write"}
Flag(page, kind) ==
  CASE kind = "read" -> page.refreshing
    [] kind = "login" -> page.submitting
    [] kind = "write" -> page.connecting

\* A flag is set exactly while one request is under way whose end takes it back.
FlagsAreTrue ==
  \A t \in Tabs : \A kind \in Flagged :
    /\ Flag(tab[t], kind) <=> \E r \in Requests : Awaits(r, t, kind)
    /\ \A r, s \in Requests : Awaits(r, t, kind) /\ Awaits(s, t, kind) => r = s

\* A place for a request that is free has nobody waiting for it, so that a new
\* request there takes nothing away from an old one.
FInv == IInv /\ (\A r \in Requests : req[r].pc = "free" => ~req[r].heard) /\ FlagsAreTrue

\* A step of the server, seen by the scripts: who waits goes on waiting.
StaysAwaited ==
  /\ tab' = tab
  /\ \A r \in Requests :
       /\ req'[r].heard = req[r].heard
       /\ req[r].heard => /\ req'[r].tab = req[r].tab /\ req'[r].kind = req[r].kind
                          /\ req'[r].pc # "free"

LEMMA StaysAwaitedKeeps ==
  ASSUME FInv, StaysAwaited
  PROVE  FlagsAreTrue' /\ \A r \in Requests : req'[r].pc = "free" => ~req'[r].heard
  <1>1. \A r \in Requests : \A t \in Tabs : \A kind \in Flagged :
          Awaits(r, t, kind)' <=> Awaits(r, t, kind)
    BY DEF StaysAwaited, Awaits
  <1>2. \A t \in Tabs : \A kind \in Flagged : Flag(tab[t], kind)' <=> Flag(tab[t], kind)
    BY DEF StaysAwaited, Flag
  <1>3. \A r \in Requests : req'[r].pc = "free" => ~req'[r].heard
    BY DEF StaysAwaited
  <1>4. FlagsAreTrue'
    BY <1>1, <1>2 DEF FInv, FlagsAreTrue
  <1> QED BY <1>3, <1>4

LEMMA ServerStaysAwaited ==
  ASSUME FInv, NEW r \in Requests, ServerStep(r)
  PROVE  StaysAwaited
  <1>1. /\ req \in [Requests -> Threads] /\ req[r] \in Threads /\ req[r].heard \in BOOLEAN
        /\ Free.heard = FALSE
    BY DEF FInv, IInv, TypeOK, Threads, Free
  <1>2. req[r].pc # "free" /\ tab' = tab
    BY DEF ServerStep, CheckLimit, WrongPassword, RightPassword, CheckSession, Logout, Act, client
  <1>3. ASSUME NEW new, req' = [req EXCEPT ![r] = new], new.heard = req[r].heard,
               req[r].heard => new.tab = req[r].tab /\ new.kind = req[r].kind /\ new.pc # "free"
        PROVE  StaysAwaited
    <2>1. req'[r] = new /\ \A x \in Requests \ {r} : req'[x] = req[x]
      BY <1>1, <1>3
    <2> QED BY <1>2, <1>3, <2>1 DEF StaysAwaited, FInv
  <1>4. ASSUME NEW q \in Threads, NEW answer, Answer(r, q, answer),
               q.heard = req[r].heard, q.tab = req[r].tab, q.kind = req[r].kind
        PROVE  StaysAwaited
    <2> DEFINE new == IF q.heard THEN [q EXCEPT !.pc = "answered", !.answer = answer] ELSE Free
    <2>1. req' = [req EXCEPT ![r] = new]
      BY <1>4 DEF Answer
    <2>2. new.heard = req[r].heard
          /\ (req[r].heard => new.tab = req[r].tab /\ new.kind = req[r].kind /\ new.pc # "free")
      BY <1>1, <1>4 DEF Threads
    <2> HIDE DEF new
    <2> QED BY <1>3, <2>1, <2>2
  <1>5. ASSUME NEW pc, pc # "free", req' = [req EXCEPT ![r] = [req[r] EXCEPT !.pc = pc]]
        PROVE  StaysAwaited
    <2>1. [req[r] EXCEPT !.pc = pc].heard = req[r].heard
          /\ [req[r] EXCEPT !.pc = pc].tab = req[r].tab
          /\ [req[r] EXCEPT !.pc = pc].kind = req[r].kind
          /\ [req[r] EXCEPT !.pc = pc].pc = pc
      BY <1>1 DEF Threads
    <2> QED BY <1>3, <1>5, <2>1
  <1>6. CASE CheckLimit(r)
    <2>1. \/ Answer(r, req[r], "limited")
          \/ req' = [req EXCEPT ![r].pc = "verify", ![r].at = now]
      BY <1>6 DEF CheckLimit
    <2>2. CASE req' = [req EXCEPT ![r].pc = "verify", ![r].at = now]
      <3> DEFINE new == [req[r] EXCEPT !.pc = "verify", !.at = now]
      <3>1. req' = [req EXCEPT ![r] = new]
        BY <2>2
      <3>2. new.heard = req[r].heard /\ new.tab = req[r].tab /\ new.kind = req[r].kind
            /\ new.pc = "verify"
        BY <1>1 DEF Threads
      <3> HIDE DEF new
      <3> QED BY <1>3, <3>1, <3>2
    <2> QED BY <1>1, <1>4, <2>1, <2>2
  <1>7. CASE WrongPassword(r)
    BY <1>1, <1>4, <1>7 DEF WrongPassword
  <1>8. CASE RightPassword(r)
    <2> DEFINE q == [req[r] EXCEPT !.token = issued + 1]
    <2>1. issued + 1 \in Sessions
      BY <1>8, ScenarioType, ConstantsAssumption DEF RightPassword, FInv, IInv, Sessions
    <2>2. q \in Threads /\ q.heard = req[r].heard /\ q.tab = req[r].tab /\ q.kind = req[r].kind
      BY <1>1, <2>1 DEF Threads
    <2>3. Answer(r, q, "ok")
      BY <1>8 DEF RightPassword
    <2> HIDE DEF q
    <2> QED BY <1>4, <2>2, <2>3
  <1>9. CASE CheckSession(r)
    <2>1. \/ req' = [req EXCEPT ![r] = [req[r] EXCEPT !.pc = "checked"]]
          \/ Answer(r, req[r], "refused")
      BY <1>9 DEF CheckSession
    <2> QED BY <1>1, <1>4, <1>5, <2>1
  <1>10. CASE Logout(r)
    BY <1>1, <1>4, <1>10 DEF Logout
  <1>11. CASE Act(r)
    BY <1>1, <1>4, <1>11 DEF Act
  <1> QED BY <1>6, <1>7, <1>8, <1>9, <1>10, <1>11 DEF ServerStep

LEMMA RestartStaysAwaited ==
  ASSUME FInv, Restart
  PROVE  StaysAwaited
  <1>1. tab' = tab
    BY DEF Restart, client
  <1>2. ASSUME NEW r \in Requests
        PROVE  /\ req'[r].heard = req[r].heard
               /\ req[r].heard => /\ req'[r].tab = req[r].tab /\ req'[r].kind = req[r].kind
                                  /\ req'[r].pc # "free"
    <2>1. req[r] \in Threads /\ Free.heard = FALSE /\ req[r].heard \in BOOLEAN
      BY DEF FInv, IInv, TypeOK, Threads, Free
    <2>2. req'[r] = IF req[r].pc \in {"free", "answered"} THEN req[r]
                    ELSE IF req[r].heard
                      THEN [req[r] EXCEPT !.pc = "answered", !.answer = "error"]
                      ELSE Free
      BY DEF Restart
    <2>3. req[r].pc = "free" => ~req[r].heard
      BY DEF FInv
    <2> QED BY <2>1, <2>2, <2>3 DEF Threads
  <1> QED BY <1>1, <1>2 DEF StaysAwaited

-----------------------------------------------------------------------------

\* A step of the script of tab t: the requests other tabs wait for, and those of
\* other kinds, stay as they are.
LEMMA ScriptKeeps ==
  ASSUME FInv, NEW t \in Tabs, NEW page, tab' = [tab EXCEPT ![t] = page],
         \A u \in Tabs \ {t} : \A kind \in Flagged : \A r \in Requests :
           Awaits(r, u, kind)' <=> Awaits(r, u, kind),
         \A kind \in Flagged :
           /\ Flag(page, kind) <=> \E r \in Requests : Awaits(r, t, kind)'
           /\ \A r, s \in Requests : Awaits(r, t, kind)' /\ Awaits(s, t, kind)' => r = s
  PROVE  FlagsAreTrue'
  <1>1. tab \in [Tabs -> Pages]
    BY DEF FInv, IInv, TypeOK
  <1>2. ASSUME NEW u \in Tabs, NEW kind \in Flagged
        PROVE  /\ Flag(tab[u], kind)' <=> \E r \in Requests : Awaits(r, u, kind)'
               /\ \A r, s \in Requests : Awaits(r, u, kind)' /\ Awaits(s, u, kind)' => r = s
    <2>1. CASE u = t
      <3>1. tab'[u] = page
        BY <1>1, <2>1
      <3>2. Flag(tab[u], kind)' <=> Flag(page, kind)
        BY <3>1 DEF Flag
      <3> QED BY <2>1, <3>2
    <2>2. CASE u # t
      <3>1. tab'[u] = tab[u]
        BY <1>1, <2>2
      <3>2. Flag(tab[u], kind)' <=> Flag(tab[u], kind)
        BY <3>1 DEF Flag
      <3> QED BY <2>2, <3>2 DEF FInv, FlagsAreTrue
    <2> QED BY <2>1, <2>2
  <1> QED BY <1>2 DEF FlagsAreTrue

LEMMA SendKeepsFlags ==
  ASSUME FInv, NEW t \in Tabs, NEW kind, NEW page, Send(kind, t, page),
         kind \in Flagged => ~Flag(tab[t], kind),
         \A k \in Flagged : Flag(page, k) <=> Flag(tab[t], k) \/ k = kind
  PROVE  FlagsAreTrue' /\ \A r \in Requests : req'[r].pc = "free" => ~req'[r].heard
  <1> DEFINE new == Sent(kind, t, cookie[Browser(t)], tab[t].csrf)
  <1>1. PICK r \in Requests : req[r].pc = "free" /\ req' = [req EXCEPT ![r] = new]
    BY DEF Send
  <1>2. new.pc = "sent" /\ new.heard /\ new.tab = t /\ new.kind = kind
    BY DEF Sent, Free
  <1> HIDE DEF new
  <1>3. req'[r] = new /\ ~req[r].heard /\ \A x \in Requests \ {r} : req'[x] = req[x]
    BY <1>1 DEF FInv, IInv, TypeOK
  <1>4. \A x \in Requests : \A u \in Tabs : \A k \in Flagged :
          Awaits(x, u, k)' <=> Awaits(x, u, k) \/ (x = r /\ u = t /\ k = kind)
    BY <1>2, <1>3 DEF Awaits
  <1>5. ASSUME NEW k \in Flagged
        PROVE  /\ Flag(page, k) <=> \E x \in Requests : Awaits(x, t, k)'
               /\ \A x, y \in Requests : Awaits(x, t, k)' /\ Awaits(y, t, k)' => x = y
    BY <1>4 DEF FInv, FlagsAreTrue
  <1>6. \A x \in Requests : req'[x].pc = "free" => ~req'[x].heard
    BY <1>2, <1>3 DEF FInv
  <1>7. tab' = [tab EXCEPT ![t] = page]
    BY DEF Send
  <1> QED BY <1>4, <1>5, <1>6, <1>7, ScriptKeeps

LEMMA ClicksKeepFlags ==
  ASSUME FInv, NEW t \in Tabs,
         ClickLogin(t) \/ ClickLogout(t) \/ ClickConnect(t) \/ Interval(t)
  PROVE  FlagsAreTrue' /\ \A r \in Requests : req'[r].pc = "free" => ~req'[r].heard
  <1> DEFINE p1 == [tab[t] EXCEPT !.submitting = TRUE, !.said = 0]
             p2 == [tab[t] EXCEPT !.connecting = TRUE]
             p3 == [tab[t] EXCEPT !.refreshing = TRUE]
  <1>1. tab[t] \in Pages
    BY DEF FInv, IInv, TypeOK
  <1>2. /\ p1.submitting /\ p1.connecting = tab[t].connecting /\ p1.refreshing = tab[t].refreshing
        /\ p2.connecting /\ p2.submitting = tab[t].submitting /\ p2.refreshing = tab[t].refreshing
        /\ p3.refreshing /\ p3.submitting = tab[t].submitting /\ p3.connecting = tab[t].connecting
    BY <1>1 DEF Pages
  <1> HIDE DEF p1, p2, p3
  <1>3. /\ \A k \in Flagged : Flag(p1, k) <=> Flag(tab[t], k) \/ k = "login"
        /\ \A k \in Flagged : Flag(p2, k) <=> Flag(tab[t], k) \/ k = "write"
        /\ \A k \in Flagged : Flag(p3, k) <=> Flag(tab[t], k) \/ k = "read"
    BY <1>2 DEF Flagged, Flag
  <1>4. CASE ClickLogin(t)
    <2>1. Send("login", t, p1) /\ ~Flag(tab[t], "login")
      BY <1>4 DEF ClickLogin, Flag, p1
    <2> QED BY <1>3, <2>1, SendKeepsFlags
  <1>5. CASE ClickLogout(t)
    <2>1. Send("logout", t, tab[t]) /\ "logout" \notin Flagged
      BY <1>5 DEF ClickLogout, Flagged
    <2> QED BY <2>1, SendKeepsFlags
  <1>6. CASE ClickConnect(t)
    <2>1. Send("write", t, p2) /\ ~Flag(tab[t], "write")
      BY <1>6 DEF ClickConnect, Flag, p2
    <2> QED BY <1>3, <2>1, SendKeepsFlags
  <1>7. CASE Interval(t)
    <2>1. Send("read", t, p3) /\ ~Flag(tab[t], "read")
      BY <1>7 DEF Interval, Flag, p3
    <2> QED BY <1>3, <2>1, SendKeepsFlags
  <1> QED BY <1>4, <1>5, <1>6, <1>7

\* A page that is loaded again waits for nothing the old one waited for.
LEMMA LoadKeepsFlags ==
  ASSUME FInv, NEW t \in Tabs, Load(t)
  PROVE  FlagsAreTrue' /\ \A r \in Requests : req'[r].pc = "free" => ~req'[r].heard
  <1> DEFINE new == Sent("init", t, cookie[Browser(t)], 0)
  <1>1. PICK r \in Requests :
          /\ req[r].pc = "free"
          /\ req' = [q \in Requests |->
                       IF q = r THEN new
                       ELSE IF req[q].heard /\ req[q].tab = t THEN Unheard(req[q]) ELSE req[q]]
    BY DEF Load
  <1>2. new.pc = "sent" /\ new.heard /\ new.tab = t /\ new.kind = "init"
    BY DEF Sent, Free
  <1> HIDE DEF new
  <1>3. \A q \in Requests : Unheard(req[q]).heard = FALSE
    BY DEF Unheard, Free, FInv, IInv, TypeOK, Threads
  <1>4. req'[r] = new /\ ~req[r].heard
    BY <1>1 DEF FInv
  <1>5. \A q \in Requests \ {r} :
          IF req[q].heard /\ req[q].tab = t THEN ~req'[q].heard ELSE req'[q] = req[q]
    BY <1>1, <1>3
  <1>6. \A q \in Requests : \A k \in Flagged : ~Awaits(q, t, k)'
    BY <1>2, <1>4, <1>5 DEF Awaits, Flagged
  <1>7. \A u \in Tabs \ {t} : \A k \in Flagged : \A q \in Requests :
          Awaits(q, u, k)' <=> Awaits(q, u, k)
    BY <1>2, <1>4, <1>5 DEF Awaits
  <1>8. \A k \in Flagged : ~Flag(Page, k)
    BY DEF Flagged, Flag, Page
  <1>9. \A q \in Requests : req'[q].pc = "free" => ~req'[q].heard
    BY <1>2, <1>4, <1>5 DEF FInv
  <1>10. tab' = [tab EXCEPT ![t] = Page]
    BY DEF Load
  <1> QED BY <1>6, <1>7, <1>8, <1>9, <1>10, ScriptKeeps

\* The flags of a page once its script has handled an answer or the lack of one.
LEMMA HandledFlags ==
  ASSUME NEW q \in Threads, NEW page \in Pages, NEW ok \in BOOLEAN, NEW kind \in Flagged
  PROVE  Flag(Handled(q, page, ok), kind) <=>
           \/ Flag(page, kind) /\ kind # q.kind
           \/ kind = "read" /\ ok /\ q.kind \in {"init", "login"}
  <1> DEFINE panel == ShowPanel(page, q.token)
  <1>1. panel \in Pages /\ panel.refreshing /\ panel.submitting = page.submitting
        /\ panel.connecting = page.connecting
    <2>1. q.token \in Sessions /\ 0 \in Sessions
      BY ConstantsAssumption DEF Threads, Sessions
    <2> QED BY <2>1 DEF ShowPanel, Pages
  <1>2. ASSUME NEW said
        PROVE  LET out == ShowLogin(page, said) IN
               /\ out.refreshing = page.refreshing /\ out.submitting = page.submitting
               /\ out.connecting = page.connecting
    BY DEF ShowLogin, Pages
  <1>3. \A p \in Pages : LET done == [p EXCEPT !.submitting = FALSE] IN
          ~done.submitting /\ done.refreshing = p.refreshing /\ done.connecting = p.connecting
    BY DEF Pages
  <1>4. LET quiet == [page EXCEPT !.connecting = FALSE] IN
          ~quiet.connecting /\ quiet.refreshing = page.refreshing
          /\ quiet.submitting = page.submitting
    BY DEF Pages
  <1>5. LET read == Rendered(page, q.token, ok) IN
          ~read.refreshing /\ read.connecting = page.connecting
          /\ read.submitting = page.submitting
    BY DEF Rendered, Pages
  <1> HIDE DEF panel
  <1>6. CASE q.kind = "init"
    BY <1>1, <1>2, <1>6 DEF Handled, Flag, Flagged, panel
  <1>7. CASE q.kind = "login"
    BY <1>1, <1>3, <1>7 DEF Handled, Flag, Flagged, panel
  <1>8. CASE q.kind = "logout"
    BY <1>2, <1>8 DEF Handled, Flag, Flagged
  <1>9. CASE q.kind = "write"
    BY <1>4, <1>9 DEF Handled, Flag, Flagged
  <1>10. CASE q.kind = "read"
    BY <1>5, <1>10 DEF Handled, Flag, Flagged
  <1> QED BY <1>6, <1>7, <1>8, <1>9, <1>10 DEF Threads

\* An answer takes its request away and its flag back; the refresh that the start of
\* the panel asks for is a new request, or the one already under way.
LEMMA ReceiveKeepsFlags ==
  ASSUME FInv, NEW r \in Requests, Receive(r), NEW t, t = req[r].tab
  PROVE  FlagsAreTrue' /\ \A x \in Requests : req'[x].pc = "free" => ~req'[x].heard
  <1> DEFINE q == req[r]
             ok == q.answer = "ok"
             page == Handled(q, tab[t], ok)
             sent == Sent("read", t, cookie'[Browser(t)], q.token)
  <1>1. /\ q \in Threads /\ t \in Tabs /\ tab[t] \in Pages /\ ok \in BOOLEAN /\ q.heard
        /\ req \in [Requests -> Threads]
    BY DEF FInv, IInv, TypeOK, Threads, Receive
  <1>2. /\ tab' = [tab EXCEPT ![t] = page]
        /\ req' = [req EXCEPT ![r] = IF ~Refreshes(q, ok) THEN Free ELSE sent]
    BY DEF Receive
  <1>3. ~Free.heard /\ sent.pc = "sent" /\ sent.heard /\ sent.tab = t /\ sent.kind = "read"
    BY DEF Sent, Free
  <1>4. Refreshes(q, ok) <=> ok /\ q.kind \in {"init", "login"} /\ ~Flag(tab[t], "read")
    BY DEF Refreshes, Flag
  <1> HIDE DEF sent, ok
  <1>5. \A k \in Flagged : Flag(page, k) <=>
          \/ Flag(tab[t], k) /\ k # q.kind
          \/ k = "read" /\ ok /\ q.kind \in {"init", "login"}
    BY <1>1, HandledFlags
  <1> HIDE DEF page
  <1>6. /\ \A x \in Requests \ {r} : req'[x] = req[x]
        /\ req'[r] = IF ~Refreshes(q, ok) THEN Free ELSE sent
    BY <1>1, <1>2
  <1>7. ASSUME NEW x \in Requests, NEW u \in Tabs, NEW k \in Flagged
        PROVE  Awaits(x, u, k)' <=>
                 \/ Awaits(x, u, k) /\ x # r
                 \/ x = r /\ u = t /\ k = "read" /\ Refreshes(q, ok)
    BY <1>3, <1>6 DEF Awaits
  <1>8. \A u \in Tabs \ {t} : \A k \in Flagged : \A x \in Requests :
          Awaits(x, u, k)' <=> Awaits(x, u, k)
    BY <1>7 DEF Awaits
  <1>9. \A k \in Flagged : Awaits(r, t, k) <=> k = q.kind
    BY <1>1 DEF Awaits
  <1>10. ASSUME NEW k \in Flagged
         PROVE  /\ Flag(page, k) <=> \E x \in Requests : Awaits(x, t, k)'
                /\ \A x, y \in Requests : Awaits(x, t, k)' /\ Awaits(y, t, k)' => x = y
    <2>1. /\ Flag(tab[t], k) <=> \E x \in Requests : Awaits(x, t, k)
          /\ \A x, y \in Requests : Awaits(x, t, k) /\ Awaits(y, t, k) => x = y
      BY <1>1 DEF FInv, FlagsAreTrue
    <2>2. \A x \in Requests : Awaits(x, t, k)' <=>
            \/ Awaits(x, t, k) /\ x # r
            \/ x = r /\ k = "read" /\ Refreshes(q, ok)
      BY <1>1, <1>7
    <2>3. (\E x \in Requests : Awaits(x, t, k) /\ x # r) <=> Flag(tab[t], k) /\ k # q.kind
      BY <1>9, <2>1
    <2>4. Flag(page, k) <=> \/ Flag(tab[t], k) /\ k # q.kind
                            \/ k = "read" /\ Refreshes(q, ok)
      BY <1>4, <1>5
    <2>5. k = "read" /\ Refreshes(q, ok) => ~\E x \in Requests : Awaits(x, t, k)
      BY <1>4, <2>1
    <2> QED BY <2>1, <2>2, <2>3, <2>4, <2>5
  <1>11. \A x \in Requests : req'[x].pc = "free" => ~req'[x].heard
    BY <1>3, <1>6 DEF FInv
  <1> QED BY <1>1, <1>2, <1>8, <1>10, <1>11, ScriptKeeps

LEMMA GiveUpKeepsFlags ==
  ASSUME FInv, NEW r \in Requests, GiveUp(r), NEW t, t = req[r].tab
  PROVE  FlagsAreTrue' /\ \A x \in Requests : req'[x].pc = "free" => ~req'[x].heard
  <1> DEFINE q == req[r]
             page == Handled(q, tab[t], FALSE)
  <1>1. /\ q \in Threads /\ t \in Tabs /\ tab[t] \in Pages /\ q.heard
        /\ req \in [Requests -> Threads]
    BY DEF FInv, IInv, TypeOK, Threads, GiveUp
  <1>2. tab' = [tab EXCEPT ![t] = page] /\ req' = [req EXCEPT ![r] = Unheard(q)]
    BY DEF GiveUp
  <1>3. Unheard(q).heard = FALSE
    BY <1>1 DEF Unheard, Free, Threads
  <1>4. \A k \in Flagged : Flag(page, k) <=> Flag(tab[t], k) /\ k # q.kind
    BY <1>1, HandledFlags
  <1> HIDE DEF page
  <1>5. ~req'[r].heard /\ \A x \in Requests \ {r} : req'[x] = req[x]
    BY <1>1, <1>2, <1>3
  <1>6. \A x \in Requests : \A u \in Tabs : \A k \in Flagged :
          Awaits(x, u, k)' <=> Awaits(x, u, k) /\ x # r
    BY <1>5 DEF Awaits
  <1>7. \A k \in Flagged : Awaits(r, t, k) <=> k = q.kind
    BY <1>1 DEF Awaits
  <1>8. \A u \in Tabs \ {t} : \A k \in Flagged : \A x \in Requests :
          Awaits(x, u, k)' <=> Awaits(x, u, k)
    BY <1>6 DEF Awaits
  <1>9. ASSUME NEW k \in Flagged
        PROVE  /\ Flag(page, k) <=> \E x \in Requests : Awaits(x, t, k)'
               /\ \A x, y \in Requests : Awaits(x, t, k)' /\ Awaits(y, t, k)' => x = y
    <2>1. /\ Flag(tab[t], k) <=> \E x \in Requests : Awaits(x, t, k)
          /\ \A x, y \in Requests : Awaits(x, t, k) /\ Awaits(y, t, k) => x = y
      BY <1>1 DEF FInv, FlagsAreTrue
    <2> QED BY <1>1, <1>4, <1>6, <1>7, <2>1
  <1>10. \A x \in Requests : req'[x].pc = "free" => ~req'[x].heard
    BY <1>5 DEF FInv
  <1> QED BY <1>1, <1>2, <1>8, <1>9, <1>10, ScriptKeeps

LEMMA NextFInv == FInv /\ [Next]_vars => FInv'
  <1> SUFFICES ASSUME FInv, [Next]_vars PROVE FInv'
    OBVIOUS
  <1>1. IInv'
    BY NextIInv DEF FInv
  <1> SUFFICES FlagsAreTrue' /\ \A r \in Requests : req'[r].pc = "free" => ~req'[r].heard
    BY <1>1 DEF FInv
  <1>2. CASE Tick \/ UNCHANGED vars
    <2>1. UNCHANGED <<tab, req>>
      BY <1>2 DEF Tick, vars, client
    <2>2. \A t \in Tabs : \A kind \in Flagged : Flag(tab[t], kind)' <=> Flag(tab[t], kind)
      BY <2>1 DEF Flag
    <2> QED BY <2>1, <2>2 DEF FInv, FlagsAreTrue, Awaits
  <1>3. CASE Restart
    BY <1>3, RestartStaysAwaited, StaysAwaitedKeeps
  <1>4. ASSUME NEW r \in Requests, ServerStep(r)
        PROVE  FlagsAreTrue' /\ \A x \in Requests : req'[x].pc = "free" => ~req'[x].heard
    BY <1>4, ServerStaysAwaited, StaysAwaitedKeeps
  <1>5. CASE UserStep
    <2>1. PICK t \in Tabs : Load(t) \/ ClickLogin(t) \/ ClickLogout(t) \/ ClickConnect(t)
      BY <1>5, TabsOpened DEF UserStep, FInv, IInv
    <2> QED BY <2>1, LoadKeepsFlags, ClicksKeepFlags
  <1>6. ASSUME NEW t \in Tabs, Interval(t)
        PROVE  FlagsAreTrue' /\ \A x \in Requests : req'[x].pc = "free" => ~req'[x].heard
    BY <1>6, ClicksKeepFlags
  <1>7. ASSUME NEW r \in Requests, Receive(r) \/ GiveUp(r)
        PROVE  FlagsAreTrue' /\ \A x \in Requests : req'[x].pc = "free" => ~req'[x].heard
    <2>1. \E t : t = req[r].tab
      OBVIOUS
    <2> QED BY <1>7, <2>1, ReceiveKeepsFlags, GiveUpKeepsFlags
  <1> QED BY <1>2, <1>3, <1>4, <1>5, <1>6, <1>7 DEF Next

\* Whatever is lost, given up, restarted or loaded again: the script never keeps
\* refreshInFlight, or a button disabled, without exactly one request under way
\* whose end takes it back (the finally clauses of refresh, login and
\* startWifiConnection). It is the safety half of PanelComesBack.
THEOREM FlagsAreTrueHolds == Spec => []FlagsAreTrue
  <1>1. Init => FInv
    <2> SUFFICES ASSUME Init PROVE FInv
      OBVIOUS
    <2>1. /\ \A r \in Requests : req[r] = Free /\ Free.heard = FALSE
          /\ \A t \in Tabs : tab[t] = [Page EXCEPT !.view = "none"]
      BY DEF Init, Free
    <2>2. \A kind \in Flagged : ~Flag([Page EXCEPT !.view = "none"], kind)
      BY DEF Flagged, Flag, Page
    <2>3. FlagsAreTrue
      BY <2>1, <2>2 DEF FlagsAreTrue, Awaits
    <2> QED BY <2>1, <2>3, InitIInv DEF FInv
  <1>2. FInv => FlagsAreTrue
    BY DEF FInv
  <1> QED BY <1>1, <1>2, NextFInv, PTL DEF Spec

-----------------------------------------------------------------------------
(* The promise of the authenticator                                        *)

\* What Authenticator sees of a request and of a session.
PassedWith(q) == IF q.pc = "checked" THEN q.token ELSE 0
RefusedFor(q) ==
  IF q.pc = "answered" /\ q.answer = "limited" THEN Browser(q.tab) ELSE None
EndOf(k) == IF expires[k] > now THEN expires[k] ELSE 0

LEMMA PlainTypes ==
  ASSUME TypeOK
  PROVE  /\ now \in Nat /\ Max \in Nat \ {0} /\ Window \in Nat \ {0} /\ TTL \in Nat \ {0}
         /\ MaxSessions \in Nat /\ issued \in Sessions
         /\ \A k \in Sessions : k \in Nat /\ expires[k] \in Nat /\ EndOf(k) \in Nat
         /\ \A r \in Requests : /\ req[r] \in Threads /\ req[r].token \in Sessions
                                /\ Browser(req[r].tab) \in Browsers
         /\ \A b \in Browsers : /\ failures[b] \in Seq(Nat) /\ forgotten[b] \in Nat
                                /\ Len(failures[b]) \in Nat
                                /\ \A i \in 1..Len(failures[b]) : failures[b][i] \in Nat
  <1>1. now \in Nat /\ Max \in Nat \ {0} /\ Window \in Nat \ {0} /\ TTL \in Nat \ {0}
        /\ MaxSessions \in Nat /\ issued \in Sessions
    BY ConstantsAssumption DEF TypeOK
  <1>2. \A k \in Sessions : k \in Nat /\ expires[k] \in Nat /\ EndOf(k) \in Nat
    BY <1>1 DEF TypeOK, Sessions, EndOf
  <1>3. \A r \in Requests : req[r] \in Threads /\ req[r].token \in Sessions
                            /\ Browser(req[r].tab) \in Browsers
    BY ScenarioType DEF TypeOK, Threads
  <1>4. ASSUME NEW b \in Browsers
        PROVE  failures[b] \in Seq(Nat) /\ forgotten[b] \in Nat
    BY DEF TypeOK
  <1>5. ASSUME NEW s \in Seq(Nat)
        PROVE  Len(s) \in Nat /\ \A i \in 1..Len(s) : s[i] \in Nat
    OBVIOUS
  <1> QED BY <1>1, <1>2, <1>3, <1>4, <1>5

\* Requests that end, or of which Authenticator sees nothing.
LEMMA Leaves ==
  ASSUME UNCHANGED <<now, failures, expires, issued>>,
         \A r \in Requests : /\ PassedWith(req[r])' \in {PassedWith(req[r]), 0}
                             /\ RefusedFor(req[r])' \in {RefusedFor(req[r]), None}
  PROVE  Promised!Leave
  BY DEF Promised!Leave, PassedWith, RefusedFor

LEMMA FreeIsUnseen ==
  ASSUME NEW q \in Threads, q.pc \notin {"checked", "answered"} \/ q = Free
  PROVE  PassedWith(q) = 0 /\ RefusedFor(q) = None
  BY DEF PassedWith, RefusedFor, Free

LEMMA UnheardIsUnseen ==
  ASSUME IInv, NEW r \in Requests
  PROVE  /\ PassedWith(Unheard(req[r])) \in {PassedWith(req[r]), 0}
         /\ RefusedFor(Unheard(req[r])) \in {RefusedFor(req[r]), None}
  <1>1. req[r] \in Threads
    BY DEF IInv, TypeOK
  <1>2. CASE req[r].pc = "answered"
    BY <1>2 DEF Unheard, PassedWith, RefusedFor, Free
  <1>3. CASE req[r].pc # "answered"
    BY <1>1, <1>3 DEF Unheard, PassedWith, RefusedFor, Threads
  <1> QED BY <1>2, <1>3

LEMMA SendLeaves ==
  ASSUME IInv, NEW kind, NEW t, NEW page, Send(kind, t, page)
  PROVE  Promised!Leave
  <1>1. PICK r \in Requests :
          req[r].pc = "free" /\ req' = [req EXCEPT ![r] = Sent(kind, t, cookie[Browser(t)], tab[t].csrf)]
    BY DEF Send
  <1>2. Sent(kind, t, cookie[Browser(t)], tab[t].csrf).pc = "sent"
    BY DEF Sent, Free
  <1>3. UNCHANGED <<scenario, now, failures, expires, issued>>
    BY DEF Send, auth
  <1>4. \A x \in Requests : x # r => req'[x] = req[x]
    BY <1>1
  <1>5. req'[r].pc = "sent"
    BY <1>1, <1>2 DEF IInv, TypeOK
  <1>6. \A x \in Requests : /\ PassedWith(req[x])' \in {PassedWith(req[x]), 0}
                            /\ RefusedFor(req[x])' \in {RefusedFor(req[x]), None}
    BY <1>3, <1>4, <1>5 DEF PassedWith, RefusedFor, Browser
  <1> QED BY <1>3, <1>6, Leaves

LEMMA LoadLeaves ==
  ASSUME IInv, NEW t \in Tabs, Load(t)
  PROVE  Promised!Leave
  <1> DEFINE new == Sent("init", t, cookie[Browser(t)], 0)
  <1>1. PICK r \in Requests :
          /\ req[r].pc = "free"
          /\ req' = [q \in Requests |->
                       IF q = r THEN new
                       ELSE IF req[q].heard /\ req[q].tab = t THEN Unheard(req[q]) ELSE req[q]]
    BY DEF Load
  <1>2. new.pc = "sent"
    BY DEF Sent, Free
  <1>3. UNCHANGED <<scenario, now, failures, expires, issued>>
    BY DEF Load, auth
  <1> HIDE DEF new
  <1>4. ASSUME NEW x \in Requests
        PROVE  /\ PassedWith(req[x])' \in {PassedWith(req[x]), 0}
               /\ RefusedFor(req[x])' \in {RefusedFor(req[x]), None}
    <2>1. req'[x] \in {new, Unheard(req[x]), req[x]}
      BY <1>1
    <2> QED BY <1>2, <1>3, <2>1, UnheardIsUnseen DEF PassedWith, RefusedFor, Browser
  <1> QED BY <1>3, <1>4, Leaves

LEMMA ReceiveLeaves ==
  ASSUME IInv, NEW r \in Requests, Receive(r) \/ GiveUp(r)
  PROVE  Promised!Leave
  <1>1. UNCHANGED <<scenario, now, failures, expires, issued>>
        /\ \A x \in Requests \ {r} : req'[x] = req[x]
    BY DEF Receive, GiveUp, auth, IInv, TypeOK
  <1>2. /\ PassedWith(req[r])' \in {PassedWith(req[r]), 0}
        /\ RefusedFor(req[r])' \in {RefusedFor(req[r]), None}
    <2>1. ASSUME Receive(r)
          PROVE  req'[r].pc \in {"free", "sent"}
      <3> DEFINE k == cookie'[Browser(req[r].tab)]
                 new == IF ~Refreshes(req[r], req[r].answer = "ok") THEN Free
                        ELSE Sent("read", req[r].tab, k, req[r].token)
      <3>1. req' = [req EXCEPT ![r] = new]
        BY <2>1 DEF Receive
      <3>2. new.pc \in {"free", "sent"}
        BY DEF Sent, Free
      <3> HIDE DEF new
      <3> QED BY <3>1, <3>2 DEF IInv, TypeOK
    <2>2. ASSUME GiveUp(r)
          PROVE  req'[r] = Unheard(req[r])
      BY <2>2 DEF GiveUp, IInv, TypeOK
    <2> QED BY <1>1, <2>1, <2>2, UnheardIsUnseen DEF PassedWith, RefusedFor, Browser
  <1>3. \A x \in Requests \ {r} : /\ PassedWith(req[x])' = PassedWith(req[x])
                                  /\ RefusedFor(req[x])' = RefusedFor(req[x])
    BY <1>1 DEF PassedWith, RefusedFor, Browser
  <1> QED BY <1>1, <1>2, <1>3, Leaves

\* What Authenticator sees of an answer, and of the requests of other threads.
LEMMA AnswerSeen ==
  ASSUME IInv, NEW r \in Requests, NEW q \in Threads, NEW answer, Answer(r, q, answer),
         UNCHANGED scenario
  PROVE  /\ PassedWith(req[r])' = 0
         /\ RefusedFor(req[r])' = IF answer = "limited" /\ q.heard THEN Browser(q.tab) ELSE None
         /\ \A x \in Requests \ {r} : /\ PassedWith(req[x])' = PassedWith(req[x])
                                      /\ RefusedFor(req[x])' = RefusedFor(req[x])
  <1> DEFINE new == IF q.heard THEN [q EXCEPT !.pc = "answered", !.answer = answer] ELSE Free
  <1>1. req' = [req EXCEPT ![r] = new]
    BY DEF Answer
  <1>2. IF q.heard THEN new.pc = "answered" /\ new.answer = answer /\ new.tab = q.tab
        ELSE new.pc = "free"
    BY DEF Free, Threads
  <1> HIDE DEF new
  <1>3. req'[r] = new /\ \A x \in Requests \ {r} : req'[x] = req[x]
    BY <1>1 DEF IInv, TypeOK
  <1> QED BY <1>2, <1>3 DEF PassedWith, RefusedFor, Browser

LEMMA TickAdvances ==
  ASSUME IInv, Tick
  PROVE  Promised!Advance
  <1>1. now' = now + 1 /\ UNCHANGED <<scenario, failures, expires, issued, req>>
    BY DEF Tick, auth
  <1>2. \A k \in Sessions : now \in Nat /\ expires[k] \in Nat
    BY PlainTypes DEF IInv
  <1>3. now' > now
    BY <1>1 DEF IInv, TypeOK
  <1>4. \A k \in Sessions : EndOf(k)' = IF EndOf(k) > now' THEN EndOf(k) ELSE 0
    BY <1>1, <1>2 DEF EndOf
  <1>5. /\ UNCHANGED <<failures, 1..issued>>
        /\ [r \in Requests |-> PassedWith(req[r])]' = [r \in Requests |-> PassedWith(req[r])]
        /\ [r \in Requests |-> RefusedFor(req[r])]' = [r \in Requests |-> RefusedFor(req[r])]
    BY <1>1 DEF PassedWith, RefusedFor, Browser
  <1> QED BY <1>3, <1>4, <1>5 DEF Promised!Advance, EndOf, PassedWith, RefusedFor

LEMMA RestartRestarts ==
  ASSUME IInv, Restart
  PROVE  Promised!Restart
  <1>1. UNCHANGED <<scenario, now, issued>> /\ failures' = [b \in Browsers |-> <<>>]
        /\ expires' = [k \in Sessions |-> 0]
    BY DEF Restart
  <1>2. ASSUME NEW r \in Requests
        PROVE  PassedWith(req[r])' = 0 /\ RefusedFor(req[r])' = RefusedFor(req[r])
    <2>1. req[r] \in Threads
      BY DEF IInv, TypeOK
    <2>2. CASE req[r].pc \in {"free", "answered"}
      <3>1. req'[r] = req[r]
        BY <2>2 DEF Restart
      <3> QED BY <1>1, <2>2, <3>1 DEF PassedWith, RefusedFor, Browser
    <2>3. CASE req[r].pc \notin {"free", "answered"}
      <3> DEFINE q == [req[r] EXCEPT !.pc = "answered", !.answer = "error"]
      <3>1. req'[r] \in {q, Free}
        BY <2>3 DEF Restart
      <3>2. /\ req'[r].pc \in {"answered", "free"}
            /\ req'[r].pc = "answered" => req'[r].answer = "error"
        <4>1. q.pc = "answered" /\ q.answer = "error" /\ Free.pc = "free"
          BY <2>1 DEF Free, Threads
        <4> HIDE DEF q
        <4> QED BY <3>1, <4>1
      <3>3. PassedWith(req[r])' = 0 /\ RefusedFor(req[r])' = None
        BY <3>2 DEF PassedWith, RefusedFor
      <3>4. RefusedFor(req[r]) = None
        BY <2>3 DEF RefusedFor
      <3> QED BY <3>3, <3>4
    <2> QED BY <2>2, <2>3
  <1>3. \A k \in Sessions : EndOf(k)' = 0
    BY <1>1 DEF EndOf, IInv, TypeOK
  <1> QED BY <1>1, <1>2, <1>3 DEF Promised!Restart, EndOf, PassedWith, RefusedFor


\* A login that the limit turns away: the Max-th wrong password before is in the window.
LEMMA CheckLimitRefuses ==
  ASSUME IInv, NEW r \in Requests, CheckLimit(r)
  PROVE  Promised!Leave \/ \E a \in Browsers : Promised!Refuse(r, a)
  <1>0. PICK b \in Browsers : b = Browser(req[r].tab)
    BY PlainTypes DEF IInv
  <1>1. /\ UNCHANGED <<scenario, now, failures, expires, issued>> /\ req[r].pc = "sent"
        /\ req[r] \in Threads
    BY PlainTypes DEF CheckLimit, IInv
  <1>2. PassedWith(req[r]) = 0 /\ RefusedFor(req[r]) = None
    BY <1>1 DEF PassedWith, RefusedFor
  <1>3. CASE req' = [req EXCEPT ![r].pc = "verify", ![r].at = now]
    <2>1. req'[r].pc = "verify" /\ \A x \in Requests \ {r} : req'[x] = req[x]
      BY <1>1, <1>3 DEF IInv, TypeOK, Threads
    <2>2. PassedWith(req[r])' = 0 /\ RefusedFor(req[r])' = None
      BY <2>1 DEF PassedWith, RefusedFor
    <2>3. \A x \in Requests \ {r} : /\ PassedWith(req[x])' = PassedWith(req[x])
                                    /\ RefusedFor(req[x])' = RefusedFor(req[x])
      BY <1>1, <2>1 DEF PassedWith, RefusedFor, Browser
    <2> QED BY <1>1, <2>2, <2>3, Leaves
  <1>4. CASE Answer(r, req[r], "limited")
    <2>1. /\ PassedWith(req[r])' = 0
          /\ RefusedFor(req[r])' = IF req[r].heard THEN b ELSE None
          /\ \A x \in Requests \ {r} : /\ PassedWith(req[x])' = PassedWith(req[x])
                                       /\ RefusedFor(req[x])' = RefusedFor(req[x])
      BY <1>0, <1>1, <1>4, AnswerSeen
    <2>2. CASE ~req[r].heard
      BY <1>1, <2>1, <2>2, Leaves
    <2>3. CASE req[r].heard
      <3>1. ~Promised!Open(b, now)
        <4>1. req'[r].pc = "answered"
          BY <1>1, <1>4, <2>3 DEF Answer, IInv, TypeOK, Threads
        <4>2. PICK n \in 0..Len(failures[b]) : OutOfWindow(b, n) /\ Len(failures[b]) - n >= Max
          BY <1>0, <1>4, <4>1, LimitedMeansFull
        <4> DEFINE log == failures[b]
        <4>3. \A i, j \in 1..Len(log) : i <= j => log[i] <= log[j]
          BY DEF IInv, LogOK
        <4>4. /\ Len(log) \in Nat /\ Max \in Nat \ {0} /\ now \in Nat /\ Window \in Nat
              /\ \A i \in 1..Len(log) : log[i] \in Nat
          BY PlainTypes DEF IInv
        <4>5. /\ Len(log) \in Nat /\ n \in Nat /\ Max \in Nat \ {0} /\ now \in Nat
              /\ Window \in Nat /\ \A i \in 1..Len(log) : log[i] \in Nat
              /\ \A i, j \in 1..Len(log) : i <= j => log[i] <= log[j]
          BY <4>3, <4>4
        <4>6. n + 1 \in 1..Len(log) /\ log[n + 1] + Window > now
          BY <4>2, <4>5 DEF OutOfWindow
        <4> HIDE DEF log
        <4>7. /\ n + 1 <= Len(log) - Max + 1 /\ Len(log) - Max + 1 \in 1..Len(log)
              /\ Len(log) >= Max
          BY <4>2, <4>5 DEF log
        <4>8. log[Len(log) - Max + 1] + Window > now
          BY <4>5, <4>6, <4>7
        <4>9. ~(log[Len(log) - Max + 1] + Window <= now)
          BY <4>5, <4>7, <4>8
        <4> QED BY <4>7, <4>9 DEF Promised!Open, log
      <3>2. [x \in Requests |-> RefusedFor(req[x])]'
              = [[x \in Requests |-> RefusedFor(req[x])] EXCEPT ![r] = b]
        BY <2>1, <2>3
      <3>3. [x \in Requests |-> PassedWith(req[x])]' = [x \in Requests |-> PassedWith(req[x])]
        BY <1>2, <2>1
      <3>4. UNCHANGED <<1..issued, [k \in Sessions |-> IF expires[k] > now THEN expires[k] ELSE 0]>>
        BY <1>1
      <3>5. Promised!Refuse(r, b)
        BY <1>1, <3>1, <3>2, <3>3, <3>4 DEF Promised!Refuse, PassedWith, RefusedFor
      <3> QED BY <3>5
    <2> QED BY <2>2, <2>3
  <1> QED BY <1>3, <1>4 DEF CheckLimit

\* The thread that verifies a password was let in at a time that is open, and no
\* wrong password is later.
LEMMA VerifiedInTime ==
  ASSUME IInv, NEW r \in Requests, req[r].pc = "verify"
  PROVE  LET b == Browser(req[r].tab)  t == req[r].at IN
         t \in 0..now /\ Promised!Latest(b, t) /\ Promised!Open(b, t)
  <1> DEFINE b == Browser(req[r].tab)
             t == req[r].at
             log == failures[b]
  <1>1. req[r] \in Threads /\ b \in Browsers
    BY PlainTypes DEF IInv
  <1>2. /\ Len(log) \in Nat /\ forgotten[b] \in Nat /\ Max \in Nat \ {0} /\ now \in Nat
        /\ t \in Nat /\ Window \in Nat /\ \A i \in 1..Len(log) : log[i] \in Nat
    BY <1>1, PlainTypes DEF IInv, Threads
  <1>3. /\ t <= now /\ Len(log) < forgotten[b] + Max
        /\ \A i \in 1..Len(log) : log[i] <= t /\ (i <= forgotten[b] => log[i] + Window <= t)
    BY DEF IInv, VerifyOK
  <1> HIDE DEF log, t
  <1>4. Len(log) >= Max => log[Len(log) - Max + 1] + Window <= t
    <2> SUFFICES ASSUME Len(log) >= Max
                 PROVE  log[Len(log) - Max + 1] + Window <= t
      OBVIOUS
    <2>1. Len(log) - Max + 1 \in 1..Len(log) /\ Len(log) - Max + 1 <= forgotten[b]
      BY <1>2, <1>3
    <2> QED BY <1>3, <2>1
  <1>5. t \in 0..now
    BY <1>2, <1>3
  <1>6. Promised!Latest(b, t) /\ Promised!Open(b, t)
    BY <1>3, <1>4 DEF Promised!Latest, Promised!Open, log
  <1> QED BY <1>5, <1>6 DEF t


\* A thread whose request has an answer that no limit gives, seen as before.
LEMMA ThreadUnseen ==
  ASSUME IInv, NEW r \in Requests, req[r].pc \in {"sent", "verify"}, NEW q \in Threads,
         q.tab = req[r].tab, NEW answer, answer # "limited", Answer(r, q, answer),
         UNCHANGED scenario
  PROVE  /\ [x \in Requests |-> PassedWith(req[x])]' = [x \in Requests |-> PassedWith(req[x])]
         /\ [x \in Requests |-> RefusedFor(req[x])]' = [x \in Requests |-> RefusedFor(req[x])]
  <1>1. PassedWith(req[r]) = 0 /\ RefusedFor(req[r]) = None
    BY DEF PassedWith, RefusedFor
  <1>2. /\ PassedWith(req[r])' = 0 /\ RefusedFor(req[r])' = None
        /\ \A x \in Requests \ {r} : /\ PassedWith(req[x])' = PassedWith(req[x])
                                     /\ RefusedFor(req[x])' = RefusedFor(req[x])
    BY AnswerSeen
  <1> QED BY <1>1, <1>2

LEMMA WrongPasswordGuesses ==
  ASSUME IInv, NEW r \in Requests, WrongPassword(r)
  PROVE  \E a \in Browsers : Promised!Guess(a)
  <1>1. PICK b \in Browsers : b = Browser(req[r].tab)
    BY PlainTypes DEF IInv
  <1>2. PICK t \in 0..now : t = req[r].at /\ Promised!Latest(b, t) /\ Promised!Open(b, t)
    BY <1>1, VerifiedInTime DEF WrongPassword
  <1>3. /\ failures' = [failures EXCEPT ![b] = Append(failures[b], t)]
        /\ UNCHANGED <<scenario, now, expires, issued>> /\ Answer(r, req[r], "refused")
        /\ req[r].pc = "verify" /\ req[r] \in Threads
    BY <1>1, <1>2, PlainTypes DEF WrongPassword, IInv
  <1>4. /\ [x \in Requests |-> PassedWith(req[x])]' = [x \in Requests |-> PassedWith(req[x])]
        /\ [x \in Requests |-> RefusedFor(req[x])]' = [x \in Requests |-> RefusedFor(req[x])]
    BY <1>3, ThreadUnseen
  <1>5. UNCHANGED <<1..issued, [k \in Sessions |-> IF expires[k] > now THEN expires[k] ELSE 0]>>
    BY <1>3
  <1>6. Promised!Guess(b)
    BY <1>2, <1>3, <1>4, <1>5 DEF Promised!Guess, PassedWith, RefusedFor
  <1> QED BY <1>6

LEMMA RightPasswordLogsIn ==
  ASSUME IInv, NEW r \in Requests, RightPassword(r)
  PROVE  \E a \in Browsers : \E k \in Sessions \ {0} : Promised!Login(a, k)
  <1>1. PICK b \in Browsers : b = Browser(req[r].tab)
    BY PlainTypes DEF IInv
  <1>2. PICK t \in 0..now : t = req[r].at /\ Promised!Latest(b, t) /\ Promised!Open(b, t)
    BY <1>1, VerifiedInTime DEF RightPassword
  <1>3. PICK k \in Sessions \ {0} : k = issued + 1
    <2>1. issued < scenario.logins /\ scenario.logins \in 0..MaxSessions /\ issued \in 0..MaxSessions
      BY ConstantsAssumption DEF RightPassword, IInv, TypeOK, Sessions
    <2> QED BY <2>1, ConstantsAssumption DEF Sessions
  <1>4. /\ failures' = [failures EXCEPT ![b] = <<>>]
        /\ expires' = [expires EXCEPT ![k] = t + TTL] /\ issued' = k
        /\ UNCHANGED <<scenario, now>> /\ Answer(r, [req[r] EXCEPT !.token = k], "ok")
        /\ req[r].pc = "verify"
    BY <1>1, <1>2, <1>3 DEF RightPassword
  <1> DEFINE q == [req[r] EXCEPT !.token = k]
  <1>5. q \in Threads /\ q.tab = req[r].tab
    BY PlainTypes DEF IInv, Threads
  <1> HIDE DEF q
  <1>6. /\ [x \in Requests |-> PassedWith(req[x])]' = [x \in Requests |-> PassedWith(req[x])]
        /\ [x \in Requests |-> RefusedFor(req[x])]' = [x \in Requests |-> RefusedFor(req[x])]
    BY <1>4, <1>5, ThreadUnseen DEF q
  <1>7. k \notin 1..issued /\ 1..issued' = (1..issued) \cup {k}
    BY <1>3, <1>4, PlainTypes DEF IInv
  <1>8. expires \in [Sessions -> Nat] /\ k \in Sessions /\ t + TTL \in Nat /\ now' = now
    <2>1. now \in Nat /\ TTL \in Nat /\ expires \in [Sessions -> Nat]
      BY ConstantsAssumption DEF IInv, TypeOK
    <2>2. t \in 0..now /\ now' = now
      BY <1>2, <1>4
    <2>3. t + TTL \in Nat
      BY <2>1, <2>2
    <2> QED BY <1>3, <2>1, <2>2, <2>3
  <1>9. [j \in Sessions |-> IF expires[j] > now THEN expires[j] ELSE 0]'
          = [[j \in Sessions |-> IF expires[j] > now THEN expires[j] ELSE 0]
               EXCEPT ![k] = IF t + TTL > now THEN t + TTL ELSE 0]
    BY <1>4, <1>8
  <1>10. Promised!Login(b, k)
    BY <1>2, <1>4, <1>6, <1>7, <1>8, <1>9 DEF Promised!Login, PassedWith, RefusedFor
  <1> QED BY <1>10

LEMMA CheckSessionPasses ==
  ASSUME IInv, NEW r \in Requests, CheckSession(r)
  PROVE  Promised!Leave \/ \E k \in Sessions \ {0} : Promised!Pass(r, k)
  <1>1. /\ UNCHANGED <<scenario, now, failures, issued>> /\ req[r].pc = "sent"
        /\ req[r] \in Threads /\ req[r].token \in Sessions /\ now \in Nat
        /\ expires \in [Sessions -> Nat]
    BY PlainTypes DEF CheckSession, IInv, TypeOK
  <1>2. PassedWith(req[r]) = 0 /\ RefusedFor(req[r]) = None
    BY <1>1 DEF PassedWith, RefusedFor
  <1>3. [k \in Sessions |-> IF expires[k] > now THEN expires[k] ELSE 0]'
          = [k \in Sessions |-> IF expires[k] > now THEN expires[k] ELSE 0]
    BY <1>1 DEF CheckSession, Live, Popped
  <1>4. CASE Answer(r, req[r], "refused")
    <2>1. /\ [x \in Requests |-> PassedWith(req[x])]' = [x \in Requests |-> PassedWith(req[x])]
          /\ [x \in Requests |-> RefusedFor(req[x])]' = [x \in Requests |-> RefusedFor(req[x])]
      BY <1>1, <1>4, ThreadUnseen
    <2>2. \A x \in Requests : /\ PassedWith(req[x])' = PassedWith(req[x])
                              /\ RefusedFor(req[x])' = RefusedFor(req[x])
      BY <2>1
    <2> QED BY <1>1, <1>3, <2>2 DEF Promised!Leave, PassedWith, RefusedFor
  <1>5. CASE Accepted(req[r]) /\ req' = [req EXCEPT ![r].pc = "checked"]
    <2>1. PICK k \in Sessions \ {0} : k = req[r].token
      BY <1>1, <1>5 DEF Accepted, Live, IInv, SessionsOK
    <2>2. expires[k] > now /\ expires[k] # 0
      BY <1>1, <1>5, <2>1 DEF Accepted, Live
    <2>3. req'[r].pc = "checked" /\ req'[r].token = k /\ \A x \in Requests \ {r} : req'[x] = req[x]
      BY <1>1, <1>5, <2>1 DEF IInv, TypeOK, Threads
    <2>4. /\ PassedWith(req[r])' = k /\ RefusedFor(req[r])' = None
          /\ \A x \in Requests \ {r} : /\ PassedWith(req[x])' = PassedWith(req[x])
                                       /\ RefusedFor(req[x])' = RefusedFor(req[x])
      BY <1>1, <2>3 DEF PassedWith, RefusedFor, Browser
    <2>5. /\ [x \in Requests |-> PassedWith(req[x])]'
               = [[x \in Requests |-> PassedWith(req[x])] EXCEPT ![r] = k]
          /\ [x \in Requests |-> RefusedFor(req[x])]' = [x \in Requests |-> RefusedFor(req[x])]
      BY <1>2, <2>4
    <2>6. Promised!Pass(r, k)
      BY <1>1, <1>3, <2>2, <2>5 DEF Promised!Pass, PassedWith, RefusedFor
    <2> QED BY <2>6
  <1> QED BY <1>4, <1>5 DEF CheckSession


LEMMA LogoutEnds ==
  ASSUME IInv, NEW r \in Requests, Logout(r)
  PROVE  Promised!Leave \/ Promised!Logout(r)
  <1>1. PICK k \in Sessions : k = req[r].token
    BY PlainTypes DEF IInv
  <1>2. /\ UNCHANGED <<scenario, now, failures, issued>> /\ expires' = [expires EXCEPT ![k] = 0]
        /\ req[r].pc = "checked" /\ Answer(r, req[r], "ok") /\ req[r] \in Threads
        /\ expires \in [Sessions -> Nat] /\ now \in Nat
    BY <1>1, PlainTypes DEF Logout, Popped, IInv, TypeOK
  <1>3. PassedWith(req[r]) = k /\ RefusedFor(req[r]) = None
    BY <1>1, <1>2 DEF PassedWith, RefusedFor
  <1>4. /\ PassedWith(req[r])' = 0 /\ RefusedFor(req[r])' = None
        /\ \A x \in Requests \ {r} : /\ PassedWith(req[x])' = PassedWith(req[x])
                                     /\ RefusedFor(req[x])' = RefusedFor(req[x])
    BY <1>2, AnswerSeen
  <1>5. CASE k = 0
    <2>1. expires[0] = 0 /\ expires' = expires
      BY <1>1, <1>2, <1>5 DEF IInv, SessionsOK
    <2>2. \A x \in Requests : /\ PassedWith(req[x])' = PassedWith(req[x])
                              /\ RefusedFor(req[x])' = RefusedFor(req[x])
      BY <1>3, <1>4, <1>5
    <2> QED BY <1>2, <2>1, <2>2, Leaves
  <1>6. CASE k # 0
    <2>1. [j \in Sessions |-> IF expires[j] > now THEN expires[j] ELSE 0]'
            = [[j \in Sessions |-> IF expires[j] > now THEN expires[j] ELSE 0] EXCEPT ![k] = 0]
      BY <1>2
    <2>2. /\ [x \in Requests |-> PassedWith(req[x])]'
               = [[x \in Requests |-> PassedWith(req[x])] EXCEPT ![r] = 0]
          /\ [x \in Requests |-> RefusedFor(req[x])]' = [x \in Requests |-> RefusedFor(req[x])]
      BY <1>3, <1>4
    <2>3. [x \in Requests |-> PassedWith(req[x])][r] = k
      BY <1>3
    <2> QED BY <1>2, <1>6, <2>1, <2>2, <2>3 DEF Promised!Logout, PassedWith, RefusedFor
  <1> QED BY <1>5, <1>6

LEMMA ActLeaves ==
  ASSUME IInv, NEW r \in Requests, Act(r)
  PROVE  Promised!Leave
  <1>1. PICK answer \in {"ok", "error"} : Answer(r, req[r], answer)
    BY DEF Act
  <1>2. UNCHANGED <<scenario, now, failures, expires, issued>> /\ req[r] \in Threads
    BY PlainTypes DEF Act, auth, IInv
  <1>3. /\ PassedWith(req[r])' = 0 /\ RefusedFor(req[r])' = None
        /\ \A x \in Requests \ {r} : /\ PassedWith(req[x])' = PassedWith(req[x])
                                     /\ RefusedFor(req[x])' = RefusedFor(req[x])
    BY <1>1, <1>2, AnswerSeen
  <1> QED BY <1>2, <1>3, Leaves

LEMMA AbstractInit == Init => Promised!Init
  <1> SUFFICES ASSUME Init PROVE Promised!Init
    OBVIOUS
  <1>1. /\ now = 1 /\ failures = [b \in Browsers |-> <<>>] /\ expires = [k \in Sessions |-> 0]
        /\ issued = 0 /\ \A r \in Requests : req[r].pc = "free"
    BY DEF Init, Free
  <1>2. 1..issued = {}
    BY <1>1
  <1> QED BY <1>1, <1>2 DEF Promised!Init

LEMMA AbstractStep == IInv /\ [Next]_vars => [Promised!Next]_(Promised!vars)
  <1> SUFFICES ASSUME IInv, [Next]_vars
               PROVE  Promised!Next \/ UNCHANGED Promised!vars
    OBVIOUS
  <1>1. CASE Tick
    BY <1>1, TickAdvances DEF Promised!Next
  <1>2. CASE Restart
    BY <1>2, RestartRestarts DEF Promised!Next
  <1>3. CASE UserStep \/ \E t \in Tabs : Interval(t)
    <2>1. \A t \in Tabs : Load(t) => Promised!Leave
      BY LoadLeaves
    <2>2. \A t \in Tabs : ClickLogin(t) \/ ClickLogout(t) \/ ClickConnect(t) \/ Interval(t)
                            => Promised!Leave
      BY SendLeaves DEF ClickLogin, ClickLogout, ClickConnect, Interval
    <2> QED BY <1>3, <2>1, <2>2, TabsOpened DEF UserStep, Promised!Next, IInv
  <1>4. ASSUME NEW r \in Requests, Receive(r) \/ GiveUp(r)
        PROVE  Promised!Next
    BY <1>4, ReceiveLeaves DEF Promised!Next
  <1>5. ASSUME NEW r \in Requests, ServerStep(r)
        PROVE  Promised!Next
    <2>1. CASE CheckLimit(r)
      BY <2>1, CheckLimitRefuses DEF Promised!Next
    <2>2. CASE WrongPassword(r)
      BY <2>2, WrongPasswordGuesses DEF Promised!Next
    <2>3. CASE RightPassword(r)
      BY <2>3, RightPasswordLogsIn DEF Promised!Next
    <2>4. CASE CheckSession(r)
      BY <2>4, CheckSessionPasses DEF Promised!Next
    <2>5. CASE Logout(r)
      BY <2>5, LogoutEnds DEF Promised!Next
    <2>6. CASE Act(r)
      BY <2>6, ActLeaves DEF Promised!Next
    <2> QED BY <1>5, <2>1, <2>2, <2>3, <2>4, <2>5, <2>6 DEF ServerStep
  <1>6. CASE UNCHANGED vars
    BY <1>6 DEF vars, auth, client, Promised!vars, Browser
  <1> QED BY <1>1, <1>2, <1>3, <1>4, <1>5, <1>6 DEF Next

\* For any number of addresses, threads and sessions: logins, checks and logouts whose
\* threads overlap, the slow check of a password inside the lock, lost answers and
\* restarts are together the one authenticator that Authenticator states.
THEOREM AuthenticatorImplemented == Spec => ImplementsAuthenticator
  BY Invariance, AbstractInit, AbstractStep, PTL DEF Spec, ImplementsAuthenticator, Promised!Spec
=============================================================================

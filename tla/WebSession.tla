----------------------------- MODULE WebSession -----------------------------
(***************************************************************************)
(* Sessions of the Web Panel: the threads of the HTTP server share one     *)
(* authenticator (the limit on wrong passwords, the sessions and when they *)
(* expire), and every open panel is a JavaScript client of its own that    *)
(* polls, gives up on slow answers and keeps a CSRF token, while the       *)
(* session cookie belongs to the whole browser.                            *)
(*                                                                         *)
(* A session and its CSRF token share one name, the number of the login    *)
(* that made it; 0 is none.  A browser is an address.  Time is in units of *)
(* minutes and is the one clock the authenticator reads.                   *)
(***************************************************************************)
EXTENDS Naturals, Sequences, FiniteSets

CONSTANTS
  Tabs,         \* open panels
  Browsers,     \* each with its address and its cookies
  Requests,     \* places for requests under way, a bound
  Max,          \* LOGIN_MAX_FAILURES
  Window,       \* LOGIN_WINDOW
  TTL,          \* SESSION_TTL
  MaxSessions,  \* bound on the sessions made
  MaxTime,      \* bound on the clock
  Scenarios,    \* which tabs are opened in which browser, what may happen, and
                \* how often the password is right
  None          \* no thread and no address

EventKinds == {"time", "guess", "write", "giveup", "restart", "reload", "twice", "early"}

ASSUME ConstantsAssumption ==
  /\ Max \in Nat \ {0} /\ Window \in Nat \ {0} /\ TTL \in Nat \ {0}
  /\ MaxSessions \in Nat /\ MaxTime \in Nat
  /\ None \notin Requests \cup Browsers /\ Tabs # {}
  /\ Scenarios \subseteq [tabs : SUBSET Tabs, browser : [Tabs -> Browsers],
                               events : SUBSET EventKinds, logins : 0..MaxSessions]

VARIABLES
  scenario,   \* never changes
  now,        \* _utc_now()
  lock,       \* WebAuthenticator._lock: the thread that has it, or None
  failures,   \* wrong passwords of an address since its last login ...
  forgotten,  \* ... and how many of them _failed_attempts no longer has
  expires,    \* Session.expires_at of the sessions in _sessions, 0 of the others
  issued,     \* sessions made
  cookie,     \* the session cookie of every browser
  tab,        \* the panel's script in every tab
  req,        \* requests, each with its thread in the server
  born, ended \* history: when a session was made, which ones were ended

auth == <<lock, failures, forgotten, expires, issued, born, ended>>
client == <<cookie, tab>>
vars == <<scenario, now, auth, client, req>>

May(event) == event \in scenario.events
Sessions == 0..MaxSessions
LiveIfKnown(k) == expires[k] # 0
Live(k) == expires[k] > now

Free == [kind |-> "read", tab |-> CHOOSE t \in Tabs : TRUE, pc |-> "free",
         token |-> 0, csrf |-> 0, at |-> 0, heard |-> FALSE, answer |-> "ok"]

\* A page as it loads: the login form can be seen and used from the start.
\* asked is the session of the last refresh and shown whether it got readings; said
\* is the session the panel had when it said "Wylogowano.".
Page == [view |-> "login", csrf |-> 0, refreshing |-> FALSE, submitting |-> FALSE,
         connecting |-> FALSE, asked |-> 0, shown |-> FALSE, said |-> 0]

Init ==
  /\ scenario \in Scenarios
  /\ now = 1 /\ lock = None
  /\ failures = [b \in Browsers |-> <<>>] /\ forgotten = [b \in Browsers |-> 0]
  /\ expires = [k \in Sessions |-> 0] /\ issued = 0
  /\ cookie = [b \in Browsers |-> 0] /\ tab = [t \in Tabs |-> [Page EXCEPT !.view = "none"]]
  /\ req = [r \in Requests |-> Free]
  /\ born = [k \in Sessions |-> 0] /\ ended = {}

Tick ==
  /\ May("time") /\ now < MaxTime
  /\ now' = now + 1
  /\ UNCHANGED <<scenario, auth, client, req>>

-----------------------------------------------------------------------------
(* The panel's script                                                      *)

Browser(t) == scenario.browser[t]
InFlight(t, kind) ==
  \E r \in Requests : req[r].heard /\ req[r].tab = t /\ req[r].kind = kind

\* A request as fetch sends it: the browser adds its cookie, the script the
\* CSRF token it has now.
Sent(kind, t, k, csrf) ==
  [Free EXCEPT !.kind = kind, !.tab = t, !.pc = "sent", !.token = k,
               !.csrf = csrf, !.heard = TRUE]

Unheard(q) == IF q.pc = "answered" THEN Free ELSE [q EXCEPT !.heard = FALSE]

Send(kind, t, page) ==
  /\ \E r \in Requests :
       /\ req[r].pc = "free"
       /\ req' = [req EXCEPT ![r] = Sent(kind, t, cookie[Browser(t)], tab[t].csrf)]
  /\ tab' = [tab EXCEPT ![t] = page]
  /\ UNCHANGED <<scenario, now, auth, cookie>>

\* The page is loaded, once or again: whatever its older requests answer is lost.
Load(t) ==
  /\ tab[t].view # "none" => May("reload")
  /\ \E r \in Requests :
       /\ req[r].pc = "free"
       /\ req' = [q \in Requests |->
                    IF q = r THEN Sent("init", t, cookie[Browser(t)], 0)
                    ELSE IF req[q].heard /\ req[q].tab = t THEN Unheard(req[q]) ELSE req[q]]
  /\ tab' = [tab EXCEPT ![t] = Page]
  /\ UNCHANGED <<scenario, now, auth, cookie>>

LoginsUnderWay == {r \in Requests : req[r].kind = "login" /\ req[r].pc \in {"sent", "verify"}}

\* The login form; its button is disabled while a login is under way.
ClickLogin(t) ==
  /\ tab[t].view = "login" /\ ~tab[t].submitting
  /\ May("guess") \/ issued + Cardinality(LoginsUnderWay) < scenario.logins
  /\ InFlight(t, "init") => May("early")
  /\ Send("login", t, [tab[t] EXCEPT !.submitting = TRUE, !.said = 0])

\* The logout button is never disabled.
ClickLogout(t) ==
  /\ tab[t].view = "panel"
  /\ InFlight(t, "logout") => May("twice")
  /\ Send("logout", t, tab[t])

\* A write (a change of the Wi-Fi network); its button is disabled meanwhile.
ClickConnect(t) ==
  /\ May("write") /\ tab[t].view = "panel" /\ ~tab[t].connecting
  /\ Send("write", t, [tab[t] EXCEPT !.connecting = TRUE])

\* setInterval: refresh() does nothing while one is under way or without a token.
\* Its six requests are one here, the one for the state.
Interval(t) ==
  /\ ~tab[t].refreshing /\ tab[t].csrf # 0
  /\ Send("read", t, [tab[t] EXCEPT !.refreshing = TRUE])

ShowLogin(page, said) == [page EXCEPT !.view = "login", !.csrf = 0, !.said = said]
ShowPanel(page, k) ==
  [page EXCEPT !.view = "panel", !.csrf = k, !.said = 0, !.refreshing = TRUE]

\* refresh() asked with session k and has rendered the readings, or that there are none.
RenderedIfRead(page, k, ok) ==
  [page EXCEPT !.asked = k, !.shown = ok, !.refreshing = ~ok]
Rendered(page, k, ok) ==
  [page EXCEPT !.asked = k, !.shown = ok, !.refreshing = FALSE]

\* What the handlers that waited for the request make of the page.
Handled(q, page, ok) ==
  CASE q.kind = "init" -> IF ok THEN ShowPanel(page, q.token) ELSE ShowLogin(page, 0)
    [] q.kind = "login" ->
         [(IF ok THEN ShowPanel(page, q.token) ELSE page) EXCEPT !.submitting = FALSE]
    [] q.kind = "logout" -> ShowLogin(page, page.csrf)
    [] q.kind = "write" -> [page EXCEPT !.connecting = FALSE]
    [] q.kind = "read" -> Rendered(page, q.token, ok)

\* The browser takes Set-Cookie with the headers of the answer.
SetCookie(q) ==
  IF q.pc # "answered" \/ q.answer # "ok" \/ q.kind \notin {"login", "logout"} THEN cookie
  ELSE [cookie EXCEPT ![Browser(q.tab)] = IF q.kind = "login" THEN q.token ELSE 0]

\* showPanel refreshes at once, unless an older refresh is still under way.
Refreshes(q, ok) == ok /\ q.kind \in {"init", "login"} /\ ~tab[q.tab].refreshing

Receive(r) ==
  LET q == req[r]  ok == q.answer = "ok" IN
  /\ q.heard /\ q.pc = "answered"
  /\ cookie' = SetCookie(q)
  /\ tab' = [tab EXCEPT ![q.tab] = Handled(q, @, ok)]
  /\ req' = [req EXCEPT ![r] = IF ~Refreshes(q, ok) THEN Free
                               ELSE Sent("read", q.tab, cookie'[Browser(q.tab)], q.token)]
  /\ UNCHANGED <<scenario, now, auth>>

\* The request is aborted after four seconds or the connection breaks; the
\* server does not notice.
GiveUp(r) ==
  LET q == req[r] IN
  /\ May("giveup") /\ q.heard
  /\ cookie' \in {cookie, SetCookie(q)}
  /\ tab' = [tab EXCEPT ![q.tab] = Handled(q, @, FALSE)]
  /\ req' = [req EXCEPT ![r] = Unheard(q)]
  /\ UNCHANGED <<scenario, now, auth>>

-----------------------------------------------------------------------------
(* The server                                                              *)

Answer(r, q, answer) ==
  req' = [req EXCEPT ![r] = IF q.heard THEN [q EXCEPT !.pc = "answered", !.answer = answer]
                            ELSE Free]

Unlocked == TRUE
LockFree == lock = None
PoppedLate(k) == expires
Popped(k) == [expires EXCEPT ![k] = 0]

\* _attempts_for: n is how many of the failures are out of the window at `now'.
NeverForgotten(b, n) == n = forgotten[b]
OutOfWindow(b, n) ==
  /\ n \in forgotten[b]..Len(failures[b])
  /\ \A i \in forgotten[b] + 1..n : failures[b][i] + Window <= now
  /\ n < Len(failures[b]) => failures[b][n + 1] + Window > now

\* login takes the lock, reads the clock, forgets old failures and either refuses
\* or starts to verify the password (scrypt) with the lock held.
CheckLimit(r) ==
  LET b == Browser(req[r].tab) IN
  /\ req[r].kind = "login" /\ req[r].pc = "sent" /\ LockFree
  /\ \E n \in 0..Len(failures[b]) :
       /\ OutOfWindow(b, n)
       /\ forgotten' = [forgotten EXCEPT ![b] = n]
       /\ \/ /\ Len(failures[b]) - n >= Max
             /\ Answer(r, req[r], "limited")
             /\ UNCHANGED lock
          \/ /\ Len(failures[b]) - n < Max
             /\ req' = [req EXCEPT ![r].pc = "verify", ![r].at = now]
             /\ lock' = r
  /\ UNCHANGED <<scenario, now, failures, expires, issued, born, ended, client>>

WrongKeepsLock(r) ==
  LET b == Browser(req[r].tab) IN
  /\ req[r].pc = "verify" /\ May("guess")
  /\ failures' = [failures EXCEPT ![b] = Append(@, req[r].at)]
  /\ Answer(r, req[r], "refused")
  /\ UNCHANGED <<scenario, now, lock, forgotten, expires, issued, born, ended, client>>
WrongPassword(r) ==
  LET b == Browser(req[r].tab) IN
  /\ req[r].pc = "verify" /\ May("guess")
  /\ failures' = [failures EXCEPT ![b] = Append(@, req[r].at)]
  /\ Answer(r, req[r], "refused")
  /\ lock' = None
  /\ UNCHANGED <<scenario, now, forgotten, expires, issued, born, ended, client>>

\* The right password: the failures of the address are dropped, a session is made.
RightPassword(r) ==
  LET b == Browser(req[r].tab)  k == issued + 1 IN
  /\ req[r].pc = "verify" /\ issued < scenario.logins
  /\ failures' = [failures EXCEPT ![b] = <<>>]
  /\ forgotten' = [forgotten EXCEPT ![b] = 0]
  /\ issued' = k
  /\ expires' = [expires EXCEPT ![k] = req[r].at + TTL]
  /\ born' = [born EXCEPT ![k] = req[r].at]
  /\ Answer(r, [req[r] EXCEPT !.token = k], "ok")
  /\ lock' = None
  /\ UNCHANGED <<scenario, now, ended, client>>

\* session(token), and the comparison of the CSRF token of require_write.
NeedsCsrf(kind) == kind \in {"write", "logout"}
Accepted(q) == Live(q.token) /\ (NeedsCsrf(q.kind) => q.csrf = q.token)

CheckSession(r) ==
  LET q == req[r] IN
  /\ q.kind # "login" /\ q.pc = "sent" /\ LockFree
  /\ expires' = IF Live(q.token) THEN expires ELSE Popped(q.token)
  /\ \/ Accepted(q) /\ req' = [req EXCEPT ![r].pc = "checked"]
     \/ ~Accepted(q) /\ Answer(r, q, "refused")
  /\ UNCHANGED <<scenario, now, lock, failures, forgotten, issued, born, ended, client>>

\* The rest of do_DELETE: logout(token) takes the lock again.
Logout(r) ==
  LET q == req[r] IN
  /\ q.kind = "logout" /\ q.pc = "checked" /\ LockFree
  /\ expires' = Popped(q.token)
  /\ ended' = ended \cup {q.token}
  /\ Answer(r, q, "ok")
  /\ UNCHANGED <<scenario, now, lock, failures, forgotten, issued, born, client>>

\* The rest of do_GET and do_POST: a reading or a write that succeeds or fails.
Act(r) ==
  /\ req[r].kind \in {"init", "read", "write"} /\ req[r].pc = "checked"
  /\ \E answer \in IF req[r].kind = "init" THEN {"ok"} ELSE {"ok", "error"} :
       Answer(r, req[r], answer)
  /\ UNCHANGED <<scenario, now, auth, client>>

\* The service is restarted: sessions and failures were in memory only.
Restart ==
  /\ May("restart")
  /\ lock' = None
  /\ failures' = [b \in Browsers |-> <<>>] /\ forgotten' = [b \in Browsers |-> 0]
  /\ expires' = [k \in Sessions |-> 0] /\ ended' = 0..issued
  /\ req' = [r \in Requests |-> IF req[r].pc \in {"free", "answered"} THEN req[r]
                                ELSE IF req[r].heard
                                  THEN [req[r] EXCEPT !.pc = "answered", !.answer = "error"]
                                  ELSE Free]
  /\ UNCHANGED <<scenario, now, issued, born, client>>

-----------------------------------------------------------------------------

UserStep ==
  \E t \in scenario.tabs : Load(t) \/ ClickLogin(t) \/ ClickLogout(t) \/ ClickConnect(t)
ServerStep(r) ==
  \/ CheckLimit(r) \/ WrongPassword(r) \/ RightPassword(r)
  \/ CheckSession(r) \/ Logout(r) \/ Act(r)
Next ==
  \/ Tick \/ Restart \/ UserStep
  \/ \E t \in Tabs : Interval(t)
  \/ \E r \in Requests : ServerStep(r) \/ Receive(r) \/ GiveUp(r)

Spec == Init /\ [][Next]_vars
FairSpec ==
  /\ Spec
  /\ \A r \in Requests : WF_vars(ServerStep(r)) /\ WF_vars(Receive(r))
  /\ \A t \in Tabs : SF_vars(Interval(t))

-----------------------------------------------------------------------------
(* Properties                                                              *)

Pages == [view : {"none", "panel", "login"}, csrf : Sessions, refreshing : BOOLEAN,
          submitting : BOOLEAN, connecting : BOOLEAN, asked : Sessions,
          shown : BOOLEAN, said : Sessions]
Threads == [kind : {"init", "login", "logout", "read", "write"}, tab : Tabs,
            pc : {"free", "sent", "verify", "checked", "answered"}, token : Sessions,
            csrf : Sessions, at : Nat, heard : BOOLEAN,
            answer : {"ok", "limited", "refused", "error"}]

\* Types; the lock is held exactly by the thread that verifies a password.
TypeOK ==
  /\ scenario \in Scenarios /\ now \in Nat
  /\ lock \in Requests \cup {None}
  /\ \A r \in Requests : req[r].pc = "verify" <=> lock = r
  /\ failures \in [Browsers -> Seq(Nat)] /\ forgotten \in [Browsers -> Nat]
  /\ expires \in [Sessions -> Nat] /\ born \in [Sessions -> Nat]
  /\ issued \in Sessions /\ ended \subseteq Sessions
  /\ cookie \in [Browsers -> Sessions] /\ tab \in [Tabs -> Pages]
  /\ req \in [Requests -> Threads]

\* However many requests an address sends at a time, any Max + 1 wrong passwords
\* in a row were tried over a whole window (login, lines 132-141).
LoginLimit ==
  \A b \in Browsers : \A i \in 1..Len(failures[b]) :
    i + Max <= Len(failures[b]) => failures[b][i] + Window <= failures[b][i + Max]

\* A login is refused unseen only after Max wrong passwords in this very window
\* (_attempts_for): an old failure never locks the administrator out.
NoEarlyLockout ==
  [][\A r \in Requests : \A b \in Browsers :
       ( /\ req[r].pc = "sent" /\ b = Browser(req[r].tab)
         /\ req'[r].pc = "answered" /\ req'[r].answer = "limited" ) =>
       /\ Len(failures[b]) >= Max
       /\ \A i \in Len(failures[b]) - Max + 1..Len(failures[b]) : failures[b][i] + Window > now
    ]_vars

\* A request passes the check of its session only less than TTL after the login,
\* before its logout or a restart, and a write only with this session's CSRF token.
AcceptsOnlyLive ==
  [][\A r \in Requests : req[r].pc = "sent" /\ req'[r].pc = "checked" =>
       /\ req[r].token \in 1..issued /\ req[r].token \notin ended
       /\ now < born[req[r].token] + TTL
       /\ NeedsCsrf(req[r].kind) => req[r].csrf = req[r].token]_vars

\* When the panel says "Wylogowano." the session it had is over.  The script says
\* so whatever the answer was, and it is true only of a browser with one panel, in
\* which no answer is lost, nobody clicks twice or logs in before the page is ready.
Undisturbed(t) ==
  /\ scenario.events \cap {"giveup", "twice", "early"} = {}
  /\ \A u \in scenario.tabs : Browser(u) = Browser(t) => u = t
LoggedOutIsOut ==
  \A t \in Tabs : Undisturbed(t) /\ tab[t].view = "login" => ~Live(tab[t].said)

\* Whatever is lost, restarted or expires: an open panel always comes back to
\* showing what its last refresh got with the cookie in force, and no readings of
\* a session that is over; neither a lost answer nor a refresh that is under way
\* at a logout and login stops the polling.
PanelComesBack ==
  \A t \in Tabs : []<>( tab[t].view = "panel" =>
    /\ tab[t].asked = cookie[Browser(t)]
    /\ tab[t].shown => Live(tab[t].asked) )
-----------------------------------------------------------------------------
(* The promise of the authenticator                                        *)

Promised ==
  INSTANCE Authenticator WITH
    Addresses <- Browsers, Numbers <- Sessions,
    wrong <- failures,
    made <- 1..issued,
    until <- [k \in Sessions |-> IF expires[k] > now THEN expires[k] ELSE 0],
    passed <- [r \in Requests |-> IF req[r].pc = "checked" THEN req[r].token ELSE 0],
    refused <- [r \in Requests |-> IF req[r].pc = "answered" /\ req[r].answer = "limited"
                                   THEN Browser(req[r].tab) ELSE None]

\* Threads, lock and slow password check together do only what one authenticator
\* that does everything at one instant would: no order of guesses, logins, checks,
\* logouts, restarts and ends of sessions shows that they overlap (WebAuthenticator).
ImplementsAuthenticator == Promised!Spec
=============================================================================

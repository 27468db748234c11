--------------------------- MODULE Authenticator ---------------------------
(***************************************************************************)
(* What WebAuthenticator promises: although its threads share one lock     *)
(* with a slow check of the password inside it, every login, check and     *)
(* logout happens at one instant.  A password is tried only while fewer    *)
(* than Max wrong ones were tried in the window before; a session is good  *)
(* for exactly its time to live, or until a logout or a restart, and never *)
(* again; and a logout ends the session it was checked with.  WebSession   *)
(* implements it.                                                          *)
(***************************************************************************)
EXTENDS Naturals, Sequences

CONSTANTS
  Addresses, Requests, Numbers,  \* of clients, requests and sessions; session 0 is none
  Max, Window, TTL,              \* LOGIN_MAX_FAILURES, LOGIN_WINDOW, SESSION_TTL
  None                           \* no address

VARIABLES
  now,      \* the clock
  wrong,    \* when an address tried wrong passwords, since its last login
  made,     \* the sessions there have been
  until,    \* when a session ends, 0 when it is over
  passed,   \* the session a request was let in with, or 0
  refused   \* the address a login was turned away for, its password untried, or None

vars == <<now, wrong, made, until, passed, refused>>

Init ==
  /\ now = 1
  /\ wrong = [a \in Addresses |-> <<>>] /\ made = {} /\ until = [k \in Numbers |-> 0]
  /\ passed = [r \in Requests |-> 0] /\ refused = [r \in Requests |-> None]

\* At time t the Max-th wrong password before is missing, or out of the window.
Open(a, t) ==
  LET n == Len(wrong[a]) IN n >= Max => wrong[a][n - Max + 1] + Window <= t

\* Passwords are tried in the order of time.
Latest(a, t) == t <= now /\ \A i \in 1..Len(wrong[a]) : wrong[a][i] <= t

Advance ==
  /\ now' > now
  /\ until' = [k \in Numbers |-> IF until[k] > now' THEN until[k] ELSE 0]
  /\ UNCHANGED <<wrong, made, passed, refused>>

Guess(a) ==
  /\ \E t \in 0..now :
       /\ Latest(a, t) /\ Open(a, t)
       /\ wrong' = [wrong EXCEPT ![a] = Append(@, t)]
  /\ UNCHANGED <<now, made, until, passed, refused>>

\* The session counts from when the password was sent, before it was verified.
Login(a, k) ==
  /\ k \notin made /\ made' = made \cup {k}
  /\ \E t \in 0..now :
       /\ Latest(a, t) /\ Open(a, t)
       /\ until' = [until EXCEPT ![k] = IF t + TTL > now THEN t + TTL ELSE 0]
  /\ wrong' = [wrong EXCEPT ![a] = <<>>]
  /\ UNCHANGED <<now, passed, refused>>

Refuse(r, a) ==
  /\ ~Open(a, now)
  /\ refused' = [refused EXCEPT ![r] = a]
  /\ UNCHANGED <<now, wrong, made, until, passed>>

Pass(r, k) ==
  /\ until[k] # 0
  /\ passed' = [passed EXCEPT ![r] = k]
  /\ UNCHANGED <<now, wrong, made, until, refused>>

Logout(r) ==
  /\ passed[r] # 0
  /\ until' = [until EXCEPT ![passed[r]] = 0]
  /\ passed' = [passed EXCEPT ![r] = 0]
  /\ UNCHANGED <<now, wrong, made, refused>>

\* Requests end, answered or not.
Leave ==
  /\ \A r \in Requests : passed'[r] \in {passed[r], 0} /\ refused'[r] \in {refused[r], None}
  /\ UNCHANGED <<now, wrong, made, until>>

\* All that is known of passwords and sessions is in memory.
Restart ==
  /\ wrong' = [a \in Addresses |-> <<>>] /\ until' = [k \in Numbers |-> 0]
  /\ passed' = [r \in Requests |-> 0]
  /\ UNCHANGED <<now, made, refused>>

Next ==
  \/ Advance \/ Leave \/ Restart
  \/ \E a \in Addresses : Guess(a) \/ (\E k \in Numbers \ {0} : Login(a, k))
  \/ \E r \in Requests : Logout(r)
                         \/ (\E a \in Addresses : Refuse(r, a))
                         \/ (\E k \in Numbers \ {0} : Pass(r, k))

Spec == Init /\ [][Next]_vars
=============================================================================

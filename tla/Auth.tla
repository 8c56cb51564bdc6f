-------------------------------- MODULE Auth --------------------------------
(***************************************************************************)
(* The two tables of authService: sessions, whose expiry moves with every  *)
(* request, and failed logins, which block a client for a while.  Both are *)
(* bounded, and both are swept of what is over by almost every call.  Each *)
(* method is one step under a.mu; the handlers call them in any order, and *)
(* with whatever time to live the settings have at that moment.            *)
(***************************************************************************)
EXTENDS Integers, FiniteSets

CONSTANTS
  Tokens, Clients,
  maxAuthSessions, maxAuthAttempts,
  TTLs,          \* values of AuthSessionTTLHours
  FailureLimit,  \* 5 failures block a client
  BlockFor,      \* 30 seconds
  ForgetAfter,   \* 10 minutes
  Nothing,
  MaxTime        \* bound on the clock

Attempts == [failures : 0..(FailureLimit - 1), until : Nat \cup {Nothing}, seen : 0..MaxTime]

ASSUME AuthAssumption ==
  /\ maxAuthSessions \in Nat /\ maxAuthAttempts \in Nat /\ FailureLimit \in Nat \ {0}
  /\ TTLs \subseteq Nat /\ BlockFor \in Nat /\ ForgetAfter \in Nat /\ MaxTime \in Nat
  /\ Nothing \notin Nat /\ Nothing \notin Attempts

VARIABLES
  now,
  sessions,      \* sessions[t]: when the session of token t expires, or Nothing
  attempts       \* attempts[c]: failures, until when c is blocked, last seen, or Nothing

authVars == <<now, sessions, attempts>>

AuthInit ==
  /\ now = 0
  /\ sessions = [t \in Tokens |-> Nothing] /\ attempts = [c \in Clients |-> Nothing]

Known(table) == {k \in DOMAIN table : table[k] # Nothing}

\* cleanupLocked, for the sessions and for the attempts.
Kept == [t \in Tokens |-> IF sessions[t] # Nothing /\ sessions[t] > now THEN sessions[t] ELSE Nothing]

Stale(a) == IF a.until # Nothing THEN a.until <= now ELSE now - a.seen > ForgetAfter
Remembered == [c \in Clients |-> IF attempts[c] # Nothing /\ ~Stale(attempts[c]) THEN attempts[c] ELSE Nothing]

\* Mutant of deleteOldestSession: the session that lasts longest goes.
deleteOldestSessionNewest(table) ==
  {[table EXCEPT ![t] = Nothing] : t \in {u \in Known(table) : \A v \in Known(table) : table[v] <= table[u]}}

\* The tables that the removal of the oldest entry may leave; among equals the
\* order of the map decides.
deleteOldestSession(table) ==
  {[table EXCEPT ![t] = Nothing] : t \in {u \in Known(table) : \A v \in Known(table) : table[u] <= table[v]}}
deleteOldestAttempt(table) ==
  {[table EXCEPT ![c] = Nothing] : c \in {d \in Known(table) : \A e \in Known(table) : table[d].seen <= table[e].seen}}
------------------------------------------------------------------------------
createSession(t, ttl) ==
  /\ t \notin Known(sessions)
  /\ \E room \in IF Cardinality(Known(Kept)) >= maxAuthSessions THEN deleteOldestSession(Kept) ELSE {Kept} :
       sessions' = [room EXCEPT ![t] = now + ttl]
  /\ attempts' = Remembered
  /\ UNCHANGED now

\* A request with the cookie of t.
session(t, ttl) ==
  /\ sessions' = IF Kept[t] = Nothing THEN Kept ELSE [Kept EXCEPT ![t] = now + ttl]
  /\ attempts' = Remembered
  /\ UNCHANGED now

deleteSession(t) ==
  /\ sessions' = [sessions EXCEPT ![t] = Nothing]
  /\ UNCHANGED <<now, attempts>>

\* The question before a login: its own removal is part of the sweep.
blocked ==
  /\ sessions' = Kept /\ attempts' = Remembered
  /\ UNCHANGED now

Fails(a) ==
  IF a.failures + 1 >= FailureLimit THEN [failures |-> 0, until |-> now + BlockFor, seen |-> now]
  ELSE [a EXCEPT !.failures = @ + 1, !.seen = now]

failed(c) ==
  /\ \E room \in IF Remembered[c] = Nothing /\ Cardinality(Known(Remembered)) >= maxAuthAttempts
                 THEN deleteOldestAttempt(Remembered) ELSE {Remembered} :
       attempts' = [room EXCEPT ![c] = Fails(IF room[c] = Nothing
                                             THEN [failures |-> 0, until |-> Nothing, seen |-> now] ELSE room[c])]
  /\ sessions' = Kept
  /\ UNCHANGED now

succeeded(c) ==
  /\ attempts' = [attempts EXCEPT ![c] = Nothing]
  /\ UNCHANGED <<now, sessions>>

Clock ==
  /\ now < MaxTime /\ now' = now + 1
  /\ UNCHANGED <<sessions, attempts>>

SessionSteps == \E t \in Tokens : deleteSession(t) \/ \E ttl \in TTLs : createSession(t, ttl) \/ session(t, ttl)
AttemptSteps == blocked \/ \E c \in Clients : failed(c) \/ succeeded(c)
AuthNext == Clock \/ SessionSteps \/ AttemptSteps

AuthSpec == AuthInit /\ [][AuthNext]_authVars
------------------------------------------------------------------------------
\* A count of failures stays below the limit at which failed turns it into a
\* block, and every time is one.
AuthTypeOK ==
  /\ now \in 0..MaxTime
  /\ sessions \in [Tokens -> Nat \cup {Nothing}]
  /\ attempts \in [Clients -> Attempts \cup {Nothing}]

\* Neither table outgrows its limit, and the limit costs the least: a session
\* that has not expired ends by its own logout, or because a login finds the table
\* full and no session expires sooner; a client that is blocked stays blocked until
\* it logs in, or until another client's failure finds the table full and nobody
\* was seen longer ago.
TablesKeepTheYoungest ==
  [][/\ Cardinality(Known(sessions')) <= maxAuthSessions
     /\ Cardinality(Known(attempts')) <= maxAuthAttempts
     /\ \A t \in Known(sessions) :
          sessions[t] > now /\ sessions'[t] = Nothing =>
            \/ deleteSession(t)
            \/ /\ Cardinality(Known(Kept)) = maxAuthSessions
               /\ \A u \in Known(Kept) : sessions[t] <= sessions[u]
     /\ \A c \in Known(attempts) :
          attempts[c].until # Nothing /\ attempts[c].until > now /\ attempts'[c] = Nothing =>
            \/ succeeded(c)
            \/ /\ Cardinality(Known(Remembered)) = maxAuthAttempts
               /\ \A d \in Known(Remembered) : attempts[c].seen <= attempts[d].seen]_authVars
==============================================================================

------------------------------ MODULE Admission ------------------------------
(* What one backend process remembers of its callers: the clients of          *)
(* RateLimitGuard, which every request passes first, and the sessions of the  *)
(* USSD menu behind it (src/backend/src: auth/rate-limit.guard.ts,            *)
(* ussd/ussd.controller.ts). Both run without an await, so a request is one   *)
(* step. A USSD request carries the whole of what was dialled so far.         *)
EXTENDS Integers, Sequences, FiniteSets, Functions

CONSTANTS Clients,      \* addresses requests come from
          Sids,         \* USSD session ids
          Limit,        \* API_RATE_LIMIT, per Window (60 s)
          Window,
          ClientRoom,   \* the 10000 entries of the guard
          Patience,     \* five minutes
          SessionRoom,  \* the 10000 sessions
          MaxTime       \* bound on the clock

AdmissionAssumption ==
  {Limit, Window, ClientRoom, Patience, SessionRoom, MaxTime} \subseteq Nat \ {0}

VARIABLES now,
          clients,   \* client -> [count, reset], of those in the map
          sessions,  \* session id -> updatedAt, of those in the map
          hits,      \* history: when each client's requests were admitted
          dialled,   \* history: session id -> its last request that was served
          reply      \* the last answer of the menu
vars == <<now, clients, sessions, hits, dialled, reply>>

-----------------------------------------------------------------------------
Init ==
  /\ now = 0
  /\ clients = [c \in {} |-> 0] /\ sessions = [s \in {} |-> 0]
  /\ hits = [c \in Clients |-> <<>>]
  /\ dialled = [s \in {} |-> 0]
  /\ reply = "none"

(* canActivate: purge the ended windows, then count.                          *)
Live == {c \in DOMAIN clients : clients[c].reset > now}

Extended(c) ==                                \* fault: every request opens a window anew
  [count |-> IF c \in Live THEN clients[c].count ELSE 0, reset |-> now + Window]
Entry(c) == IF c \in Live THEN clients[c] ELSE [count |-> 0, reset |-> now + Window]

RoomForOneMore == Cardinality(Live) <= ClientRoom   \* fault: > for >=
RoomForClient == Cardinality(Live) < ClientRoom

(* A count over the limit tells nothing more: it is kept at Limit + 1.        *)
Counted(c) == [Entry(c) EXCEPT !.count = IF @ > Limit THEN @ ELSE @ + 1]
Admits(c) == (c \in Live \/ RoomForClient) /\ Entry(c).count < Limit

Guard(c) ==
  /\ clients' = IF c \in Live \/ RoomForClient
                THEN [d \in Live \cup {c} |-> IF d = c THEN Counted(c) ELSE clients[d]]
                ELSE Restrict(clients, Live)
  /\ hits' = IF Admits(c) THEN [hits EXCEPT ![c] = Append(@, now)] ELSE hits

(* Any other route; whatever its handler does is modelled elsewhere.          *)
Request(c) == Guard(c) /\ UNCHANGED <<now, sessions, dialled, reply>>

-----------------------------------------------------------------------------
(* handleUssd. An input is its first option, how many parts it has and        *)
(* whether its last part is well formed.                                      *)
Inputs == [option : {"none", "send", "other"}, parts : 0..4, wellFormed : BOOLEAN]

Menu(i) ==
  IF \/ i.option = "none"
     \/ i.option = "send" /\ (i.parts = 1 \/ (i.parts = 2 /\ i.wellFormed))
  THEN "CON" ELSE "END"

Kept == {s \in DOMAIN sessions : now - sessions[s] <= Patience}
Expired(s) == s \in DOMAIN sessions /\ s \notin Kept
Busy(s) == s \notin DOMAIN sessions /\ Cardinality(Kept) >= SessionRoom

Malformed(s) == reply' = "invalid" /\ UNCHANGED <<sessions, dialled>>

Refused(s) ==
  /\ Busy(s) \/ Expired(s)
  /\ sessions' = Restrict(sessions, Kept)
  /\ reply' = IF Expired(s) THEN "expired" ELSE "busy"
  /\ dialled' = Restrict(dialled, DOMAIN dialled \ {s})

Served(s) ==
  /\ ~Busy(s) /\ ~Expired(s)
  /\ sessions' = [r \in Kept \cup {s} |-> IF r = s THEN now ELSE sessions[r]]
  /\ \E i \in Inputs : reply' = Menu(i)
  /\ dialled' = [r \in DOMAIN dialled \cup {s} |-> IF r = s THEN now ELSE dialled[r]]

Ussd(c, s) ==
  /\ Admits(c)
  /\ Guard(c)
  /\ Malformed(s) \/ Refused(s) \/ Served(s)
  /\ UNCHANGED now

(* The process stops and starts again: another instance, another count.       *)
Restart ==
  /\ clients' = [c \in {} |-> 0] /\ sessions' = [s \in {} |-> 0]
  /\ hits' = [c \in Clients |-> <<>>]
  /\ dialled' = [s \in {} |-> 0]
  /\ reply' = "none"
  /\ UNCHANGED now

Tick == now < MaxTime /\ now' = now + 1 /\ UNCHANGED <<clients, sessions, hits, dialled, reply>>

Next ==
  \/ \E c \in Clients : Request(c) \/ \E s \in Sids : Ussd(c, s)
  \/ Restart \/ Tick

Spec == Init /\ [][Next]_vars
-----------------------------------------------------------------------------
Hits(c, from, to) == {k \in DOMAIN hits[c] : hits[c][k] \in from..to}

(* The maps keep their shape and neither outgrows its room; a window is never *)
(* longer than Window, and a session's entry is of its last request.          *)
TypeOK ==
  /\ now \in 0..MaxTime
  /\ DOMAIN clients \subseteq Clients /\ DOMAIN sessions \subseteq Sids
  /\ Cardinality(DOMAIN clients) <= ClientRoom /\ Cardinality(DOMAIN sessions) <= SessionRoom
  /\ \A c \in DOMAIN clients : /\ clients[c].count \in 1..(Limit + 1)
                               /\ clients[c].reset <= now + Window
  /\ \A s \in DOMAIN sessions : s \in DOMAIN dialled /\ sessions[s] = dialled[s]
  /\ reply \in {"none", "invalid", "busy", "expired", "CON", "END"}

(* The limit is kept and is fair: in no interval of one window's length does  *)
(* a client get more than two windows' worth of requests through, and one     *)
(* that is refused for its count got Limit requests through in the last one:  *)
(* asking while refused does not prolong the refusal.                         *)
LimitKept ==
  \A c \in Clients :
    /\ \A t \in 0..MaxTime : Cardinality(Hits(c, t, t + Window - 1)) <= 2 * Limit
    /\ c \in Live /\ clients[c].count >= Limit =>
         Cardinality(Hits(c, (now + 1) - Window, now)) >= Limit
=============================================================================

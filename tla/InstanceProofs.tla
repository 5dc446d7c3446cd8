--------------------------- MODULE InstanceProofs ---------------------------
(* Proofs about one backend process. First MomoTokens: any number of callers  *)
(* and products, any lifetime, timeout and buffer that MomoTokensAssumption   *)
(* relates. Then Admission: any clients and sessions, any limit, window and   *)
(* room; last both side by side.                                              *)
EXTENDS MCInstance, Sequences, FiniteSetTheorems, TLAPS

Caller == [pc : {"idle", "asking", "calling"}, product : Products,
           deadline : Nat, issued : BOOLEAN, until : Nat]

(* A cached token was issued at most one fetch before it was stored.          *)
CacheOK(x) ==
  cache[x] = NoToken \/ cache[x].expiresAt + Buffer <= cache[x].until + Timeout

(* No fetch is past its deadline, or has more than its timeout left. A token  *)
(* under way was issued during its fetch, and one in use outlasts the         *)
(* deadline of the call.                                                      *)
CallerOK(p) ==
  LET c == caller[p]
  IN  /\ c.pc # "idle" => clock <= c.deadline /\ c.deadline <= clock + Timeout
      /\ c.pc = "asking" /\ c.issued => c.deadline + Lifetime <= c.until + Timeout
      /\ c.pc = "calling" => c.deadline <= c.until

IInv ==
  /\ TypeOK
  /\ \A x \in Products : CacheOK(x)
  /\ \A p \in Callers : CallerOK(p)

LEMMA IdleTyped == Idle \in Caller
BY MomoTokensAssumption DEF Idle, Caller

LEMMA InitIInv == Init => IInv
<1> SUFFICES ASSUME Init PROVE IInv OBVIOUS
<1>1. Idle \in Caller /\ Idle.pc = "idle"
  BY IdleTyped DEF Idle
<1>2. TypeOK
  BY <1>1 DEF Init, TypeOK, NoToken, Caller
<1>3. \A x \in Products : CacheOK(x)
  BY DEF Init, CacheOK
<1>4. \A p \in Callers : CallerOK(p)
  BY <1>1 DEF Init, CallerOK
<1> QED BY <1>2, <1>3, <1>4 DEF IInv

(* A step that gives one caller a record of its own and leaves the clock and  *)
(* the cache.                                                                 *)
LEMMA CallerStep ==
  ASSUME IInv, NEW p \in Callers, NEW c \in Caller,
         caller' = [caller EXCEPT ![p] = c], UNCHANGED <<clock, cache>>,
         c.pc # "idle" => clock <= c.deadline /\ c.deadline <= clock + Timeout,
         c.pc = "asking" /\ c.issued => c.deadline + Lifetime <= c.until + Timeout,
         c.pc = "calling" => c.deadline <= c.until
  PROVE  IInv'
<1>1. TypeOK'
  BY DEF IInv, TypeOK, Caller
<1>2. \A x \in Products : CacheOK(x)'
  BY DEF IInv, CacheOK
<1>3. \A q \in Callers : CallerOK(q)'
  BY DEF IInv, TypeOK, CallerOK
<1> QED BY <1>1, <1>2, <1>3 DEF IInv

(* A token from the cache: it expires at least Buffer - Timeout after the     *)
(* moment getToken compared with, and the call takes at most Timeout.         *)
LEMMA UseCachedIInv ==
  ASSUME IInv, NEW p \in Callers, NEW x \in Products, UseCached(p, x)
  PROVE  IInv'
<1> DEFINE c == Calling(x, cache[x].until)
<1>1. /\ clock \in Nat /\ cache[x].until \in Nat /\ cache[x].expiresAt \in Int
      /\ cache[x].expiresAt > clock /\ CacheOK(x)
  BY DEF IInv, TypeOK, UseCached, Fresh
<1>2. cache[x].expiresAt + Buffer <= cache[x].until + Timeout
  BY <1>1 DEF CacheOK, NoToken
<1>3. clock + Timeout <= cache[x].until
  BY <1>1, <1>2, MomoTokensAssumption
<1>4. c \in Caller /\ c.pc = "calling" /\ c.deadline = clock + Timeout /\ c.until = cache[x].until
  BY <1>1, MomoTokensAssumption DEF Calling, Caller
<1>5. caller' = [caller EXCEPT ![p] = c] /\ UNCHANGED <<clock, cache>>
  BY DEF UseCached
<1>6. clock <= c.deadline /\ c.deadline <= clock + Timeout /\ c.deadline <= c.until
  BY <1>1, <1>3, <1>4, MomoTokensAssumption
<1> HIDE DEF c
<1> QED BY <1>4, <1>5, <1>6, CallerStep

LEMMA AskIInv ==
  ASSUME IInv, NEW p \in Callers, NEW x \in Products, Ask(p, x)
  PROVE  IInv'
<1> DEFINE c == [pc |-> "asking", product |-> x, issued |-> FALSE,
                 deadline |-> clock + Timeout, until |-> 0]
<1>1. c \in Caller /\ c.pc = "asking" /\ ~c.issued
      /\ clock <= c.deadline /\ c.deadline <= clock + Timeout
  BY MomoTokensAssumption DEF IInv, TypeOK, Caller
<1>2. caller' = [caller EXCEPT ![p] = c] /\ UNCHANGED <<clock, cache>>
  BY DEF Ask
<1> HIDE DEF c
<1> QED BY <1>1, <1>2, CallerStep

(* MTN issues within the fetch, so no earlier than Timeout before its end.    *)
LEMMA IssueIInv ==
  ASSUME IInv, NEW p \in Callers, Issue(p)
  PROVE  IInv'
<1> DEFINE c == [caller[p] EXCEPT !.issued = TRUE, !.until = clock + Lifetime]
<1>0. /\ caller[p] \in Caller /\ caller[p].pc = "asking" /\ clock \in Nat /\ CallerOK(p)
      /\ clock + Lifetime \in Nat
  BY MomoTokensAssumption DEF IInv, TypeOK, Caller, Issue
<1>1. /\ c \in Caller /\ c.pc = "asking" /\ c.deadline = caller[p].deadline
      /\ c.until = clock + Lifetime
  <2> DEFINE l == clock + Lifetime
  <2>1. l \in Nat BY <1>0
  <2> HIDE DEF l
  <2>2. [caller[p] EXCEPT !.issued = TRUE, !.until = l] \in Caller
    BY <1>0, <2>1 DEF Caller
  <2>3. /\ [caller[p] EXCEPT !.issued = TRUE, !.until = l].pc = caller[p].pc
        /\ [caller[p] EXCEPT !.issued = TRUE, !.until = l].deadline = caller[p].deadline
        /\ [caller[p] EXCEPT !.issued = TRUE, !.until = l].until = l
    BY <1>0 DEF Caller
  <2> QED BY <1>0, <2>2, <2>3 DEF l
<1>2. clock <= c.deadline /\ c.deadline <= clock + Timeout
  BY <1>0, <1>1 DEF CallerOK
<1>3. c.deadline + Lifetime <= c.until + Timeout
  BY <1>0, <1>1, <1>2, MomoTokensAssumption DEF Caller
<1>4. caller' = [caller EXCEPT ![p] = c] /\ UNCHANGED <<clock, cache>>
  BY DEF Issue
<1> HIDE DEF c
<1> QED BY <1>1, <1>2, <1>3, <1>4, CallerStep

(* The answer is stored and used; it came within the fetch's deadline.        *)
LEMMA AnsweredIInv ==
  ASSUME IInv, NEW p \in Callers, Answered(p)
  PROVE  IInv'
<1> DEFINE x == caller[p].product
           u == caller[p].until
           c == Calling(x, u)
<1>0. /\ caller[p] \in Caller /\ clock \in Nat /\ x \in Products /\ u \in Nat /\ CallerOK(p)
      /\ caller[p].deadline \in Nat
  BY DEF IInv, TypeOK, Caller
<1>1. clock <= caller[p].deadline /\ caller[p].deadline + Lifetime <= u + Timeout
  BY <1>0 DEF Answered, CallerOK
<1>2. /\ c \in Caller /\ c.pc = "calling" /\ c.deadline = clock + Timeout /\ c.until = u
  BY <1>0, MomoTokensAssumption DEF Calling, Caller
<1>3. c.deadline <= c.until /\ ExpiresAt + Buffer <= u + Timeout /\ ExpiresAt \in Int
  BY <1>0, <1>1, <1>2, MomoTokensAssumption DEF ExpiresAt
<1>4. TypeOK'
  BY <1>0, <1>2, <1>3 DEF IInv, TypeOK, Answered, Caller
<1>5. \A y \in Products : CacheOK(y)'
  BY <1>0, <1>3 DEF IInv, TypeOK, CacheOK, Answered
<1>6. ASSUME NEW q \in Callers PROVE CallerOK(q)'
  <2>1. CASE q = p
    BY <1>0, <1>2, <1>3, <2>1, MomoTokensAssumption DEF IInv, TypeOK, CallerOK, Answered
  <2>2. CASE q # p
    BY <2>2 DEF IInv, TypeOK, CallerOK, Answered
  <2> QED BY <2>1, <2>2
<1> QED BY <1>4, <1>5, <1>6 DEF IInv

LEMMA EndIInv ==
  ASSUME IInv, NEW p \in Callers, End(p)
  PROVE  IInv'
<1>1. Idle \in Caller /\ Idle.pc = "idle"
  BY IdleTyped DEF Idle
<1> QED BY <1>1, CallerStep DEF End

LEMMA RestartIInv ==
  ASSUME IInv, Restart
  PROVE  IInv'
<1>1. Idle \in Caller /\ Idle.pc = "idle"
  BY IdleTyped DEF Idle
<1>2. TypeOK'
  BY <1>1 DEF IInv, TypeOK, Restart, NoToken, Caller
<1>3. (\A x \in Products : CacheOK(x))' /\ (\A p \in Callers : CallerOK(p))'
  BY <1>1 DEF Restart, CacheOK, CallerOK
<1> QED BY <1>2, <1>3 DEF IInv

(* The clock does not pass a deadline.                                        *)
LEMMA TickIInv ==
  ASSUME IInv, Tick
  PROVE  IInv'
<1>1. clock \in Nat /\ clock' = clock + 1 /\ UNCHANGED <<cache, caller>>
  BY DEF IInv, TypeOK, Tick
<1>2. TypeOK' /\ (\A x \in Products : CacheOK(x))'
  BY <1>1 DEF IInv, TypeOK, CacheOK
<1>3. ASSUME NEW p \in Callers PROVE CallerOK(p)'
  <2>1. caller[p].deadline \in Nat /\ (caller[p].pc # "idle" => clock < caller[p].deadline)
    BY DEF IInv, TypeOK, Tick
  <2>2. CallerOK(p) BY DEF IInv
  <2> QED BY <1>1, <2>1, <2>2, MomoTokensAssumption DEF CallerOK
<1> QED BY <1>2, <1>3 DEF IInv

LEMMA NextIInv == IInv /\ [Next]_vars => IInv'
<1> SUFFICES ASSUME IInv, [Next]_vars PROVE IInv' OBVIOUS
<1>1. CASE UNCHANGED vars
  BY <1>1 DEF vars, IInv, TypeOK, CacheOK, CallerOK
<1>2. ASSUME NEW p \in Callers, NEW x \in Products, UseCached(p, x) \/ Ask(p, x) PROVE IInv'
  BY <1>2, UseCachedIInv, AskIInv
<1>3. ASSUME NEW p \in Callers, Issue(p) \/ Answered(p) \/ End(p) PROVE IInv'
  BY <1>3, IssueIInv, AnsweredIInv, EndIInv
<1> QED BY <1>1, <1>2, <1>3, RestartIInv, TickIInv DEF Next

(* The deadlines and the cache keep the distances that EXPIRY_BUFFER_MS is    *)
(* there for.                                                                 *)
THEOREM InductiveInvariant == Spec => []IInv
<1>1. Init => IInv BY InitIInv
<1>2. IInv /\ [Next]_vars => IInv' BY NextIInv
<1> QED BY <1>1, <1>2, PTL DEF Spec

(* No token expires while a call made with it is under way, for every buffer  *)
(* and lifetime of at least two fetches: one for the token's own answer, one  *)
(* for the call.                                                              *)
THEOREM TokensOutliveCalls == Spec => []TokenOutlivesCall
<1>1. IInv => TokenOutlivesCall
  <2> SUFFICES ASSUME IInv, NEW p \in Callers, caller[p].pc = "calling"
               PROVE  clock <= caller[p].until
    BY DEF TokenOutlivesCall
  <2>1. /\ clock \in Nat /\ caller[p].deadline \in Nat /\ caller[p].until \in Nat
        /\ clock <= caller[p].deadline /\ caller[p].deadline <= caller[p].until
    BY DEF IInv, TypeOK, CallerOK
  <2> QED BY <2>1
<1> QED BY <1>1, InductiveInvariant, PTL

-----------------------------------------------------------------------------
(* The clients of the guard. Of a client's admitted requests, L, the last m   *)
(* fall into the window that opened at s; those before it do not, and all but *)
(* the last Limit of these are a window's length older.                       *)
WindowOK(L, m, s) ==
  /\ m \in 0..Limit /\ m <= Len(L)
  /\ \A j \in 1..Len(L) : IF j <= Len(L) - m THEN L[j] <= s ELSE L[j] >= s
  /\ \A j \in 1..Len(L) : j + m + Limit <= Len(L) => L[j] + Window <= s

(* Two windows' worth of requests take more than a window's length.           *)
Spaced(L) == \A j, k \in 1..Len(L) : j + 2 * Limit <= k => L[j] + Window <= L[k]

(* The requests that a stored entry counts as admitted.                       *)
Used(e) == IF e.count > Limit THEN Limit ELSE e.count

ClientOK(c) ==
  /\ \A j \in 1..Len(hits[c]) : hits[c][j] <= now
  /\ Spaced(hits[c])
  /\ IF c \in DOMAIN clients
     THEN /\ clients[c].reset - Window <= now
          /\ WindowOK(hits[c], Used(clients[c]), clients[c].reset - Window)
     ELSE WindowOK(hits[c], 0, now)

ClientsInv ==
  /\ DOMAIN clients \subseteq Clients /\ IsFiniteSet(DOMAIN clients)
  /\ Cardinality(DOMAIN clients) <= ClientRoom
  /\ \A c \in DOMAIN clients : /\ clients[c] \in [count : 1..(Limit + 1), reset : Nat]
                              /\ clients[c].reset <= now + Window
  /\ hits \in [Clients -> Seq(Nat)]
  /\ \A c \in Clients : ClientOK(c)

SessionsInv ==
  /\ DOMAIN sessions \subseteq Sids /\ IsFiniteSet(DOMAIN sessions)
  /\ Cardinality(DOMAIN sessions) <= SessionRoom
  /\ \A s \in DOMAIN sessions : s \in DOMAIN dialled /\ sessions[s] = dialled[s]

Replies == {"none", "invalid", "busy", "expired", "CON", "END"}

AdmissionInv == now \in 0..MaxTime /\ reply \in Replies /\ ClientsInv /\ SessionsInv

LEMMA AdmissionConstants ==
  /\ Limit \in Nat \ {0} /\ Window \in Nat \ {0} /\ ClientRoom \in Nat
  /\ SessionRoom \in Nat /\ MaxTime \in Nat
BY InstanceAssumption DEF InstanceAssumption, A!AdmissionAssumption

(* A window that ended leaves nothing to count.                               *)
LEMMA WindowEnds ==
  ASSUME NEW L \in Seq(Nat), NEW t \in Nat, \A j \in 1..Len(L) : L[j] <= t,
         NEW m, NEW s \in Int, WindowOK(L, m, s), s + Window <= t
  PROVE  WindowOK(L, 0, t)
<1>1. m \in Nat /\ m <= Limit /\ m <= Len(L) /\ Len(L) \in Nat
      /\ Limit \in Nat /\ Window \in Nat
  BY AdmissionConstants DEF WindowOK
<1>2. \A j \in 1..Len(L) : j + Limit <= Len(L) => L[j] + Window <= t
  <2> SUFFICES ASSUME NEW j \in 1..Len(L), j + Limit <= Len(L) PROVE L[j] + Window <= t
    OBVIOUS
  <2>1. L[j] \in Nat /\ j <= Len(L) - m BY <1>1
  <2>2. L[j] <= s BY <2>1 DEF WindowOK
  <2> QED BY <1>1, <2>1, <2>2
<1> QED BY <1>1, <1>2 DEF WindowOK

(* With no window open, the clock only moves away from what was admitted.     *)
LEMMA WindowWaits ==
  ASSUME NEW L \in Seq(Nat), NEW s \in Nat, NEW t \in Nat, s <= t, WindowOK(L, 0, s)
  PROVE  WindowOK(L, 0, t)
<1>1. Limit \in Nat /\ Window \in Nat /\ Len(L) \in Nat /\ \A j \in 1..Len(L) : L[j] \in Nat
  BY AdmissionConstants
<1>2. \A j \in 1..Len(L) : L[j] <= s BY <1>1 DEF WindowOK
<1>3. \A j \in 1..Len(L) : j + 0 + Limit <= Len(L) => L[j] + Window <= s BY DEF WindowOK
<1> QED BY <1>1, <1>2, <1>3 DEF WindowOK

(* One more request is admitted.                                              *)
LEMMA WindowCounts ==
  ASSUME NEW L \in Seq(Nat), NEW t \in Nat, NEW m \in Nat, m < Limit,
         NEW s \in Int, s <= t, WindowOK(L, m, s), Spaced(L), \A j \in 1..Len(L) : L[j] <= t
  PROVE  LET M == Append(L, t)
         IN  /\ M \in Seq(Nat) /\ \A j \in 1..Len(M) : M[j] <= t
             /\ WindowOK(M, m + 1, s) /\ Spaced(M)
<1> DEFINE M == Append(L, t)
           n == Len(L)
<1>1. /\ M \in Seq(Nat) /\ Len(M) = n + 1 /\ n \in Nat /\ M[n + 1] = t
      /\ \A j \in 1..n : M[j] = L[j] /\ L[j] \in Nat
  OBVIOUS
<1>2. Limit \in Nat /\ Window \in Nat BY AdmissionConstants
<1>3. /\ m <= n
      /\ \A j \in 1..n : IF j <= n - m THEN L[j] <= s ELSE L[j] >= s
      /\ \A j \in 1..n : j + m + Limit <= n => L[j] + Window <= s
  BY DEF WindowOK
<1> HIDE DEF M, n
<1>4. \A j \in 1..(n + 1) : j = n + 1 \/ j \in 1..n BY <1>1
<1>5. ASSUME NEW j \in 1..(n + 1)
      PROVE  IF j <= n - m THEN M[j] <= s ELSE M[j] >= s
  <2>1. CASE j = n + 1 BY <1>1, <2>1
  <2>2. CASE j \in 1..n BY <1>1, <1>3, <2>2
  <2> QED BY <1>4, <2>1, <2>2
<1>6. ASSUME NEW j \in 1..(n + 1), j + m + Limit <= n
      PROVE  M[j] + Window <= s
  <2>1. j \in 1..n BY <1>1, <1>2, <1>6
  <2> QED BY <1>1, <1>3, <1>6, <2>1
<1>7. WindowOK(M, m + 1, s)
  <2>1. n - m = (n + 1) - (m + 1) /\ m + 1 \in 0..Limit /\ m + 1 <= n + 1
    BY <1>1, <1>2, <1>3
  <2>2. \A j \in 1..(n + 1) : j + (m + 1) + Limit <= n + 1 => j + m + Limit <= n
    BY <1>1, <1>2
  <2> QED BY <1>1, <1>5, <1>6, <2>1, <2>2 DEF WindowOK
<1>8. Spaced(M)
  <2> SUFFICES ASSUME NEW j \in 1..(n + 1), NEW k \in 1..(n + 1), j + 2 * Limit <= k
               PROVE  M[j] + Window <= M[k]
    BY <1>1 DEF Spaced
  <2>1. CASE k = n + 1
    <3>1. j \in 1..n /\ j + m + Limit <= n BY <1>1, <1>2, <2>1, AdmissionConstants
    <3>2. M[j] + Window <= s /\ M[j] \in Nat BY <1>1, <1>6, <3>1
    <3> QED BY <1>1, <1>2, <2>1, <3>2
  <2>2. CASE k # n + 1
    <3>1. j \in 1..n /\ k \in 1..n BY <1>1, <1>2, <2>2
    <3>2. L[j] + Window <= L[k] BY <3>1 DEF Spaced, n
    <3> QED BY <1>1, <3>1, <3>2
  <2> QED BY <2>1, <2>2
<1>9. \A j \in 1..(n + 1) : M[j] <= t
  <2>1. \A j \in 1..n : L[j] <= t BY DEF n
  <2> QED BY <1>1, <1>4, <2>1
<1> QED BY <1>1, <1>7, <1>8, <1>9 DEF M

(* Two numbers less than d apart have the same remainder only if equal.       *)
LEMMA SameRemainder ==
  ASSUME NEW d \in Nat \ {0}, NEW j \in Nat, NEW k \in Nat, j % d = k % d, j < k + d, k < j + d
  PROVE  j = k
<1>1. j = d * (j \div d) + (j % d) /\ k = d * (k \div d) + (k % d) /\ j % d \in 0..(d - 1)
  OBVIOUS
<1> DEFINE p == j \div d
           q == k \div d
           r == j % d
<1>2. p \in Int /\ q \in Int /\ r \in Int OBVIOUS
<1>3. j = d * p + r /\ k = d * q + r BY <1>1
<1> HIDE DEF p, q, r
<1>4. CASE p < q
  <2>1. p + 1 <= q BY <1>2, <1>4
  <2>2. d * (p + 1) <= d * q BY <1>2, <2>1
  <2>3. d * (p + 1) = d * p + d BY <1>2
  <2>4. d * p \in Int /\ d * q \in Int BY <1>2
  <2> QED BY <1>2, <1>3, <2>2, <2>3, <2>4
<1>5. CASE q < p
  <2>1. q + 1 <= p BY <1>2, <1>5
  <2>2. d * (q + 1) <= d * p BY <1>2, <2>1
  <2>3. d * (q + 1) = d * q + d BY <1>2
  <2>4. d * p \in Int /\ d * q \in Int BY <1>2
  <2> QED BY <1>2, <1>3, <2>2, <2>3, <2>4
<1>6. CASE p = q BY <1>3, <1>6
<1> QED BY <1>2, <1>4, <1>5, <1>6

LEMMA SameCardinality == ASSUME NEW S PROVE A!Cardinality(S) = Cardinality(S)
BY DEF A!Cardinality, Cardinality

(* Spaced requests: at most 2 * Limit of them within a window's length.       *)
LEMMA HitsBounded ==
  ASSUME NEW L \in Seq(Nat), Spaced(L), NEW t \in Nat
  PROVE  LET H == {k \in DOMAIN L : L[k] \in t..(t + Window - 1)}
         IN  IsFiniteSet(H) /\ Cardinality(H) <= 2 * Limit
<1> DEFINE H == {k \in DOMAIN L : L[k] \in t..(t + Window - 1)}
           d == 2 * Limit
<1>1. d \in Nat \ {0} /\ Window \in Nat BY AdmissionConstants
<1>2. DOMAIN L = 1..Len(L) /\ Len(L) \in Nat OBVIOUS
<1>3. IsFiniteSet(DOMAIN L) BY <1>2, FS_Interval
<1>4. IsFiniteSet(H) BY <1>3, FS_Subset
<1>5. ASSUME NEW j \in H, NEW k \in H PROVE j < k + d
  <2>1. /\ j \in 1..Len(L) /\ k \in 1..Len(L) /\ L[j] \in Int /\ L[k] \in Int
        /\ L[j] <= t + Window - 1 /\ L[k] >= t
    BY <1>2
  <2>2. CASE k + d <= j
    <3>1. L[k] + Window <= L[j] BY <2>1, <2>2 DEF Spaced
    <3> QED BY <1>1, <2>1, <3>1
  <2> QED BY <1>1, <2>1, <2>2
<1>6. \A j \in H : j \in Nat BY <1>2
<1> DEFINE f == [k \in H |-> k % d]
           T == 0..(d - 1)
<1> HIDE DEF d, H
<1>7. f \in [H -> T] /\ \A k \in H : f[k] = k % d BY <1>1, <1>6
<1> HIDE DEF f
<1>8. IsFiniteSet(T) /\ Cardinality(T) = d
  <2>1. 0 \in Int /\ d - 1 \in Int /\ ~(0 > d - 1) BY <1>1
  <2>2. IsFiniteSet(0..(d - 1)) /\ Cardinality(0..(d - 1)) = (d - 1) - 0 + 1
    BY <2>1, FS_Interval
  <2> QED BY <1>1, <2>2
<1> HIDE DEF T
<1>9. ASSUME Cardinality(H) > d PROVE FALSE
  <2>0. Cardinality(T) < Cardinality(H)
    BY <1>1, <1>4, <1>8, <1>9, FS_CardinalityType
  <2>1. \E x, y \in H : x # y /\ f[x] = f[y]
    BY <1>4, <1>7, <1>8, <2>0, FS_PigeonHole
  <2>2. PICK j \in H, k \in H : j # k /\ f[j] = f[k] BY <2>1
  <2>3. j % d = k % d BY <1>7, <2>2
  <2> QED BY <1>1, <1>5, <1>6, <2>2, <2>3, SameRemainder
<1>10. Cardinality(H) \in Nat BY <1>4, FS_CardinalityType
<1>11. Cardinality(H) <= d BY <1>1, <1>9, <1>10
<1> QED BY <1>4, <1>11 DEF H, d

(* A client refused for its count got Limit requests into its window.         *)
LEMMA HitsEnough ==
  ASSUME NEW L \in Seq(Nat), NEW t \in Nat, \A j \in 1..Len(L) : L[j] <= t,
         NEW s \in Int, WindowOK(L, Limit, s), t < s + Window
  PROVE  Cardinality({k \in DOMAIN L : L[k] \in ((t + 1) - Window)..t}) >= Limit
<1> DEFINE H == {k \in DOMAIN L : L[k] \in ((t + 1) - Window)..t}
           n == Len(L)
           I == (n - Limit + 1)..n
<1>1. Limit \in Nat /\ Window \in Nat /\ n \in Nat /\ Limit <= n /\ DOMAIN L = 1..n
  BY AdmissionConstants DEF WindowOK
<1>2. IsFiniteSet(DOMAIN L) BY <1>1, FS_Interval
<1>3. IsFiniteSet(H) BY <1>2, FS_Subset
<1>4. ASSUME NEW k \in I PROVE k \in H
  <2>1. k \in 1..n /\ ~(k <= n - Limit) /\ L[k] \in Nat BY <1>1
  <2>2. L[k] >= s /\ L[k] <= t BY <2>1 DEF WindowOK
  <2> QED BY <1>1, <2>1, <2>2
<1>5. IsFiniteSet(I) /\ Cardinality(I) = Limit
  <2>1. n - Limit + 1 \in Int /\ n \in Int /\ ~(n - Limit + 1 > n) BY <1>1, AdmissionConstants
  <2>2. Cardinality(I) = n - (n - Limit + 1) + 1 BY <2>1, FS_Interval
  <2>3. IsFiniteSet(I) BY <2>1, FS_Interval
  <2> QED BY <1>1, <2>2, <2>3
<1> HIDE DEF H, I, n
<1>6. Cardinality(I) <= Cardinality(H) BY <1>3, <1>4, FS_Subset
<1> QED BY <1>1, <1>5, <1>6, <1>3, FS_CardinalityType DEF H

-----------------------------------------------------------------------------
LEMMA ClientTyped ==
  ASSUME now \in Nat, ClientsInv, NEW c \in Clients
  PROVE  /\ hits[c] \in Seq(Nat) /\ \A j \in 1..Len(hits[c]) : hits[c][j] <= now
         /\ Spaced(hits[c])
         /\ c \notin DOMAIN clients => WindowOK(hits[c], 0, now)
         /\ c \in DOMAIN clients =>
              LET e == clients[c]
              IN  /\ e \in [count : 1..(Limit + 1), reset : Nat] /\ e.reset <= now + Window
                  /\ WindowOK(hits[c], Used(e), e.reset - Window)
                  /\ e.reset <= now => WindowOK(hits[c], 0, now)
<1>1. /\ hits[c] \in Seq(Nat) /\ \A j \in 1..Len(hits[c]) : hits[c][j] <= now
      /\ Spaced(hits[c])
  BY DEF ClientsInv, ClientOK
<1>2. c \notin DOMAIN clients => WindowOK(hits[c], 0, now)
  BY DEF ClientsInv, ClientOK
<1>3. ASSUME c \in DOMAIN clients
      PROVE  /\ clients[c] \in [count : 1..(Limit + 1), reset : Nat]
             /\ clients[c].reset <= now + Window
             /\ WindowOK(hits[c], Used(clients[c]), clients[c].reset - Window)
  BY <1>3 DEF ClientsInv, ClientOK
<1>4. ASSUME c \in DOMAIN clients, clients[c].reset <= now
      PROVE  WindowOK(hits[c], 0, now)
  <2> DEFINE s == clients[c].reset - Window
  <2>1. s \in Int /\ s + Window <= now BY <1>3, <1>4, AdmissionConstants
  <2>2. WindowOK(hits[c], Used(clients[c]), s) BY <1>3, <1>4
  <2> HIDE DEF s
  <2> QED BY <1>1, <2>1, <2>2, WindowEnds
<1> QED BY <1>1, <1>2, <1>3, <1>4

(* The entry that canActivate goes on with, whether it found it or made it.   *)
LEMMA EntryOK ==
  ASSUME now \in Nat, ClientsInv, NEW c \in Clients
  PROVE  LET e == A!Entry(c)
         IN  /\ e \in [count : 0..(Limit + 1), reset : Nat]
             /\ e.reset \in (now + 1)..(now + Window)
             /\ WindowOK(hits[c], Used(e), e.reset - Window)
<1>1. CASE c \in A!Live
  <2>1. A!Entry(c) = clients[c] /\ c \in DOMAIN clients /\ clients[c].reset > now
    BY <1>1 DEF A!Entry, A!Live
  <2>2. /\ clients[c] \in [count : 1..(Limit + 1), reset : Nat]
        /\ clients[c].reset <= now + Window
        /\ WindowOK(hits[c], Used(clients[c]), clients[c].reset - Window)
    BY <2>1, ClientTyped
  <2>3. clients[c] \in [count : 0..(Limit + 1), reset : Nat]
        /\ clients[c].reset \in (now + 1)..(now + Window)
    BY <2>1, <2>2, AdmissionConstants
  <2> QED BY <2>1, <2>2, <2>3
<1>2. CASE c \notin A!Live
  <2> DEFINE e == [count |-> 0, reset |-> now + Window]
  <2>1. A!Entry(c) = e BY <1>2 DEF A!Entry
  <2>2. /\ e \in [count : 0..(Limit + 1), reset : Nat] /\ e.count = 0
        /\ e.reset = now + Window /\ e.reset \in (now + 1)..(now + Window)
    BY AdmissionConstants
  <2>3. WindowOK(hits[c], 0, now)
    <3>1. CASE c \in DOMAIN clients
      <4>1. clients[c].reset <= now BY <1>2, <3>1, ClientTyped DEF A!Live
      <4> QED BY <3>1, <4>1, ClientTyped
    <3>2. CASE c \notin DOMAIN clients BY <3>2, ClientTyped
    <3> QED BY <3>1, <3>2
  <2>4. Used(e) = 0 /\ e.reset - Window = now BY <2>2, AdmissionConstants DEF Used
  <2> HIDE DEF e
  <2> QED BY <2>1, <2>2, <2>3, <2>4
<1> QED BY <1>1, <1>2

(* canActivate: the client that asks.                                         *)
LEMMA GuardCounts ==
  ASSUME now \in Nat, ClientsInv, NEW c \in Clients, A!Guard(c), now' = now
  PROVE  /\ hits' \in [Clients -> Seq(Nat)] /\ ClientOK(c)'
         /\ c \in DOMAIN clients' => /\ clients'[c] \in [count : 1..(Limit + 1), reset : Nat]
                                     /\ clients'[c].reset <= now + Window
<1> DEFINE e == A!Entry(c)
           s == e.reset - Window
           room == c \in A!Live \/ A!RoomForClient
           k == IF e.count > Limit THEN e.count ELSE e.count + 1
           x == [e EXCEPT !.count = k]
<1>1. /\ e \in [count : 0..(Limit + 1), reset : Nat]
      /\ e.reset \in (now + 1)..(now + Window)
      /\ WindowOK(hits[c], Used(e), s)
  BY EntryOK
<1>2. /\ hits[c] \in Seq(Nat) /\ Spaced(hits[c])
      /\ \A j \in 1..Len(hits[c]) : hits[c][j] <= now
  BY ClientTyped
<1>3. hits' = IF room /\ e.count < Limit THEN [hits EXCEPT ![c] = Append(@, now)] ELSE hits
  BY DEF A!Guard, A!Admits
<1>4. room => c \in DOMAIN clients' /\ clients'[c] = x
  BY DEF A!Guard, A!Counted
<1>5. ~room => c \notin DOMAIN clients'
  BY DEF A!Guard, A!Restrict
<1>6. /\ x.count = k /\ x.reset = e.reset /\ k \in 1..(Limit + 1)
      /\ x \in [count : 1..(Limit + 1), reset : Nat]
  BY <1>1, AdmissionConstants
<1>7. e.count \in Nat /\ e.reset \in Nat /\ s \in Int /\ s <= now /\ e.reset <= now + Window
  BY <1>1, AdmissionConstants
<1>8. Used(x) = IF e.count < Limit THEN e.count + 1 ELSE Limit
  BY <1>6, <1>7, AdmissionConstants DEF Used
<1>9. Used(e) = IF e.count < Limit THEN e.count ELSE Limit
  BY <1>7, AdmissionConstants DEF Used
<1>10. x.reset - Window = s BY <1>6
<1>11. hits \in [Clients -> Seq(Nat)] BY DEF ClientsInv
<1> HIDE DEF e, s, x, k
<1>12. CASE room /\ e.count < Limit
  <2> DEFINE M == Append(hits[c], now)
  <2>1. hits' = [hits EXCEPT ![c] = M] BY <1>3, <1>12
  <2>2. /\ M \in Seq(Nat) /\ \A j \in 1..Len(M) : M[j] <= now
        /\ WindowOK(M, e.count + 1, s) /\ Spaced(M)
    <3>1. WindowOK(hits[c], e.count, s) BY <1>1, <1>9, <1>12
    <3> QED BY <1>2, <1>7, <1>12, <3>1, WindowCounts
  <2> HIDE DEF M
  <2>3. hits' \in [Clients -> Seq(Nat)] /\ hits'[c] = M BY <1>11, <2>1, <2>2
  <2>4. ClientOK(c)'
    BY <1>4, <1>6, <1>7, <1>8, <1>10, <1>12, <2>2, <2>3 DEF ClientOK, Used, s
  <2> QED BY <1>4, <1>6, <1>7, <1>12, <2>3, <2>4
<1>13. CASE room /\ ~(e.count < Limit)
  <2>1. hits' = hits BY <1>3, <1>13
  <2>2. WindowOK(hits[c], Used(x), s) BY <1>1, <1>8, <1>9, <1>13
  <2>3. ClientOK(c)'
    BY <1>2, <1>4, <1>6, <1>7, <1>10, <1>13, <2>1, <2>2 DEF ClientOK, Used
  <2> QED BY <1>4, <1>6, <1>7, <1>11, <1>13, <2>1, <2>3
<1>14. CASE ~room
  <2>1. hits' = hits /\ c \notin DOMAIN clients' BY <1>3, <1>5, <1>14
  <2>2. WindowOK(hits[c], 0, now)
    <3>1. CASE c \in DOMAIN clients
      <4>1. clients[c].reset <= now BY <1>14, <3>1, ClientTyped DEF A!Live
      <4> QED BY <3>1, <4>1, ClientTyped
    <3>2. CASE c \notin DOMAIN clients BY <3>2, ClientTyped
    <3> QED BY <3>1, <3>2
  <2>3. ClientOK(c)' BY <1>2, <2>1, <2>2 DEF ClientOK
  <2> QED BY <1>11, <2>1, <2>3
<1> QED BY <1>12, <1>13, <1>14

(* canActivate: every other client, whose entry is purged or stays.           *)
LEMMA GuardOthers ==
  ASSUME now \in Nat, ClientsInv, NEW c \in Clients, A!Guard(c), now' = now,
         NEW d \in Clients, d # c
  PROVE  /\ ClientOK(d)'
         /\ d \in DOMAIN clients' => /\ clients'[d] \in [count : 1..(Limit + 1), reset : Nat]
                                     /\ clients'[d].reset <= now + Window
<1>1. hits'[d] = hits[d]
  BY DEF A!Guard, ClientsInv
<1>2. /\ hits[d] \in Seq(Nat) /\ Spaced(hits[d])
      /\ \A j \in 1..Len(hits[d]) : hits[d][j] <= now
  BY ClientTyped
<1>3. CASE d \in A!Live
  <2>1. d \in DOMAIN clients /\ d \in DOMAIN clients' /\ clients'[d] = clients[d]
    BY <1>3 DEF A!Guard, A!Restrict, A!Live
  <2>2. ClientOK(d) BY DEF ClientsInv
  <2>3. ClientOK(d)' BY <1>1, <2>1, <2>2 DEF ClientOK
  <2> QED BY <2>1, <2>3, ClientTyped
<1>4. CASE d \notin A!Live
  <2>1. d \notin DOMAIN clients'
    BY <1>4 DEF A!Guard, A!Restrict
  <2>2. WindowOK(hits[d], 0, now)
    <3>1. CASE d \in DOMAIN clients
      <4>1. clients[d].reset <= now BY <1>4, <3>1, ClientTyped DEF A!Live
      <4> QED BY <3>1, <4>1, ClientTyped
    <3>2. CASE d \notin DOMAIN clients BY <3>2, ClientTyped
    <3> QED BY <3>1, <3>2
  <2> QED BY <1>1, <1>2, <2>1, <2>2 DEF ClientOK
<1> QED BY <1>3, <1>4

(* canActivate: the map does not outgrow its room.                            *)
LEMMA GuardRoom ==
  ASSUME ClientsInv, NEW c \in Clients, A!Guard(c)
  PROVE  /\ DOMAIN clients' \subseteq Clients /\ IsFiniteSet(DOMAIN clients')
         /\ Cardinality(DOMAIN clients') <= ClientRoom
<1>1. /\ DOMAIN clients \subseteq Clients /\ IsFiniteSet(DOMAIN clients)
      /\ Cardinality(DOMAIN clients) <= ClientRoom /\ ClientRoom \in Nat
  BY AdmissionConstants DEF ClientsInv
<1>2. A!Live \subseteq DOMAIN clients BY DEF A!Live
<1>3. IsFiniteSet(A!Live) /\ Cardinality(A!Live) <= Cardinality(DOMAIN clients)
  BY <1>1, <1>2, FS_Subset
<1>4. Cardinality(A!Live) \in Nat /\ Cardinality(DOMAIN clients) \in Nat
  BY <1>1, <1>3, FS_CardinalityType
<1>5. CASE c \notin A!Live /\ A!RoomForClient
  <2>1. Cardinality(A!Live) < ClientRoom BY <1>5, SameCardinality DEF A!RoomForClient
  <2>2. DOMAIN clients' = A!Live \cup {c} BY <1>5 DEF A!Guard
  <2>3. /\ IsFiniteSet(A!Live \cup {c})
        /\ Cardinality(A!Live \cup {c}) = Cardinality(A!Live) + 1
    BY <1>3, <1>5, FS_AddElement
  <2> QED BY <1>1, <1>2, <1>4, <2>1, <2>2, <2>3
<1>6. CASE c \in A!Live \/ ~A!RoomForClient
  <2>1. DOMAIN clients' = A!Live
    <3>1. CASE c \in A!Live
      <4>1. A!Live \cup {c} = A!Live BY <3>1
      <4> QED BY <3>1, <4>1 DEF A!Guard
    <3>2. CASE c \notin A!Live /\ ~A!RoomForClient BY <3>2 DEF A!Guard, A!Restrict
    <3> QED BY <1>6, <3>1, <3>2
  <2> QED BY <1>1, <1>2, <1>3, <1>4, <2>1
<1> QED BY <1>5, <1>6

LEMMA GuardInv ==
  ASSUME now \in Nat, ClientsInv, NEW c \in Clients, A!Guard(c), now' = now
  PROVE  ClientsInv'
<1>1. hits' \in [Clients -> Seq(Nat)] BY GuardCounts
<1>2. \A d \in Clients : ClientOK(d)' BY GuardCounts, GuardOthers
<1>3. DOMAIN clients' \subseteq Clients /\ IsFiniteSet(DOMAIN clients')
      /\ Cardinality(DOMAIN clients') <= ClientRoom
  BY GuardRoom
<1>4. \A d \in DOMAIN clients' : /\ clients'[d] \in [count : 1..(Limit + 1), reset : Nat]
                                 /\ clients'[d].reset <= now + Window
  BY <1>3, GuardCounts, GuardOthers
<1> QED BY <1>1, <1>2, <1>3, <1>4 DEF ClientsInv

-----------------------------------------------------------------------------
(* handleUssd.                                                                *)
LEMMA KeptSessions ==
  ASSUME SessionsInv
  PROVE  /\ A!Kept \subseteq DOMAIN sessions /\ IsFiniteSet(A!Kept)
         /\ Cardinality(A!Kept) \in Nat /\ Cardinality(A!Kept) <= SessionRoom
<1>1. A!Kept \subseteq DOMAIN sessions BY DEF A!Kept
<1>2. /\ IsFiniteSet(DOMAIN sessions) /\ Cardinality(DOMAIN sessions) <= SessionRoom
      /\ SessionRoom \in Nat
  BY AdmissionConstants DEF SessionsInv
<1>3. IsFiniteSet(A!Kept) /\ Cardinality(A!Kept) <= Cardinality(DOMAIN sessions)
  BY <1>1, <1>2, FS_Subset
<1>4. Cardinality(A!Kept) \in Nat /\ Cardinality(DOMAIN sessions) \in Nat
  BY <1>2, <1>3, FS_CardinalityType
<1> QED BY <1>1, <1>2, <1>3, <1>4

LEMMA RefusedInv ==
  ASSUME SessionsInv, NEW s \in Sids, A!Refused(s)
  PROVE  SessionsInv' /\ reply' \in Replies
<1>1. /\ A!Busy(s) \/ A!Expired(s)
      /\ DOMAIN sessions' = A!Kept /\ \A r \in A!Kept : sessions'[r] = sessions[r]
      /\ DOMAIN dialled' = DOMAIN dialled \ {s}
      /\ \A r \in DOMAIN dialled \ {s} : dialled'[r] = dialled[r]
  BY DEF A!Refused, A!Restrict
<1>2. s \notin A!Kept BY <1>1, KeptSessions DEF A!Busy, A!Expired
<1>3. \A r \in A!Kept : r \in DOMAIN dialled' /\ sessions'[r] = dialled'[r]
  BY <1>1, <1>2, KeptSessions DEF SessionsInv
<1>4. DOMAIN sessions' \subseteq Sids BY <1>1, KeptSessions DEF SessionsInv
<1>5. reply' \in Replies BY DEF A!Refused, Replies
<1> QED BY <1>1, <1>3, <1>4, <1>5, KeptSessions DEF SessionsInv

LEMMA ServedInv ==
  ASSUME SessionsInv, NEW s \in Sids, A!Served(s)
  PROVE  SessionsInv' /\ reply' \in Replies
<1>1. /\ ~A!Busy(s) /\ ~A!Expired(s)
      /\ DOMAIN sessions' = A!Kept \cup {s}
      /\ \A r \in A!Kept \cup {s} : sessions'[r] = IF r = s THEN now ELSE sessions[r]
      /\ DOMAIN dialled' = DOMAIN dialled \cup {s}
      /\ \A r \in DOMAIN dialled \cup {s} : dialled'[r] = IF r = s THEN now ELSE dialled[r]
  BY DEF A!Served
<1>2. \A r \in DOMAIN sessions' : r \in DOMAIN dialled' /\ sessions'[r] = dialled'[r]
  BY <1>1, KeptSessions DEF SessionsInv
<1>3. DOMAIN sessions' \subseteq Sids BY <1>1, KeptSessions DEF SessionsInv
<1>4. reply' \in Replies BY DEF A!Served, A!Menu, Replies
<1>5. IsFiniteSet(A!Kept \cup {s}) /\ Cardinality(A!Kept \cup {s}) <= SessionRoom
  <2>1. CASE s \in A!Kept
    <3>1. A!Kept \cup {s} = A!Kept BY <2>1
    <3> QED BY <3>1, KeptSessions
  <2>2. CASE s \notin A!Kept
    <3>1. s \notin DOMAIN sessions BY <1>1, <2>2 DEF A!Expired
    <3>2. Cardinality(A!Kept) < SessionRoom
      BY <1>1, <3>1, KeptSessions, SameCardinality, AdmissionConstants DEF A!Busy
    <3>3. /\ IsFiniteSet(A!Kept \cup {s})
          /\ Cardinality(A!Kept \cup {s}) = Cardinality(A!Kept) + 1
      BY <2>2, KeptSessions, FS_AddElement
    <3> QED BY <3>2, <3>3, KeptSessions, AdmissionConstants
  <2> QED BY <2>1, <2>2
<1> QED BY <1>1, <1>2, <1>3, <1>4, <1>5 DEF SessionsInv

-----------------------------------------------------------------------------
(* A process that just started, at any time.                                  *)
LEMMA FreshInv ==
  ASSUME now \in Nat, clients = [c \in {} |-> 0], sessions = [s \in {} |-> 0],
         hits = [c \in Clients |-> <<>>]
  PROVE  ClientsInv /\ SessionsInv
<1>1. DOMAIN clients = {} /\ DOMAIN sessions = {} OBVIOUS
<1>2. IsFiniteSet({}) /\ Cardinality({}) = 0 BY FS_EmptySet
<1>3. ASSUME NEW c \in Clients PROVE ClientOK(c)
  <2>1. hits[c] = <<>> /\ Len(hits[c]) = 0 OBVIOUS
  <2> QED BY <1>1, <2>1, AdmissionConstants DEF ClientOK, Spaced, WindowOK
<1>4. hits \in [Clients -> Seq(Nat)] OBVIOUS
<1> QED BY <1>1, <1>2, <1>3, <1>4, AdmissionConstants DEF ClientsInv, SessionsInv

LEMMA AdmissionInit == A!Init => AdmissionInv
BY FreshInv, AdmissionConstants DEF A!Init, AdmissionInv, Replies

LEMMA AdmissionRestart == ASSUME AdmissionInv, A!Restart PROVE AdmissionInv'
<1>1. /\ now' = now /\ clients' = [c \in {} |-> 0] /\ sessions' = [s \in {} |-> 0]
      /\ hits' = [c \in Clients |-> <<>>] /\ reply' = "none"
  BY DEF A!Restart
<1>2. now \in 0..MaxTime /\ now \in Nat BY AdmissionConstants DEF AdmissionInv
<1>3. (ClientsInv /\ SessionsInv)'
  <2>1. DOMAIN clients' = {} /\ DOMAIN sessions' = {} BY <1>1
  <2>2. IsFiniteSet({}) /\ Cardinality({}) = 0 BY FS_EmptySet
  <2>3. ASSUME NEW c \in Clients PROVE ClientOK(c)'
    <3>1. hits'[c] = <<>> /\ Len(hits'[c]) = 0 BY <1>1
    <3> QED BY <2>1, <3>1, AdmissionConstants DEF ClientOK, Spaced, WindowOK
  <2>4. hits' \in [Clients -> Seq(Nat)] BY <1>1
  <2> QED BY <2>1, <2>2, <2>3, <2>4, AdmissionConstants DEF ClientsInv, SessionsInv
<1> QED BY <1>1, <1>2, <1>3 DEF AdmissionInv, Replies

LEMMA AdmissionTick == ASSUME AdmissionInv, A!Tick PROVE AdmissionInv'
<1>1. /\ now' = now + 1 /\ now < MaxTime /\ now \in Nat
      /\ UNCHANGED <<clients, sessions, hits, dialled, reply>>
  BY AdmissionConstants DEF A!Tick, AdmissionInv
<1>2. ClientsInv BY DEF AdmissionInv
<1>3. ASSUME NEW c \in Clients PROVE ClientOK(c)'
  <2>1. /\ hits[c] \in Seq(Nat) /\ Spaced(hits[c])
        /\ \A j \in 1..Len(hits[c]) : hits[c][j] <= now
    BY <1>1, <1>2, ClientTyped
  <2>2. \A j \in 1..Len(hits[c]) : hits[c][j] <= now + 1 BY <1>1, <2>1
  <2>3. CASE c \in DOMAIN clients
    <3>1. /\ clients[c].reset \in Nat /\ clients[c].reset - Window <= now
          /\ WindowOK(hits[c], Used(clients[c]), clients[c].reset - Window)
      BY <1>1, <1>2, <2>3, ClientTyped, AdmissionConstants
    <3>2. clients[c].reset - Window <= now + 1 BY <1>1, <3>1, AdmissionConstants
    <3> QED BY <1>1, <2>1, <2>2, <2>3, <3>1, <3>2 DEF ClientOK
  <2>4. CASE c \notin DOMAIN clients
    <3>1. WindowOK(hits[c], 0, now) BY <1>1, <1>2, <2>4, ClientTyped
    <3>2. now + 1 \in Nat /\ now <= now + 1 BY <1>1
    <3>3. WindowOK(hits[c], 0, now + 1) BY <1>1, <2>1, <3>1, <3>2, WindowWaits
    <3> QED BY <1>1, <2>1, <2>2, <2>4, <3>3 DEF ClientOK
  <2> QED BY <2>3, <2>4
<1>4. \A c \in DOMAIN clients : clients[c].reset <= now + 1 + Window
  BY <1>1, <1>2, AdmissionConstants DEF ClientsInv
<1>5. ClientsInv' BY <1>1, <1>2, <1>3, <1>4 DEF ClientsInv
<1>6. SessionsInv' BY <1>1 DEF AdmissionInv, SessionsInv
<1>7. now + 1 \in 0..MaxTime BY <1>1, AdmissionConstants
<1> QED BY <1>1, <1>5, <1>6, <1>7 DEF AdmissionInv

LEMMA AdmissionNext == ASSUME AdmissionInv, [A!Next]_(A!vars) PROVE AdmissionInv'
<1>1. /\ now \in 0..MaxTime /\ now \in Nat /\ reply \in Replies
      /\ ClientsInv /\ SessionsInv
  BY AdmissionConstants DEF AdmissionInv
<1>2. CASE UNCHANGED A!vars
  BY <1>2 DEF A!vars, AdmissionInv, ClientsInv, SessionsInv, ClientOK
<1>3. ASSUME NEW c \in Clients, A!Request(c) PROVE AdmissionInv'
  <2>1. A!Guard(c) /\ UNCHANGED <<now, sessions, dialled, reply>> BY <1>3 DEF A!Request
  <2>2. ClientsInv' BY <1>1, <2>1, GuardInv
  <2>3. SessionsInv' BY <1>1, <2>1 DEF SessionsInv
  <2> QED BY <1>1, <2>1, <2>2, <2>3 DEF AdmissionInv
<1>4. ASSUME NEW c \in Clients, NEW s \in Sids, A!Ussd(c, s) PROVE AdmissionInv'
  <2>1. A!Guard(c) /\ now' = now BY <1>4 DEF A!Ussd
  <2>2. ClientsInv' BY <1>1, <2>1, GuardInv
  <2>3. SessionsInv' /\ reply' \in Replies
    <3>1. CASE A!Malformed(s) BY <1>1, <3>1 DEF A!Malformed, SessionsInv, Replies
    <3>2. CASE A!Refused(s) BY <1>1, <3>2, RefusedInv
    <3>3. CASE A!Served(s) BY <1>1, <3>3, ServedInv
    <3> QED BY <1>4, <3>1, <3>2, <3>3 DEF A!Ussd
  <2> QED BY <1>1, <2>1, <2>2, <2>3 DEF AdmissionInv
<1> QED BY <1>2, <1>3, <1>4, AdmissionRestart, AdmissionTick DEF A!Next

LEMMA AdmissionAlways == A!Spec => []AdmissionInv
BY AdmissionInit, AdmissionNext, PTL DEF A!Spec

LEMMA LimitOfInv == AdmissionInv => A!LimitKept
<1> SUFFICES ASSUME AdmissionInv, NEW c \in Clients
             PROVE  /\ \A t \in 0..MaxTime :
                         A!Cardinality(A!Hits(c, t, t + Window - 1)) <= 2 * Limit
                    /\ c \in A!Live /\ clients[c].count >= Limit =>
                         A!Cardinality(A!Hits(c, (now + 1) - Window, now)) >= Limit
  BY DEF A!LimitKept
<1>1. now \in Nat /\ ClientsInv BY AdmissionConstants DEF AdmissionInv
<1>2. /\ hits[c] \in Seq(Nat) /\ Spaced(hits[c])
      /\ \A j \in 1..Len(hits[c]) : hits[c][j] <= now
  BY <1>1, ClientTyped
<1>3. ASSUME NEW t \in 0..MaxTime
      PROVE  A!Cardinality(A!Hits(c, t, t + Window - 1)) <= 2 * Limit
  <2>1. t \in Nat BY AdmissionConstants
  <2> QED BY <1>2, <2>1, HitsBounded, SameCardinality DEF A!Hits
<1>4. ASSUME c \in A!Live, clients[c].count >= Limit
      PROVE  A!Cardinality(A!Hits(c, (now + 1) - Window, now)) >= Limit
  <2> DEFINE s == clients[c].reset - Window
  <2>1. c \in DOMAIN clients /\ clients[c].reset > now BY <1>4 DEF A!Live
  <2>2. clients[c] \in [count : 1..(Limit + 1), reset : Nat]
        /\ WindowOK(hits[c], Used(clients[c]), s)
    BY <1>1, <2>1, ClientTyped
  <2>3. Used(clients[c]) = Limit BY <1>4, <2>2, AdmissionConstants DEF Used
  <2>4. s \in Int /\ now < s + Window BY <1>1, <2>1, <2>2, AdmissionConstants
  <2> HIDE DEF s
  <2>5. WindowOK(hits[c], Limit, s) BY <2>2, <2>3
  <2> QED BY <1>1, <1>2, <2>4, <2>5, HitsEnough, SameCardinality DEF A!Hits
<1> QED BY <1>3, <1>4

-----------------------------------------------------------------------------
(* Both parts: each one's steps are steps of its specification.               *)
LEMMA EachPartSteps == SpecInstance => Spec /\ A!Spec
<1> DEFINE all == <<vars, admission, at>>
<1>1. InitInstance => Init /\ A!Init BY DEF InitInstance
<1>2. [NextInstance]_all => [Next]_vars BY DEF NextInstance
<1>3. [NextInstance]_all => [A!Next]_(A!vars) BY DEF NextInstance, admission, A!vars
<1> QED BY <1>1, <1>2, <1>3, PTL DEF SpecInstance, Spec, A!Spec

(* MomoAuthService and the two maps of callers keep their shape; no map       *)
(* outgrows its room, and a session's entry is of its last request.           *)
THEOREM InstanceTyped == SpecInstance => []InstanceTypeOK
<1>1. IInv => TypeOK BY DEF IInv
<1>2. AdmissionInv => A!TypeOK
  BY SameCardinality DEF AdmissionInv, ClientsInv, SessionsInv, Replies, A!TypeOK
<1> QED BY <1>1, <1>2, InductiveInvariant, AdmissionAlways, EachPartSteps, PTL
        DEF InstanceTypeOK

(* RateLimitGuard: at most two windows' worth of requests pass in any window's*)
(* length, and who is refused for the count had Limit requests in the last.   *)
THEOREM LimitIsKept == SpecInstance => []LimitKept
BY LimitOfInv, AdmissionAlways, EachPartSteps, PTL DEF LimitKept

(* TokensOutliveCalls beside the callers' maps.                               *)
THEOREM InstanceTokens == SpecInstance => []TokenOutlivesCall
BY TokensOutliveCalls, EachPartSteps, PTL
=============================================================================

------------------------------ MODULE MomoTokens ------------------------------
(* The access tokens of MTN MoMo: MomoAuthService's cache, one per backend    *)
(* process (src/backend/src/momo/momo-auth.service.ts), and the calls that    *)
(* MomoService makes with them. Requests, status polls and the reconciliation *)
(* timer ask for a token at the same time; nothing merges two requests for    *)
(* one, and the answer that arrives last is the one kept.                     *)
(*                                                                            *)
(* A token is known by the moment its validity at MTN ends. Every fetch has   *)
(* an AbortSignal.timeout: no step of the clock passes a deadline.            *)
EXTENDS Integers

CONSTANTS Products, Callers,
          Timeout,    \* of a fetch, 15 s
          Buffer,     \* EXPIRY_BUFFER_MS
          Lifetime,   \* expires_in, from the moment MTN issues a token
          MaxTime     \* bound on the clock

ASSUME MomoTokensAssumption ==
  /\ Products # {}
  /\ Timeout \in Nat \ {0} /\ Buffer \in Nat /\ Lifetime \in Nat /\ MaxTime \in Nat
  /\ Buffer >= 2 * Timeout     \* 60 s against two fetches of 15 s
  /\ Lifetime >= 2 * Timeout   \* MTN issues tokens for an hour

VARIABLES clock,
          cache,    \* product -> token and expiresAt; 0 stands for no token
          caller    \* what each getToken and the call after it await
vars == <<clock, cache, caller>>

-----------------------------------------------------------------------------
NoToken == [until |-> 0, expiresAt |-> 0]
Idle    == [pc |-> "idle", product |-> CHOOSE x \in Products : TRUE,
            deadline |-> 0, issued |-> FALSE, until |-> 0]

Init ==
  /\ clock = 0
  /\ cache = [x \in Products |-> NoToken]
  /\ caller = [p \in Callers |-> Idle]

(* callMomo, or the GET of refreshStatus, right after getToken returned.      *)
Calling(x, until) ==
  [pc |-> "calling", product |-> x, deadline |-> clock + Timeout, issued |-> TRUE, until |-> until]

(* getToken with a cached token.                                              *)
FreshAlways(x) == cache[x] # NoToken          \* fault: expiresAt not compared
Fresh(x) == cache[x].expiresAt > clock

UseCached(p, x) ==
  /\ caller[p].pc = "idle" /\ Fresh(x)
  /\ caller' = [caller EXCEPT ![p] = Calling(x, cache[x].until)]
  /\ UNCHANGED <<clock, cache>>

(* getToken without one: requestToken.                                        *)
Ask(p, x) ==
  /\ caller[p].pc = "idle" /\ ~Fresh(x)
  /\ caller' = [caller EXCEPT ![p] = [pc |-> "asking", product |-> x, issued |-> FALSE,
                                      deadline |-> clock + Timeout, until |-> 0]]
  /\ UNCHANGED <<clock, cache>>

(* MTN issues a token; its answer is under way.                               *)
Issue(p) ==
  /\ caller[p].pc = "asking" /\ ~caller[p].issued
  /\ caller' = [caller EXCEPT ![p].issued = TRUE, ![p].until = clock + Lifetime]
  /\ UNCHANGED <<clock, cache>>

(* The answer: its lifetime is counted from its arrival.                      *)
NoBuffer == clock + Lifetime                    \* fault: no EXPIRY_BUFFER_MS
ExpiresAt == clock + Lifetime - Buffer

Answered(p) ==
  LET x == caller[p].product
  IN  /\ caller[p].pc = "asking" /\ caller[p].issued
      /\ cache' = [cache EXCEPT ![x] = [until |-> caller[p].until, expiresAt |-> ExpiresAt]]
      /\ caller' = [caller EXCEPT ![p] = Calling(x, caller[p].until)]
      /\ UNCHANGED clock

(* MTN answers the call, or a fetch fails, is refused, or is aborted.         *)
End(p) ==
  /\ caller[p].pc # "idle"
  /\ caller' = [caller EXCEPT ![p] = Idle]
  /\ UNCHANGED <<clock, cache>>

(* The process stops and starts again.                                        *)
Restart ==
  /\ cache' = [x \in Products |-> NoToken]
  /\ caller' = [p \in Callers |-> Idle]
  /\ UNCHANGED clock

Tick ==
  /\ clock < MaxTime
  /\ \A p \in Callers : caller[p].pc # "idle" => clock < caller[p].deadline
  /\ clock' = clock + 1
  /\ UNCHANGED <<cache, caller>>

Next ==
  \/ \E p \in Callers :
       \/ \E x \in Products : UseCached(p, x) \/ Ask(p, x)
       \/ Issue(p) \/ Answered(p) \/ End(p)
  \/ Restart \/ Tick

Spec == Init /\ [][Next]_vars
-----------------------------------------------------------------------------
(* The cache and the callers keep their shape.                                *)
TypeOK ==
  /\ clock \in Nat
  /\ cache \in [Products -> [until : Nat, expiresAt : Int]]
  /\ caller \in [Callers -> [pc : {"idle", "asking", "calling"}, product : Products,
                             deadline : Nat, issued : BOOLEAN, until : Nat]]

(* No token expires while a call made with it is under way, however late its  *)
(* own answer came and whichever of two tokens was kept: "we never hand out a *)
(* token that expires mid-flight" (momo-auth.service.ts:13).                  *)
TokenOutlivesCall ==
  \A p \in Callers : caller[p].pc = "calling" => clock <= caller[p].until
=============================================================================

------------------------------ MODULE MCInstance ------------------------------
(* One backend process: its token cache and its maps of callers, which share  *)
(* no state. Each is explored beside the other's first state, which its steps *)
(* neither read nor write.                                                    *)
EXTENDS MomoTokens, TLC

CONSTANTS Clients, Sids, Limit, Window, ClientRoom, Patience, SessionRoom

VARIABLES now, clients, sessions, hits, dialled, reply
admission == <<now, clients, sessions, hits, dialled, reply>>
A == INSTANCE Admission

ASSUME InstanceAssumption == A!AdmissionAssumption

VARIABLE at   \* the part that is explored

InitInstance == Init /\ A!Init /\ at \in {"tokens", "admission"}

NextInstance ==
  \/ at = "tokens" /\ Next /\ UNCHANGED <<admission, at>>
  \/ at = "admission" /\ A!Next /\ UNCHANGED <<vars, at>>

SpecInstance == InitInstance /\ [][NextInstance]_<<vars, admission, at>>

Sym == Permutations(Callers) \cup Permutations(Clients) \cup Permutations(Sids)

(* Both keep their shape and neither map outgrows its room (MomoTokens!TypeOK, *)
(* Admission!TypeOK).                                                         *)
InstanceTypeOK == TypeOK /\ A!TypeOK

(* See Admission.                                                             *)
LimitKept == A!LimitKept
=============================================================================

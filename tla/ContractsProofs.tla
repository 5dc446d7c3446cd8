--------------------------- MODULE ContractsProofs ---------------------------
(* Proofs about the contracts side by side. First Multisig, for any accounts, *)
(* any list of signers, any number of proposals and any amounts; then the     *)
(* gateway, for any addresses and times; last what EscrowProofs and           *)
(* VaultProofs prove, and all of this, of the composition.                    *)
EXTENDS MCContracts, FiniteSetTheorems, TLAPS

EP == INSTANCE EscrowProofs WITH balance <- tokens, MaxAmount <- MaxSum
VP == INSTANCE VaultProofs WITH Users <- Savers, now <- time, MaxAmount <- MaxSaving,
                                MaxTime <- MaxYears

(* Approvals come from different signers, and an executed proposal has enough *)
(* of them.                                                                   *)
Counted(p) ==
  /\ ToSet(p.approvals) \subseteq ToSet(signers)
  /\ Cardinality(ToSet(p.approvals)) = Len(p.approvals)
  /\ p.executed => Len(p.approvals) >= threshold

(* There is nothing to approve before initialize, and the threshold is then   *)
(* at most the number of different signers.                                   *)
ThresholdOK ==
  IF signers = <<>> THEN threshold = 0 /\ proposals = <<>>
                    ELSE threshold \in 1..Cardinality(ToSet(signers))

IInv ==
  /\ signers \in Seq(Accounts) /\ IsFiniteSet(ToSet(signers))
  /\ threshold \in Nat /\ proposals \in Seq(Proposal)
  /\ ThresholdOK
  /\ \A i \in Ids : Counted(proposals[i])

-----------------------------------------------------------------------------
LEMMA ToSetAppend ==
  ASSUME NEW S, NEW s \in Seq(S), NEW a \in S
  PROVE  /\ Append(s, a) \in Seq(S)
         /\ Len(Append(s, a)) = Len(s) + 1
         /\ ToSet(Append(s, a)) = ToSet(s) \cup {a}
         /\ IsPrefix(s, Append(s, a))
<1>1. Append(s, a) \in Seq(S) /\ Len(Append(s, a)) = Len(s) + 1
  OBVIOUS
<1>2. DOMAIN Append(s, a) = DOMAIN s \cup {Len(s) + 1}
  OBVIOUS
<1>3. /\ \A i \in DOMAIN s : Append(s, a)[i] = s[i]
      /\ Append(s, a)[Len(s) + 1] = a
  OBVIOUS
<1>4. ToSet(Append(s, a)) = ToSet(s) \cup {a}
  BY <1>2, <1>3, Zenon DEF ToSet
<1>5. SubSeq(s, 1, Len(s)) = SubSeq(Append(s, a), 1, Len(s))
  OBVIOUS
<1> QED BY <1>1, <1>4, <1>5 DEF IsPrefix

(* A list that names nobody twice has as many names as entries.               *)
LEMMA DistinctCount ==
  ASSUME NEW S, NEW s \in Seq(S), IsInjective(s)
  PROVE  IsFiniteSet(ToSet(s)) /\ Cardinality(ToSet(s)) = Len(s)
<1> DEFINE T == ToSet(s)
<1>1. s \in [1..Len(s) -> T] /\ DOMAIN s = 1..Len(s)
  BY DEF ToSet
<1>2. s \in Bijection(1..Len(s), T)
  BY <1>1 DEF Bijection, Injection, Surjection, IsInjective, ToSet
<1>3. ExistsBijection(1..Len(s), T)
  BY <1>2 DEF ExistsBijection
<1>4. /\ IsFiniteSet(1..Len(s))
      /\ Cardinality(1..Len(s)) = IF 1 > Len(s) THEN 0 ELSE Len(s) - 1 + 1
  BY FS_Interval
<1> QED BY <1>3, <1>4, FS_Bijection

LEMMA InitIInv == Init => IInv
<1> SUFFICES ASSUME Init PROVE IInv OBVIOUS
<1>1. /\ signers = <<>> /\ threshold = 0 /\ proposals = <<>>
      /\ signers \in Seq(Accounts) /\ proposals \in Seq(Proposal)
  BY DEF Init
<1>2. ToSet(signers) = {} /\ Ids = {} BY <1>1 DEF ToSet, Ids
<1> QED BY <1>1, <1>2, FS_EmptySet DEF IInv, ThresholdOK

LEMMA InitializeIInv ==
  ASSUME IInv, NEW list \in Lists,
         NEW k \in 0..(MaxSigners + 1), Initialize(list, k)
  PROVE  IInv'
<1>1. list \in Seq(Accounts) /\ k \in Nat
  BY MultisigAssumption DEF Lists, BoundedSeq, SeqOf
<1>2. signers = <<>> /\ proposals = <<>> /\ signers' = list /\ threshold' = k
      /\ proposals' = proposals
  BY DEF Initialize, Initialized, IInv, ThresholdOK
<1>3. IsInjective(list) /\ k > 0 /\ k <= Len(list)
  BY DEF Initialize, SignersDistinct, ThresholdValid
<1>4. IsFiniteSet(ToSet(list)) /\ Cardinality(ToSet(list)) = Len(list)
  BY <1>1, <1>3, DistinctCount
<1>5. list # <<>> BY <1>1, <1>3
<1>6. ThresholdOK'
  <2>1. ToSet(signers)' = ToSet(list) BY <1>2 DEF ToSet
  <2> QED BY <1>1, <1>2, <1>3, <1>4, <1>5, <2>1 DEF ThresholdOK
<1>7. IsFiniteSet(ToSet(signers))' BY <1>2, <1>4 DEF ToSet
<1>8. proposals' = <<>> /\ Ids' = {} BY <1>2 DEF Ids
<1> QED BY <1>1, <1>2, <1>6, <1>7, <1>8 DEF IInv

(* Steps that keep the agreement and change the list of proposals only.       *)
LEMMA ProposalsStep ==
  ASSUME IInv, proposals' \in Seq(Proposal), signers # <<>>,
         UNCHANGED <<signers, threshold>>, \A i \in Ids' : Counted(proposals'[i])
  PROVE  IInv'
<1>1. ToSet(signers)' = ToSet(signers) BY DEF ToSet
<1>2. ThresholdOK' BY <1>1 DEF IInv, ThresholdOK
<1>3. \A i \in Ids' : Counted(proposals[i])'
  BY <1>1 DEF Counted
<1> QED BY <1>1, <1>2, <1>3 DEF IInv

LEMMA ProposeIInv ==
  ASSUME IInv, NEW kind \in Kinds, NEW a \in Accounts,
         NEW to \in Accounts \cup {Contract}, NEW n \in 0..MaxAmount,
         Propose(kind, a, to, n)
  PROVE  IInv'
<1> DEFINE p == [kind |-> kind, to |-> to, amount |-> n,
                 approvals |-> <<a>>, executed |-> FALSE]
<1>1. a \in ToSet(signers) /\ n \in 1..MaxAmount
      /\ proposals' = Append(proposals, p) /\ UNCHANGED <<signers, threshold>>
  BY MultisigAssumption DEF Propose, IsSigner, AmountValid
<1>2. p \in Proposal BY <1>1 DEF Proposal
<1>3. ToSet(<<a>>) = {a} BY DEF ToSet
<1>4. Counted(p)
  BY <1>1, <1>3, FS_Singleton DEF Counted
<1>5. proposals \in Seq(Proposal) /\ \A i \in Ids : Counted(proposals[i])
  BY DEF IInv
<1>6. /\ proposals' \in Seq(Proposal)
      /\ \A i \in Ids' : proposals'[i] = p \/ (i \in Ids /\ proposals'[i] = proposals[i])
  BY <1>1, <1>2, <1>5 DEF Ids
<1>7. signers # <<>> BY <1>1 DEF ToSet
<1>8. \A i \in Ids' : Counted(proposals'[i])
  BY <1>4, <1>5, <1>6
<1> QED BY <1>1, <1>6, <1>7, <1>8, ProposalsStep

(* A step that puts q in the place of one proposal.                           *)
LEMMA ReplaceStep ==
  ASSUME IInv, NEW i \in Ids, NEW q \in Proposal, Counted(q),
         proposals' = [proposals EXCEPT ![i] = q], UNCHANGED <<signers, threshold>>
  PROVE  IInv'
<1>1. proposals \in Seq(Proposal) /\ proposals # <<>> BY DEF IInv, Ids
<1>2. signers # <<>> BY <1>1 DEF IInv, ThresholdOK
<1>3. /\ proposals' \in Seq(Proposal)
      /\ \A j \in Ids' : proposals'[j] = q \/ (j \in Ids /\ proposals'[j] = proposals[j])
  BY <1>1 DEF Ids
<1>4. \A j \in Ids' : Counted(proposals'[j]) BY <1>3 DEF IInv
<1> QED BY <1>2, <1>3, <1>4, ProposalsStep

LEMMA AddApprovalIInv ==
  ASSUME IInv, NEW kind \in Kinds, NEW a \in Accounts, NEW i \in Ids,
         AddApproval(kind, a, i)
  PROVE  IInv'
<1> DEFINE p == proposals[i]
           s == p.approvals
           q == [p EXCEPT !.approvals = Append(s, a)]
<1>1. /\ a \in ToSet(signers) /\ ~p.executed /\ a \notin ToSet(s)
      /\ proposals' = [proposals EXCEPT ![i] = q] /\ UNCHANGED <<signers, threshold>>
  BY DEF AddApproval, MayApprove, IsSigner
<1>2. p \in Proposal /\ Counted(p) /\ IsFiniteSet(ToSet(signers))
  BY DEF IInv, Ids
<1>3. s \in Seq(Accounts) /\ ToSet(s) \subseteq ToSet(signers)
      /\ Cardinality(ToSet(s)) = Len(s)
  BY <1>2 DEF Proposal, Counted
<1>4. IsFiniteSet(ToSet(s)) BY <1>2, <1>3, FS_Subset
<1>5. Append(s, a) \in Seq(Accounts) /\ Len(Append(s, a)) = Len(s) + 1
      /\ ToSet(Append(s, a)) = ToSet(s) \cup {a}
  BY <1>3, ToSetAppend
<1>6. Cardinality(ToSet(Append(s, a))) = Len(Append(s, a))
  BY <1>1, <1>3, <1>4, <1>5, FS_AddElement
<1>7. q \in Proposal /\ q.approvals = Append(s, a) /\ ~q.executed
  BY <1>1, <1>2, <1>5 DEF Proposal
<1>8. Counted(q) BY <1>1, <1>3, <1>5, <1>6, <1>7 DEF Counted
<1> HIDE DEF p, s, q
<1> QED BY <1>1, <1>7, <1>8, ReplaceStep

LEMMA SetExecutedIInv ==
  ASSUME IInv, NEW i \in Ids, MayExecute(i), SetExecuted(i),
         UNCHANGED <<signers, threshold>>
  PROVE  IInv'
<1> DEFINE q == [proposals[i] EXCEPT !.executed = TRUE]
<1>1. proposals[i] \in Proposal /\ Counted(proposals[i])
  BY DEF IInv, Ids
<1>2. q \in Proposal /\ q.approvals = proposals[i].approvals
  BY <1>1 DEF Proposal
<1>3. Counted(q) BY <1>1, <1>2 DEF Counted, MayExecute
<1>4. proposals' = [proposals EXCEPT ![i] = q] BY DEF SetExecuted
<1> HIDE DEF q
<1> QED BY <1>2, <1>3, <1>4, ReplaceStep

LEMMA FrameIInv ==
  ASSUME IInv, UNCHANGED <<signers, threshold, proposals>>
  PROVE  IInv'
<1>1. ToSet(signers)' = ToSet(signers) /\ Ids' = Ids BY DEF ToSet, Ids
<1>2. \A i \in Ids' : Counted(proposals[i])' BY <1>1 DEF IInv, Counted
<1> QED BY <1>1, <1>2 DEF IInv, ThresholdOK

LEMMA NextIInv ==
  ASSUME IInv, [Next]_vars
  PROVE  IInv'
<1>1. CASE UNCHANGED vars BY <1>1, FrameIInv DEF vars
<1>2. ASSUME NEW list \in Lists, NEW k \in 0..(MaxSigners + 1), Initialize(list, k)
      PROVE  IInv'
  BY <1>2, InitializeIInv
<1>3. ASSUME NEW a \in Accounts, NEW to \in Accounts \cup {Contract},
             NEW n \in 0..MaxAmount,
             ProposeTransaction(a, to, n) \/ ProposeAssetTransfer(a, to, n)
      PROVE  IInv'
  BY <1>3, ProposeIInv DEF ProposeTransaction, ProposeAssetTransfer, Kinds
<1>4. ASSUME NEW a \in Accounts, NEW i \in Ids,
             Approve(a, i) \/ ApproveAssetTransfer(a, i)
      PROVE  IInv'
  BY <1>4, AddApprovalIInv DEF Approve, ApproveAssetTransfer, Kinds
<1>5. ASSUME NEW i \in Ids, Execute(i) \/ ExecuteAssetTransfer(i)
      PROVE  IInv'
  BY <1>5, SetExecutedIInv DEF Execute, ExecuteAssetTransfer
<1>6. ASSUME NEW n \in 1..MaxAmount, Deposit(n)
      PROVE  IInv'
  BY <1>6, FrameIInv DEF Deposit
<1> QED BY <1>1, <1>2, <1>3, <1>4, <1>5, <1>6 DEF Next

-----------------------------------------------------------------------------
(* The strengthening: approvals are counted once each, against a threshold    *)
(* that the signers can reach: initialize, proposals, approvals, executions.  *)
THEOREM InductiveInvariant == Spec => []IInv
BY InitIInv, NextIInv, PTL DEF Spec

LEMMA QuorumOfIInv == IInv => ExecutedByQuorum
<1> SUFFICES ASSUME IInv, NEW i \in Ids, proposals[i].executed
             PROVE  /\ Cardinality(ToSet(proposals[i].approvals)) >= threshold
                    /\ threshold > 0
                    /\ ToSet(proposals[i].approvals) \subseteq ToSet(signers)
  BY DEF ExecutedByQuorum
<1>1. proposals # <<>> BY DEF Ids
<1>2. threshold \in 1..Cardinality(ToSet(signers))
      /\ Cardinality(ToSet(signers)) \in Nat
  BY <1>1, FS_CardinalityType DEF IInv, ThresholdOK
<1>3. Counted(proposals[i]) BY DEF IInv
<1> QED BY <1>2, <1>3 DEF Counted

(* execute and execute_asset_transfer: only what `threshold' different        *)
(* signers approved is ever executed, whoever calls.                          *)
THEOREM QuorumDecides == Spec => []ExecutedByQuorum
BY InductiveInvariant, QuorumOfIInv, PTL

LEMMA ReachableOfIInv == IInv => QuorumReachable
<1> SUFFICES ASSUME IInv, NEW i \in Ids, ~proposals[i].executed
             PROVE  Len(proposals[i].approvals)
                    + Cardinality(ToSet(signers) \ ToSet(proposals[i].approvals))
                    >= threshold
  BY DEF QuorumReachable
<1> DEFINE S == ToSet(signers)
           A == ToSet(proposals[i].approvals)
<1>1. threshold \in 1..Cardinality(S) /\ IsFiniteSet(S)
  BY DEF IInv, ThresholdOK, Ids
<1>2. A \subseteq S /\ Cardinality(A) = Len(proposals[i].approvals)
  BY DEF IInv, Counted
<1>3. S \cap A = A BY <1>2
<1>4. Cardinality(S \ A) = Cardinality(S) - Cardinality(A)
  BY <1>1, <1>3, FS_Difference
<1>5. Cardinality(S) \in Nat /\ Cardinality(A) \in Nat
  BY <1>1, <1>2, FS_Subset, FS_CardinalityType
<1> HIDE DEF S, A
<1>6. Cardinality(A) + Cardinality(S \ A) >= threshold
  BY <1>1, <1>4, <1>5
<1> QED BY <1>2, <1>6 DEF S, A

(* initialize's checks of the list and the threshold keep every proposal      *)
(* executable: the money cannot be locked in.                                 *)
THEOREM NeverLockedIn == Spec => []QuorumReachable
BY InductiveInvariant, ReachableOfIInv, PTL

(* What AgreementsKept says of one step.                                      *)
AgreementsStep ==
  /\ signers # <<>> => UNCHANGED <<signers, threshold>>
  /\ \A i \in Ids : i \in Ids' /\ Kept(proposals[i], proposals'[i])

LEMMA KeptRefl ==
  ASSUME NEW p \in Proposal PROVE Kept(p, p)
BY DEF Kept, IsPrefix, Proposal

LEMMA UnchangedKeeps ==
  ASSUME IInv, UNCHANGED proposals
  PROVE  \A i \in Ids : i \in Ids' /\ Kept(proposals[i], proposals'[i])
BY KeptRefl DEF IInv, Ids

LEMMA ReplaceKeeps ==
  ASSUME IInv, NEW i \in Ids, NEW q, Kept(proposals[i], q),
         proposals' = [proposals EXCEPT ![i] = q]
  PROVE  \A j \in Ids : j \in Ids' /\ Kept(proposals[j], proposals'[j])
<1>1. proposals \in Seq(Proposal) BY DEF IInv
<1>2. Ids' = Ids BY <1>1 DEF Ids
<1>3. \A j \in Ids : proposals'[j] = IF j = i THEN q ELSE proposals[j]
  BY <1>1 DEF Ids
<1>4. \A j \in Ids : proposals[j] \in Proposal BY <1>1 DEF Ids
<1> QED BY <1>2, <1>3, <1>4, KeptRefl

LEMMA ProposeKeeps ==
  ASSUME IInv, NEW kind, NEW a, NEW to, NEW n, Propose(kind, a, to, n)
  PROVE  \A i \in Ids : i \in Ids' /\ Kept(proposals[i], proposals'[i])
<1> DEFINE p == [kind |-> kind, to |-> to, amount |-> n,
                 approvals |-> <<a>>, executed |-> FALSE]
<1>1. proposals' = Append(proposals, p) /\ proposals \in Seq(Proposal)
  BY DEF Propose, IInv
<1> HIDE DEF p
<1>2. \A i \in Ids : /\ i \in Ids' /\ proposals'[i] = proposals[i]
                     /\ proposals[i] \in Proposal
  BY <1>1 DEF Ids
<1> QED BY <1>2, KeptRefl

LEMMA AddApprovalKeeps ==
  ASSUME IInv, NEW kind, NEW a \in Accounts, NEW i \in Ids, AddApproval(kind, a, i)
  PROVE  \A j \in Ids : j \in Ids' /\ Kept(proposals[j], proposals'[j])
<1> DEFINE p == proposals[i]
           q == [p EXCEPT !.approvals = Append(p.approvals, a)]
<1>0. p \in Proposal BY DEF IInv, Ids
<1>1. p \in Proposal /\ p.approvals \in Seq(Accounts) BY <1>0 DEF Proposal
<1>2. ~p.executed /\ proposals' = [proposals EXCEPT ![i] = q]
  BY DEF AddApproval, MayApprove
<1>3. q.approvals = Append(p.approvals, a) /\ q.kind = p.kind /\ q.to = p.to
      /\ q.amount = p.amount
  BY <1>1 DEF Proposal
<1>4. IsPrefix(p.approvals, q.approvals) BY <1>1, <1>3, ToSetAppend
<1>5. Kept(p, q) BY <1>2, <1>3, <1>4 DEF Kept
<1> HIDE DEF q
<1> QED BY <1>2, <1>5, ReplaceKeeps

LEMMA ExecuteKeeps ==
  ASSUME IInv, NEW i \in Ids, MayExecute(i), SetExecuted(i)
  PROVE  \A j \in Ids : j \in Ids' /\ Kept(proposals[j], proposals'[j])
<1> DEFINE p == proposals[i]
           q == [p EXCEPT !.executed = TRUE]
<1>1. p \in Proposal BY DEF IInv, Ids
<1>2. ~p.executed /\ proposals' = [proposals EXCEPT ![i] = q]
  BY DEF MayExecute, SetExecuted
<1>3. q.approvals = p.approvals /\ q.kind = p.kind /\ q.to = p.to
      /\ q.amount = p.amount
  BY <1>1 DEF Proposal
<1>4. Kept(p, p) BY <1>1, KeptRefl
<1>5. Kept(p, q) BY <1>2, <1>3, <1>4 DEF Kept
<1> HIDE DEF q
<1> QED BY <1>2, <1>5, ReplaceKeeps

LEMMA NextKeeps ==
  ASSUME IInv, [Next]_vars
  PROVE  AgreementsStep
<1>1. CASE UNCHANGED vars BY <1>1, UnchangedKeeps DEF vars, AgreementsStep
<1>2. ASSUME NEW list, NEW k, Initialize(list, k) PROVE AgreementsStep
  BY <1>2, UnchangedKeeps DEF Initialize, Initialized, AgreementsStep
<1>3. ASSUME NEW a, NEW to, NEW n,
             ProposeTransaction(a, to, n) \/ ProposeAssetTransfer(a, to, n)
      PROVE  AgreementsStep
  BY <1>3, ProposeKeeps
     DEF ProposeTransaction, ProposeAssetTransfer, Propose, AgreementsStep
<1>4. ASSUME NEW a \in Accounts, NEW i \in Ids,
             Approve(a, i) \/ ApproveAssetTransfer(a, i)
      PROVE  AgreementsStep
  BY <1>4, AddApprovalKeeps
     DEF Approve, ApproveAssetTransfer, AddApproval, AgreementsStep
<1>5. ASSUME NEW i \in Ids, Execute(i) \/ ExecuteAssetTransfer(i)
      PROVE  AgreementsStep
  BY <1>5, ExecuteKeeps DEF Execute, ExecuteAssetTransfer, AgreementsStep
<1>6. ASSUME NEW n, Deposit(n) PROVE AgreementsStep
  BY <1>6, UnchangedKeeps DEF Deposit, AgreementsStep
<1> QED BY <1>1, <1>2, <1>3, <1>4, <1>5, <1>6 DEF Next

(* No call rewrites an agreement: the signer set, the threshold, what a       *)
(* proposal pays, who approved it, and an executed proposal all stand.        *)
THEOREM AgreementsStand == Spec => AgreementsKept
<1>1. IInv /\ [Next]_vars => [AgreementsStep]_vars BY NextKeeps
<1>2. Spec => [][AgreementsStep]_vars
  BY <1>1, InductiveInvariant, PTL DEF Spec
<1> QED BY <1>2 DEF AgreementsKept, AgreementsStep

-----------------------------------------------------------------------------
(* Where the multisig's money went. (Cardinality, used through an instance, is*)
(* another operator to the provers: hence a lemma like that of EscrowProofs.) *)
LEMMA CountMore ==
  ASSUME NEW T, IsFiniteSet(T), NEW i, NEW n \in Nat, T \cap ({i} \X (1..n)) = {}
  PROVE  Cardinality(T \cup ({i} \X (1..n))) = Cardinality(T) + n
<1> DEFINE U == {i} \X (1..n)
<1>1. IsFiniteSet({i}) /\ Cardinality({i}) = 1 BY FS_Singleton
<1>2. IsFiniteSet(1..n) /\ Cardinality(1..n) = n BY FS_Interval
<1>3. IsFiniteSet(U) /\ Cardinality(U) = Cardinality({i}) * Cardinality(1..n)
  BY <1>1, <1>2, FS_Product
<1>4. IsFiniteSet(U) /\ Cardinality(U) = n BY <1>1, <1>2, <1>3
<1>5. Cardinality(T \cap U) = 0 BY FS_EmptySet
<1>6. Cardinality(T) \in Nat BY FS_CardinalityType
<1> HIDE DEF U
<1>7. Cardinality(T \cup U) = Cardinality(T) + Cardinality(U) - Cardinality(T \cap U)
  BY <1>4, FS_Union
<1>8. Cardinality(T \cup U) = Cardinality(T) + n BY <1>4, <1>5, <1>6, <1>7
<1> QED BY <1>8 DEF U

LEMMA SentFinite ==
  ASSUME IInv
  PROVE  IsFiniteSet(Sent) /\ Cardinality(Sent) \in Nat
<1>1. Ids = 1..Len(proposals) /\ Len(proposals) \in Nat BY DEF IInv, Ids
<1>2. IsFiniteSet(Ids) /\ IsFiniteSet(1..MaxAmount)
  BY <1>1, MultisigAssumption, FS_Interval
<1>3. IsFiniteSet(Ids \X (1..MaxAmount)) BY <1>2, FS_Product
<1>4. Sent \subseteq Ids \X (1..MaxAmount) BY DEF Sent, Paid
<1>5. IsFiniteSet(Sent) BY <1>3, <1>4, FS_Subset
<1> QED BY <1>5, FS_CardinalityType

(* Steps that execute no transfer.                                            *)
LEMMA SentAppend ==
  ASSUME IInv, NEW p, ~p.executed, proposals' = Append(proposals, p)
  PROVE  Sent' = Sent
<1>1. Len(proposals) \in Nat /\ Ids = 1..Len(proposals) BY DEF IInv, Ids
<1>2. Ids' = Ids \cup {Len(proposals) + 1} /\ proposals'[Len(proposals) + 1] = p
  BY <1>1 DEF IInv, Ids
<1>3. \A i \in Ids : proposals'[i] = proposals[i] BY <1>1 DEF IInv, Ids
<1>4. Paid' = Paid BY <1>1, <1>2, <1>3 DEF Paid
<1> QED BY <1>3, <1>4 DEF Sent, Paid

LEMMA SentReplace ==
  ASSUME IInv, NEW i \in Ids, NEW q, proposals' = [proposals EXCEPT ![i] = q],
         q.amount = proposals[i].amount
  PROVE  LET T == {i} \X (1..proposals[i].amount)
             paid == q.executed /\ q.kind = "transfer" /\ q.to # Contract
         IN  /\ i \in Paid /\ paid => Sent' = Sent
             /\ i \notin Paid /\ ~paid => Sent' = Sent
             /\ i \notin Paid /\ paid => Sent' = Sent \cup T /\ Sent \cap T = {}
<1> DEFINE T == {i} \X (1..proposals[i].amount)
           paid == q.executed /\ q.kind = "transfer" /\ q.to # Contract
<1>1. Ids' = Ids /\ proposals'[i] = q /\ \A j \in Ids \ {i} : proposals'[j] = proposals[j]
  BY DEF IInv, Ids
<1>2. proposals[i].amount \in 1..MaxAmount
  <2>1. proposals[i] \in Proposal BY DEF IInv, Ids
  <2> QED BY <2>1 DEF Proposal
<1>3. T = {t \in {i} \X (1..MaxAmount) : t[2] <= proposals[i].amount}
  BY <1>2, MultisigAssumption
<1>4. \A j \in Ids \ {i} : j \in Paid' <=> j \in Paid BY <1>1 DEF Paid
<1>5. i \in Paid' <=> paid BY <1>1 DEF Paid
<1>6. Paid' \subseteq Ids /\ Paid \subseteq Ids BY <1>1 DEF Paid
<1>7. \A j \in Ids : proposals'[j].amount = proposals[j].amount BY <1>1
<1> HIDE DEF paid
<1>8. CASE i \in Paid <=> paid
  <2>1. Paid' = Paid BY <1>4, <1>5, <1>6, <1>8
  <2> QED BY <1>6, <1>7, <1>8, <2>1 DEF Sent, paid
<1>9. CASE i \notin Paid /\ paid
  <2>1. Paid' = Paid \cup {i} BY <1>4, <1>5, <1>6, <1>9
  <2>2. Sent' = Sent \cup T BY <1>3, <1>6, <1>7, <2>1 DEF Sent
  <2>3. Sent \cap T = {} BY <1>9 DEF Sent
  <2> QED BY <1>9, <2>2, <2>3 DEF paid
<1> QED BY <1>8, <1>9 DEF paid

(* The balance and the history beside IInv.                                   *)
Accounted == IInv /\ balance \in Nat /\ deposited \in Nat /\ FundsAccounted

LEMMA SameSent ==
  ASSUME Accounted, IInv', Sent' = Sent, UNCHANGED <<balance, deposited>>
  PROVE  Accounted'
BY DEF Accounted, FundsAccounted

LEMMA ProposeAccounted ==
  ASSUME Accounted, IInv', NEW kind, NEW a, NEW to, NEW n, Propose(kind, a, to, n)
  PROVE  Accounted'
<1> DEFINE p == [kind |-> kind, to |-> to, amount |-> n,
                 approvals |-> <<a>>, executed |-> FALSE]
<1>1. /\ proposals' = Append(proposals, p) /\ ~p.executed
      /\ UNCHANGED <<balance, deposited>>
  BY DEF Propose
<1> HIDE DEF p
<1> QED BY <1>1, SentAppend, SameSent DEF Accounted

LEMMA AddApprovalAccounted ==
  ASSUME Accounted, IInv', NEW kind, NEW a, NEW i \in Ids, AddApproval(kind, a, i)
  PROVE  Accounted'
<1> DEFINE p == proposals[i]
           q == [p EXCEPT !.approvals = Append(p.approvals, a)]
<1>1. p \in Proposal BY DEF Accounted, IInv, Ids
<1>2. /\ proposals' = [proposals EXCEPT ![i] = q] /\ ~p.executed
      /\ UNCHANGED <<balance, deposited>>
  BY DEF AddApproval, MayApprove
<1>3. q.amount = p.amount /\ ~q.executed BY <1>1, <1>2 DEF Proposal
<1>4. i \notin Paid BY <1>2 DEF Paid
<1> HIDE DEF q
<1>5. Sent' = Sent BY <1>2, <1>3, <1>4, SentReplace DEF Accounted
<1> QED BY <1>2, <1>5, SameSent

LEMMA ExecuteAccounted ==
  ASSUME Accounted, IInv', NEW i \in Ids, Execute(i)
  PROVE  Accounted'
<1> DEFINE p == proposals[i]
           q == [p EXCEPT !.executed = TRUE]
<1>1. p \in Proposal BY DEF Accounted, IInv, Ids
<1>2. /\ proposals' = [proposals EXCEPT ![i] = q] /\ p.kind = "memo"
      /\ UNCHANGED <<balance, deposited>>
  BY DEF Execute, SetExecuted
<1>3. q.amount = p.amount /\ q.kind # "transfer" BY <1>1, <1>2 DEF Proposal
<1>4. i \notin Paid BY <1>2 DEF Paid
<1> HIDE DEF q
<1>5. Sent' = Sent BY <1>2, <1>3, <1>4, SentReplace DEF Accounted
<1> QED BY <1>2, <1>5, SameSent

(* An executed transfer sends its tokens once; to the contract itself, none   *)
(* leave it.                                                                  *)
LEMMA ExecuteTransferAccounted ==
  ASSUME Accounted, IInv', NEW i \in Ids, ExecuteAssetTransfer(i)
  PROVE  Accounted'
<1> DEFINE p == proposals[i]
           q == [p EXCEPT !.executed = TRUE]
           T == {i} \X (1..p.amount)
<1>1. p \in Proposal BY DEF Accounted, IInv, Ids
<1>2. /\ proposals' = [proposals EXCEPT ![i] = q] /\ p.kind = "transfer" /\ ~p.executed
      /\ balance >= p.amount /\ deposited' = deposited
      /\ balance' = IF p.to = Contract THEN balance ELSE balance - p.amount
  BY DEF ExecuteAssetTransfer, SetExecuted, MayExecute
<1>3. /\ q.amount = p.amount /\ q.kind = "transfer" /\ q.to = p.to /\ q.executed
      /\ p.amount \in Nat
  BY <1>1, <1>2, MultisigAssumption DEF Proposal
<1>4. i \notin Paid BY <1>2 DEF Paid
<1>5. balance \in Nat /\ deposited \in Nat /\ balance + Cardinality(Sent) = deposited
      /\ IsFiniteSet(Sent) /\ Cardinality(Sent) \in Nat
  BY SentFinite DEF Accounted, FundsAccounted
<1> HIDE DEF p, q
<1>6. CASE p.to = Contract
  <2>1. Sent' = Sent BY <1>2, <1>3, <1>4, <1>6, SentReplace DEF Accounted, p
  <2> QED BY <1>2, <1>6, <2>1, SameSent
<1>7. CASE p.to # Contract
  <2>1. Sent' = Sent \cup T /\ Sent \cap T = {}
    BY <1>2, <1>3, <1>4, <1>7, SentReplace DEF Accounted, p
  <2>2. Cardinality(Sent') = Cardinality(Sent) + p.amount
    BY <1>3, <1>5, <2>1, CountMore
  <2> HIDE DEF T
  <2> QED BY <1>2, <1>3, <1>5, <1>7, <2>2 DEF Accounted, FundsAccounted
<1> QED BY <1>6, <1>7

LEMMA NextAccounted == Accounted /\ [Next]_vars => Accounted'
<1> SUFFICES ASSUME Accounted, [Next]_vars PROVE Accounted' OBVIOUS
<1>1. IInv' BY NextIInv DEF Accounted
<1>2. ASSUME UNCHANGED <<proposals, balance, deposited>> PROVE Accounted'
  <2>1. Sent' = Sent BY <1>2 DEF Sent, Paid, Ids
  <2> QED BY <1>1, <1>2, <2>1, SameSent
<1>3. ASSUME NEW list, NEW k, Initialize(list, k) PROVE Accounted'
  BY <1>2, <1>3 DEF Initialize
<1>4. ASSUME NEW n \in 1..MaxAmount, Deposit(n) PROVE Accounted'
  <2>1. proposals' = proposals /\ balance' = balance + n /\ deposited' = deposited + n
        /\ n \in Nat
    BY <1>4, MultisigAssumption DEF Deposit
  <2>2. Sent' = Sent BY <2>1 DEF Sent, Paid, Ids
  <2>3. Cardinality(Sent) \in Nat BY SentFinite DEF Accounted
  <2> QED BY <1>1, <2>1, <2>2, <2>3 DEF Accounted, FundsAccounted
<1>5. CASE UNCHANGED vars BY <1>2, <1>5 DEF vars
<1> QED BY <1>1, <1>3, <1>4, <1>5, ProposeAccounted, AddApprovalAccounted, ExecuteAccounted,
           ExecuteTransferAccounted
        DEF Next, ProposeTransaction, ProposeAssetTransfer, Approve, ApproveAssetTransfer

LEMMA AccountedAlways == Spec => []Accounted
<1>1. Init => Accounted
  <2> SUFFICES ASSUME Init PROVE Accounted OBVIOUS
  <2>1. Sent = {} BY DEF Init, Sent, Paid, Ids
  <2> QED BY <2>1, InitIInv, FS_EmptySet DEF Init, Accounted, FundsAccounted
<1> QED BY <1>1, NextAccounted, PTL DEF Spec

(* The stored entries keep their shape and the balance is never negative.     *)
THEOREM MultisigTyped == Spec => []TypeOK
<1>1. Accounted => TypeOK BY DEF Accounted, IInv, TypeOK
<1> QED BY <1>1, AccountedAlways, PTL

(* execute_asset_transfer: what is missing from the tokens paid in was sent   *)
(* by executed transfers, each of them once, over any sequence of calls.      *)
THEOREM EachTransferOnce == Spec => []FundsAccounted
<1>1. Accounted => FundsAccounted BY DEF Accounted
<1> QED BY <1>1, AccountedAlways, PTL

-----------------------------------------------------------------------------
(* The gateway. No entry is dated ahead of the ledger, so that what is        *)
(* confirmed now is not confirmed before it was made.                         *)
GatewayInv == G!TypeOK /\ \A i \in G!Ids : intents[i].created_at <= clock

(* What ConfirmationKept says of one step.                                    *)
GatewayStep ==
  \A i \in G!Ids :
    /\ i \in G!Ids'
    /\ intents[i].status = "Confirmed" => intents'[i] = intents[i]
    /\ intents'[i] # intents[i] => intents'[i].confirmed_by = confirmer

LEMMA GatewayInit == G!Init => GatewayInv
<1> SUFFICES ASSUME G!Init PROVE GatewayInv OBVIOUS
<1>1. intents \in Seq(G!PaymentIntent) /\ G!Ids = {} BY DEF G!Init, G!Ids
<1> QED BY <1>1 DEF G!Init, G!TypeOK, GatewayInv

LEMMA GatewayTyped ==
  ASSUME GatewayInv
  PROVE  /\ intents \in Seq(G!PaymentIntent) /\ clock \in Nat
         /\ \A i \in G!Ids : /\ intents[i] \in G!PaymentIntent
                            /\ intents[i].created_at \in 0..clock
<1>1. /\ intents \in Seq(G!PaymentIntent) /\ clock \in Nat
      /\ \A i \in G!Ids : intents[i].created_at <= clock
  BY DEF GatewayInv, G!TypeOK
<1>2. \A i \in G!Ids : intents[i] \in G!PaymentIntent BY <1>1 DEF G!Ids
<1>3. \A i \in G!Ids : intents[i].created_at \in Nat BY <1>2 DEF G!PaymentIntent
<1> QED BY <1>1, <1>2, <1>3

(* Steps that leave the list alone.                                           *)
LEMMA GatewayFrame ==
  ASSUME GatewayInv, UNCHANGED intents, clock' \in Nat, clock' >= clock,
         confirmer' \in Addresses \cup {Nobody}
  PROVE  GatewayInv' /\ GatewayStep
<1>1. G!Ids' = G!Ids BY DEF G!Ids
<1>2. ASSUME NEW i \in G!Ids
      PROVE  /\ intents[i].created_at <= clock'
             /\ IF intents[i].status = "Confirmed"
                THEN intents[i].confirmed_at \in intents[i].created_at..clock'
                ELSE intents[i].confirmed_at = 0
  <2>1. /\ intents[i].created_at \in 0..clock /\ clock \in Nat
        /\ IF intents[i].status = "Confirmed"
           THEN intents[i].confirmed_at \in intents[i].created_at..clock
           ELSE intents[i].confirmed_at = 0
    BY GatewayTyped DEF GatewayInv, G!TypeOK
  <2> QED BY <2>1
<1> QED BY <1>1, <1>2 DEF GatewayInv, G!TypeOK, GatewayStep

LEMMA GatewayCreate ==
  ASSUME GatewayInv, NEW p \in Addresses, NEW n \in 0..MaxAmount, G!CreatePaymentIntent(p, n)
  PROVE  GatewayInv' /\ GatewayStep
<1> DEFINE x == [payer |-> p, amount |-> n, status |-> "Pending",
                 created_at |-> clock, confirmed_at |-> 0, confirmed_by |-> Nobody]
<1>1. /\ intents' = Append(intents, x) /\ n > 0
      /\ UNCHANGED <<confirmer, clock>>
  BY DEF G!CreatePaymentIntent
<1>2. x \in G!PaymentIntent
  BY <1>1, GatewayTyped, MultisigAssumption DEF G!PaymentIntent
<1>3. x.status # "Confirmed" /\ x.confirmed_at = 0 /\ x.created_at = clock OBVIOUS
<1> HIDE DEF x
<1>4. intents \in Seq(G!PaymentIntent) /\ clock \in Nat BY GatewayTyped
<1>5. intents' \in Seq(G!PaymentIntent) BY <1>1, <1>2, <1>4
<1>6. \A i \in G!Ids : i \in G!Ids' /\ intents'[i] = intents[i] BY <1>1, <1>4 DEF G!Ids
<1>7. \A i \in G!Ids' : i \in G!Ids \/ intents'[i] = x BY <1>1, <1>4 DEF G!Ids
<1>8. \A i \in G!Ids' : /\ intents'[i].created_at <= clock
                       /\ IF intents'[i].status = "Confirmed"
                          THEN intents'[i].confirmed_at \in intents'[i].created_at..clock
                          ELSE intents'[i].confirmed_at = 0
  BY <1>3, <1>4, <1>6, <1>7 DEF G!TypeOK, GatewayInv
<1> QED BY <1>1, <1>5, <1>6, <1>8 DEF G!TypeOK, GatewayInv, GatewayStep

LEMMA GatewayConfirm ==
  ASSUME GatewayInv, NEW a \in Addresses, NEW i \in G!Ids, G!ConfirmPaymentIntent(a, i)
  PROVE  GatewayInv' /\ GatewayStep
<1> DEFINE x == [intents[i] EXCEPT !.status = "Confirmed", !.confirmed_at = clock, !.confirmed_by = a]
<1>1. /\ intents' = [intents EXCEPT ![i] = x] /\ intents[i].status # "Confirmed"
      /\ UNCHANGED <<confirmer, clock>>
  BY DEF G!ConfirmPaymentIntent, G!MayConfirm
<1>2. /\ intents \in Seq(G!PaymentIntent) /\ clock \in Nat
      /\ intents[i] \in G!PaymentIntent /\ intents[i].created_at \in 0..clock
  BY GatewayTyped
<1>3. /\ x \in G!PaymentIntent /\ x.status = "Confirmed" /\ x.confirmed_at = clock
      /\ x.confirmed_by = a /\ a = confirmer /\ x.created_at = intents[i].created_at
  BY <1>2 DEF G!PaymentIntent, G!ConfirmPaymentIntent, G!MayConfirm
<1> HIDE DEF x
<1>4. intents' \in Seq(G!PaymentIntent) /\ G!Ids' = G!Ids BY <1>1, <1>2, <1>3 DEF G!Ids
<1>5. \A j \in G!Ids : intents'[j] = IF j = i THEN x ELSE intents[j]
  BY <1>1, <1>2 DEF G!Ids
<1>6. \A j \in G!Ids : /\ intents'[j].created_at <= clock
                      /\ IF intents'[j].status = "Confirmed"
                         THEN intents'[j].confirmed_at \in intents'[j].created_at..clock
                         ELSE intents'[j].confirmed_at = 0
  BY <1>2, <1>3, <1>5 DEF G!TypeOK, GatewayInv
<1>7. GatewayStep BY <1>1, <1>2, <1>3, <1>4, <1>5 DEF GatewayStep
<1> QED BY <1>1, <1>4, <1>6, <1>7 DEF G!TypeOK, GatewayInv

LEMMA GatewayNext ==
  ASSUME GatewayInv, [G!Next]_(G!vars)
  PROVE  GatewayInv' /\ GatewayStep
<1>1. clock \in Nat /\ confirmer \in Addresses \cup {Nobody}
  BY DEF GatewayInv, G!TypeOK
<1>2. CASE UNCHANGED G!vars BY <1>1, <1>2, GatewayFrame DEF G!vars
<1>3. ASSUME NEW a \in Addresses, G!InitContract(a) \/ \E c \in Addresses : G!SetConfirmer(c, a)
      PROVE  GatewayInv' /\ GatewayStep
  BY <1>1, <1>3, GatewayFrame DEF G!InitContract, G!SetConfirmer
<1>4. CASE G!Tick BY <1>1, <1>4, GatewayFrame DEF G!Tick
<1> QED BY <1>2, <1>3, <1>4, GatewayCreate, GatewayConfirm DEF G!Next

(* confirm_payment_intent: a confirmation is given once, stands, and is       *)
(* signed by the address that holds the confirmer's office when it is given.  *)
THEOREM ConfirmationStands == G!Spec => []G!TypeOK /\ G!ConfirmationKept
<1>1. GatewayInv /\ [G!Next]_(G!vars) => GatewayInv' BY GatewayNext
<1>2. GatewayInv /\ [G!Next]_(G!vars) => [GatewayStep]_(G!vars) BY GatewayNext
<1>3. GatewayInv => G!TypeOK BY DEF GatewayInv
<1>4. G!Spec => []GatewayInv BY <1>1, GatewayInit, PTL DEF G!Spec
<1>5. G!Spec => []G!TypeOK BY <1>3, <1>4, PTL
<1>6. G!Spec => [][GatewayStep]_(G!vars) BY <1>2, <1>4, PTL DEF G!Spec
<1> QED BY <1>5, <1>6 DEF G!ConfirmationKept, GatewayStep

-----------------------------------------------------------------------------
(* The composition: a contract's part of a step is a step of the contract.    *)
LEMMA EachContractSteps ==
  SpecContracts => Spec /\ E!Spec /\ V!Spec /\ G!Spec
<1> DEFINE all == <<vars, escrow, vault, gateway, at>>
<1>1. InitContracts => Init /\ E!Init /\ V!Init /\ G!Init BY DEF InitContracts
<1>2. [NextContracts]_all => [Next]_vars BY DEF NextContracts
<1>3. [NextContracts]_all => [E!Next]_(E!vars) BY DEF NextContracts, escrow, E!vars
<1>4. [NextContracts]_all => [V!Next]_(V!vars) BY DEF NextContracts, vault, V!vars
<1>5. [NextContracts]_all => [G!Next]_(G!vars) BY DEF NextContracts, gateway, G!vars
<1> QED BY <1>1, <1>2, <1>3, <1>4, <1>5, PTL
        DEF SpecContracts, E!Spec, V!Spec, G!Spec, Spec

(* E and V name the same contracts as EP and VP, the instances with proofs.   *)
LEMMA SameEscrow == E!Spec <=> EP!Spec
BY DEF E!Spec, EP!Spec, E!Init, EP!Init, E!Next, EP!Next, E!vars, EP!vars,
       E!CreateEscrow, EP!CreateEscrow, E!AmountValid, EP!AmountValid,
       E!Fund, EP!Fund, E!Release, EP!Release, E!Releasable, EP!Releasable,
       E!Refund, EP!Refund, E!Refundable, EP!Refundable, E!SetStatus, EP!SetStatus,
       E!Tick, EP!Tick, E!Spend, EP!Spend, E!Move, EP!Move, E!Holders, EP!Holders,
       E!Ids, EP!Ids

LEMMA SameVault == V!Spec <=> VP!Spec
BY DEF V!Spec, VP!Spec, V!Init, VP!Init, V!Next, VP!Next, V!vars, VP!vars,
       V!Initialize, VP!Initialize, V!Deposit, VP!Deposit, V!Withdraw, VP!Withdraw,
       V!Tick, VP!Tick, V!Covers, VP!Covers, V!Store, VP!Store, V!Touched, VP!Touched,
       V!Accrued, VP!Accrued, V!Interest, VP!Interest, V!CheckedAdd, VP!CheckedAdd,
       V!CheckedMul, VP!CheckedMul, V!Unset, VP!Unset

LEMMA SameCardinality ==
  ASSUME NEW S PROVE E!Cardinality(S) = EP!Cardinality(S)
BY DEF E!Cardinality, EP!Cardinality

LEMMA EscrowHolds ==
  E!Spec => []E!TypeOK /\ []E!FundsAccounted /\ []E!ExactlyOneExit /\ E!PaidOutAsAgreed
<1>1. EP!EscrowAssumption
  BY ContractsAssumption
     DEF ContractsAssumption, E!EscrowAssumption, EP!EscrowAssumption
<1>2. EP!Spec => []EP!TypeOK BY <1>1, EP!TypeCorrect
<1>3. EP!Spec => []EP!FundsAccounted BY <1>1, EP!EveryTokenIsOwed
<1>4. EP!Spec => []EP!ExactlyOneExit BY <1>1, EP!AlwaysOneExit
<1>5. EP!Spec => EP!PaidOutAsAgreed BY <1>1, EP!MoneyLeavesAsAgreed
<1>6. E!TypeOK <=> EP!TypeOK
  BY DEF E!TypeOK, EP!TypeOK, E!EscrowRecord, EP!EscrowRecord, E!Holders, EP!Holders,
         E!Statuses, EP!Statuses
<1>7. ASSUME NEW a PROVE E!Owed(a) = EP!Owed(a)
  BY DEF E!Owed, EP!Owed, E!Funded, EP!Funded, E!Ids, EP!Ids
<1>8. E!FundsAccounted <=> EP!FundsAccounted
  BY <1>7, SameCardinality DEF E!FundsAccounted, EP!FundsAccounted
<1>9. E!ExactlyOneExit <=> EP!ExactlyOneExit
  BY DEF E!ExactlyOneExit, EP!ExactlyOneExit, E!Releasable, EP!Releasable,
         E!Refundable, EP!Refundable, E!Ids, EP!Ids
<1>10. E!PaidOutAsAgreed <=> EP!PaidOutAsAgreed
  BY DEF E!PaidOutAsAgreed, EP!PaidOutAsAgreed, E!Paid, EP!Paid, E!PaysOut, EP!PaysOut,
         E!Ids, EP!Ids, E!Holders, EP!Holders, E!vars, EP!vars
<1> QED BY <1>2, <1>3, <1>4, <1>5, <1>6, <1>8, <1>9, <1>10, SameEscrow, PTL

LEMMA VaultHolds == V!Spec => []V!TypeOK /\ []V!PrincipalKept /\ []V!YieldBounded
<1>1. VP!VaultAssumption
  BY ContractsAssumption DEF ContractsAssumption, V!VaultAssumption, VP!VaultAssumption
<1>2. VP!Spec => []VP!IInv BY <1>1, VP!InductiveInvariant
<1>3. VP!IInv => VP!TypeOK BY DEF VP!IInv
<1>4. VP!Spec => []VP!PrincipalKept BY <1>1, VP!PrincipalIsKept
<1>5. VP!Spec => []VP!YieldBounded BY <1>1, VP!InterestIsBounded
<1>6. V!TypeOK <=> VP!TypeOK
  BY DEF V!TypeOK, VP!TypeOK, V!VaultAccount, VP!VaultAccount, V!Unset, VP!Unset
<1>7. V!PrincipalKept <=> VP!PrincipalKept BY DEF V!PrincipalKept, VP!PrincipalKept
<1>8. V!YieldBounded <=> VP!YieldBounded
  BY DEF V!YieldBounded, VP!YieldBounded, V!Accrued, VP!Accrued, V!Interest, VP!Interest,
         V!CheckedAdd, VP!CheckedAdd, V!CheckedMul, VP!CheckedMul
<1> QED BY <1>2, <1>3, <1>4, <1>5, <1>6, <1>7, <1>8, SameVault, PTL

(* Every contract's entries keep their shape, and no balance is negative.     *)
THEOREM ContractsTyped == SpecContracts => []ContractsTypeOK
BY EachContractSteps, MultisigTyped, EscrowHolds, VaultHolds, ConfirmationStands, PTL
   DEF ContractsTypeOK

(* fund, release, refund: every token the escrow contract holds is owed to    *)
(* one open escrow or is stray, over any sequence of calls.                   *)
THEOREM EscrowTokensOwed == SpecContracts => []EscrowsAccounted
BY EachContractSteps, EscrowHolds, PTL DEF EscrowsAccounted

(* release and refund of one funded escrow: never both, never neither, and    *)
(* the balance covers it whatever the other escrows drew.                     *)
THEOREM OneExit == SpecContracts => []ExactlyOneExit
BY EachContractSteps, EscrowHolds, PTL DEF ExactlyOneExit

(* Tokens leave the escrow contract to whom, when and for how much one escrow *)
(* says.                                                                      *)
THEOREM PaidAsAgreed == SpecContracts => PaidOutAsAgreed
BY EachContractSteps, EscrowHolds, PTL DEF PaidOutAsAgreed

(* The multisig contract: see QuorumDecides, NeverLockedIn, EachTransferOnce  *)
(* and AgreementsStand.                                                       *)
THEOREM MultisigHolds ==
  SpecContracts => /\ []ExecutedByQuorum /\ []QuorumReachable /\ []FundsAccounted
                   /\ AgreementsKept
BY EachContractSteps, QuorumDecides, NeverLockedIn, EachTransferOnce, AgreementsStand, PTL

(* deposit and withdraw of the vault cost nobody any principal.               *)
THEOREM PrincipalSafe == SpecContracts => []PrincipalKept
BY EachContractSteps, VaultHolds, PTL DEF PrincipalKept

(* accrue earns nobody more than the compounded rate.                         *)
THEOREM YieldUnderCap == SpecContracts => []YieldBounded
BY EachContractSteps, VaultHolds, PTL DEF YieldBounded

(* confirm_payment_intent in the composition: see ConfirmationStands.         *)
THEOREM ConfirmedOnce == SpecContracts => ConfirmationKept
BY EachContractSteps, ConfirmationStands, PTL DEF ConfirmationKept
=============================================================================

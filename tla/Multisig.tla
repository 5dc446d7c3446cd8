------------------------------ MODULE Multisig ------------------------------
(* The multisig contract (src/contracts/multisig/src/lib.rs) over the token   *)
(* contracts that hold its money. A call is one atomic step; a transfer that  *)
(* panics reverts the call. Memo proposals (propose_transaction) and asset    *)
(* transfers live under different keys but draw ids from one counter.         *)
EXTENDS Integers, SequencesExt

CONSTANTS Accounts,    \* addresses: signers, payees, and whoever submits calls
          Contract,    \* the multisig contract's own address
          MaxSigners,  \* bounds for checking: length of the signer list,
          MaxProposals, MaxAmount, MaxDeposits \* proposals, and tokens paid in

ASSUME MultisigAssumption ==
  /\ Contract \notin Accounts
  /\ MaxSigners \in Nat /\ MaxProposals \in Nat /\ MaxAmount \in Nat /\ MaxDeposits \in Nat

VARIABLES signers,    \* the stored Vec, <<>> before initialize
          threshold,
          proposals,  \* by id: [kind, to, amount, approvals, executed]
          balance,    \* tokens at the contract's address (one asset)
          deposited   \* history: tokens that were paid in
vars == <<signers, threshold, proposals, balance, deposited>>

Kinds == {"memo", "transfer"}
Ids == DOMAIN proposals
IsSigner(a) == a \in ToSet(signers)
Lists == BoundedSeq(Accounts, MaxSigners)
Proposal ==
  [kind : Kinds, to : Accounts \cup {Contract}, amount : 1..MaxAmount,
   approvals : Seq(Accounts), executed : BOOLEAN]

Init ==
  /\ signers = <<>> /\ threshold = 0
  /\ proposals = <<>>
  /\ balance = 0 /\ deposited = 0

-----------------------------------------------------------------------------
(* initialize: once, with distinct signers who all authorize it, and a        *)
(* threshold they can reach.                                                  *)
SignersRepeated(list) == TRUE            \* fault: no DuplicateSigner check
SignersDistinct(list) == IsInjective(list)
ThresholdValid(k, list) == k > 0 /\ k <= Len(list)
InitializedNever == FALSE                \* fault: no AlreadyInitialized check
Initialized == signers # <<>>

Initialize(list, k) ==
  /\ ~Initialized
  /\ ThresholdValid(k, list) /\ SignersDistinct(list)
  /\ signers' = list /\ threshold' = k
  /\ UNCHANGED <<proposals, balance, deposited>>

(* propose_transaction, propose_asset_transfer: the proposer approves by      *)
(* proposing; the id is the next of the shared counter.                       *)
AmountValid(n) == n > 0

Propose(kind, a, to, n) ==
  /\ Len(proposals) < MaxProposals
  /\ AmountValid(n) /\ IsSigner(a)
  /\ proposals' = Append(proposals, [kind |-> kind, to |-> to, amount |-> n,
                                     approvals |-> <<a>>, executed |-> FALSE])
  /\ UNCHANGED <<signers, threshold, balance, deposited>>

ProposeTransaction(a, to, n) == Propose("memo", a, to, n)
ProposeAssetTransfer(a, to, n) == Propose("transfer", a, to, n)

(* approve, approve_asset_transfer: a signer, once, before execution.         *)
MayApproveTwice(a, i) ==                 \* fault: AlreadyApproved missing
  IsSigner(a) /\ ~proposals[i].executed
MayApprove(a, i) ==
  IsSigner(a) /\ ~proposals[i].executed /\ a \notin ToSet(proposals[i].approvals)

AddApproval(kind, a, i) ==
  /\ proposals[i].kind = kind
  /\ MayApprove(a, i)
  /\ proposals' = [proposals EXCEPT ![i].approvals = Append(@, a)]
  /\ UNCHANGED <<signers, threshold, balance, deposited>>

Approve(a, i) == AddApproval("memo", a, i)
ApproveAssetTransfer(a, i) == AddApproval("transfer", a, i)

(* execute, execute_asset_transfer: anyone may call it once the threshold is  *)
(* met; the second also moves the tokens, or reverts without the balance.     *)
MayExecuteAgain(i) == Len(proposals[i].approvals) >= threshold \* fault: no AlreadyExecuted
MayExecute(i) == ~proposals[i].executed /\ Len(proposals[i].approvals) >= threshold

SetExecuted(i) == proposals' = [proposals EXCEPT ![i].executed = TRUE]

Execute(i) ==
  /\ proposals[i].kind = "memo" /\ MayExecute(i)
  /\ SetExecuted(i)
  /\ UNCHANGED <<signers, threshold, balance, deposited>>

ExecuteAssetTransfer(i) ==
  LET x == proposals[i]
  IN  /\ x.kind = "transfer" /\ MayExecute(i)
      /\ balance >= x.amount
      /\ balance' = IF x.to = Contract THEN balance ELSE balance - x.amount
      /\ SetExecuted(i)
      /\ UNCHANGED <<signers, threshold, deposited>>

(* Outside the contract: anyone pays tokens to its address.                   *)
Deposit(n) ==
  /\ deposited + n <= MaxDeposits
  /\ balance' = balance + n /\ deposited' = deposited + n
  /\ UNCHANGED <<signers, threshold, proposals>>

Next ==
  \/ ~Initialized /\ \E list \in Lists, k \in 0..(MaxSigners + 1) : Initialize(list, k)
  \/ \E a \in Accounts :
       \/ \E to \in Accounts \cup {Contract}, n \in 0..MaxAmount :
            ProposeTransaction(a, to, n) \/ ProposeAssetTransfer(a, to, n)
       \/ \E i \in Ids : Approve(a, i) \/ ApproveAssetTransfer(a, i)
  \/ \E i \in Ids : Execute(i) \/ ExecuteAssetTransfer(i)
  \/ \E n \in 1..MaxAmount : Deposit(n)

Spec == Init /\ [][Next]_vars

-----------------------------------------------------------------------------
(* The stored entries keep their shape and the balance is never negative.     *)
TypeOK ==
  /\ signers \in Seq(Accounts) /\ threshold \in Nat
  /\ proposals \in Seq(Proposal)
  /\ balance \in Nat /\ deposited \in Nat

(* What was executed had the approval of `threshold' different signers: no    *)
(* outsider's and no signer's second approval ever counted.                   *)
ExecutedByQuorum ==
  \A i \in Ids : proposals[i].executed =>
    /\ Cardinality(ToSet(proposals[i].approvals)) >= threshold /\ threshold > 0
    /\ ToSet(proposals[i].approvals) \subseteq ToSet(signers)

(* The money is never locked in: the signers who have not approved a pending  *)
(* proposal are always enough to bring it to the threshold.                   *)
QuorumReachable ==
  \A i \in Ids : ~proposals[i].executed =>
    LET left == ToSet(signers) \ ToSet(proposals[i].approvals)
    IN  Len(proposals[i].approvals) + Cardinality(left) >= threshold

(* Every token that left the contract was sent by an executed transfer, and   *)
(* each transfer was paid once: a reverted call leaves neither half behind.   *)
(* The tokens sent are counted one by one: <<i, k>> is the k-th of transfer i.*)
Paid == {i \in Ids : proposals[i].executed /\ proposals[i].kind = "transfer"
                      /\ proposals[i].to # Contract}
Sent == {t \in Paid \X (1..MaxAmount) : t[2] <= proposals[t[1]].amount}
FundsAccounted == balance + Cardinality(Sent) = deposited

(* Nothing signers agreed to changes under them: neither the signer set nor   *)
(* the threshold once set, nor what a proposal pays and who approved it; an   *)
(* executed proposal is left alone, and no second one takes its id.           *)
Kept(old, new) ==
  /\ <<new.kind, new.to, new.amount>> = <<old.kind, old.to, old.amount>>
  /\ IsPrefix(old.approvals, new.approvals)
  /\ old.executed => new = old
AgreementsKept ==
  [][/\ signers # <<>> => UNCHANGED <<signers, threshold>>
     /\ \A i \in Ids : i \in Ids' /\ Kept(proposals[i], proposals'[i])]_vars
=============================================================================

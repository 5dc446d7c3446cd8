------------------------------ MODULE SendFlow ------------------------------
(* The wallet's payment screens (src/frontend/src/components/wallet/SendFlow  *)
(* and usePendingPayment) of one address, which share its localStorage,       *)
(* composed with the backend as Settlement promises it to be (PaymentIntents  *)
(* implements that promise).                                                  *)
(*                                                                            *)
(* A screen signs each intent once, so an envelope is named by its intent. A  *)
(* call to the backend may fail, before or after it took effect, and the page *)
(* may be reloaded or closed at any time. A screen left by navigating inside  *)
(* the application still runs what follows its awaits: it is a further screen *)
(* beside the one mounted next, as one in another browser tab is.             *)
EXTENDS Naturals

CONSTANTS Ids,      \* payment intents
          Tabs,     \* payment screens that are mounted or still await an answer
          None

Preparing == "preparing"

ASSUME SendFlowAssumption == None \notin Ids /\ Preparing \notin Ids \cup {None}

VARIABLES key,      \* localStorage[pendingPaymentKey(address)]
          tab,      \* the React state and refs of each screen
          posted,   \* submit calls that left a browser
          unstored, \* history: payments signed while localStorage.setItem threw
          hurried,  \* history: payments signed while a status check was still out
          status, bound, outcome  \* the backend and the ledger: Settlement
Server == INSTANCE Settlement WITH Txs <- Ids, NoTx <- None
sent == <<posted, unstored, hurried>>
backend == <<status, bound, outcome>>
vars == <<key, tab, posted, unstored, hurried, status, bound, outcome>>

-----------------------------------------------------------------------------
Mounted(k) ==
  [result |-> FALSE,     \* the result panel is shown
   review |-> None,      \* the intent under review
   current |-> None,     \* pendingPayment.current
   call |-> None,        \* what prepare or confirm awaits (`sending', `busy')
   check |-> None,       \* the intent a status check asked about (`checking')
   asked |-> None,       \* `review' when the check was started
   pendingId |-> k,      \* the stored id as read at mount
   outcome |-> "none"]   \* what the last check from the form answered

Final(i) == status[i] \in {"SUCCEEDED", "FAILED"}
Set(w, s) == tab' = [tab EXCEPT ![w] = s]

(* PendingPaymentNotice offers a check until one has settled it or failed.    *)
OffersCheck(s) ==
  s.outcome \in {"none", "PENDING"} /\ s.pendingId # None /\ s.check = None

(* What the screen offers: the result, or the review, or the form under that  *)
(* notice.                                                                    *)
Buttons(s) ==
  {b \in {"start over", "confirm", "edit", "check", "prepare", "check stored"} :
     CASE b = "start over"   -> s.result
       [] b = "confirm"      -> ~s.result /\ s.review # None /\ s.call = None
       [] b = "edit"         -> ~s.result /\ s.review # None /\ s.call = None /\ s.current = None
       [] b = "check"        -> /\ ~s.result /\ s.review # None /\ s.current # None
                                /\ s.call = None /\ s.check = None
       [] b = "prepare"      -> ~s.result /\ s.review = None /\ s.call = None
       [] b = "check stored" -> ~s.result /\ s.review = None /\ OffersCheck(s)}

Init ==
  /\ key = None
  /\ tab = [w \in Tabs |-> Mounted(None)]
  /\ posted = {} /\ unstored = {} /\ hurried = {}
  /\ Server!Init

-----------------------------------------------------------------------------
(* prepare: refuse while a pending id is stored; create the intent and have   *)
(* its transaction built, then show it for review.                            *)
AlwaysUnblocked == TRUE                  \* fault: localStorage not consulted
Unblocked == key = None

PrepareStart(w) ==
  /\ "prepare" \in Buttons(tab[w])
  /\ Unblocked
  /\ Set(w, [tab[w] EXCEPT !.call = Preparing])
  /\ UNCHANGED <<key, sent, backend>>

PrepareRefused(w) ==
  /\ "prepare" \in Buttons(tab[w])
  /\ ~Unblocked
  /\ Set(w, [tab[w] EXCEPT !.pendingId = key])
  /\ UNCHANGED <<key, sent, backend>>

PrepareDone(w, i) ==
  /\ tab[w].call = Preparing
  /\ Server!Open(i)
  /\ Set(w, [tab[w] EXCEPT !.call = None, !.review = i])
  /\ UNCHANGED <<key, sent>>

PrepareFailed(w) ==
  /\ tab[w].call = Preparing
  /\ Set(w, [tab[w] EXCEPT !.call = None])
  /\ UNCHANGED <<key, sent, backend>>

Edit(w) ==
  /\ "edit" \in Buttons(tab[w])
  /\ Set(w, [tab[w] EXCEPT !.review = None])
  /\ UNCHANGED <<key, sent, backend>>

(* confirm: sign and record the id on the first press, then submit; a later   *)
(* press submits the same envelope again. Recording may throw (localStorage   *)
(* full or not allowed): nothing is submitted then, but the payment counts as *)
(* signed and is not recorded again. The button is there during a check, too. *)
StoredNever(w) == key                    \* fault: id not recorded before submit
StoredKey(w) == IF tab[w].current = None THEN tab[w].review ELSE key

Confirm(w) ==
  LET first == tab[w].current = None
      i == IF first THEN tab[w].review ELSE tab[w].current
  IN  /\ "confirm" \in Buttons(tab[w])
      /\ hurried' = IF first /\ tab[w].check # None THEN hurried \cup {i} ELSE hurried
      /\ \/ /\ key' = StoredKey(w)
            /\ posted' = posted \cup {i}
            /\ Set(w, [tab[w] EXCEPT !.current = i, !.call = i])
            /\ UNCHANGED unstored
         \/ /\ first
            /\ unstored' = unstored \cup {i}
            /\ Set(w, [tab[w] EXCEPT !.current = i])
            /\ UNCHANGED <<key, posted>>
      /\ UNCHANGED backend

(* finish: forget the payment, here and in localStorage, and show its result. *)
FinishedLoosely(s) ==                     \* fault: pendingPayment.current not reset
  [s EXCEPT !.review = None, !.result = TRUE]
Finished(s) ==
  [s EXCEPT !.current = None, !.pendingId = None, !.review = None, !.result = TRUE]

FinishOnAnswer(i) == status[i] # "ABSENT" \* fault: PENDING taken for a result
Resolved(i) == Final(i)

ConfirmFinal(w) ==
  LET i == tab[w].call
  IN  /\ i \in Ids /\ Resolved(i)
      /\ key' = None
      /\ Set(w, [Finished(tab[w]) EXCEPT !.call = None])
      /\ UNCHANGED <<sent, backend>>

(* The submit call answers PENDING, or fails: keep everything, allow a retry. *)
ConfirmUnresolved(w) ==
  /\ tab[w].call \in Ids
  /\ Set(w, [tab[w] EXCEPT !.call = None])
  /\ UNCHANGED <<key, sent, backend>>

(* check: ask for the id in localStorage, from the review once it was signed, *)
(* or from the notice over the form (or on the Activity page).                *)
(* What it answered is kept for the notice, but not when it was started from  *)
(* the review (clearOutcome). Another screen may have removed the id by now.  *)
Checked(s, answer) ==
  [s EXCEPT !.check = None, !.asked = None,
            !.outcome = IF s.asked = None THEN answer ELSE "none"]

NothingToCheck(s) == [Checked([s EXCEPT !.asked = s.review], "ERROR") EXCEPT !.pendingId = None]

CheckStart(w) ==
  /\ Buttons(tab[w]) \cap {"check", "check stored"} # {}
  /\ Set(w, IF key = None THEN NothingToCheck(tab[w])
            ELSE [tab[w] EXCEPT !.check = key, !.asked = tab[w].review])
  /\ UNCHANGED <<key, sent, backend>>

(* A final answer clears localStorage whatever it holds by now; a check that  *)
(* was started from a review also finishes that review.                       *)
KeyLeft == key                           \* fault: no removeItem after a check
KeyAfterCheck == None

CheckFinal(w) ==
  LET s == [Checked(tab[w], "FINAL") EXCEPT !.pendingId = None]
  IN  /\ tab[w].check # None /\ Final(tab[w].check)
      /\ key' = KeyAfterCheck
      /\ \/ tab[w].asked = None /\ Set(w, s)
         \/ tab[w].asked # None /\ Set(w, Finished(s))
      /\ UNCHANGED <<sent, backend>>

(* It answers PENDING, or fails.                                              *)
CheckUnresolved(w) ==
  /\ tab[w].check # None
  /\ \E answer \in {"PENDING", "ERROR"} : Set(w, Checked(tab[w], answer))
  /\ UNCHANGED <<key, sent, backend>>

StartOver(w) ==
  /\ "start over" \in Buttons(tab[w])
  /\ Set(w, [tab[w] EXCEPT !.result = FALSE])
  /\ UNCHANGED <<key, sent, backend>>

(* A reload forgets the screen and its outstanding answers; localStorage and  *)
(* calls that left the browser remain.                                        *)
Reload(w) ==
  /\ Set(w, Mounted(key))
  /\ UNCHANGED <<key, sent, backend>>

-----------------------------------------------------------------------------
(* The backend acts on calls that left a browser, when they arrive, if ever.  *)
Submit(i) ==
  /\ i \in posted /\ Server!Bind(i, i)
  /\ UNCHANGED <<key, tab, sent>>

Ledger(i) ==
  /\ bound[i] = i
  /\ \E r \in {"SUCCEEDED", "FAILED", "EXPIRED"} : Server!Decide(i, r)
  /\ UNCHANGED <<key, tab, sent>>

Settle(i) == Server!Settle(i) /\ UNCHANGED <<key, tab, sent>>

-----------------------------------------------------------------------------
Next ==
  \/ \E w \in Tabs :
       \/ PrepareStart(w) \/ PrepareRefused(w) \/ PrepareFailed(w)
       \/ \E i \in Ids : PrepareDone(w, i)
       \/ Edit(w) \/ Confirm(w) \/ ConfirmFinal(w) \/ ConfirmUnresolved(w)
       \/ CheckStart(w) \/ CheckFinal(w) \/ CheckUnresolved(w)
       \/ StartOver(w) \/ Reload(w)
  \/ \E i \in Ids : Submit(i) \/ Ledger(i) \/ Settle(i)

Spec == Init /\ [][Next]_vars

(* The user presses Check now and then, between retries and reloads, and not  *)
(* every check fails; one that failed takes the notice's button away, and the *)
(* user opens the page again; calls end; the backend keeps its own promise    *)
(* that asking settles what the ledger has decided                            *)
(* (PaymentIntents!PollIsAnswered).                                           *)
Fairness ==
  /\ \A w \in Tabs :
       /\ WF_vars(ConfirmFinal(w) \/ ConfirmUnresolved(w))
       /\ SF_vars(CheckStart(w)) /\ SF_vars(CheckFinal(w))
       /\ WF_vars(tab[w].outcome = "ERROR" /\ Reload(w))
  /\ \A i \in Ids : WF_vars(Settle(i))

FairSpec == Spec /\ Fairness

-----------------------------------------------------------------------------
(* The screen's state and localStorage keep their shape: a screen retries only*)
(* the payment it shows for review.                                           *)
TypeOK ==
  /\ key \in Ids \cup {None}
  /\ posted \subseteq Ids /\ unstored \subseteq Ids /\ hurried \subseteq Ids
  /\ tab \in [Tabs -> [result : BOOLEAN, review : Ids \cup {None},
                       current : Ids \cup {None}, call : Ids \cup {None, Preparing},
                       check : Ids \cup {None}, asked : Ids \cup {None},
                       pendingId : Ids \cup {None},
                       outcome : {"none", "PENDING", "ERROR", "FINAL"}]]
  /\ \A w \in Tabs : tab[w].current \in {None, tab[w].review}
  /\ status \in [Ids -> {"ABSENT", "PENDING", "SUCCEEDED", "FAILED"}]
  /\ bound \in [Ids -> Ids \cup {None}]

(* No payment that may still move money is forgotten: as long as a submitted  *)
(* intent is unresolved its id is the one in localStorage, through lost       *)
(* answers, retries, checks that overlap them, and reloads. README.md:67 says *)
(* so of the wallet without exception: "A stored pending ID blocks a fresh    *)
(* payment after refresh until its status is resolved". The code has two on a *)
(* single screen. A payment whose id could not be written when it was signed  *)
(* is submitted by Retry all the same (SendFlow.tsx:86-91). And the answer of *)
(* a check of the payment before it, still out when it was signed, removes    *)
(* whatever id is stored by then (SendFlow.tsx:102, usePendingPayment.ts:30). *)
PendingRemembered ==
  \A i \in posted \ (unstored \cup hurried) : Final(i) \/ key = i

(* So at most one unresolved payment of a wallet is ever outstanding, those   *)
(* two apart.                                                                 *)
OneOutstanding ==
  \A i, j \in posted \ (unstored \cup hurried) : Final(i) \/ Final(j) \/ i = j

(* A retry sends the same envelope: while its first submission is unresolved  *)
(* the screen keeps it, whether its id was stored or not, unless a reload     *)
(* lost it, or that late check took it for the payment it had asked about     *)
(* (SendFlow.tsx:101).                                                        *)
EnvelopeKept ==
  [][\A w \in Tabs : LET i == tab[w].current IN
       (i \notin hurried \cup {None} /\ tab'[w].current # i)
         => Final(i) \/ tab'[w] = Mounted(key)]_vars

(* The wallet is not blocked for ever by a payment whose outcome the ledger   *)
(* has recorded, whatever answers were lost and wherever the page was         *)
(* reloaded. (One that never reached the ledger does block it: README.md:67.) *)
BlockEnds ==
  \A i \in Ids : (key = i /\ bound[i] = i /\ outcome[i] \in {"SUCCEEDED", "FAILED"}) ~> key # i
=============================================================================

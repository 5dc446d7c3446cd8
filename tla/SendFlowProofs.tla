--------------------------- MODULE SendFlowProofs ---------------------------
(* Proofs about SendFlow, for any intents, on one payment screen.             *)
EXTENDS SendFlow, TLAPS

Id == Ids \cup {None}
Screen == [result : BOOLEAN, review : Id, current : Id, call : Ids \cup {None, Preparing},
           check : Id, asked : Id, pendingId : Id,
           outcome : {"none", "PENDING", "ERROR", "FINAL"}]

(* What the screen knows of localStorage, k: its own id from the first press  *)
(* on, unless it could not be written; nothing while a payment is prepared or *)
(* reviewed, or a call outlives the review it was made from. A check from the *)
(* form asks about what is stored; one from a review asks about the payment   *)
(* reviewed still, or was overtaken, and then what is signed is in a hurry.   *)
ScreenOK(s, k, u, h) ==
  /\ s.current \in {None, s.review}
  /\ s.current # None => k = s.current \/ (k = None /\ s.current \in u)
  /\ s.review # None /\ s.current = None => k = None
  /\ s.call \in Ids => s.call = s.current \/ (s.review = None /\ k = None)
  /\ s.call = Preparing => s.review = None /\ k = None
  /\ s.check # None /\ s.asked = None => k = s.check /\ s.review = None /\ s.call = None
  /\ s.check # None /\ s.asked # None => \/ s.current = s.check /\ k = s.check
                                         \/ s.current = None /\ k = None
                                         \/ s.current \in h

IInv ==
  /\ TypeOK
  /\ \A w \in Tabs : ScreenOK(tab[w], key, unstored, hurried)
  /\ PendingRemembered

OneScreen == \A v, w \in Tabs : v = w

LEMMA InitIInv == Init => IInv
<1> SUFFICES ASSUME Init PROVE IInv OBVIOUS
<1>1. Mounted(None) \in Screen /\ ScreenOK(Mounted(None), None, {}, {})
  BY SendFlowAssumption DEF Mounted, Screen, ScreenOK, Id
<1>2. \A w \in Tabs : tab[w] = Mounted(None)
  BY DEF Init
<1>3. tab \in [Tabs -> Screen]
  BY <1>1 DEF Init
<1>4. TypeOK
  BY <1>1, <1>2, <1>3 DEF Init, Server!Init, TypeOK, Screen, Id, ScreenOK
<1> QED BY <1>1, <1>2, <1>4 DEF Init, IInv, PendingRemembered

(* The buttons, spelled out.                                                  *)
LEMMA ButtonsMean ==
  ASSUME NEW s
  PROVE  /\ "start over" \in Buttons(s) => s.result
         /\ "confirm" \in Buttons(s) => s.review # None /\ s.call = None
         /\ "edit" \in Buttons(s) => s.review # None /\ s.call = None /\ s.current = None
         /\ "check" \in Buttons(s) => s.review # None /\ s.current # None /\ s.call = None
         /\ "prepare" \in Buttons(s) => ~s.result /\ s.review = None /\ s.call = None
         /\ "check stored" \in Buttons(s) => s.review = None
BY DEF Buttons

(* The one screen of a step and what the step leaves it with.                 *)
LEMMA ScreenStep ==
  ASSUME OneScreen, IInv, NEW w \in Tabs, NEW s \in Screen, tab' = [tab EXCEPT ![w] = s],
         key' \in Id, posted' \subseteq Ids, unstored' \subseteq Ids, hurried' \subseteq Ids,
         ScreenOK(s, key', unstored', hurried'),
         status' \in [Ids -> {"ABSENT", "PENDING", "SUCCEEDED", "FAILED"}],
         bound' \in [Ids -> Ids \cup {None}], PendingRemembered'
  PROVE  IInv'
<1>1. tab \in [Tabs -> Screen] /\ \A v \in Tabs : v = w
  BY DEF IInv, TypeOK, Screen, Id, OneScreen
<1>2. tab' \in [Tabs -> Screen] /\ \A v \in Tabs : tab'[v] = s
  BY <1>1
<1>3. TypeOK'
  BY <1>2 DEF TypeOK, ScreenOK, Screen, Id
<1> QED BY <1>2, <1>3 DEF IInv

(* Steps of the screen that leave localStorage and the network alone.         *)
LEMMA QuietStep ==
  ASSUME OneScreen, IInv, NEW w \in Tabs, NEW s \in Screen, Set(w, s), ScreenOK(s, key, unstored, hurried),
         UNCHANGED <<key, sent, status, bound>>
  PROVE  IInv'
<1>1. PendingRemembered'
  BY DEF IInv, PendingRemembered, Final, sent
<1> QED BY <1>1, ScreenStep DEF IInv, TypeOK, Set, Id, sent

(* What is known of the screen before any step.                               *)
LEMMA Before ==
  ASSUME IInv, NEW w \in Tabs
  PROVE  /\ tab[w] \in Screen /\ ScreenOK(tab[w], key, unstored, hurried) /\ key \in Id /\ posted \subseteq Ids
         /\ unstored \subseteq Ids /\ hurried \subseteq Ids
         /\ None \notin Ids /\ Preparing \notin Ids \cup {None}
         /\ status \in [Ids -> {"ABSENT", "PENDING", "SUCCEEDED", "FAILED"}]
         /\ bound \in [Ids -> Ids \cup {None}]
BY SendFlowAssumption DEF IInv, TypeOK, Screen, Id

-----------------------------------------------------------------------------
(* Preparing a payment.                                                       *)
LEMMA PrepareIInv ==
  ASSUME OneScreen, IInv, NEW w \in Tabs,
         PrepareStart(w) \/ PrepareRefused(w) \/ PrepareFailed(w) \/ Edit(w)
  PROVE  IInv'
<1>0. /\ tab[w] \in Screen /\ ScreenOK(tab[w], key, unstored, hurried) /\ key \in Id
      /\ None \notin Ids /\ Preparing \notin Ids \cup {None}
  BY Before
<1>1. CASE PrepareStart(w)
  <2> DEFINE s == [tab[w] EXCEPT !.call = Preparing]
  <2>1. tab[w].review = None /\ tab[w].call = None /\ key = None
    BY <1>1, ButtonsMean DEF PrepareStart, Unblocked
  <2>2. s \in Screen /\ ScreenOK(s, key, unstored, hurried)
    BY <1>0, <2>1 DEF Screen, ScreenOK, Id
  <2>3. Set(w, s) /\ UNCHANGED <<key, sent, status, bound>>
    BY <1>1 DEF PrepareStart, backend
  <2> HIDE DEF s
  <2> QED BY <2>2, <2>3, QuietStep
<1>2. CASE PrepareRefused(w)
  <2> DEFINE s == [tab[w] EXCEPT !.pendingId = key]
  <2>2. s \in Screen /\ ScreenOK(s, key, unstored, hurried)
    BY <1>0 DEF Screen, ScreenOK, Id
  <2>3. Set(w, s) /\ UNCHANGED <<key, sent, status, bound>>
    BY <1>2 DEF PrepareRefused, backend
  <2> HIDE DEF s
  <2> QED BY <2>2, <2>3, QuietStep
<1>3. CASE PrepareFailed(w)
  <2> DEFINE s == [tab[w] EXCEPT !.call = None]
  <2>2. s \in Screen /\ ScreenOK(s, key, unstored, hurried)
    BY <1>0 DEF Screen, ScreenOK, Id
  <2>3. Set(w, s) /\ UNCHANGED <<key, sent, status, bound>>
    BY <1>3 DEF PrepareFailed, backend
  <2> HIDE DEF s
  <2> QED BY <2>2, <2>3, QuietStep
<1>4. CASE Edit(w)
  <2> DEFINE s == [tab[w] EXCEPT !.review = None]
  <2>1. tab[w].current = None /\ tab[w].call = None
    BY <1>4, ButtonsMean DEF Edit
  <2>2. s \in Screen /\ ScreenOK(s, key, unstored, hurried)
    BY <1>0, <2>1 DEF Screen, ScreenOK, Id
  <2>3. Set(w, s) /\ UNCHANGED <<key, sent, status, bound>>
    BY <1>4 DEF Edit, backend
  <2> HIDE DEF s
  <2> QED BY <2>2, <2>3, QuietStep
<1> QED BY <1>1, <1>2, <1>3, <1>4

(* The new intent comes under review while nothing is stored.                 *)
LEMMA PrepareDoneIInv ==
  ASSUME OneScreen, IInv, NEW w \in Tabs, NEW i \in Ids, PrepareDone(w, i)
  PROVE  IInv'
<1> DEFINE s == [tab[w] EXCEPT !.call = None, !.review = i]
<1>0. /\ tab[w] \in Screen /\ ScreenOK(tab[w], key, unstored, hurried) /\ key \in Id /\ posted \subseteq Ids
      /\ status \in [Ids -> {"ABSENT", "PENDING", "SUCCEEDED", "FAILED"}]
      /\ None \notin Ids /\ Preparing \notin Ids \cup {None}
  BY Before
<1>1. tab[w].call = Preparing /\ tab[w].review = None /\ tab[w].current = None /\ key = None
  <2>1. tab[w].call = Preparing
    BY DEF PrepareDone
  <2> QED BY <1>0, <2>1 DEF ScreenOK
<1>2. s \in Screen /\ ScreenOK(s, key, unstored, hurried)
  <2>1. /\ s \in Screen /\ s.call = None /\ s.review = i /\ s.current = None
        /\ s.check = tab[w].check /\ s.asked = tab[w].asked
    BY <1>0, <1>1 DEF Screen, Id
  <2>2. s.check # None => s.asked # None
    BY <1>0, <1>1, <2>1 DEF ScreenOK
  <2> HIDE DEF s
  <2> QED BY <1>0, <1>1, <2>1, <2>2 DEF ScreenOK
<1>3. /\ status[i] = "ABSENT" /\ status' = [status EXCEPT ![i] = "PENDING"]
      /\ UNCHANGED <<key, sent, bound>> /\ Set(w, s)
  BY DEF PrepareDone, Server!Open
<1>4. PendingRemembered'
  BY <1>0, <1>3 DEF IInv, PendingRemembered, Final, sent
<1> HIDE DEF s
<1> QED BY <1>0, <1>2, <1>3, <1>4, ScreenStep DEF Set, IInv, TypeOK, sent

-----------------------------------------------------------------------------
(* Confirming it. The first press stores the id, when it can, and nothing     *)
(* else is outstanding then.                                                  *)
LEMMA ConfirmIInv ==
  ASSUME OneScreen, IInv, NEW w \in Tabs, Confirm(w)
  PROVE  IInv'
<1> DEFINE t == tab[w]
           first == t.current = None
           i == IF first THEN t.review ELSE t.current
           s == [t EXCEPT !.current = i, !.call = i]
           f == [t EXCEPT !.current = i]
<1>0. /\ t \in Screen /\ ScreenOK(t, key, unstored, hurried) /\ key \in Id /\ posted \subseteq Ids
      /\ unstored \subseteq Ids /\ hurried \subseteq Ids
      /\ None \notin Ids /\ Preparing \notin Ids \cup {None}
  BY Before
<1>1. t.review # None /\ t.call = None
  BY ButtonsMean DEF Confirm
<1>2. i \in Ids /\ i = t.review /\ (first => key = None) /\ (t.check # None => t.asked # None)
  BY <1>0, <1>1 DEF Screen, Id, ScreenOK
<1>3. hurried' = (IF first /\ t.check # None THEN hurried \cup {i} ELSE hurried)
      /\ UNCHANGED <<status, bound>>
  BY DEF Confirm, backend
<1>4. hurried' \subseteq Ids /\ hurried \subseteq hurried' BY <1>0, <1>2, <1>3
<1>5. first /\ t.check # None => i \in hurried' BY <1>3
<1>6. CASE key' = StoredKey(w) /\ posted' = posted \cup {i} /\ Set(w, s) /\ unstored' = unstored
  <2>1. key' = IF first THEN i ELSE key BY <1>2, <1>6 DEF StoredKey
  <2>2. /\ s \in Screen /\ s.current = i /\ s.call = i /\ s.review = i
        /\ s.check = t.check /\ s.asked = t.asked
    BY <1>0, <1>2 DEF Screen, Id
  <2>3. key' = i \/ (key' = None /\ i \in unstored /\ ~first)
    BY <1>0, <1>2, <2>1 DEF ScreenOK
  <2>4. t.check # None => (s.current = t.check /\ key' = t.check) \/ i \in hurried'
    BY <1>0, <1>2, <1>4, <1>5, <2>1, <2>2 DEF ScreenOK
  <2>5. PendingRemembered'
    BY <1>0, <1>2, <1>3, <1>4, <1>6, <2>1, <2>3 DEF IInv, PendingRemembered, Final
  <2>6. key' \in Id /\ posted' \subseteq Ids BY <1>0, <1>2, <1>6, <2>3 DEF Id
  <2> HIDE DEF s, i, first
  <2>7. ScreenOK(s, key', unstored', hurried')
    BY <1>0, <1>2, <1>6, <2>2, <2>3, <2>4 DEF ScreenOK
  <2> QED BY <1>0, <1>3, <1>4, <1>6, <2>2, <2>5, <2>6, <2>7, ScreenStep DEF Set, IInv, TypeOK
<1>7. CASE first /\ unstored' = unstored \cup {i} /\ Set(w, f) /\ UNCHANGED <<key, posted>>
  <2>2. /\ f \in Screen /\ f.current = i /\ f.call = None /\ f.review = i
        /\ f.check = t.check /\ f.asked = t.asked
    BY <1>0, <1>1, <1>2 DEF Screen, Id
  <2>3. i \in unstored' /\ unstored' \subseteq Ids /\ key' = None BY <1>0, <1>2, <1>7
  <2>4. t.check # None => t.asked # None /\ i \in hurried' BY <1>2, <1>5, <1>7
  <2>5. PendingRemembered'
    BY <1>0, <1>2, <1>3, <1>4, <1>7 DEF IInv, PendingRemembered, Final
  <2> HIDE DEF f, i, first
  <2>7. ScreenOK(f, key', unstored', hurried')
    BY <1>0, <1>2, <2>2, <2>3, <2>4 DEF ScreenOK
  <2> QED BY <1>0, <1>3, <1>4, <1>7, <2>2, <2>3, <2>5, <2>7, ScreenStep DEF Set, IInv, TypeOK, Id, sent
<1> QED BY <1>6, <1>7 DEF Confirm

(* Removing the stored id is safe when what it names, or named, is final; or  *)
(* was signed in a hurry.                                                     *)
LEMMA KeyRemoved ==
  ASSUME IInv, key = None \/ Final(key) \/ key \in hurried, key' = None,
         UNCHANGED <<sent, status>>
  PROVE  PendingRemembered'
BY SendFlowAssumption DEF IInv, TypeOK, PendingRemembered, Final, sent

LEMMA ConfirmFinalIInv ==
  ASSUME OneScreen, IInv, NEW w \in Tabs, ConfirmFinal(w)
  PROVE  IInv'
<1> DEFINE s == [Finished(tab[w]) EXCEPT !.call = None]
<1>0. /\ tab[w] \in Screen /\ ScreenOK(tab[w], key, unstored, hurried)
      /\ None \notin Ids /\ Preparing \notin Ids \cup {None}
  BY Before
<1>1. /\ tab[w].call \in Ids /\ Final(tab[w].call) /\ key' = None /\ Set(w, s)
      /\ UNCHANGED <<sent, status, bound>>
  BY DEF ConfirmFinal, Resolved, backend
<1>2. key \in {None, tab[w].call}
  BY <1>0, <1>1 DEF ScreenOK
<1>3. s \in Screen /\ ScreenOK(s, None, unstored, hurried)
  <2>1. tab[w].check # None => tab[w].asked # None
    BY <1>0, <1>1 DEF ScreenOK
  <2>2. /\ s \in Screen /\ s.current = None /\ s.review = None /\ s.call = None
        /\ s.check = tab[w].check /\ s.asked = tab[w].asked
    BY <1>0 DEF Finished, Screen, Id
  <2> HIDE DEF s
  <2> QED BY <1>0, <2>1, <2>2 DEF ScreenOK
<1>4. PendingRemembered'
  BY <1>1, <1>2, KeyRemoved
<1> HIDE DEF s
<1> QED BY <1>1, <1>3, <1>4, ScreenStep DEF Set, IInv, TypeOK, Id, sent

LEMMA ConfirmUnresolvedIInv ==
  ASSUME OneScreen, IInv, NEW w \in Tabs, ConfirmUnresolved(w)
  PROVE  IInv'
<1> DEFINE s == [tab[w] EXCEPT !.call = None]
<1>0. /\ tab[w] \in Screen /\ ScreenOK(tab[w], key, unstored, hurried)
      /\ None \notin Ids /\ Preparing \notin Ids \cup {None}
  BY Before
<1>1. s \in Screen /\ ScreenOK(s, key, unstored, hurried)
  BY <1>0 DEF Screen, ScreenOK, Id
<1>2. Set(w, s) /\ UNCHANGED <<key, sent, status, bound>>
  BY DEF ConfirmUnresolved, backend
<1> HIDE DEF s
<1> QED BY <1>1, <1>2, QuietStep

-----------------------------------------------------------------------------
(* Checking the stored id.                                                    *)
LEMMA CheckedOK ==
  ASSUME NEW s \in Screen, NEW k \in Id, NEW u, NEW h, ScreenOK(s, k, u, h),
         NEW answer \in {"PENDING", "ERROR", "FINAL"},
         None \notin Ids, Preparing \notin Ids \cup {None}
  PROVE  /\ Checked(s, answer) \in Screen /\ ScreenOK(Checked(s, answer), k, u, h)
         /\ Checked(s, answer).check = None
         /\ Checked(s, answer).current = s.current /\ Checked(s, answer).call = s.call
         /\ Checked(s, answer).review = s.review
<1> DEFINE o == IF s.asked = None THEN answer ELSE "none"
           d == [s EXCEPT !.check = None, !.asked = None, !.outcome = o]
<1>1. Checked(s, answer) = d BY DEF Checked
<1>2. o \in {"none", "PENDING", "ERROR", "FINAL"} OBVIOUS
<1> HIDE DEF o
<1>3. d \in Screen BY <1>2 DEF Screen, Id
<1>4. /\ d.check = None /\ d.asked = None /\ d.current = s.current
      /\ d.call = s.call /\ d.review = s.review
  BY DEF Screen
<1> HIDE DEF d
<1>5. ScreenOK(d, k, u, h) BY <1>4 DEF ScreenOK
<1> QED BY <1>1, <1>3, <1>4, <1>5

LEMMA CheckStartIInv ==
  ASSUME OneScreen, IInv, NEW w \in Tabs, CheckStart(w)
  PROVE  IInv'
<1> DEFINE s == tab[w]
           n == NothingToCheck(s)
           c == [s EXCEPT !.check = key, !.asked = s.review]
<1>0. /\ s \in Screen /\ ScreenOK(s, key, unstored, hurried) /\ key \in Id
      /\ None \notin Ids /\ Preparing \notin Ids \cup {None}
  BY Before
<1>1. \/ s.review # None /\ s.current # None /\ s.call = None
      \/ s.review = None
  BY ButtonsMean DEF CheckStart
<1>2. CASE key = None
  <2> DEFINE m == Checked([s EXCEPT !.asked = s.review], "ERROR")
  <2>1. m \in Screen /\ ScreenOK(m, key, unstored, hurried)
    BY <1>0, <1>2 DEF Checked, Screen, ScreenOK, Id
  <2> HIDE DEF m
  <2>2. /\ [m EXCEPT !.pendingId = None] \in Screen
        /\ ScreenOK([m EXCEPT !.pendingId = None], key, unstored, hurried)
    BY <2>1 DEF Screen, ScreenOK, Id
  <2>3. Set(w, n) /\ n = [m EXCEPT !.pendingId = None] /\ UNCHANGED <<key, sent, status, bound>>
    BY <1>2 DEF CheckStart, NothingToCheck, backend, m
  <2> HIDE DEF n
  <2> QED BY <2>2, <2>3, QuietStep
<1>3. CASE key # None
  <2>1. s.review = None => s.call = None
    BY <1>0, <1>1, <1>3 DEF ScreenOK, Screen, Id
  <2>2. s.review # None => s.current # None /\ s.current = key
    BY <1>0, <1>1, <1>3 DEF ScreenOK
  <2>3. /\ c \in Screen /\ c.check = key /\ c.asked = s.review /\ c.review = s.review
        /\ c.current = s.current /\ c.call = s.call
    BY <1>0 DEF Screen, Id
  <2> HIDE DEF c
  <2>5. ScreenOK(c, key, unstored, hurried)
    BY <1>0, <2>1, <2>2, <2>3 DEF ScreenOK
  <2> USE DEF c
  <2>4. Set(w, c) /\ UNCHANGED <<key, sent, status, bound>>
    BY <1>3 DEF CheckStart, backend
  <2> HIDE DEF c
  <2> QED BY <2>3, <2>4, <2>5, QuietStep
<1> QED BY <1>2, <1>3

LEMMA CheckUnresolvedIInv ==
  ASSUME OneScreen, IInv, NEW w \in Tabs, CheckUnresolved(w)
  PROVE  IInv'
<1>0. /\ tab[w] \in Screen /\ ScreenOK(tab[w], key, unstored, hurried) /\ key \in Id
      /\ None \notin Ids /\ Preparing \notin Ids \cup {None}
  BY Before
<1>1. PICK answer \in {"PENDING", "ERROR"} : Set(w, Checked(tab[w], answer))
  BY DEF CheckUnresolved
<1>2. Checked(tab[w], answer) \in Screen /\ ScreenOK(Checked(tab[w], answer), key, unstored, hurried)
  BY <1>0, CheckedOK
<1> QED BY <1>1, <1>2, QuietStep DEF CheckUnresolved, backend

LEMMA CheckFinalIInv ==
  ASSUME OneScreen, IInv, NEW w \in Tabs, CheckFinal(w)
  PROVE  IInv'
<1> DEFINE t == tab[w]
           m == Checked(t, "FINAL")
           s == [m EXCEPT !.pendingId = None]
<1>0. /\ t \in Screen /\ ScreenOK(t, key, unstored, hurried) /\ key \in Id
      /\ hurried \subseteq Ids
      /\ None \notin Ids /\ Preparing \notin Ids \cup {None}
  BY Before
<1>1. /\ t.check \in Ids /\ Final(t.check) /\ key' = None /\ UNCHANGED <<sent, status, bound>>
  BY <1>0 DEF CheckFinal, KeyAfterCheck, backend, Screen, Id
<1>2. PendingRemembered'
  <2>1. key = None \/ key = t.check \/ key \in hurried BY <1>0, <1>1 DEF ScreenOK
  <2> QED BY <1>1, <2>1, KeyRemoved
<1>3. /\ m \in Screen /\ ScreenOK(m, key, unstored, hurried) /\ m.check = None
      /\ m.current = t.current /\ m.call = t.call /\ m.review = t.review
  BY <1>0, CheckedOK
<1> HIDE DEF m
<1>4. /\ s \in Screen /\ s.check = None /\ s.current = t.current /\ s.call = t.call
      /\ s.review = t.review
  BY <1>3 DEF Screen, Id
<1>5. CASE t.asked = None /\ Set(w, s)
  <2> HIDE DEF s
  <2>1. t.review = None /\ t.call = None /\ t.current = None
    BY <1>0, <1>1, <1>5 DEF ScreenOK
  <2>2. ScreenOK(s, None, unstored, hurried)
    BY <1>0, <1>4, <2>1 DEF ScreenOK
  <2> QED BY <2>2, <1>1, <1>2, <1>4, <1>5, <2>1, ScreenStep DEF Set, IInv, TypeOK, Id, sent
<1>6. CASE t.asked # None /\ Set(w, Finished(s))
  <2> HIDE DEF s
  <2>1. /\ Finished(s) \in Screen /\ Finished(s).current = None /\ Finished(s).review = None
        /\ Finished(s).check = None
    BY <1>0, <1>4 DEF Finished, Screen, Id
  <2>2. Finished(s) \in Screen /\ ScreenOK(Finished(s), None, unstored, hurried)
    BY <1>0, <2>1 DEF ScreenOK
  <2> QED BY <1>1, <1>2, <1>6, <2>2, ScreenStep DEF Set, IInv, TypeOK, Id, sent
<1> QED BY <1>5, <1>6 DEF CheckFinal, m

-----------------------------------------------------------------------------
(* Leaving the result, and reloading: only localStorage is left.              *)
LEMMA LeaveIInv ==
  ASSUME OneScreen, IInv, NEW w \in Tabs, StartOver(w) \/ Reload(w)
  PROVE  IInv'
<1>0. /\ tab[w] \in Screen /\ ScreenOK(tab[w], key, unstored, hurried) /\ key \in Id
      /\ None \notin Ids /\ Preparing \notin Ids \cup {None}
  BY Before
<1>1. CASE StartOver(w)
  <2> DEFINE s == [tab[w] EXCEPT !.result = FALSE]
  <2>1. s \in Screen /\ ScreenOK(s, key, unstored, hurried)
    BY <1>0 DEF Screen, ScreenOK, Id
  <2>2. Set(w, s) /\ UNCHANGED <<key, sent, status, bound>>
    BY <1>1 DEF StartOver, backend
  <2> HIDE DEF s
  <2> QED BY <2>1, <2>2, QuietStep
<1>2. CASE Reload(w)
  <2>1. Mounted(key) \in Screen /\ ScreenOK(Mounted(key), key, unstored, hurried)
    BY <1>0 DEF Mounted, Screen, ScreenOK, Id
  <2> QED BY <1>2, <2>1, QuietStep DEF Reload, backend
<1> QED BY <1>1, <1>2

(* The backend settles, and never takes a result back.                        *)
LEMMA BackendIInv ==
  ASSUME IInv, NEW i \in Ids, Submit(i) \/ Ledger(i) \/ Settle(i)
  PROVE  IInv'
<1>1. /\ UNCHANGED <<key, tab, sent>>
      /\ status' = status \/ (/\ status[i] = "PENDING"
                              /\ \E r \in {"SUCCEEDED", "FAILED"} : status' = [status EXCEPT ![i] = r])
      /\ bound' = bound \/ bound' = [bound EXCEPT ![i] = i]
  BY DEF Submit, Ledger, Settle, Server!Bind, Server!Decide, Server!Settle, Server!Included
<1>2. TypeOK'
  BY <1>1 DEF IInv, TypeOK, sent
<1>3. PendingRemembered'
  BY <1>1 DEF IInv, TypeOK, PendingRemembered, Final, sent
<1> QED BY <1>1, <1>2, <1>3 DEF IInv, sent

LEMMA NextIInv ==
  ASSUME OneScreen, IInv, [Next]_vars
  PROVE  IInv'
<1>1. CASE UNCHANGED vars
  BY <1>1 DEF vars, IInv, TypeOK, PendingRemembered, Final
<1>2. ASSUME NEW w \in Tabs, \/ PrepareStart(w) \/ PrepareRefused(w) \/ PrepareFailed(w) \/ Edit(w)
                             \/ \E i \in Ids : PrepareDone(w, i)
      PROVE IInv'
  BY <1>2, PrepareIInv, PrepareDoneIInv
<1>3. ASSUME NEW w \in Tabs, Confirm(w) \/ ConfirmFinal(w) \/ ConfirmUnresolved(w) PROVE IInv'
  BY <1>3, ConfirmIInv, ConfirmFinalIInv, ConfirmUnresolvedIInv
<1>4. ASSUME NEW w \in Tabs, CheckStart(w) \/ CheckFinal(w) \/ CheckUnresolved(w) PROVE IInv'
  BY <1>4, CheckStartIInv, CheckFinalIInv, CheckUnresolvedIInv
<1>5. ASSUME NEW w \in Tabs, StartOver(w) \/ Reload(w) PROVE IInv'
  BY <1>5, LeaveIInv
<1>6. ASSUME NEW i \in Ids, Submit(i) \/ Ledger(i) \/ Settle(i) PROVE IInv'
  BY <1>6, BackendIInv
<1> QED BY <1>1, <1>2, <1>3, <1>4, <1>5, <1>6 DEF Next

-----------------------------------------------------------------------------
(* What the screen holds and what localStorage holds fit together at every    *)
(* await of prepare, confirm and check, and whichever writes of localStorage  *)
(* throw.                                                                     *)
THEOREM InductiveInvariant == ASSUME OneScreen PROVE Spec => []IInv
<1>1. Init => IInv BY InitIInv
<1>2. IInv /\ [Next]_vars => IInv' BY NextIInv
<1> QED BY <1>1, <1>2, PTL DEF Spec

(* The screen's state keeps its shape; it retries only what it shows.         *)
THEOREM TypeCorrect == ASSUME OneScreen PROVE Spec => []TypeOK
<1>1. IInv => TypeOK BY DEF IInv
<1> QED BY <1>1, InductiveInvariant, PTL

(* Whatever calls fail and wherever the page is reloaded, a submitted payment *)
(* that is not settled is the one whose id is stored, unless its id could not *)
(* be written, or it was signed while a check of the one before was out.      *)
THEOREM NothingForgotten == ASSUME OneScreen PROVE Spec => []PendingRemembered
<1>1. IInv => PendingRemembered BY DEF IInv
<1> QED BY <1>1, InductiveInvariant, PTL

(* A wallet never has two unresolved payments out, those two apart.           *)
THEOREM AtMostOneOut == ASSUME OneScreen PROVE Spec => []OneOutstanding
<1>1. IInv => OneOutstanding BY DEF IInv, PendingRemembered, OneOutstanding
<1> QED BY <1>1, InductiveInvariant, PTL

(* The screen keeps the envelope of an unresolved payment, its id stored or   *)
(* not, unless it is reloaded or the payment was signed in that hurry.        *)
THEOREM RetrySendsTheSame == ASSUME OneScreen PROVE Spec => EnvelopeKept
<1>1. ASSUME IInv, [Next]_vars
      PROVE  [\A w \in Tabs : LET i == tab[w].current IN
                (i \notin hurried \cup {None} /\ tab'[w].current # i)
                  => Final(i) \/ tab'[w] = Mounted(key)]_vars
  <2> SUFFICES ASSUME NEW v \in Tabs, Next, tab[v].current \notin hurried \cup {None},
                      tab'[v].current # tab[v].current, ~Final(tab[v].current)
               PROVE  tab'[v] = Mounted(key)
    BY <1>1
  <2>0. /\ tab[v] \in Screen /\ ScreenOK(tab[v], key, unstored, hurried) /\ tab \in [Tabs -> Screen]
        /\ None \notin Ids /\ Preparing \notin Ids \cup {None}
    BY <1>1, Before DEF IInv, TypeOK, Screen, Id
  <2>1. PICK w \in Tabs : \/ PrepareStart(w) \/ PrepareRefused(w) \/ PrepareFailed(w)
                          \/ \E i \in Ids : PrepareDone(w, i)
                          \/ Edit(w) \/ Confirm(w) \/ ConfirmFinal(w) \/ ConfirmUnresolved(w)
                          \/ CheckStart(w) \/ CheckFinal(w) \/ CheckUnresolved(w)
                          \/ StartOver(w) \/ Reload(w)
    BY DEF Next, Submit, Ledger, Settle
  <2>2. w = v
    BY <2>0, <2>1 DEF PrepareStart, PrepareRefused, PrepareFailed, PrepareDone, Edit, Confirm, ConfirmFinal,
              ConfirmUnresolved, CheckStart, CheckFinal, CheckUnresolved, StartOver, Reload, Set
  <2>3. CASE ConfirmFinal(v)
    BY <2>0, <2>3 DEF ConfirmFinal, Resolved, ScreenOK
  <2>4. CASE CheckFinal(v)
    <3>1. CASE tab[v].asked = None
      BY <2>0, <2>4, <3>1 DEF CheckFinal, ScreenOK
    <3>2. CASE tab[v].asked # None
      <4>1. Final(tab[v].check) /\ tab[v].check = tab[v].current
        BY <2>0, <2>4, <3>2 DEF CheckFinal, ScreenOK
      <4> QED BY <4>1
    <3> QED BY <3>1, <3>2
  <2>5. CASE Reload(v)
    BY <2>0, <2>5 DEF Reload, Set
  <2>6. CASE ~ConfirmFinal(v) /\ ~CheckFinal(v) /\ ~Reload(v)
    <3>1. CASE PrepareStart(v)
      BY <2>0, <3>1 DEF PrepareStart, Set, Screen
    <3>2. CASE PrepareRefused(v)
      BY <2>0, <3>2 DEF PrepareRefused, Set, Screen
    <3>3. CASE PrepareFailed(v)
      BY <2>0, <3>3 DEF PrepareFailed, Set, Screen
    <3>4. CASE Edit(v)
      BY <2>0, <3>4 DEF Edit, Set, Screen
    <3>5. CASE StartOver(v)
      BY <2>0, <3>5 DEF StartOver, Set, Screen
    <3>6. CASE ConfirmUnresolved(v)
      BY <2>0, <3>6 DEF ConfirmUnresolved, Set, Screen
    <3>7. CASE \E i \in Ids : PrepareDone(v, i)
      BY <2>0, <3>7 DEF PrepareDone, Set, Screen
    <3>8. CASE Confirm(v)
      <4> DEFINE i == IF tab[v].current = None THEN tab[v].review ELSE tab[v].current
                 a == [tab[v] EXCEPT !.current = i, !.call = i]
                 b == [tab[v] EXCEPT !.current = i]
      <4>1. tab' = [tab EXCEPT ![v] = a] \/ tab' = [tab EXCEPT ![v] = b]
        BY <3>8 DEF Confirm, Set
      <4>2. i = tab[v].current BY <2>0
      <4>3. a.current = i /\ b.current = i BY <2>0 DEF Screen
      <4> HIDE DEF i, a, b
      <4>4. tab'[v] = a \/ tab'[v] = b BY <2>0, <4>1
      <4> QED BY <4>2, <4>3, <4>4
    <3>9. CASE CheckStart(v)
      <4> DEFINE n == NothingToCheck(tab[v])
                 c == [tab[v] EXCEPT !.check = key, !.asked = tab[v].review]
      <4>1. tab' = [tab EXCEPT ![v] = n] \/ tab' = [tab EXCEPT ![v] = c]
        BY <3>9 DEF CheckStart, Set
      <4>2. n.current = tab[v].current BY <2>0 DEF NothingToCheck, Checked, Screen
      <4>3. c.current = tab[v].current BY <2>0 DEF Screen
      <4> HIDE DEF n, c
      <4>4. tab'[v] = n \/ tab'[v] = c BY <2>0, <4>1
      <4> QED BY <4>2, <4>3, <4>4
    <3>10. CASE CheckUnresolved(v)
      <4>1. PICK answer \in {"PENDING", "ERROR"} : tab' = [tab EXCEPT ![v] = Checked(tab[v], answer)]
        BY <3>10 DEF CheckUnresolved, Set
      <4>2. Checked(tab[v], answer).current = tab[v].current BY <2>0 DEF Checked, Screen
      <4> QED BY <2>0, <4>1, <4>2
    <3> QED BY <2>1, <2>2, <2>6, <3>1, <3>2, <3>3, <3>4, <3>5, <3>6, <3>7, <3>8,
               <3>9, <3>10
  <2> QED BY <2>3, <2>4, <2>5, <2>6
<1> QED BY <1>1, InductiveInvariant, PTL DEF Spec, EnvelopeKept
=============================================================================
